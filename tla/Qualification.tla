---------------------------- MODULE Qualification ----------------------------
(***************************************************************************)
(* Which groups of requests qualify for a dynamic rule.  A baseline is     *)
(* built from an analysed log (LoadProtectionHistory, BuildBaseline), the  *)
(* thresholds of the detector are derived from it, and each evaluation     *)
(* compares them with the requests of the rolling window (evaluateGroups,  *)
(* groupQualified), unless the sensor is not to be trusted.                *)
(*                                                                         *)
(* That the detector's totals are the requests of the window is the matter *)
(* of module RollingWindow, and what becomes of a group that qualifies the *)
(* matter of RuleBook.  A tick is one evaluation interval.                 *)
(***************************************************************************)
EXTENDS SensorHealth, Integers, Sequences, FiniteSetsExt, SequencesExt

CONSTANTS
  PastKind,    \* requests of the analysed log
  LiveKind,    \* requests of the protection log
  Excluded,    \* paths nothing may be done to, built in or configured
  ExcludedMethod,
  Path,        \* paths of requests, to state what a rule reaches
  Minute,      \* ticks of a minute
  Percent,     \* the percentile of the baseline, 99
  MinMinutes,  \* minimumLiveMinutes, 1440
  Window,      \* window_seconds
  Scale,       \* ratioScale
  Detection,   \* the thresholds of the configuration
  LastTick,    \* bound: the end of the analysed log
  MaxPast,     \* bound: requests in it
  MaxLive      \* bound: requests in the window

(* A path is the sequence of its segments; the last one is empty for a path *)
(* that ends in a slash.                                                    *)
ASSUME PathAssumption ==
  /\ Excluded \cup Path \subseteq Seq(STRING) \ {<<>>}
  /\ PastKind \cup LiveKind \subseteq
       [method : STRING,
        route : Seq(STRING) \ {<<>>},   \* Event.Route
        prefix : Seq(STRING) \ {<<>>},  \* Event.ActionablePrefix
        client : STRING,
        denied : BOOLEAN,  \* status 403 or 429
        sampled : BOOLEAN, \* the record names its upstream duration
        upstream : Nat]
  /\ \A kind \in PastKind \cup LiveKind : ~kind.sampled => kind.upstream = 0

ASSUME BoundAssumption ==
  /\ IsFiniteSet(PastKind \cup LiveKind)
  /\ {LastTick, MaxPast, MaxLive} \subseteq Nat

ASSUME DetectionAssumption ==
  /\ Detection \in [volumeRequests : Nat \ {0}, volumeShare : 0 .. Scale,
                    shapeRequests : Nat \ {0}, shapeUpstream : Nat \ {0},
                    clients : Nat \ {0}, clientRatio : 0 .. Scale,
                    coverage : 0 .. Scale, averageUpstream : Nat \ {0},
                    multiplier : Nat \ {0}]
  /\ {Minute, Window, MinMinutes} \subseteq Nat \ {0}
  /\ Percent \in 1 .. 100

Tick == 1 .. LastTick
Age == 1 .. Window  \* of a tick in the window, the youngest first

VARIABLES
  phase,
  offset,     \* ticks since the minute began
  past,       \* the requests of the analysed log, in their order
  baseline,
  window,     \* how often each kind was seen, by age
  fresh,      \* Detector.freshSinceEvaluation
  qualified   \* the groups that qualified at the last evaluation

vars == <<sensor, phase, offset, past, baseline, window, fresh, qualified>>

VolumeGroup(kind) ==
  [detector |-> "volume", method |-> kind.method, path |-> kind.prefix,
   prefix |-> kind.prefix]

ShapeGroup(kind) ==
  [detector |-> "shape", method |-> kind.method, path |-> kind.route,
   prefix |-> kind.prefix]

Group == {VolumeGroup(kind) : kind \in LiveKind \cup PastKind}
           \cup {ShapeGroup(kind) : kind \in LiveKind \cup PastKind}

Volume == {group \in Group : group.detector = "volume"}

(* What is counted of a request. *)
Amount(kind, what) == IF what = "requests" THEN 1 ELSE kind.upstream

(* The kinds of request a group counts. *)
Of(group, kinds) == {kind \in kinds : group \in {VolumeGroup(kind), ShapeGroup(kind)}}

NoBaseline == [requests |-> [group \in Group |-> 0],
               upstream |-> [group \in Group |-> 0]]

NoRequest == [age \in Age |-> [kind \in LiveKind |-> 0]]

QualificationTypeOK ==
  /\ HealthTypeOK
  /\ phase \in {"history", "baseline", "live"}
  /\ offset \in 0 .. Minute - 1
  /\ past \in Seq([tick : Tick, kind : PastKind])
  /\ baseline \in [requests : [Group -> Nat], upstream : [Group -> Nat]]
  /\ window \in [Age -> [LiveKind -> 0 .. MaxLive]]
  /\ fresh \in BOOLEAN
  /\ qualified \subseteq Group

QualificationInit ==
  /\ HealthInit
  /\ phase = "history"
  /\ offset = 0
  /\ past = <<>>
  /\ baseline = NoBaseline
  /\ window = NoRequest
  /\ fresh = FALSE
  /\ qualified = {}

-----------------------------------------------------------------------------
(* The analysed log *)

RecordPast(kind, tick) ==
  /\ phase = "history"
  /\ Len(past) < MaxPast
  /\ past # <<>> => tick >= Last(past).tick
  /\ past' = Append(past, [tick |-> tick, kind |-> kind])
  /\ UNCHANGED <<sensor, phase, offset, baseline, window, fresh, qualified>>

-----------------------------------------------------------------------------
(* LoadProtectionHistory and BuildBaseline *)

FirstEvent == past[1].tick
LastEvent == Last(past).tick

(* Fault: the minute of the first request is taken to be complete. *)
StartWithFirst == FirstEvent \div Minute

(* completeMinuteRange: a minute counts from its first tick on only, and    *)
(* the minute of the last request does not count.                           *)
Start == (FirstEvent + Minute - 1) \div Minute
End == LastEvent \div Minute
Minutes == {minute \in 0 .. LastTick : Start <= minute /\ minute < End}

(* What the workspace holds of a group in a minute: requests that were      *)
(* denied are left out, and the routes in the overflow row, which has no    *)
(* prefix either, are lost.                                                 *)
InStore(group, minute, lost) ==
  {i \in DOMAIN past :
     /\ past[i].tick \div Minute = minute
     /\ past[i].kind \in Of(group, PastKind)
     /\ ~past[i].kind.denied
     /\ past[i].kind.route \notin lost}

Series(group, lost, what) ==
  [minute \in Minutes |->
     SumFunction([i \in InStore(group, minute, lost) |-> Amount(past[i].kind, what)])]

(* Fault: the rank is rounded down. *)
LowRank(total) == Max({1, (Percent * total) \div 100})

Rank(total) == (Percent * total + 99) \div 100

(* calculateP99: the values above 0, in ascending order. *)
Ascending(series) ==
  LET nonzero == {minute \in DOMAIN series : series[minute] > 0}
      count == Cardinality(nonzero)
      order == CHOOSE f \in Bijection(1 .. count, nonzero) :
                 \A i, j \in 1 .. count : i < j => series[f[i]] <= series[f[j]]
  IN  [i \in 1 .. count |-> series[order[i]]]

(* nearestRankP99: the minutes without a request are not listed, and come   *)
(* before the ones that are.                                                *)
NearestRank(series) ==
  LET total == Cardinality(DOMAIN series)
      values == Ascending(series)
      zeros == total - Len(values)
  IN  IF total = 0 \/ Rank(total) <= zeros THEN 0 ELSE values[Rank(total) - zeros]

(* Fault: routes in the overflow row do not matter. *)
EligibleWithOverflow(lost) == Cardinality(Minutes) >= MinMinutes

(* baselineIneligibility, for a log in the one format that is fit for it. *)
Eligible(lost) ==
  /\ Cardinality(Minutes) >= MinMinutes
  /\ \A i \in DOMAIN past : past[i].kind.route \notin lost

(* Whichever routes did not fit into the workspace.  protect run --apply    *)
(* refuses a baseline that is not eligible.                                 *)
BuildBaseline(lost) ==
  /\ phase = "history"
  /\ past # <<>>
  /\ Eligible(lost)
  /\ phase' = "baseline"
  /\ baseline' =
       [requests |-> [group \in Group |->
                        NearestRank(Series(group, lost, "requests"))],
        upstream |-> [group \in Group |->
                        IF group \in Volume THEN 0
                        ELSE NearestRank(Series(group, lost, "upstream"))]]
  /\ UNCHANGED <<sensor, offset, past, window, fresh, qualified>>

(* The workspace is not read again. *)
StartLive ==
  /\ phase = "baseline"
  /\ phase' = "live"
  /\ past' = <<>>
  /\ UNCHANGED <<sensor, offset, baseline, window, fresh, qualified>>

-----------------------------------------------------------------------------
(* Which requests may lead to an action *)

(* RulePathMatches *)
Covers(prefix, path) ==
  IF Last(prefix) = ""
  THEN Len(path) >= Len(prefix) /\ IsPrefix(Front(prefix), path)
  ELSE IsPrefix(prefix, path)

(* Fault: only what lies under an excluded path is excluded. *)
ExcludedBelow(method, prefix) ==
  \/ method \in ExcludedMethod \cup {"OPTIONS"}
  \/ prefix = <<"">>
  \/ \E path \in Excluded : Covers(path, prefix)

(* A prefix may not be acted on either if an excluded path lies under it. *)
ActionExcluded(method, prefix) ==
  \/ method \in ExcludedMethod \cup {"OPTIONS"}
  \/ prefix = <<"">>
  \/ \E path \in Excluded : Covers(path, prefix) \/ Covers(prefix, path)

Candidate(kind) == ~kind.denied /\ ~ActionExcluded(kind.method, kind.prefix)

Counting(group) == {kind \in Of(group, LiveKind) : Candidate(kind)}

(* The paths of the requests a rule for the prefix is enforced on. *)
Reached(prefix) == {path \in Path : Covers(prefix, path)}

-----------------------------------------------------------------------------
(* The protection log *)

Observe(kind) ==
  /\ phase = "live"
  /\ SumFunction([age \in Age |-> SumFunction(window[age])]) < MaxLive
  /\ HealthyLine
  /\ window' = [window EXCEPT ![1][kind] = @ + 1]
  /\ fresh' = TRUE
  /\ UNCHANGED <<phase, offset, past, baseline, qualified>>

(* A record that is too late or too early, or has a status no response has. *)
ObserveRefused ==
  /\ phase = "live"
  /\ HealthyLine
  /\ UNCHANGED <<phase, offset, past, baseline, window, fresh, qualified>>

ObserveError ==
  /\ phase = "live"
  /\ UnparsedLine
  /\ UNCHANGED <<phase, offset, past, baseline, window, fresh, qualified>>

-----------------------------------------------------------------------------
(* groupQualified *)

(* Fault: the multiplier is not applied. *)
PlainThreshold(p99, floor) == Max({floor, (p99 * Window + Minute - 1) \div Minute})

EffectiveThreshold(p99, floor) ==
  Max({floor, Detection.multiplier * ((p99 * Window + Minute - 1) \div Minute)})

VolumeThreshold(group) ==
  EffectiveThreshold(baseline.requests[group], Detection.volumeRequests)

ShapeThreshold(group) ==
  EffectiveThreshold(baseline.requests[group], Detection.shapeRequests)

UpstreamThreshold(group) ==
  EffectiveThreshold(baseline.upstream[group], Detection.shapeUpstream)

AtLeast(part, whole, share) == whole > 0 /\ part * Scale >= whole * share

CountIn(cells, what) ==
  SumFunction([cell \in cells |-> window[cell[1]][cell[2]] * Amount(cell[2], what)])

Count(kinds, what) == CountIn(Age \X kinds, what)

RequestsOf(kinds) == Count(kinds, "requests")
SamplesOf(kinds) == RequestsOf({kind \in kinds : kind.sampled})
UpstreamOf(kinds) == Count(kinds, "upstream")

(* Sketch.Conservative, which is exact for clients as few as these. *)
ClientsOf(kinds) ==
  Cardinality({kind.client : kind \in
    {seen \in kinds : \E age \in Age : window[age][seen] > 0}})

VolumeQualifies(group) ==
  LET requests == RequestsOf(Counting(group)) IN
    /\ requests >= VolumeThreshold(group)
    /\ AtLeast(requests, RequestsOf(LiveKind), Detection.volumeShare)

ShapeQualifies(group) ==
  LET kinds == Counting(group)
      requests == RequestsOf(kinds)
      clients == ClientsOf(kinds)
      samples == SamplesOf(kinds)
      upstream == UpstreamOf(kinds)
  IN  /\ requests >= ShapeThreshold(group)
      /\ clients >= Detection.clients
      /\ AtLeast(clients, requests, Detection.clientRatio)
      /\ AtLeast(samples, requests, Detection.coverage)
      /\ upstream >= UpstreamThreshold(group)
      /\ upstream >= samples * Detection.averageUpstream

Qualifies(group) ==
  IF group \in Volume THEN VolumeQualifies(group) ELSE ShapeQualifies(group)

(* evaluateGroups: nothing qualifies unless a timely record came in since   *)
(* the last evaluation.  The next tick begins.                              *)
Evaluate ==
  /\ phase = "live"
  /\ qualified' = {group \in Group : fresh /\ ~SensorSuspended /\ Qualifies(group)}
  /\ offset' = (offset + 1) % Minute
  /\ window' = [age \in Age |-> IF age = 1 THEN [kind \in LiveKind |-> 0]
                                          ELSE window[age - 1]]
  /\ fresh' = FALSE
  /\ UNCHANGED <<sensor, phase, past, baseline>>

QualificationNext ==
  \/ \E kind \in PastKind, tick \in Tick : RecordPast(kind, tick)
  \/ \E lost \in SUBSET {kind.route : kind \in PastKind} : BuildBaseline(lost)
  \/ StartLive
  \/ \E kind \in LiveKind : Observe(kind)
  \/ ObserveRefused
  \/ ObserveError
  \/ Evaluate

QualificationSpec == QualificationInit /\ [][QualificationNext]_vars

-----------------------------------------------------------------------------
(* The minutes from whose start to whose end the log was kept. *)
CompleteMinutes ==
  {minute \in 0 .. LastTick :
     /\ \E i \in DOMAIN past : past[i].tick <= minute * Minute
     /\ \E i \in DOMAIN past : past[i].tick >= (minute + 1) * Minute}

(* What was really asked of a group in a minute. *)
Truth(group, minute, what) ==
  LET asked == {i \in DOMAIN past :
                  /\ past[i].tick \in minute * Minute .. (minute + 1) * Minute - 1
                  /\ group \in {VolumeGroup(past[i].kind), ShapeGroup(past[i].kind)}
                  /\ ~past[i].kind.denied}
  IN  SumFunction([i \in asked |-> Amount(past[i].kind, what)])

(* The least value that enough of the complete minutes do not exceed. *)
IsPercentile(value, group, what) ==
  LET Enough(bound) ==
        100 * Cardinality({minute \in CompleteMinutes :
                             Truth(group, minute, what) <= bound})
          >= Percent * Cardinality(CompleteMinutes)
  IN  Enough(value) /\ (value > 0 => ~Enough(value - 1))

(* A baseline that live protection accepts is the percentile of the real    *)
(* traffic: minutes without a request count, minutes of which the log has   *)
(* only a part do not, and no request was lost (BuildBaseline).             *)
BaselineExact ==
  phase = "baseline" =>
    \A group \in Group :
      /\ IsPercentile(baseline.requests[group], group, "requests")
      /\ group \notin Volume =>
           IsPercentile(baseline.upstream[group], group, "upstream")

(* The ticks of the window that lie in the same minute. *)
MinuteOf(age) == (age + Minute - 2 - offset) \div Minute

Exceeds(group, bound, what) ==
  \E age \in Age :
    CountIn({other \in Age : MinuteOf(other) = MinuteOf(age)} \X Of(group, LiveKind),
            what) > bound

(* A group whose traffic stays, minute by minute, within its percentile     *)
(* never qualifies, wherever in the minute the window ends; a shape has to  *)
(* exceed both its percentiles (effectiveThreshold, groupQualified).        *)
QuietStaysQuiet ==
  [][phase = "live" /\ offset' # offset =>
       \A group \in qualified' :
         /\ Exceeds(group, baseline.requests[group], "requests")
         /\ group \notin Volume =>
              Exceeds(group, baseline.upstream[group], "upstream")]_vars

(* No rule that may come out of a group is enforced on a request under an   *)
(* excluded path or with an excluded method: it does not matter whether the *)
(* excluded path lies above or below the prefix (actionExcluded,            *)
(* RenderActiveMap).                                                        *)
ExcludedNeverLimited ==
  \A group \in qualified :
    /\ group.method \notin ExcludedMethod \cup {"OPTIONS"}
    /\ \A excluded \in Excluded :
         Reached(group.prefix) \cap Reached(excluded) = {}
=============================================================================
