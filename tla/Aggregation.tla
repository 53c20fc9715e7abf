---------------------------- MODULE Aggregation ----------------------------
(***************************************************************************)
(* The aggregator of the offline analysis and the tables it fills: every   *)
(* event is counted in rows kept in memory, and whenever there are enough  *)
(* rows they are added to those of the database in one transaction (Add,   *)
(* flush, Finish; Store.Flush).  Routes and subjects beyond their limits   *)
(* are counted as overflow.  A token bucket for each subject tells what a  *)
(* rate limit would have let through, and a sketch for each route keeps    *)
(* the smallest hashes of its clients.                                     *)
(*                                                                         *)
(* A client stands for the pair of a client key and a user agent, and for  *)
(* its hash in a sketch; one rate profile stands for the three.  User      *)
(* agents overflow as routes do, and are left out, as are columns that are *)
(* summed as the requests are, and sums that overflow an int64, which end  *)
(* the analysis.                                                           *)
(***************************************************************************)
EXTENDS Naturals, Sequences, FiniteSets

CONSTANTS
  Route,
  OverflowRoute,    \* the row /{overflow}
  Client,           \* numbers: the hashes of clients
  Event,            \* records of a route, a client and a time
  MaxRoutes,        \* limits.max_routes
  MaxRateSubjects,  \* limits.max_rate_subjects
  MaxBatchCells,    \* limits.max_batch_cells
  K,                \* kmvK: size of a sketch
  Rate, Burst,      \* of the profile
  Scale             \* tokenScale

ASSUME AggregationAssumption ==
  /\ OverflowRoute \notin Route
  /\ Client \subseteq Nat
  /\ Event \subseteq [route : Route, client : Client, time : Nat]
  /\ {MaxRoutes, MaxRateSubjects, MaxBatchCells, K, Scale} \subseteq Nat \ {0}
  /\ {Rate, Burst} \subseteq Nat

VARIABLES
  routes,          \* rows of routes there are, the one for overflow included
  buckets,         \* Aggregator.rateSubjects: a bucket for every tracked client
  memory,          \* requests in the rows not flushed yet
  stored,          \* requests in the rows of the database
  sketches,        \* clients of a route, not flushed yet
  storedSketches,  \* clients of a route in the database
  overflow,        \* Summary.RouteOverflow, Summary.SubjectOverflow
  taken            \* history: every event with what became of it

aggregation ==
  <<routes, buckets, memory, stored, sketches, storedSketches, overflow, taken>>

Row == Route \cup {OverflowRoute}
Time == {e.time : e \in Event}

(* The rows of the tables that are flushed; rate impacts count in two columns.*)
Key ==
  ({"routes", "route_stats"} \X Row)
    \cup ({"traffic_cells"} \X (Row \X Time))
    \cup ({"subject_stats"} \X Client)
    \cup ({"rate_profile_impacts"} \X {"modeled", "allowed"})

Verdict == {"allowed", "limited", "unordered", "overflow"}
Capacity == (Burst + 1) * Scale

TypeOK ==
  /\ routes \subseteq Row
  /\ Cardinality(routes \ {OverflowRoute}) <= MaxRoutes
  /\ \E tracked \in SUBSET Client :
       /\ buckets \in [tracked -> [last : Nat, tokens : 0 .. Capacity, unordered : BOOLEAN]]
       /\ Cardinality(tracked) <= MaxRateSubjects
  /\ {memory, stored} \subseteq [Key -> Nat]
  /\ \A row \in Row : Cardinality(sketches[row]) <= K
  /\ {sketches, storedSketches} \subseteq [Row -> SUBSET Client]
  /\ overflow \in [routes : Nat, subjects : Nat]
  /\ taken \in Seq([event : Event, row : Row, verdict : Verdict])

NoRows == [key \in Key |-> 0]
NoClients == [row \in Row |-> {}]

AggregationInit ==
  /\ routes = {}
  /\ buckets = << >>
  /\ memory = NoRows /\ stored = NoRows
  /\ sketches = NoClients /\ storedSketches = NoClients
  /\ overflow = [routes |-> 0, subjects |-> 0]
  /\ taken = << >>

-----------------------------------------------------------------------------
(* Routes *)

HasRow(route) ==
  route \in routes \/ Cardinality(routes \ {OverflowRoute}) < MaxRoutes

RowOf(route) == IF HasRow(route) THEN route ELSE OverflowRoute

(* Sketches: the K smallest hashes. *)
Smallest(hashes) ==
  {h \in hashes : Cardinality({g \in hashes : g < h}) < K}

-----------------------------------------------------------------------------
(* Subjects and their token buckets *)

Tracked == DOMAIN buckets

(* Fault: only a subject of this batch is known to be tracked. *)
CountedInBatch(client) ==
  memory[<<"subject_stats", client>>] > 0 \/ Cardinality(Tracked) < MaxRateSubjects

Counted(client) == client \in Tracked \/ Cardinality(Tracked) < MaxRateSubjects

(* Fault: an idle bucket fills up without a limit. *)
Unbounded(tokens) == tokens

Bounded(tokens) == IF tokens > Capacity THEN Capacity ELSE tokens

(* The bucket of a client when its request of this time comes, filled up.   *)
Filled(client, time) ==
  IF client \notin Tracked
  THEN [last |-> time, tokens |-> Capacity, unordered |-> FALSE]
  ELSE LET bucket == buckets[client] IN
       IF time < bucket.last
       THEN [bucket EXCEPT !.unordered = TRUE]
       ELSE [bucket EXCEPT !.last = time,
                           !.tokens = Bounded(@ + (time - bucket.last) * Rate)]

(* bucket.allow: once a client was out of order it is not modelled any more.*)
VerdictOn(bucket) ==
  IF bucket.unordered THEN "unordered"
  ELSE IF bucket.tokens >= Scale THEN "allowed" ELSE "limited"

Taken(bucket) ==
  IF VerdictOn(bucket) = "allowed" THEN [bucket EXCEPT !.tokens = @ - Scale] ELSE bucket

-----------------------------------------------------------------------------
(* Batches *)

(* addSubject *)
SubjectRows(event, verdict) ==
  IF verdict # "overflow" THEN {<<"subject_stats", event.client>>} ELSE {}

(* addRateImpact *)
ImpactColumns(allowed) ==
  {<<"rate_profile_impacts", "modeled">>}
    \cup (IF allowed THEN {<<"rate_profile_impacts", "allowed">>} ELSE {})

(* addRate *)
RateRows(verdict) ==
  IF verdict \in {"allowed", "limited"} THEN ImpactColumns(verdict = "allowed") ELSE {}

(* The rows that an event is counted in. *)
RowsOf(event, row, verdict) ==
  {<<"traffic_cells", <<row, event.time>>>>, <<"route_stats", row>>}
    \cup (IF row \notin routes THEN {<<"routes", row>>} ELSE {})
    \cup SubjectRows(event, verdict)
    \cup RateRows(verdict)

BatchFull(rows) ==
  Cardinality({key \in Key : rows[key] > 0} \ {<<"rate_profile_impacts", "allowed">>})
    >= MaxBatchCells

(* Fault: the sketches of a batch take the place of those in the database.  *)
SketchesReplaced(batch) ==
  [row \in Row |-> IF batch[row] # {} THEN batch[row] ELSE storedSketches[row]]

(* crawlledger_kmv_merge, for the routes of the batch. *)
SketchesMerged(batch) == [row \in Row |-> Smallest(storedSketches[row] \cup batch[row])]

(* Store.Flush: the rows of a batch are added to those of the database.     *)
StoredAfter(rows) == [key \in Key |-> stored[key] + rows[key]]

Flush(rows, clients) ==
  /\ stored' = StoredAfter(rows)
  /\ storedSketches' = SketchesMerged(clients)
  /\ memory' = NoRows
  /\ sketches' = NoClients

Keep(rows, clients) ==
  /\ memory' = rows
  /\ sketches' = clients
  /\ UNCHANGED <<stored, storedSketches>>

-----------------------------------------------------------------------------
(* Aggregator.Add *)
Add(event) ==
  LET row == RowOf(event.route)
      bucket == Filled(event.client, event.time)
      verdict == IF Counted(event.client) THEN VerdictOn(bucket) ELSE "overflow"
      counted == RowsOf(event, row, verdict)
      rows == [key \in Key |-> IF key \in counted THEN memory[key] + 1 ELSE memory[key]]
      clients == [sketches EXCEPT ![row] = Smallest(@ \cup {event.client})]
  IN  /\ routes' = routes \cup {row}
      /\ buckets' = IF verdict = "overflow" THEN buckets
                    ELSE [client \in Tracked \cup {event.client} |->
                            IF client = event.client THEN Taken(bucket) ELSE buckets[client]]
      /\ overflow' = [routes |-> overflow.routes + (IF row = OverflowRoute THEN 1 ELSE 0),
                      subjects |-> overflow.subjects + (IF verdict = "overflow" THEN 1 ELSE 0)]
      /\ taken' = Append(taken, [event |-> event, row |-> row, verdict |-> verdict])
      /\ IF BatchFull(rows) THEN Flush(rows, clients) ELSE Keep(rows, clients)

(* Aggregator.Finish *)
Finish ==
  /\ Flush(memory, sketches)
  /\ UNCHANGED <<routes, buckets, overflow, taken>>

-----------------------------------------------------------------------------
(* The events that a row is about. *)
About(key) ==
  {i \in DOMAIN taken :
     LET t == taken[i] IN
       CASE key[1] = "traffic_cells" -> <<t.row, t.event.time>> = key[2]
         [] key[1] = "subject_stats" -> t.verdict # "overflow" /\ t.event.client = key[2]
         [] key[1] = "rate_profile_impacts" ->
              t.verdict = "allowed" \/ (t.verdict = "limited" /\ key[2] = "modeled")
         [] OTHER -> t.row = key[2]}

(* Every row holds, in the database and in the batch together, what the     *)
(* events it is about add up to, however they were cut into batches; a      *)
(* route is inserted once; the sketches are those of all clients of the     *)
(* route; and what overflowed is reported (flush, Store.Flush).             *)
TablesExact ==
  /\ \A key \in Key :
       memory[key] + stored[key] =
         IF key[1] = "routes" /\ About(key) # {} THEN 1 ELSE Cardinality(About(key))
  /\ \A row \in Row :
       Smallest(sketches[row] \cup storedSketches[row]) =
         Smallest({taken[i].event.client : i \in About(<<"route_stats", row>>)})
  /\ overflow.routes = Cardinality(About(<<"route_stats", OverflowRoute>>))
  /\ overflow.subjects = Cardinality({i \in DOMAIN taken : taken[i].verdict = "overflow"})

(* A route is counted under one row from its first event to its last, and a *)
(* client in the subjects always or never, whatever was flushed in between, *)
(* so that no row shows a part of its traffic (routeID, addSubject).        *)
AllOrNothing ==
  \A i, j \in DOMAIN taken :
    /\ taken[i].event.route = taken[j].event.route => taken[i].row = taken[j].row
    /\ taken[i].event.client = taken[j].event.client =>
         (taken[i].verdict = "overflow" <=> taken[j].verdict = "overflow")

(* What a profile is said to let through conforms to it: between any two    *)
(* requests of a client it is the burst, one more, and what the rate gives  *)
(* in the time between them (bucket.allow).                                 *)
RateConforms ==
  \A i, j \in DOMAIN taken :
    LET first == taken[i].event
        last == taken[j].event
        passed == {k \in i .. j : taken[k].verdict = "allowed" /\ taken[k].event.client = first.client}
    IN  i \in passed /\ j \in passed =>
          Cardinality(passed) * Scale <= Capacity + (last.time - first.time) * Rate
=============================================================================
