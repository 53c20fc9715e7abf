----------------------- MODULE PolicySimulationProofs -----------------------
(***************************************************************************)
(* Proofs about PolicySimulation for any catalog, policies and workspaces, *)
(* any number of cells and any length of the lists of routes.              *)
(*                                                                         *)
(* Cell by cell, the simulator has the sums over the cells it has taken    *)
(* (Counts), and lists of the routes it has left behind (Lists); cutting a *)
(* list whenever a route is added loses nothing (TopOfTop).  A valid rate  *)
(* limit shares no claim with an earlier rule, so it decides on all the    *)
(* cells of its claims (LimitDecides) and what was replayed of them is at  *)
(* most what it matched; if it is less, the policy is blocked.             *)
(***************************************************************************)
EXTENDS PolicySimulation, NumberFacts, TLAPS

-----------------------------------------------------------------------------
(* Lists of routes *)

Entry == [route : Nat, requests : Nat]

Over(entries, entry) == {other \in entries : Above(other, entry)}

(* Entries are in a strict and total order. *)
LEMMA AboveIsOrder ==
  ASSUME NEW a \in Entry, NEW b \in Entry, NEW c \in Entry
  PROVE  /\ ~Above(a, a)
         /\ Above(a, b) /\ Above(b, c) => Above(a, c)
         /\ a = b \/ Above(a, b) \/ Above(b, a)
<1>1. /\ a.route \in Nat /\ a.requests \in Nat
      /\ b.route \in Nat /\ b.requests \in Nat
      /\ c.route \in Nat /\ c.requests \in Nat
  BY DEF Entry
<1>2. a.route = b.route /\ a.requests = b.requests => a = b
  BY DEF Entry
<1> QED
  BY <1>1, <1>2 DEF Above

(* Of two entries the lower one has more above it. *)
LEMMA RankGrows ==
  ASSUME NEW E \in SUBSET Entry, IsFiniteSet(E), NEW a \in E, NEW b \in E, Above(a, b)
  PROVE  Cardinality(Over(E, a)) < Cardinality(Over(E, b))
<1>1. Over(E, a) \in SUBSET Over(E, b)
  BY AboveIsOrder DEF Over
<1>2. a \in Over(E, b) /\ a \notin Over(E, a)
  BY AboveIsOrder DEF Over
<1>3. IsFiniteSet(Over(E, b)) /\ IsFiniteSet(Over(E, a))
  BY FS_Subset DEF Over
<1>4. /\ Cardinality(Over(E, a)) <= Cardinality(Over(E, b))
      /\ Cardinality(Over(E, a)) # Cardinality(Over(E, b))
  BY <1>1, <1>2, <1>3, FS_Subset
<1>5. Cardinality(Over(E, a)) \in Nat /\ Cardinality(Over(E, b)) \in Nat
  BY <1>3, FS_CardinalityType
<1> QED
  BY <1>4, <1>5

(* The entries of a list have the ranks from 0 on, one each. *)
LEMMA RanksAre ==
  ASSUME NEW E \in SUBSET Entry, IsFiniteSet(E)
  PROVE  LET rank == [e \in E |-> Cardinality(Over(E, e))]
             N == Cardinality(E)
         IN  /\ N \in Nat
             /\ rank \in Injection(E, 0 .. N - 1)
             /\ rank \in Surjection(E, 0 .. N - 1)
<1> DEFINE rank == [e \in E |-> Cardinality(Over(E, e))]
<1> DEFINE N == Cardinality(E)
<1>1. N \in Nat
  BY FS_CardinalityType
<1>2. ASSUME NEW e \in E PROVE rank[e] \in 0 .. N - 1
  <2>1. Over(E, e) \in SUBSET E /\ e \notin Over(E, e)
    BY AboveIsOrder DEF Over
  <2>2. /\ IsFiniteSet(Over(E, e)) /\ Cardinality(Over(E, e)) <= N
        /\ Cardinality(Over(E, e)) # N
    BY <2>1, FS_Subset
  <2>3. Cardinality(Over(E, e)) \in Nat
    BY <2>2, FS_CardinalityType
  <2> QED
    BY <1>1, <2>2, <2>3
<1>3. ASSUME NEW a \in E, NEW b \in E, rank[a] = rank[b] PROVE a = b
  <2>1. ASSUME Above(a, b) PROVE FALSE
    <3>1. rank[a] < rank[b]
      BY <2>1, RankGrows
    <3> QED
      BY <1>2, <1>3, <3>1
  <2>2. ASSUME Above(b, a) PROVE FALSE
    <3>1. rank[b] < rank[a]
      BY <2>2, RankGrows
    <3> QED
      BY <1>2, <1>3, <3>1
  <2> QED
    BY <2>1, <2>2, AboveIsOrder
<1>4. rank \in [E -> 0 .. N - 1]
  BY <1>2
<1>5. rank \in Injection(E, 0 .. N - 1)
  BY <1>3, <1>4 DEF Injection, IsInjective
<1>6. IsFiniteSet(0 .. N - 1) /\ Cardinality(0 .. N - 1) = N
  <2>1. 0 \in Int /\ N - 1 \in Int /\ (0 > N - 1 => N = 0) /\ (N - 1) - 0 + 1 = N
    BY <1>1
  <2> HIDE DEF N
  <2> QED
    BY <2>1, FS_Interval
<1>7. rank \in Surjection(E, 0 .. N - 1)
  <2> HIDE DEF rank
  <2> QED
    BY <1>5, <1>6, FS_Injection
<1> QED
  BY <1>1, <1>5, <1>7

(* A list is cut to its length, and not shorter than it has to be.          *)
LEMMA TopLength ==
  ASSUME NEW E \in SUBSET Entry, IsFiniteSet(E)
  PROVE  /\ IsFiniteSet(Top(E)) /\ Top(E) \in SUBSET E
         /\ Cardinality(Top(E)) <= TopRoutes
         /\ Cardinality(E) >= TopRoutes => Cardinality(Top(E)) = TopRoutes
<1> DEFINE rank == [e \in E |-> Cardinality(Over(E, e))]
<1> DEFINE N == Cardinality(E)
<1> DEFINE cut == [e \in Top(E) |-> rank[e]]
<1>1. N \in Nat /\ rank \in Injection(E, 0 .. N - 1) /\ rank \in Surjection(E, 0 .. N - 1)
  BY RanksAre
<1>2. TopRoutes \in Nat \ {0}
  BY PolicyAssumption
<1>3. Top(E) = {e \in E : rank[e] < TopRoutes}
  BY DEF Top, Over
<1>4. IsFiniteSet(Top(E)) /\ Top(E) \in SUBSET E
  BY <1>3, FS_Subset
<1>5. IsFiniteSet(0 .. TopRoutes - 1) /\ Cardinality(0 .. TopRoutes - 1) = TopRoutes
  <2>1. 0 \in Int /\ TopRoutes - 1 \in Int /\ ~(0 > TopRoutes - 1)
        /\ (TopRoutes - 1) - 0 + 1 = TopRoutes
    BY <1>2
  <2> QED
    BY <2>1, FS_Interval
<1> HIDE DEF rank
<1>6. /\ \A e \in E : rank[e] \in 0 .. N - 1
      /\ \A a, b \in E : rank[a] = rank[b] => a = b
      /\ \A n \in 0 .. N - 1 : \E e \in E : rank[e] = n
  BY <1>1 DEF Injection, Surjection, IsInjective
<1>7. cut \in Injection(Top(E), 0 .. TopRoutes - 1)
  <2>1. \A e \in Top(E) : cut[e] \in 0 .. TopRoutes - 1
    BY <1>1, <1>2, <1>3, <1>6
  <2>2. \A a, b \in Top(E) : cut[a] = cut[b] => a = b
    BY <1>3, <1>6
  <2>3. cut \in [Top(E) -> 0 .. TopRoutes - 1]
    BY <2>1
  <2> QED
    BY <2>2, <2>3 DEF Injection, IsInjective
<1>8. Cardinality(Top(E)) <= TopRoutes
  <2> HIDE DEF cut
  <2> QED
    BY <1>5, <1>7, FS_Injection
<1>9. ASSUME N >= TopRoutes PROVE Cardinality(Top(E)) = TopRoutes
  <2>1. \A n \in 0 .. TopRoutes - 1 : \E e \in Top(E) : cut[e] = n
    <3> SUFFICES ASSUME NEW n \in 0 .. TopRoutes - 1
                 PROVE  \E e \in Top(E) : cut[e] = n
      OBVIOUS
    <3>1. n \in 0 .. N - 1
      BY <1>1, <1>2, <1>9
    <3>2. PICK e \in E : rank[e] = n
      BY <1>6, <3>1
    <3>3. e \in Top(E)
      BY <1>2, <1>3, <3>2
    <3> QED
      BY <3>2, <3>3
  <2>2. cut \in Surjection(Top(E), 0 .. TopRoutes - 1)
    BY <1>7, <2>1 DEF Surjection, Injection
  <2> HIDE DEF cut
  <2> QED
    BY <1>5, <1>7, <2>2, FS_Injection
<1> QED
  BY <1>4, <1>8, <1>9

(* What is above an entry of the cut list is in it too. *)
LEMMA TopIsUpper ==
  ASSUME NEW E \in SUBSET Entry, IsFiniteSet(E),
         NEW a \in E, NEW b \in Top(E), Above(a, b)
  PROVE  a \in Top(E)
<1>1. b \in E /\ Cardinality(Over(E, b)) < TopRoutes
  BY DEF Top, Over
<1>2. Cardinality(Over(E, a)) < Cardinality(Over(E, b))
  BY <1>1, RankGrows
<1>3. IsFiniteSet(Over(E, a)) /\ IsFiniteSet(Over(E, b))
  BY FS_Subset DEF Over
<1>4. Cardinality(Over(E, a)) \in Nat /\ Cardinality(Over(E, b)) \in Nat
  BY <1>3, FS_CardinalityType
<1>5. Cardinality(Over(E, a)) < TopRoutes
  BY <1>1, <1>2, <1>4, PolicyAssumption
<1> QED
  BY <1>5 DEF Top, Over

(* A list that is cut before an entry is added and cut again is the same as *)
(* one that is cut at the end.                                              *)
LEMMA TopOfTop ==
  ASSUME NEW A \in SUBSET Entry, IsFiniteSet(A), NEW x \in Entry
  PROVE  Top(Top(A) \cup {x}) = Top(A \cup {x})
<1> DEFINE E == A \cup {x}
<1> DEFINE F == Top(A) \cup {x}
<1>0. /\ E \in SUBSET Entry /\ IsFiniteSet(E) /\ A \in SUBSET E
      /\ F \in SUBSET E /\ IsFiniteSet(F) /\ F \in SUBSET Entry
      /\ E = A \cup {x} /\ F = Top(A) \cup {x}
  <2>1. IsFiniteSet(Top(A)) /\ Top(A) \in SUBSET A
    BY TopLength
  <2> QED
    BY <2>1, FS_AddElement
<1>1. TopRoutes \in Nat
  BY PolicyAssumption
<1> HIDE DEF E, F
<1>2. \A S \in SUBSET E : IsFiniteSet(S) /\ Cardinality(S) \in Nat
  BY <1>0, FS_Subset, FS_CardinalityType
<1>3. \A e \in E : /\ Over(F, e) \in SUBSET Over(E, e) /\ Over(A, e) \in SUBSET Over(E, e)
                   /\ Over(E, e) \in SUBSET E
  BY <1>0 DEF Over
<1>4. \A e \in E : /\ Cardinality(Over(F, e)) <= Cardinality(Over(E, e))
                   /\ Cardinality(Over(A, e)) <= Cardinality(Over(E, e))
                   /\ Cardinality(Over(E, e)) \in Nat
                   /\ Cardinality(Over(F, e)) \in Nat
                   /\ Cardinality(Over(A, e)) \in Nat
  <2> SUFFICES ASSUME NEW e \in E
               PROVE  /\ Cardinality(Over(F, e)) <= Cardinality(Over(E, e))
                      /\ Cardinality(Over(A, e)) <= Cardinality(Over(E, e))
                      /\ Cardinality(Over(E, e)) \in Nat
                      /\ Cardinality(Over(F, e)) \in Nat
                      /\ Cardinality(Over(A, e)) \in Nat
    OBVIOUS
  <2>1. /\ Over(F, e) \in SUBSET E /\ Over(A, e) \in SUBSET E /\ Over(E, e) \in SUBSET E
    BY <1>3
  <2>2. IsFiniteSet(Over(E, e))
    BY <1>2, <2>1
  <2> QED
    BY <1>2, <1>3, <2>1, <2>2, FS_Subset
<1>5. ASSUME NEW e \in Top(E) PROVE e \in Top(F)
  <2>1. e \in E /\ Cardinality(Over(E, e)) < TopRoutes
    BY DEF Top, Over
  <2>2. Cardinality(Over(F, e)) < TopRoutes /\ Cardinality(Over(A, e)) < TopRoutes
    BY <1>1, <1>4, <2>1
  <2>3. e \in F
    BY <1>0, <2>1, <2>2 DEF Top, Over
  <2> QED
    BY <2>2, <2>3 DEF Top, Over
<1>6. ASSUME NEW e \in Top(F) PROVE e \in Top(E)
  <2>1. e \in F /\ Cardinality(Over(F, e)) < TopRoutes
    BY DEF Top, Over
  <2>2. e \in E
    BY <1>0, <2>1
  <2>3. CASE \A a \in A : Above(a, e) => a \in Top(A)
    <3>1. Over(E, e) = Over(F, e)
      BY <1>0, <1>3, <2>2, <2>3 DEF Over
    <3>2. Cardinality(Over(E, e)) < TopRoutes
      BY <2>1, <3>1
    <3> QED
      BY <2>2, <3>2 DEF Top, Over
  <2>4. ASSUME NEW a \in A, Above(a, e), a \notin Top(A) PROVE FALSE
    <3>1. Cardinality(Over(A, a)) \in Nat /\ ~(Cardinality(Over(A, a)) < TopRoutes)
      BY <1>0, <1>4, <2>4 DEF Top, Over
    <3>2. Over(A, a) \in SUBSET A
      BY DEF Over
    <3>3. Cardinality(Over(A, a)) <= Cardinality(A) /\ Cardinality(A) \in Nat
      BY <3>2, FS_Subset, FS_CardinalityType
    <3>4. Cardinality(A) >= TopRoutes
      BY <1>1, <3>1, <3>3
    <3>5. Cardinality(Top(A)) = TopRoutes /\ Top(A) \in SUBSET A
      BY <3>4, TopLength
    <3>6. \A t \in Top(A) : Above(t, e)
      <4> SUFFICES ASSUME NEW t \in Top(A) PROVE Above(t, e)
        OBVIOUS
      <4>1. t \in A /\ t # a
        BY <2>4, <3>5
      <4>2. ~Above(a, t)
        BY <2>4, TopIsUpper
      <4>3. t \in Entry /\ a \in Entry /\ e \in Entry
        BY <1>0, <2>2, <4>1
      <4>4. Above(t, a)
        BY <4>1, <4>2, <4>3, AboveIsOrder
      <4> QED
        BY <2>4, <4>3, <4>4, AboveIsOrder
    <3>7. Top(A) \in SUBSET Over(F, e)
      BY <1>0, <3>6 DEF Over
    <3>8. Over(F, e) \in SUBSET E
      BY <1>0 DEF Over
    <3>9. IsFiniteSet(Over(F, e)) /\ Cardinality(Over(F, e)) \in Nat
      BY <1>2, <3>8
    <3>10. Cardinality(Top(A)) <= Cardinality(Over(F, e))
      BY <3>7, <3>9, FS_Subset
    <3> QED
      BY <1>1, <2>1, <3>5, <3>9, <3>10
  <2> QED
    BY <2>3, <2>4
<1>7. Top(E) = Top(F)
  BY <1>5, <1>6
<1> QED
  BY <1>7 DEF E, F

-----------------------------------------------------------------------------
(* Requests of some cells *)

(* The requests of all places, and their sum over some of them. *)
LEMMA RequestsAre ==
  ASSUME NEW cells \in Seq(Cell), NEW P \in SUBSET DOMAIN cells
  PROVE  LET requests == [k \in DOMAIN cells |-> cells[k].requests]
         IN  /\ IsFiniteSet(P)
             /\ \A k \in P : requests[k] \in Nat
             /\ RequestsOf(cells, P) = Sum(requests, P)
             /\ RequestsOf(cells, P) \in Nat
<1> DEFINE requests == [k \in DOMAIN cells |-> cells[k].requests]
<1> DEFINE some == [k \in P |-> cells[k].requests]
<1>1. IsFiniteSet(P)
  <2>1. DOMAIN cells = 1 .. Len(cells) /\ Len(cells) \in Nat
    OBVIOUS
  <2>2. IsFiniteSet(DOMAIN cells)
    BY <2>1, FS_Interval
  <2> QED
    BY <2>2, FS_Subset
<1>2. \A k \in P : requests[k] \in Nat /\ some[k] = requests[k]
  <2>1. \A k \in DOMAIN cells : cells[k] \in Cell
    OBVIOUS
  <2> QED
    BY <2>1 DEF Cell
<1>3. RequestsOf(cells, P) = Sum(some, P)
  <2>1. RequestsOf(cells, P) = SumFunction(some)
    BY DEF RequestsOf
  <2>2. DOMAIN some = P
    OBVIOUS
  <2> HIDE DEF some
  <2>3. SumFunction(some) = Sum(some, DOMAIN some)
    BY SumFunctionIs
  <2> QED
    BY <2>1, <2>2, <2>3
<1> HIDE DEF requests, some
<1>4. Sum(some, P) = Sum(requests, P)
  BY <1>1, <1>2, SumSame
<1>5. Sum(requests, P) \in Nat
  BY <1>1, <1>2, SumFacts
<1> QED
  BY <1>1, <1>2, <1>3, <1>4, <1>5 DEF requests

(* No cells have no requests. *)
LEMMA RequestsOfNone ==
  ASSUME NEW cells \in Seq(Cell)
  PROVE  RequestsOf(cells, {}) = 0
<1> DEFINE requests == [k \in DOMAIN cells |-> cells[k].requests]
<1>1. {} \in SUBSET DOMAIN cells
  OBVIOUS
<1>2. IsFiniteSet({}) /\ RequestsOf(cells, {}) = Sum(requests, {})
  BY <1>1, RequestsAre
<1> HIDE DEF requests
<1>3. Sum(requests, {}) = 0
  BY <1>2, SumFacts
<1> QED
  BY <1>2, <1>3

(* A cell more has its requests more. *)
LEMMA RequestsAdd ==
  ASSUME NEW cells \in Seq(Cell), NEW P \in SUBSET DOMAIN cells,
         NEW k \in DOMAIN cells, k \notin P
  PROVE  RequestsOf(cells, P \cup {k}) = RequestsOf(cells, P) + cells[k].requests
<1> DEFINE requests == [n \in DOMAIN cells |-> cells[n].requests]
<1> DEFINE Q == P \cup {k}
<1>1. Q \in SUBSET DOMAIN cells /\ Q \ {k} = P /\ k \in Q
  OBVIOUS
<1>2. requests[k] = cells[k].requests
  OBVIOUS
<1> HIDE DEF Q
<1>3. /\ IsFiniteSet(Q) /\ \A n \in Q : requests[n] \in Nat
      /\ RequestsOf(cells, Q) = Sum(requests, Q)
      /\ RequestsOf(cells, P) = Sum(requests, P)
      /\ RequestsOf(cells, P) \in Nat
  BY <1>1, RequestsAre
<1> HIDE DEF requests
<1>4. Sum(requests, Q) = requests[k] + Sum(requests, Q \ {k})
  BY <1>1, <1>3, SumFacts
<1>5. Sum(requests, Q \ {k}) = Sum(requests, P)
  BY <1>1, Zenon
<1>6. requests[k] \in Nat
  BY <1>1, <1>3
<1>7. RequestsOf(cells, Q) = RequestsOf(cells, P) + cells[k].requests
  BY <1>2, <1>3, <1>4, <1>5, <1>6
<1> QED
  BY <1>7 DEF Q

-----------------------------------------------------------------------------
(* Rules and claims *)

(* A set of numbers has a least one. *)
LEMMA LeastIs ==
  ASSUME NEW S \in SUBSET Nat, S # {}
  PROVE  Min(S) \in S /\ \A n \in S : Min(S) <= n
<1>1. IsWellFoundedOn(OpToRel(<, Nat), Nat)
  BY NatLessThanWellFounded
<1>2. PICK m \in S : \A n \in S : <<n, m>> \notin OpToRel(<, Nat)
  BY <1>1, WFMin
<1>3. \A n \in S : m <= n
  <2>1. \A n \in S : ~(n < m)
    BY <1>2 DEF OpToRel
  <2> QED
    BY <2>1
<1> QED
  BY <1>3 DEF Min

(* What the assumption on policies says of the loaded one. *)
LEMMA PolicyIs ==
  ASSUME policy \in Policies
  PROVE  /\ policy \in Seq(Rule) /\ Len(policy) \in Nat
         /\ DOMAIN policy = 1 .. Len(policy)
         /\ \A i \in DOMAIN policy : policy[i] \in Rule
         /\ IsFiniteSet(DOMAIN policy)
<1>1. policy \in Seq(Rule)
  BY PolicyAssumption
<1>2. Len(policy) \in Nat /\ DOMAIN policy = 1 .. Len(policy)
  BY <1>1
<1>3. IsFiniteSet(1 .. Len(policy))
  BY <1>2, FS_Interval
<1> QED
  BY <1>1, <1>2, <1>3

(* A cell is decided by the first rule that matches it, or by none.         *)
LEMMA FirstMatchIs ==
  ASSUME policy \in Policies, NEW cell
  PROVE  /\ FirstMatch(cell) \in {0} \cup DOMAIN policy
         /\ \A i \in DOMAIN policy : DecidedBy(cell, i) <=> FirstMatch(cell) = i
         /\ FirstMatch(cell) = 0 <=> Matching(cell) = {}
<1>1. Len(policy) \in Nat /\ DOMAIN policy = 1 .. Len(policy)
  BY PolicyIs
<1>2. Matching(cell) \in SUBSET DOMAIN policy /\ Matching(cell) \in SUBSET Nat
  BY <1>1 DEF Matching
<1>3. CASE Matching(cell) = {}
  <2>1. FirstMatch(cell) = 0
    BY <1>3 DEF FirstMatch
  <2>2. \A i \in DOMAIN policy : ~DecidedBy(cell, i)
    BY <1>3 DEF DecidedBy, Matching
  <2> QED
    BY <1>1, <1>3, <2>1, <2>2
<1>4. CASE Matching(cell) # {}
  <2> DEFINE first == Min(Matching(cell))
  <2>1. FirstMatch(cell) = first
    BY <1>4 DEF FirstMatch
  <2>2. first \in Matching(cell) /\ \A n \in Matching(cell) : first <= n
    BY <1>2, <1>4, LeastIs
  <2> HIDE DEF first
  <2>3. first \in DOMAIN policy
    BY <1>2, <2>2
  <2>4. ASSUME NEW i \in DOMAIN policy, DecidedBy(cell, i) PROVE first = i
    <3>1. i \in Matching(cell) /\ Matches(policy[first], cell)
      BY <2>2, <2>4 DEF DecidedBy, Matching
    <3>2. first <= i /\ first \notin 1 .. i - 1
      BY <2>2, <2>4, <3>1 DEF DecidedBy
    <3> QED
      BY <1>1, <2>3, <3>2
  <2>5. DecidedBy(cell, first)
    <3>1. Matches(policy[first], cell)
      BY <2>2 DEF Matching
    <3>2. ASSUME NEW j \in 1 .. first - 1 PROVE ~Matches(policy[j], cell)
      <4>1. j \in DOMAIN policy /\ ~(first <= j)
        BY <1>1, <2>3
      <4> QED
        BY <2>2, <4>1 DEF Matching
    <3> QED
      BY <3>1, <3>2 DEF DecidedBy
  <2> QED
    BY <1>1, <1>4, <2>1, <2>3, <2>4, <2>5
<1> QED
  BY <1>3, <1>4

(* There are finitely many claims. *)
LEMMA ClaimsFinite == IsFiniteSet(Claim)
  BY CatalogAssumption, FS_AddElement DEF Claim

(* Validation expands a rule to all the claims it matches, at least.        *)
LEMMA MatchedIsExpanded ==
  ASSUME NEW rule \in Rule, NEW claim \in Claim, MatchesClaim(rule, claim)
  PROVE  claim \in Expanded(rule)
BY DEF MatchesClaim, Expanded, ByClaim, Rule

(* A rate limit shares no claim with an earlier rule, and its claims with   *)
(* no other rate limit.                                                     *)
LEMMA LimitIsAlone ==
  ASSUME policy \in Policies, Valid(policy),
         NEW i \in DOMAIN policy, policy[i].action = "rate_limit",
         NEW claim \in Claim, MatchesClaim(policy[i], claim)
  PROVE  /\ \A j \in 1 .. i - 1 : ~MatchesClaim(policy[j], claim)
         /\ RateLimits(claim) = {i}
<1>1. Len(policy) \in Nat /\ DOMAIN policy = 1 .. Len(policy)
      /\ \A j \in DOMAIN policy : policy[j] \in Rule
  BY PolicyIs
<1>2. ASSUME NEW a \in DOMAIN policy, NEW b \in 1 .. a - 1,
             policy[a].action = "rate_limit",
             MatchesClaim(policy[a], claim), MatchesClaim(policy[b], claim)
      PROVE  FALSE
  <2>1. b \in DOMAIN policy
    BY <1>1
  <2>2. claim \in Expanded(policy[a]) /\ claim \in Expanded(policy[b])
    BY <1>1, <1>2, <2>1, MatchedIsExpanded
  <2> QED
    BY <1>2, <2>2 DEF Valid, Overlaps
<1>3. \A j \in 1 .. i - 1 : ~MatchesClaim(policy[j], claim)
  BY <1>2
<1>4. ASSUME NEW j \in RateLimits(claim) PROVE j = i
  <2>1. j \in DOMAIN policy /\ policy[j].action = "rate_limit" /\ MatchesClaim(policy[j], claim)
    BY DEF RateLimits
  <2>2. j \notin 1 .. i - 1 /\ i \notin 1 .. j - 1
    BY <1>2, <2>1
  <2> QED
    BY <1>1, <2>1, <2>2
<1>5. i \in RateLimits(claim)
  BY DEF RateLimits
<1> QED
  BY <1>3, <1>4, <1>5

(* So it decides on all the cells of its claims, and takes all their rows.  *)
LEMMA LimitDecides ==
  ASSUME policy \in Policies, Valid(policy),
         NEW i \in DOMAIN policy, policy[i].action = "rate_limit"
  PROVE  /\ \A cell \in Cell : DecidedBy(cell, i) <=> MatchesClaim(policy[i], cell.claim)
         /\ RowsOfRule(i) = {claim \in Claim : MatchesClaim(policy[i], claim)}
<1>1. /\ policy[i].paths = {} /\ policy[i].methods = {}
  BY DEF Valid, WellFormed, ByPath
<1>2. ASSUME NEW cell \in Cell PROVE DecidedBy(cell, i) <=> MatchesClaim(policy[i], cell.claim)
  <2>1. cell.claim \in Claim
    BY DEF Cell
  <2>2. Matches(policy[i], cell) <=> MatchesClaim(policy[i], cell.claim)
    BY <1>1 DEF Matches, MatchesPath, MatchesMethod
  <2>3. MatchesClaim(policy[i], cell.claim) =>
          \A j \in 1 .. i - 1 : ~MatchesClaim(policy[j], cell.claim)
    BY <2>1, LimitIsAlone
  <2> QED
    BY <2>2, <2>3 DEF DecidedBy, Matches
<1>3. ASSUME NEW claim \in Claim
      PROVE  claim \in RowsOfRule(i) <=> MatchesClaim(policy[i], claim)
  <2>1. i \in RateLimits(claim) <=> MatchesClaim(policy[i], claim)
    BY DEF RateLimits
  <2>2. MatchesClaim(policy[i], claim) => RateLimits(claim) = {i}
    BY LimitIsAlone
  <2>3. i \in Nat
    BY PolicyIs
  <2> QED
    BY <2>1, <2>2, <2>3 DEF RowsOfRule
<1>4. RowsOfRule(i) \in SUBSET Claim
  BY DEF RowsOfRule
<1>5. RowsOfRule(i) = {claim \in Claim : MatchesClaim(policy[i], claim)}
  BY <1>3, <1>4
<1> QED
  BY <1>2, <1>5

-----------------------------------------------------------------------------
(* Replayed rate limits *)

(* What the assumption on workspaces says of the open one. *)
LEMMA WorkspaceIs ==
  ASSUME workspace \in Workspaces
  PROVE  /\ workspace.cells \in Seq(Cell) /\ workspace.overflow \in Nat
         /\ workspace.callers \in [Claim -> Callers]
         /\ Len(workspace.cells) \in Nat
         /\ DOMAIN workspace.cells = 1 .. Len(workspace.cells)
         /\ \A k \in DOMAIN workspace.cells : workspace.cells[k] \in Cell
<1>1. workspace.cells \in Seq(Cell)
  BY WorkspaceAssumption
<1> QED
  BY <1>1, WorkspaceAssumption

(* What is said of the callers of a claim. *)
LEMMA CallersAre ==
  ASSUME workspace \in Workspaces, NEW claim \in Claim
  PROVE  LET callers == workspace.callers[claim]
             requests == RequestsOf(workspace.cells, ClaimedBy(workspace.cells, claim))
         IN  /\ callers.modeled \in Nat /\ callers.known \in Nat /\ callers.clients \in Nat
             /\ callers.limited \in [Profile -> Nat]
             /\ requests \in Nat
             /\ callers.modeled <= requests
             /\ \A profile \in Profile : callers.limited[profile] <= callers.modeled
             /\ callers.modeled = requests => callers.known = callers.clients
<1>1. workspace.callers[claim] \in Callers
  BY WorkspaceIs
<1>2. ClaimedBy(workspace.cells, claim) \in SUBSET DOMAIN workspace.cells
  BY DEF ClaimedBy
<1>3. RequestsOf(workspace.cells, ClaimedBy(workspace.cells, claim)) \in Nat
  BY <1>2, WorkspaceIs, RequestsAre
<1> QED
  BY <1>1, <1>3, WorkspaceAssumption DEF Callers

(* A rate limit has the profile that its rows are taken from.               *)
LEMMA LimitHasProfile ==
  ASSUME policy \in Policies, Valid(policy), NEW i \in DOMAIN policy
  PROVE  policy[i].action = "rate_limit" <=> policy[i].profile \in Profile
<1>1. policy[i] \in Rule
  BY PolicyIs
<1> QED
  BY <1>1, CatalogAssumption DEF Valid, WellFormed, Rule

(* What a valid rate limit takes of the replayed rows is at most what it    *)
(* matches, and it is as much only if every caller was replayed.            *)
LEMMA ReplayedAtMost ==
  ASSUME policy \in Policies, Valid(policy), workspace \in Workspaces,
         NEW i \in DOMAIN policy, policy[i].action = "rate_limit"
  PROVE  LET cells == workspace.cells
             matched == RequestsOf(cells, CellsOf(i))
         IN  /\ Modeled(i) \in Nat /\ Limited(i) \in Nat /\ matched \in Nat
             /\ Limited(i) <= Modeled(i) /\ Modeled(i) <= matched
             /\ Modeled(i) = matched =>
                  \A claim \in Claim : MatchesClaim(policy[i], claim) =>
                    workspace.callers[claim].modeled = RequestsOf(cells, ClaimedBy(cells, claim))
<1> DEFINE cells == workspace.cells
<1> DEFINE rows == RowsOfRule(i)
<1> DEFINE requests == [k \in DOMAIN cells |-> cells[k].requests]
<1> DEFINE part == [k \in DOMAIN cells |-> cells[k].claim]
<1> DEFINE total == [claim \in rows |-> RequestsOf(cells, ClaimedBy(cells, claim))]
<1> DEFINE modeled == [claim \in rows |-> workspace.callers[claim].modeled]
<1> DEFINE limited == [claim \in rows |-> workspace.callers[claim].limited[policy[i].profile]]
<1>1. /\ cells \in Seq(Cell) /\ DOMAIN cells = 1 .. Len(cells)
      /\ \A k \in DOMAIN cells : cells[k] \in Cell
  BY WorkspaceIs
<1>2. /\ rows = {claim \in Claim : MatchesClaim(policy[i], claim)}
      /\ CellsOf(i) = {k \in DOMAIN cells : MatchesClaim(policy[i], cells[k].claim)}
  BY <1>1, LimitDecides DEF CellsOf
<1>3. IsFiniteSet(rows) /\ rows \in SUBSET Claim
  BY <1>2, ClaimsFinite, FS_Subset
<1>4. /\ CellsOf(i) \in SUBSET DOMAIN cells
      /\ \A claim \in Claim : ClaimedBy(cells, claim) \in SUBSET DOMAIN cells
  BY DEF CellsOf, ClaimedBy
<1>5. policy[i].profile \in Profile
  BY LimitHasProfile
<1>6. /\ IsFiniteSet(CellsOf(i)) /\ \A k \in CellsOf(i) : requests[k] \in Nat
      /\ RequestsOf(cells, CellsOf(i)) = Sum(requests, CellsOf(i))
      /\ RequestsOf(cells, CellsOf(i)) \in Nat
  BY <1>1, <1>4, RequestsAre
<1>7. \A claim \in Claim :
        RequestsOf(cells, ClaimedBy(cells, claim)) = Sum(requests, ClaimedBy(cells, claim))
  BY <1>1, <1>4, RequestsAre
<1>8. \A k \in CellsOf(i) : part[k] \in rows
  <2>1. \A k \in DOMAIN cells : cells[k].claim \in Claim
    BY <1>1 DEF Cell
  <2> QED
    BY <1>2, <2>1
<1> DEFINE members == [claim \in rows |-> ClaimedBy(cells, claim)]
<1>9. \A claim \in rows : members[claim] = {k \in CellsOf(i) : part[k] = claim}
  BY <1>2 DEF ClaimedBy
<1>10. \A claim \in rows : total[claim] = Sum(requests, members[claim])
  BY <1>3, <1>7
<1>11. \A claim \in rows : /\ total[claim] \in Nat /\ modeled[claim] \in Nat
                           /\ limited[claim] \in Nat
                           /\ modeled[claim] <= total[claim]
                           /\ limited[claim] <= modeled[claim]
  BY <1>3, <1>5, CallersAre
<1>12. Modeled(i) = Sum(modeled, rows) /\ Limited(i) = Sum(limited, rows)
  <2>1. Modeled(i) = SumFunction(modeled) /\ DOMAIN modeled = rows
    BY DEF Modeled
  <2>2. Limited(i) = SumFunction(limited) /\ DOMAIN limited = rows
    BY DEF Limited
  <2> HIDE DEF modeled, limited, rows
  <2> QED
    BY <2>1, <2>2, SumFunctionIs
<1>13. \A claim \in rows : /\ modeled[claim] = workspace.callers[claim].modeled
                           /\ total[claim] = RequestsOf(cells, ClaimedBy(cells, claim))
  OBVIOUS
<1> HIDE DEF rows, requests, part, members, total, modeled, limited
<1>14. Sum(requests, CellsOf(i)) = Sum(total, rows)
  BY <1>3, <1>6, <1>8, <1>9, <1>10, SumByParts
<1>15. /\ Sum(modeled, rows) <= Sum(total, rows)
       /\ Sum(modeled, rows) = Sum(total, rows) => \A claim \in rows : modeled[claim] = total[claim]
  BY <1>3, <1>11, SumAtMost
<1>16. Sum(limited, rows) <= Sum(modeled, rows)
  BY <1>3, <1>11, SumAtMost
<1>17. Sum(limited, rows) \in Nat /\ Sum(modeled, rows) \in Nat
  BY <1>3, <1>11, SumFacts
<1>18. Modeled(i) = RequestsOf(cells, CellsOf(i)) =>
         \A claim \in rows :
           workspace.callers[claim].modeled = RequestsOf(cells, ClaimedBy(cells, claim))
  BY <1>6, <1>12, <1>13, <1>14, <1>15
<1> QED
  BY <1>2, <1>6, <1>12, <1>14, <1>15, <1>16, <1>17, <1>18

-----------------------------------------------------------------------------
(* The simulator *)

Impact == [matched : Nat, allowed : Nat, denied : Nat, limited : Nat]

SimulatorType ==
  [observed : Nat, allowed : Nat, denied : Nat, limited : Nat,
   impacts : [DOMAIN policy -> Impact],
   modeled : [DOMAIN policy -> Nat],
   route : Route \cup {Nothing},
   rows : [DOMAIN policy -> Nat],
   top : [DOMAIN policy -> SUBSET Entry],
   protected : SUBSET Claim,
   unclassified : SUBSET DOMAIN policy,
   ambiguous : SUBSET DOMAIN policy,
   actionable : Nat,
   states : [Profile -> Nat]]

(* Flushed, the counts of the route are in the lists and gone.              *)
LEMMA FlushedIs ==
  ASSUME policy \in Policies, NEW s \in SimulatorType, s.route \in Route
  PROVE  LET t == Flushed(s)
         IN  /\ t \in SimulatorType
             /\ t.route = s.route
             /\ t.observed = s.observed /\ t.allowed = s.allowed
             /\ t.denied = s.denied /\ t.limited = s.limited
             /\ t.impacts = s.impacts /\ t.protected = s.protected
             /\ \A i \in DOMAIN policy :
                  /\ t.rows[i] = 0
                  /\ t.top[i] = IF s.rows[i] = 0 THEN s.top[i]
                                ELSE Top(s.top[i] \cup {[route |-> s.route, requests |-> s.rows[i]]})
<1> DEFINE t == Flushed(s)
<1> DEFINE rows == [i \in DOMAIN policy |-> 0]
<1> DEFINE top == [i \in DOMAIN policy |->
              IF s.rows[i] = 0 THEN s.top[i]
              ELSE Top(s.top[i] \cup {[route |-> s.route, requests |-> s.rows[i]]})]
<1>1. t = [s EXCEPT !.top = top, !.rows = rows]
  BY DEF Flushed, SimulatorType
<1>2. rows \in [DOMAIN policy -> Nat]
  OBVIOUS
<1>3. top \in [DOMAIN policy -> SUBSET Entry]
  <2> SUFFICES ASSUME NEW i \in DOMAIN policy PROVE top[i] \in SUBSET Entry
    OBVIOUS
  <2>1. s.top[i] \in SUBSET Entry /\ s.rows[i] \in Nat
    BY DEF SimulatorType
  <2>2. [route |-> s.route, requests |-> s.rows[i]] \in Entry
    BY <2>1, PolicyAssumption DEF Entry
  <2> QED
    BY <2>1, <2>2 DEF Top
<1>4. \A i \in DOMAIN policy :
        /\ rows[i] = 0
        /\ top[i] = IF s.rows[i] = 0 THEN s.top[i]
                    ELSE Top(s.top[i] \cup {[route |-> s.route, requests |-> s.rows[i]]})
  OBVIOUS
<1> HIDE DEF t, rows, top
<1>5. t \in SimulatorType
  BY <1>1, <1>2, <1>3 DEF SimulatorType
<1>6. /\ t.rows = rows /\ t.top = top /\ t.route = s.route
      /\ t.observed = s.observed /\ t.allowed = s.allowed
      /\ t.denied = s.denied /\ t.limited = s.limited
      /\ t.impacts = s.impacts /\ t.protected = s.protected
  BY <1>1 DEF SimulatorType
<1> QED
  BY <1>4, <1>5, <1>6 DEF t

(* On the next route the lists have the last one, and its counts are gone.  *)
LEMMA OnRouteIs ==
  ASSUME policy \in Policies, NEW s \in SimulatorType, NEW route \in Route
  PROVE  LET t == OnRoute(s, route)
         IN  /\ t \in SimulatorType
             /\ t.route = route
             /\ t.observed = s.observed /\ t.allowed = s.allowed
             /\ t.denied = s.denied /\ t.limited = s.limited
             /\ t.impacts = s.impacts /\ t.protected = s.protected
             /\ s.route \in {Nothing, route} => t.rows = s.rows /\ t.top = s.top
             /\ s.route \notin {Nothing, route} =>
                  t.rows = Flushed(s).rows /\ t.top = Flushed(s).top
<1> DEFINE flushed == IF s.route \in {Nothing, route} THEN s ELSE Flushed(s)
<1> DEFINE t == OnRoute(s, route)
<1>1. /\ flushed \in SimulatorType
      /\ flushed.observed = s.observed /\ flushed.allowed = s.allowed
      /\ flushed.denied = s.denied /\ flushed.limited = s.limited
      /\ flushed.impacts = s.impacts /\ flushed.protected = s.protected
  <2>1. s.route \notin {Nothing, route} => s.route \in Route
    BY DEF SimulatorType
  <2> QED
    BY <2>1, FlushedIs
<1>2. t = [flushed EXCEPT !.route = route]
  BY DEF OnRoute
<1>3. /\ s.route \in {Nothing, route} => flushed = s
      /\ s.route \notin {Nothing, route} => flushed = Flushed(s)
  OBVIOUS
<1> HIDE DEF t, flushed
<1>4. t \in SimulatorType
  BY <1>1, <1>2 DEF SimulatorType
<1>5. /\ t.route = route
      /\ t.observed = flushed.observed /\ t.allowed = flushed.allowed
      /\ t.denied = flushed.denied /\ t.limited = flushed.limited
      /\ t.impacts = flushed.impacts /\ t.protected = flushed.protected
      /\ t.rows = flushed.rows /\ t.top = flushed.top
  BY <1>1, <1>2 DEF SimulatorType
<1> QED
  BY <1>1, <1>3, <1>4, <1>5 DEF t

Passes(i) == policy[i].action \in {"allow", "cache"}
Denies(i) == policy[i].action = "deny"

(* What a cell adds: to the rule that decides on it, and to the totals.     *)
LEMMA AddedIs ==
  ASSUME policy \in Policies, NEW s \in SimulatorType, NEW cell \in Cell
  PROVE  LET t == Added(s, cell)
             on == OnRoute(s, cell.route)
             d == FirstMatch(cell)
             n == cell.requests
         IN  /\ t \in SimulatorType
             /\ t.observed = s.observed + n
             /\ t.limited = s.limited
             /\ t.route = cell.route
             /\ t.top = on.top
             /\ t.allowed = s.allowed + (IF d = 0 \/ Passes(d) THEN n ELSE 0)
             /\ t.denied = s.denied + (IF d # 0 /\ Denies(d) THEN n ELSE 0)
             /\ \A i \in DOMAIN policy \ {d} :
                  t.rows[i] = on.rows[i] /\ t.impacts[i] = s.impacts[i]
             /\ d # 0 =>
                  /\ t.rows[d] = on.rows[d] + n
                  /\ t.impacts[d] =
                       [matched |-> s.impacts[d].matched + n,
                        allowed |-> s.impacts[d].allowed + (IF Passes(d) THEN n ELSE 0),
                        denied |-> s.impacts[d].denied + (IF Denies(d) THEN n ELSE 0),
                        limited |-> s.impacts[d].limited]
             /\ s.protected \subseteq t.protected
             /\ d # 0 /\ Restrictive(d) /\ cell.claim \in Protected => cell.claim \in t.protected
<1> DEFINE t == Added(s, cell)
<1> DEFINE on == OnRoute(s, cell.route)
<1> DEFINE d == FirstMatch(cell)
<1> DEFINE n == cell.requests
<1> DEFINE seen == Observed(on, cell)
<1>1. n \in Nat /\ cell.route \in Route /\ cell.claim \in Claim
  BY DEF Cell
<1>2. d \in {0} \cup DOMAIN policy
  BY FirstMatchIs
<1>3. /\ on \in SimulatorType /\ on.route = cell.route
      /\ on.observed = s.observed /\ on.allowed = s.allowed
      /\ on.denied = s.denied /\ on.limited = s.limited
      /\ on.impacts = s.impacts /\ on.protected = s.protected
  BY <1>1, OnRouteIs
<1>4. t = IF d = 0 THEN [seen EXCEPT !.allowed = @ + n] ELSE Decided(seen, cell, d)
  BY DEF Added
<1>5. PICK actionable \in Nat, ambiguous \in SUBSET DOMAIN policy :
        seen = [on EXCEPT !.observed = on.observed + n, !.actionable = actionable,
                          !.ambiguous = ambiguous]
  <2> DEFINE tried == {i \in DOMAIN policy : d = 0 \/ i <= d}
  <2> DEFINE doubted == {i \in tried : /\ MatchesClaim(policy[i], cell.claim)
                                       /\ MatchesMethod(policy[i], cell.method)
                                       /\ Ambiguous(policy[i], cell.route)}
  <2> DEFINE actions == IF PrefixOf[cell.route] = NoPrefix THEN on.actionable
                        ELSE on.actionable + n
  <2>1. seen = [on EXCEPT !.observed = on.observed + n, !.actionable = actions,
                          !.ambiguous = on.ambiguous \cup doubted]
    BY <1>3 DEF Observed, SimulatorType
  <2>2. doubted \in SUBSET DOMAIN policy
    OBVIOUS
  <2> HIDE DEF on, doubted, tried, n
  <2>3. actions \in Nat /\ on.ambiguous \cup doubted \in SUBSET DOMAIN policy
    BY <1>1, <1>3, <2>2 DEF SimulatorType
  <2> QED
    BY <2>1, <2>3
<1> HIDE DEF t, on, d, n, seen
<1>6. /\ seen \in SimulatorType /\ seen.route = cell.route
      /\ seen.observed = s.observed + n /\ seen.allowed = s.allowed
      /\ seen.denied = s.denied /\ seen.limited = s.limited
      /\ seen.impacts = s.impacts /\ seen.protected = s.protected
      /\ seen.rows = on.rows /\ seen.top = on.top
  <2>1. seen \in SimulatorType
    <3>1. on.observed + n \in Nat
      BY <1>1, <1>3 DEF SimulatorType
    <3> QED
      BY <1>3, <1>5, <3>1 DEF SimulatorType
  <2> QED
    BY <1>3, <1>5, <2>1 DEF SimulatorType
<1>7. CASE d = 0
  <2>1. t = [seen EXCEPT !.allowed = @ + n]
    BY <1>4, <1>7
  <2>2. t \in SimulatorType
    BY <1>1, <1>6, <2>1, SMTT(30) DEF SimulatorType
  <2>3. /\ t.route = cell.route /\ t.observed = s.observed + n /\ t.allowed = s.allowed + n
        /\ t.denied = s.denied /\ t.limited = s.limited
        /\ t.impacts = s.impacts /\ t.protected = s.protected
        /\ t.rows = on.rows /\ t.top = on.top
    BY <1>6, <2>1 DEF SimulatorType
  <2>4. s.denied \in Nat
    BY DEF SimulatorType
  <2> QED
    BY <1>7, <2>2, <2>3, <2>4 DEF t, on, d, n
<1>8. CASE d # 0
  <2>0. d \in DOMAIN policy
    BY <1>2, <1>8
  <2> DEFINE passed == IF Passes(d) THEN n ELSE 0
  <2> DEFINE refused == IF Denies(d) THEN n ELSE 0
  <2> DEFINE impact == [matched |-> s.impacts[d].matched + n,
                        allowed |-> s.impacts[d].allowed + passed,
                        denied |-> s.impacts[d].denied + refused,
                        limited |-> s.impacts[d].limited]
  <2> DEFINE guarded == IF Restrictive(d) THEN {cell.claim} \cap Protected ELSE {}
  <2> DEFINE unclassified ==
        IF Denies(d) /\ cell.unclassified /\ ByPath(policy[d]) /\ ~ByClaim(policy[d])
        THEN {d} ELSE {}
  <2>1. /\ s.impacts \in [DOMAIN policy -> Impact]
        /\ s.impacts[d] \in Impact /\ s.allowed \in Nat /\ s.denied \in Nat
        /\ seen.rows \in [DOMAIN policy -> Nat] /\ seen.rows[d] \in Nat
        /\ seen.unclassified \in SUBSET DOMAIN policy
    BY <1>6, <2>0 DEF SimulatorType
  <2>2. t = [seen EXCEPT !.impacts = [s.impacts EXCEPT ![d] = impact],
                         !.allowed = s.allowed + passed,
                         !.denied = s.denied + refused,
                         !.rows = [seen.rows EXCEPT ![d] = @ + n],
                         !.protected = s.protected \cup guarded,
                         !.unclassified = seen.unclassified \cup unclassified]
    BY <1>4, <1>6, <1>8, <2>0, <2>1
    DEF Decided, SimulatorType, Impact, Passes, Denies, Restrictive, n
  <2>3. /\ passed \in Nat /\ refused \in Nat /\ guarded \in SUBSET Claim
        /\ unclassified \in SUBSET DOMAIN policy
    BY <1>1, <2>0
  <2> HIDE DEF passed, refused, guarded, unclassified
  <2>4. impact \in Impact
    BY <1>1, <2>1, <2>3 DEF Impact
  <2>5. t \in SimulatorType
    <3>1. [s.impacts EXCEPT ![d] = impact] \in [DOMAIN policy -> Impact]
      BY <2>0, <2>1, <2>4
    <3>2. [seen.rows EXCEPT ![d] = @ + n] \in [DOMAIN policy -> Nat]
      BY <1>1, <2>0, <2>1
    <3>3. s.allowed + passed \in Nat /\ s.denied + refused \in Nat
      BY <2>1, <2>3
    <3>4. s.protected \cup guarded \in SUBSET Claim
      BY <2>3 DEF SimulatorType
    <3>5. seen.unclassified \cup unclassified \in SUBSET DOMAIN policy
      BY <2>1, <2>3
    <3> HIDE DEF impact
    <3> QED
      BY <1>6, <2>2, <3>1, <3>2, <3>3, <3>4, <3>5 DEF SimulatorType
  <2>6. /\ t.route = cell.route /\ t.observed = s.observed + n
        /\ t.allowed = s.allowed + passed /\ t.denied = s.denied + refused
        /\ t.limited = s.limited
        /\ t.impacts = [s.impacts EXCEPT ![d] = impact]
        /\ t.protected = s.protected \cup guarded
        /\ t.rows = [seen.rows EXCEPT ![d] = @ + n] /\ t.top = on.top
    BY <1>6, <2>2 DEF SimulatorType
  <2>7. /\ \A i \in DOMAIN policy \ {d} : t.rows[i] = on.rows[i] /\ t.impacts[i] = s.impacts[i]
        /\ t.rows[d] = on.rows[d] + n /\ t.impacts[d] = impact
    BY <1>6, <2>0, <2>1, <2>6
  <2>8. Restrictive(d) /\ cell.claim \in Protected => cell.claim \in t.protected
    BY <2>6 DEF guarded
  <2>9. /\ t.allowed = s.allowed + (IF d = 0 \/ Passes(d) THEN n ELSE 0)
        /\ t.denied = s.denied + (IF d # 0 /\ Denies(d) THEN n ELSE 0)
    BY <1>8, <2>6 DEF passed, refused
  <2>10. t.impacts[d] = [matched |-> s.impacts[d].matched + n,
                        allowed |-> s.impacts[d].allowed + (IF Passes(d) THEN n ELSE 0),
                        denied |-> s.impacts[d].denied + (IF Denies(d) THEN n ELSE 0),
                        limited |-> s.impacts[d].limited]
    BY <2>7 DEF passed, refused
  <2> HIDE DEF impact
  <2> QED
    BY <1>8, <2>5, <2>6, <2>7, <2>8, <2>9, <2>10 DEF t, on, d, n
<1> QED
  BY <1>7, <1>8

-----------------------------------------------------------------------------
(* What the simulator knows after n cells *)

Of(i, n) == {k \in 1 .. n : DecidedBy(workspace.cells[k], i)}
RowsOn(i, n, route) == {k \in Of(i, n) : workspace.cells[k].route = route}

Rated == {i \in DOMAIN policy : policy[i].action = "rate_limit"}

(* The rules of the lists that are finished: one entry for each route that  *)
(* has requests.                                                            *)
EntryOf(i, n, route) ==
  [route |-> route, requests |-> RequestsOf(workspace.cells, RowsOn(i, n, route))]

Listed(i, n, R) ==
  {entry \in {EntryOf(i, n, route) : route \in R} : entry.requests > 0}

ImpactOf(i, n) ==
  LET matched == RequestsOf(workspace.cells, Of(i, n))
  IN  [matched |-> matched,
       allowed |-> IF Passes(i) THEN matched ELSE 0,
       denied |-> IF Denies(i) THEN matched ELSE 0,
       limited |-> 0]

Counts(s, n) ==
  /\ s \in SimulatorType /\ s.limited = 0
  /\ s.observed = RequestsOf(workspace.cells, 1 .. n)
  /\ \A i \in DOMAIN policy : s.impacts[i] = ImpactOf(i, n)
  /\ s.denied = Sum([i \in DOMAIN policy |-> s.impacts[i].denied], DOMAIN policy)
  /\ s.observed =
       s.allowed + s.denied + Sum([i \in DOMAIN policy |-> s.impacts[i].matched], Rated)
  /\ \A k \in 1 .. n :
       LET cell == workspace.cells[k]
           d == FirstMatch(cell)
       IN  d # 0 /\ Restrictive(d) /\ cell.claim \in Protected => cell.claim \in s.protected

Lists(s, n) ==
  /\ s.route = IF n = 0 THEN Nothing ELSE workspace.cells[n].route
  /\ \A i \in DOMAIN policy :
       /\ s.rows[i] = RequestsOf(workspace.cells, RowsOn(i, n, s.route))
       /\ s.top[i] = Top(Listed(i, n, Route \ {s.route}))

(* Nothing, added up. *)
LEMMA SumOfNone ==
  ASSUME NEW S, IsFiniteSet(S), NEW f, \A x \in S : f[x] = 0
  PROVE  Sum(f, S) = 0
<1> DEFINE none == [x \in S |-> 0]
<1>1. \A x \in S : none[x] \in Nat /\ f[x] \in Nat /\ f[x] = none[x] + f[x] /\ none[x] = f[x]
  OBVIOUS
<1> HIDE DEF none
<1>2. Sum(f, S) = Sum(none, S) + Sum(f, S)
  BY <1>1, SumPlus
<1>3. Sum(none, S) = Sum(f, S)
  BY <1>1, SumSame
<1> DEFINE total == Sum(f, S)
<1>4. total \in Nat
  BY <1>1, SumFacts
<1>5. total = total + total
  BY <1>2, <1>3
<1> HIDE DEF total
<1>6. total = 0
  BY <1>4, <1>5
<1> QED
  BY <1>6 DEF total

(* The cells of a rule, with one cell more. *)
LEMMA OneCellMore ==
  ASSUME policy \in Policies, workspace \in Workspaces,
         NEW n \in Nat, n < Len(workspace.cells), NEW i \in DOMAIN policy
  PROVE  LET cells == workspace.cells
             d == FirstMatch(cells[n + 1])
         IN  /\ Of(i, n) \in SUBSET DOMAIN cells /\ n + 1 \notin Of(i, n)
             /\ n + 1 \in DOMAIN cells
             /\ Of(i, n + 1) = IF d = i THEN Of(i, n) \cup {n + 1} ELSE Of(i, n)
             /\ 1 .. n \in SUBSET DOMAIN cells
             /\ 1 .. (n + 1) = (1 .. n) \cup {n + 1}
<1> DEFINE cells == workspace.cells
<1>1. DOMAIN cells = 1 .. Len(cells) /\ Len(cells) \in Nat
  BY WorkspaceIs
<1>2. 1 .. (n + 1) = (1 .. n) \cup {n + 1} /\ n + 1 \notin 1 .. n
  OBVIOUS
<1>3. DecidedBy(cells[n + 1], i) <=> FirstMatch(cells[n + 1]) = i
  BY FirstMatchIs
<1>4. 1 .. n \in SUBSET DOMAIN cells /\ n + 1 \in DOMAIN cells
  BY <1>1
<1> HIDE DEF cells
<1>5. Of(i, n) \in SUBSET (1 .. n)
  BY DEF Of
<1>6. Of(i, n + 1) = IF FirstMatch(cells[n + 1]) = i THEN Of(i, n) \cup {n + 1} ELSE Of(i, n)
  BY <1>2, <1>3, SMTT(30) DEF Of, cells
<1> QED
  BY <1>2, <1>4, <1>5, <1>6 DEF cells

(* Every cell is counted where it belongs. *)
LEMMA CountsStep ==
  ASSUME policy \in Policies, workspace \in Workspaces,
         NEW n \in Nat, n < Len(workspace.cells), NEW s, Counts(s, n)
  PROVE  Counts(Added(s, workspace.cells[n + 1]), n + 1)
<1> DEFINE cells == workspace.cells
<1> DEFINE cell == cells[n + 1]
<1> DEFINE d == FirstMatch(cell)
<1> DEFINE q == cell.requests
<1> DEFINE t == Added(s, cell)
<1> DEFINE matched == [i \in DOMAIN policy |-> s.impacts[i].matched]
<1> DEFINE denied == [i \in DOMAIN policy |-> s.impacts[i].denied]
<1> DEFINE nextMatched == [i \in DOMAIN policy |-> t.impacts[i].matched]
<1> DEFINE nextDenied == [i \in DOMAIN policy |-> t.impacts[i].denied]
<1>1. /\ cells \in Seq(Cell) /\ Len(cells) \in Nat
      /\ DOMAIN cells = 1 .. Len(cells) /\ n + 1 \in DOMAIN cells
  BY WorkspaceIs
<1>2. cell \in Cell /\ q \in Nat
  <2>1. cell \in Cell
    BY <1>1, WorkspaceIs
  <2> QED
    BY <2>1 DEF Cell
<1>3. d \in {0} \cup DOMAIN policy /\ 0 \notin DOMAIN policy
  BY FirstMatchIs, PolicyIs
<1>4. IsFiniteSet(DOMAIN policy) /\ Rated \in SUBSET DOMAIN policy /\ IsFiniteSet(Rated)
  BY PolicyIs, FS_Subset DEF Rated
<1>5. s \in SimulatorType
  BY SMTT(30) DEF Counts
<1>6. /\ t \in SimulatorType
      /\ t.observed = s.observed + q
      /\ t.limited = s.limited
      /\ t.allowed = s.allowed + (IF d = 0 \/ Passes(d) THEN q ELSE 0)
      /\ t.denied = s.denied + (IF d # 0 /\ Denies(d) THEN q ELSE 0)
      /\ \A i \in DOMAIN policy \ {d} : t.impacts[i] = s.impacts[i]
      /\ d # 0 => t.impacts[d] =
                    [matched |-> s.impacts[d].matched + q,
                     allowed |-> s.impacts[d].allowed + (IF Passes(d) THEN q ELSE 0),
                     denied |-> s.impacts[d].denied + (IF Denies(d) THEN q ELSE 0),
                     limited |-> s.impacts[d].limited]
      /\ s.protected \subseteq t.protected
      /\ d # 0 /\ Restrictive(d) /\ cell.claim \in Protected => cell.claim \in t.protected
  BY <1>2, <1>5, AddedIs
<1>7. /\ \A i \in DOMAIN policy :
           /\ Of(i, n) \in SUBSET DOMAIN cells /\ n + 1 \notin Of(i, n)
           /\ Of(i, n + 1) = IF d = i THEN Of(i, n) \cup {n + 1} ELSE Of(i, n)
      /\ 1 .. n \in SUBSET DOMAIN cells /\ 1 .. (n + 1) = (1 .. n) \cup {n + 1}
      /\ n + 1 \notin 1 .. n
  <2>1. ASSUME NEW i \in DOMAIN policy
        PROVE  /\ Of(i, n) \in SUBSET DOMAIN cells /\ n + 1 \notin Of(i, n)
               /\ Of(i, n + 1) = IF d = i THEN Of(i, n) \cup {n + 1} ELSE Of(i, n)
    BY OneCellMore
  <2>2. 1 .. n \in SUBSET DOMAIN cells
    BY <1>1
  <2>3. 1 .. (n + 1) = (1 .. n) \cup {n + 1} /\ n + 1 \notin 1 .. n
    OBVIOUS
  <2> HIDE DEF cells, d
  <2> QED
    BY <2>1, <2>2, <2>3
<1>8. /\ s.observed \in Nat /\ s.allowed \in Nat /\ s.denied \in Nat
      /\ \A i \in DOMAIN policy : /\ s.impacts[i] \in Impact
                                  /\ s.impacts[i].matched \in Nat
                                  /\ s.impacts[i].denied \in Nat
  BY <1>5 DEF SimulatorType, Impact
<1> HIDE DEF cells, cell, d, q, t
<1>9. /\ \A i \in DOMAIN policy :
           RequestsOf(cells, Of(i, n + 1)) =
             RequestsOf(cells, Of(i, n)) + (IF d = i THEN q ELSE 0)
      /\ \A i \in DOMAIN policy : RequestsOf(cells, Of(i, n)) \in Nat
      /\ RequestsOf(cells, 1 .. (n + 1)) = RequestsOf(cells, 1 .. n) + q
  <2>1. ASSUME NEW i \in DOMAIN policy
        PROVE  /\ RequestsOf(cells, Of(i, n)) \in Nat
               /\ RequestsOf(cells, Of(i, n + 1)) =
                    RequestsOf(cells, Of(i, n)) + (IF d = i THEN q ELSE 0)
    <3>1. RequestsOf(cells, Of(i, n)) \in Nat
      BY <1>1, <1>7, RequestsAre
    <3>2. CASE d = i
      <4>1. Of(i, n + 1) = Of(i, n) \cup {n + 1}
        BY <1>7, <3>2
      <4>2. RequestsOf(cells, Of(i, n) \cup {n + 1}) = RequestsOf(cells, Of(i, n)) + q
        BY <1>1, <1>7, RequestsAdd DEF q, cell
      <4> QED
        BY <3>1, <3>2, <4>1, <4>2
    <3>3. CASE d # i
      <4>1. Of(i, n + 1) = Of(i, n)
        BY <1>7, <3>3
      <4>2. RequestsOf(cells, Of(i, n + 1)) = RequestsOf(cells, Of(i, n))
        BY <4>1
      <4> QED
        BY <3>1, <3>3, <4>2
    <3> QED
      BY <3>1, <3>2, <3>3
  <2>2. RequestsOf(cells, (1 .. n) \cup {n + 1}) = RequestsOf(cells, 1 .. n) + q
    BY <1>1, <1>7, RequestsAdd DEF q, cell
  <2>3. RequestsOf(cells, 1 .. (n + 1)) = RequestsOf(cells, (1 .. n) \cup {n + 1})
    BY <1>7, Zenon
  <2> QED
    BY <2>1, <2>2, <2>3
<1>10. t.observed = RequestsOf(cells, 1 .. (n + 1)) /\ t.limited = 0
  BY <1>6, <1>9 DEF Counts, cells
<1>11. ASSUME NEW i \in DOMAIN policy PROVE t.impacts[i] = ImpactOf(i, n + 1)
  <2>1. s.impacts[i] = ImpactOf(i, n)
    BY DEF Counts
  <2>2. RequestsOf(cells, Of(i, n)) \in Nat
    BY <1>9
  <2>3. CASE d = i
    <3>1. RequestsOf(cells, Of(i, n + 1)) = RequestsOf(cells, Of(i, n)) + q
      BY <1>9, <2>3
    <3> QED
      BY <1>2, <1>3, <1>6, <2>1, <2>2, <2>3, <3>1 DEF ImpactOf, cells
  <2>4. CASE d # i
    <3>1. RequestsOf(cells, Of(i, n + 1)) = RequestsOf(cells, Of(i, n))
      BY <1>9, <2>2, <2>4
    <3> QED
      BY <1>6, <2>1, <2>4, <3>1 DEF ImpactOf, cells
  <2> QED
    BY <2>3, <2>4
<1>12. /\ Sum(nextDenied, DOMAIN policy) =
            Sum(denied, DOMAIN policy) + (IF d # 0 /\ Denies(d) THEN q ELSE 0)
       /\ Sum(nextMatched, Rated) = Sum(matched, Rated) + (IF d \in Rated THEN q ELSE 0)
       /\ Sum(denied, DOMAIN policy) \in Nat /\ Sum(matched, Rated) \in Nat
  <2>1. /\ \A i \in DOMAIN policy : /\ denied[i] \in Nat /\ matched[i] \in Nat
                                    /\ i # d => /\ nextDenied[i] = denied[i]
                                                /\ nextMatched[i] = matched[i]
        /\ d # 0 => /\ nextDenied[d] = denied[d] + (IF Denies(d) THEN q ELSE 0)
                    /\ nextMatched[d] = matched[d] + q
    BY <1>3, <1>6, <1>8
  <2> HIDE DEF denied, matched, nextDenied, nextMatched
  <2>2. Sum(denied, DOMAIN policy) \in Nat /\ Sum(matched, Rated) \in Nat
    BY <1>4, <2>1, SumFacts
  <2>3. CASE d # 0 /\ Denies(d)
    <3>1. d \in DOMAIN policy /\ nextDenied[d] = denied[d] + q
      BY <1>3, <2>1, <2>3
    <3>2. Sum(nextDenied, DOMAIN policy) = Sum(denied, DOMAIN policy) + q
      <4> DEFINE S == DOMAIN policy
      <4>1. /\ \A i \in S : denied[i] \in Nat
            /\ \A i \in S \ {d} : nextDenied[i] = denied[i]
            /\ IsFiniteSet(S) /\ d \in S /\ nextDenied[d] = denied[d] + q
        BY <1>4, <2>1, <3>1
      <4> HIDE DEF S
      <4>2. Sum(nextDenied, S) = Sum(denied, S) + q
        BY <1>2, <4>1, SumOneMore
      <4> QED
        BY <4>2 DEF S
    <3>3. d \notin Rated
      BY <2>3 DEF Rated, Denies
    <3>4. Sum(nextMatched, Rated) = Sum(matched, Rated)
      BY <1>4, <2>1, <3>3, SumSame
    <3> QED
      BY <2>2, <2>3, <3>2, <3>3, <3>4
  <2>4. CASE ~(d # 0 /\ Denies(d))
    <3>1. \A i \in DOMAIN policy : nextDenied[i] = denied[i]
      BY <1>3, <2>1, <2>4
    <3>2. Sum(nextDenied, DOMAIN policy) = Sum(denied, DOMAIN policy)
      BY <1>4, <3>1, SumSame
    <3>3. CASE d \in Rated
      <4>1. Sum(nextMatched, Rated) = Sum(matched, Rated) + q
        <5>1. /\ \A i \in Rated : matched[i] \in Nat
              /\ \A i \in Rated \ {d} : nextMatched[i] = matched[i]
          BY <1>4, <2>1
        <5>2. nextMatched[d] = matched[d] + q
          BY <1>3, <1>4, <2>1, <3>3
        <5> QED
          BY <1>2, <1>4, <3>3, <5>1, <5>2, SumOneMore
      <4> QED
        BY <2>2, <2>4, <3>2, <3>3, <4>1
    <3>4. CASE d \notin Rated
      <4>1. Sum(nextMatched, Rated) = Sum(matched, Rated)
        BY <1>4, <2>1, <3>4, SumSame
      <4> QED
        BY <2>2, <2>4, <3>2, <3>4, <4>1
    <3> QED
      BY <3>3, <3>4
  <2> QED
    BY <2>3, <2>4
<1>13. t.denied = Sum(nextDenied, DOMAIN policy)
  BY <1>6, <1>12 DEF Counts
<1>14. t.observed = t.allowed + t.denied + Sum(nextMatched, Rated)
  <2>1. s.observed = s.allowed + s.denied + Sum(matched, Rated)
    BY DEF Counts
  <2>2. d # 0 => \/ Passes(d) /\ ~Denies(d) /\ d \notin Rated
                 \/ ~Passes(d) /\ Denies(d) /\ d \notin Rated
                 \/ ~Passes(d) /\ ~Denies(d) /\ d \in Rated
    <3>1. \A i \in DOMAIN policy : policy[i].action \in {"allow", "deny", "rate_limit", "cache"}
      BY PolicyIs DEF Rule
    <3> QED
      BY <1>3, <3>1 DEF Passes, Denies, Rated
  <2>3. d = 0 => d \notin Rated
    BY <1>3, <1>4
  <2> DEFINE before == Sum(matched, Rated)
             after == Sum(nextMatched, Rated)
  <2>4. s.observed = s.allowed + s.denied + before
    BY <2>1
  <2>5. /\ after = before + (IF d \in Rated THEN q ELSE 0)
        /\ before \in Nat
    BY <1>12
  <2> HIDE DEF before, after
  <2>6. t.observed = t.allowed + t.denied + after
    BY <1>2, <1>6, <1>8, <2>2, <2>3, <2>4, <2>5
  <2> QED
    BY <2>6 DEF after
<1>15. ASSUME NEW k \in 1 .. (n + 1)
       PROVE  LET c == cells[k]
                  e == FirstMatch(c)
              IN  e # 0 /\ Restrictive(e) /\ c.claim \in Protected => c.claim \in t.protected
  <2>1. CASE k = n + 1
    BY <1>6, <2>1 DEF d, cell
  <2>2. CASE k # n + 1
    <3>1. k \in 1 .. n
      BY <1>7, <2>2
    <3> QED
      BY <1>6, <3>1 DEF Counts, cells
  <2> QED
    BY <2>1, <2>2
<1> QED
  BY <1>6, <1>10, <1>11, <1>13, <1>14, <1>15 DEF Counts, t, cell, cells

(* The lists of a rule are finite, as every entry has a cell. *)
LEMMA ListedIs ==
  ASSUME policy \in Policies, workspace \in Workspaces,
         NEW n \in 0 .. Len(workspace.cells), NEW i \in DOMAIN policy, NEW R \in SUBSET Route
  PROVE  /\ IsFiniteSet(Listed(i, n, R))
         /\ Listed(i, n, R) \in SUBSET [route : Route, requests : Nat \ {0}]
         /\ Listed(i, n, R) \in SUBSET Entry
<1> DEFINE cells == workspace.cells
<1> DEFINE entry == [k \in 1 .. n |->
              [route |-> cells[k].route,
               requests |-> RequestsOf(cells, RowsOn(i, n, cells[k].route))]]
<1> DEFINE image == {entry[k] : k \in 1 .. n}
<1>1. /\ cells \in Seq(Cell) /\ Len(cells) \in Nat
      /\ DOMAIN cells = 1 .. Len(cells)
  BY WorkspaceIs
<1>2. n \in Nat /\ 1 .. n \in SUBSET DOMAIN cells
  BY <1>1
<1>3. \A route : RowsOn(i, n, route) \in SUBSET (1 .. n)
  BY DEF RowsOn, Of
<1>4. \A route : RequestsOf(cells, RowsOn(i, n, route)) \in Nat
  <2> SUFFICES ASSUME NEW route PROVE RequestsOf(cells, RowsOn(i, n, route)) \in Nat
    OBVIOUS
  <2>1. RowsOn(i, n, route) \in SUBSET DOMAIN cells
    BY <1>2, <1>3
  <2> QED
    BY <1>1, <2>1, RequestsAre
<1>5. ASSUME NEW e \in Listed(i, n, R)
      PROVE  e \in image /\ e \in [route : Route, requests : Nat \ {0}] /\ e \in Entry
  <2>1. PICK route \in R :
          /\ e = [route |-> route, requests |-> RequestsOf(cells, RowsOn(i, n, route))]
          /\ e.requests > 0
    BY DEF Listed, EntryOf
  <2>2. RowsOn(i, n, route) # {}
    <3>1. RequestsOf(cells, {}) = 0
      BY <1>1, RequestsOfNone
    <3>2. e.requests = RequestsOf(cells, RowsOn(i, n, route))
      BY <2>1
    <3>3. RowsOn(i, n, route) = {} => e.requests = RequestsOf(cells, {})
      BY <3>2
    <3> HIDE DEF cells
    <3> QED
      BY <2>1, <3>1, <3>3
  <2>3. PICK k \in 1 .. n : cells[k].route = route
    BY <2>2 DEF RowsOn, Of
  <2>4. e = entry[k]
    BY <2>1, <2>3
  <2>5. e.requests \in Nat \ {0} /\ route \in Route /\ route \in Nat
    BY <1>4, <2>1, PolicyAssumption
  <2> HIDE DEF entry
  <2> QED
    BY <2>1, <2>3, <2>4, <2>5 DEF Entry
<1>6. IsFiniteSet(image)
  <2>1. entry \in Surjection(1 .. n, image)
    BY DEF Surjection
  <2>2. IsFiniteSet(1 .. n)
    BY <1>2, FS_Interval
  <2> HIDE DEF entry, image
  <2> QED
    BY <2>1, <2>2, FS_Surjection
<1> HIDE DEF image
<1>7. Listed(i, n, R) \in SUBSET image
  BY <1>5
<1> QED
  BY <1>5, <1>6, <1>7, FS_Subset

(* A route more is an entry more, if it has requests.                       *)
LEMMA OneRouteMore ==
  ASSUME NEW i, NEW n, NEW R, NEW route, NEW S, S = R \cup {route},
         RequestsOf(workspace.cells, RowsOn(i, n, route)) \in Nat
  PROVE  LET requests == RequestsOf(workspace.cells, RowsOn(i, n, route))
         IN  /\ requests = 0 => Listed(i, n, S) = Listed(i, n, R)
             /\ requests # 0 => Listed(i, n, S) = Listed(i, n, R) \cup {EntryOf(i, n, route)}
<1> DEFINE requests == RequestsOf(workspace.cells, RowsOn(i, n, route))
<1>1. \A T : Listed(i, n, T) = {e \in {EntryOf(i, n, r) : r \in T} : e.requests > 0}
  BY DEF Listed
<1>2. EntryOf(i, n, route).requests = requests
  BY DEF EntryOf
<1>3. requests > 0 <=> requests # 0
  OBVIOUS
<1> HIDE DEF requests
<1>4. {EntryOf(i, n, r) : r \in S} = {EntryOf(i, n, r) : r \in R} \cup {EntryOf(i, n, route)}
  OBVIOUS
<1>5. Listed(i, n, S) = Listed(i, n, R) \cup {e \in {EntryOf(i, n, route)} : e.requests > 0}
  BY <1>1, <1>4
<1>6. {e \in {EntryOf(i, n, route)} : e.requests > 0} =
        IF requests = 0 THEN {} ELSE {EntryOf(i, n, route)}
  BY <1>2, <1>3
<1>7. Listed(i, n, S) = IF requests = 0 THEN Listed(i, n, R)
                        ELSE Listed(i, n, R) \cup {EntryOf(i, n, route)}
  BY <1>5, <1>6
<1> QED
  BY <1>7 DEF requests

(* A cell more changes nothing on the other routes. *)
LEMMA OtherRoutes ==
  ASSUME policy \in Policies, workspace \in Workspaces,
         NEW n \in Nat, n < Len(workspace.cells), NEW i \in DOMAIN policy
  PROVE  LET cell == workspace.cells[n + 1]
             mine == RowsOn(i, n, cell.route)
         IN  /\ \A R : cell.route \notin R => Listed(i, n + 1, R) = Listed(i, n, R)
             /\ RowsOn(i, n + 1, cell.route) =
                  IF FirstMatch(cell) = i THEN mine \cup {n + 1} ELSE mine
             /\ mine \in SUBSET DOMAIN workspace.cells /\ n + 1 \notin mine
<1> DEFINE cell == workspace.cells[n + 1]
<1> DEFINE d == FirstMatch(cell)
<1>1. /\ Of(i, n) \in SUBSET DOMAIN workspace.cells /\ n + 1 \notin Of(i, n)
      /\ Of(i, n + 1) = IF d = i THEN Of(i, n) \cup {n + 1} ELSE Of(i, n)
  BY OneCellMore
<1> HIDE DEF d
<1>2. \A route : route # cell.route => RowsOn(i, n + 1, route) = RowsOn(i, n, route)
  BY <1>1 DEF RowsOn
<1>3. \A R : cell.route \notin R => Listed(i, n + 1, R) = Listed(i, n, R)
  <2> SUFFICES ASSUME NEW R, cell.route \notin R
               PROVE  Listed(i, n + 1, R) = Listed(i, n, R)
    OBVIOUS
  <2>1. \A route \in R : RowsOn(i, n + 1, route) = RowsOn(i, n, route)
    BY <1>2
  <2> QED
    BY <2>1 DEF Listed, EntryOf
<1>4. RowsOn(i, n + 1, cell.route) =
        IF d = i THEN RowsOn(i, n, cell.route) \cup {n + 1} ELSE RowsOn(i, n, cell.route)
  BY <1>1 DEF RowsOn
<1>5. /\ RowsOn(i, n, cell.route) \in SUBSET DOMAIN workspace.cells
      /\ n + 1 \notin RowsOn(i, n, cell.route)
  BY <1>1 DEF RowsOn
<1> QED
  BY <1>3, <1>4, <1>5 DEF d

(* Nothing was seen of a route before its first cell, as cells are in order.*)
LEMMA RouteIsNew ==
  ASSUME workspace \in Workspaces, NEW n \in Nat \ {0}, n < Len(workspace.cells),
         workspace.cells[n].route # workspace.cells[n + 1].route, NEW i
  PROVE  RowsOn(i, n, workspace.cells[n + 1].route) = {}
<1> DEFINE cells == workspace.cells
<1>1. /\ DOMAIN cells = 1 .. Len(cells) /\ Len(cells) \in Nat
      /\ \A k \in DOMAIN cells : cells[k] \in Cell
  BY WorkspaceIs
<1>2. \A j, k \in DOMAIN cells : j <= k => cells[j].route <= cells[k].route
  BY WorkspaceAssumption
<1>3. ASSUME NEW k \in 1 .. n PROVE cells[k].route # cells[n + 1].route
  <2>1. k \in DOMAIN cells /\ n \in DOMAIN cells /\ n + 1 \in DOMAIN cells
        /\ k <= n /\ n <= n + 1
    BY <1>1
  <2>2. cells[k].route <= cells[n].route /\ cells[n].route <= cells[n + 1].route
    BY <1>2, <2>1
  <2>3. cells[k].route \in Nat /\ cells[n].route \in Nat /\ cells[n + 1].route \in Nat
    BY <1>1, <2>1, PolicyAssumption DEF Cell
  <2> QED
    BY <2>2, <2>3
<1> QED
  BY <1>3 DEF RowsOn, Of

(* Cutting a list route by route does not change it. *)
LEMMA CutRouteByRoute ==
  ASSUME policy \in Policies, workspace \in Workspaces,
         NEW n \in 1 .. Len(workspace.cells), NEW s \in SimulatorType, Lists(s, n),
         NEW i \in DOMAIN policy
  PROVE  Flushed(s).top[i] = Top(Listed(i, n, Route))
<1> DEFINE requests == RequestsOf(workspace.cells, RowsOn(i, n, s.route))
<1> DEFINE others == Listed(i, n, Route \ {s.route})
<1>0. n # 0 /\ n \in Nat /\ n \in DOMAIN workspace.cells
  BY WorkspaceIs
<1>1. /\ s.route = workspace.cells[n].route
      /\ s.rows[i] = requests /\ s.top[i] = Top(others)
  BY <1>0 DEF Lists
<1>2. s.route \in Route /\ n \in 0 .. Len(workspace.cells)
  BY <1>0, <1>1, WorkspaceIs DEF Cell
<1>3. requests \in Nat
  BY <1>1 DEF SimulatorType
<1>4. /\ requests = 0 => Listed(i, n, Route) = others
      /\ requests # 0 =>
           Listed(i, n, Route) = others \cup {EntryOf(i, n, s.route)}
      /\ EntryOf(i, n, s.route) = [route |-> s.route, requests |-> requests]
  <2>1. EntryOf(i, n, s.route) = [route |-> s.route, requests |-> requests]
    BY DEF EntryOf
  <2> DEFINE rest == Route \ {s.route}
  <2>2. Route = rest \cup {s.route} /\ requests \in Nat
    BY <1>2, <1>3
  <2>3. others = Listed(i, n, rest)
    OBVIOUS
  <2> HIDE DEF rest, others
  <2>4. /\ requests = 0 => Listed(i, n, Route) = Listed(i, n, rest)
        /\ requests # 0 => Listed(i, n, Route) = Listed(i, n, rest) \cup {EntryOf(i, n, s.route)}
    BY <2>2, OneRouteMore
  <2> QED
    BY <2>1, <2>3, <2>4
<1>5. IsFiniteSet(others) /\ others \in SUBSET Entry
  BY <1>2, ListedIs
<1>6. Flushed(s).top[i] = IF s.rows[i] = 0 THEN s.top[i]
                          ELSE Top(s.top[i] \cup {[route |-> s.route, requests |-> s.rows[i]]})
  BY <1>2, FlushedIs
<1>7. [route |-> s.route, requests |-> requests] \in Entry
  BY <1>2, <1>3, PolicyAssumption DEF Entry
<1> HIDE DEF requests, others
<1>8. Top(Top(others) \cup {[route |-> s.route, requests |-> requests]}) =
        Top(others \cup {[route |-> s.route, requests |-> requests]})
  BY <1>5, <1>7, TopOfTop
<1> QED
  BY <1>1, <1>4, <1>6, <1>8

(* The lists have every route that was left behind. *)
LEMMA ListsStep ==
  ASSUME policy \in Policies, workspace \in Workspaces,
         NEW n \in Nat, n < Len(workspace.cells),
         NEW s \in SimulatorType, Lists(s, n)
  PROVE  Lists(Added(s, workspace.cells[n + 1]), n + 1)
<1> DEFINE cells == workspace.cells
<1> DEFINE cell == cells[n + 1]
<1> DEFINE r == cell.route
<1> DEFINE on == OnRoute(s, r)
<1> DEFINE t == Added(s, cell)
<1> DEFINE d == FirstMatch(cell)
<1>1. /\ cells \in Seq(Cell) /\ DOMAIN cells = 1 .. Len(cells) /\ n + 1 \in DOMAIN cells
      /\ Len(cells) \in Nat
  BY WorkspaceIs
<1>2. cell \in Cell /\ r \in Route /\ cell.requests \in Nat
  <2>1. cell \in Cell
    BY <1>1, WorkspaceIs
  <2> QED
    BY <2>1 DEF Cell
<1>3. /\ t \in SimulatorType /\ t.route = r /\ t.top = on.top
      /\ \A i \in DOMAIN policy \ {d} : t.rows[i] = on.rows[i]
      /\ d # 0 => t.rows[d] = on.rows[d] + cell.requests
  BY <1>2, AddedIs
<1>4. 0 \notin DOMAIN policy
  BY PolicyIs
<1>5. ASSUME NEW i \in DOMAIN policy
      PROVE  /\ on.rows[i] = RequestsOf(cells, RowsOn(i, n, r))
             /\ on.top[i] = Top(Listed(i, n, Route \ {r}))
  <2>0. RequestsOf(cells, {}) = 0
    BY <1>1, RequestsOfNone
  <2>1. CASE n = 0
    <3>1. \A route : RowsOn(i, n, route) = {}
      BY <2>1 DEF RowsOn, Of
    <3>2. \A R : Listed(i, n, R) = {}
      <4>1. \A route : RequestsOf(cells, RowsOn(i, n, route)) = 0
        BY <2>0, <3>1
      <4>2. ~(0 > 0)
        OBVIOUS
      <4> SUFFICES ASSUME NEW R, NEW e \in Listed(i, n, R) PROVE FALSE
        OBVIOUS
      <4>3. PICK route \in R :
              /\ e = [route |-> route, requests |-> RequestsOf(cells, RowsOn(i, n, route))]
              /\ e.requests > 0
        BY DEF Listed, EntryOf
      <4>4. e.requests = 0
        BY <4>1, <4>3
      <4> QED
        BY <4>2, <4>3, <4>4
    <3>3. s.route = Nothing
      BY <2>1 DEF Lists
    <3>4. on.rows = s.rows /\ on.top = s.top
      BY <1>2, <3>3, OnRouteIs
    <3>5. s.rows[i] = RequestsOf(cells, {}) /\ s.top[i] = Top({})
      BY <3>1, <3>2 DEF Lists
    <3>6. RequestsOf(cells, RowsOn(i, n, r)) = RequestsOf(cells, {})
          /\ Top(Listed(i, n, Route \ {r})) = Top({})
      BY <3>1, <3>2
    <3> QED
      BY <3>4, <3>5, <3>6
  <2>2. CASE n # 0 /\ s.route = r
    <3>1. on.rows = s.rows /\ on.top = s.top
      BY <1>2, <2>2, OnRouteIs
    <3> QED
      BY <2>2, <3>1 DEF Lists
  <2>3. CASE n # 0 /\ s.route # r
    <3>1. n \in 1 .. Len(cells) /\ n \in Nat \ {0} /\ n \in DOMAIN cells
      BY <1>1, <2>3
    <3>2. s.route = cells[n].route /\ s.route \in Route
      BY <2>3, <3>1, WorkspaceIs DEF Lists, Cell
    <3>3. s.route # Nothing
      BY <3>2, CatalogAssumption
    <3>4. on.rows = Flushed(s).rows /\ on.top = Flushed(s).top
      BY <1>2, <2>3, <3>3, OnRouteIs
    <3>5. RowsOn(i, n, r) = {}
      BY <2>3, <3>1, <3>2, RouteIsNew
    <3>6. RequestsOf(cells, RowsOn(i, n, r)) = 0
      BY <2>0, <3>5
    <3>7. Listed(i, n, Route) = Listed(i, n, Route \ {r})
      <4> DEFINE rest == Route \ {r}
      <4>1. Route = rest \cup {r}
        BY <1>2
      <4> HIDE DEF rest
      <4>2. Listed(i, n, Route) = Listed(i, n, rest)
        BY <3>6, <4>1, OneRouteMore
      <4> QED
        BY <4>2 DEF rest
    <3>8. Flushed(s).rows[i] = 0
      BY <3>2, FlushedIs
    <3>9. Flushed(s).top[i] = Top(Listed(i, n, Route))
      BY <3>1, CutRouteByRoute
    <3> QED
      BY <3>4, <3>6, <3>7, <3>8, <3>9
  <2> QED
    BY <2>1, <2>2, <2>3
<1>6. ASSUME NEW i \in DOMAIN policy
      PROVE  /\ t.rows[i] = RequestsOf(cells, RowsOn(i, n + 1, r))
             /\ t.top[i] = Top(Listed(i, n + 1, Route \ {r}))
  <2>1. /\ Listed(i, n + 1, Route \ {r}) = Listed(i, n, Route \ {r})
        /\ RowsOn(i, n + 1, r) = IF d = i THEN RowsOn(i, n, r) \cup {n + 1} ELSE RowsOn(i, n, r)
        /\ RowsOn(i, n, r) \in SUBSET DOMAIN cells /\ n + 1 \notin RowsOn(i, n, r)
    <3>1. r \notin Route \ {r}
      OBVIOUS
    <3> QED
      BY <3>1, OtherRoutes
  <2>2. RequestsOf(cells, RowsOn(i, n, r) \cup {n + 1}) =
          RequestsOf(cells, RowsOn(i, n, r)) + cell.requests
    BY <1>1, <2>1, RequestsAdd
  <2>3. t.top[i] = Top(Listed(i, n + 1, Route \ {r}))
    BY <1>3, <1>5, <2>1
  <2> HIDE DEF cells, cell, r, d, t, on
  <2>4. CASE d = i
    <3>1. t.rows[i] = on.rows[i] + cell.requests
      BY <1>3, <1>4, <2>4
    <3>2. RowsOn(i, n + 1, r) = RowsOn(i, n, r) \cup {n + 1}
      BY <2>1, <2>4
    <3> QED
      BY <1>5, <2>2, <2>3, <3>1, <3>2
  <2>5. CASE d # i
    <3>1. t.rows[i] = on.rows[i]
      BY <1>3, <2>5
    <3>2. RowsOn(i, n + 1, r) = RowsOn(i, n, r)
      BY <2>1, <2>5
    <3> QED
      BY <1>5, <2>3, <3>1, <3>2
  <2> QED
    BY <2>4, <2>5
<1> HIDE DEF t, r
<1>7. n + 1 # 0 /\ t.route = cells[n + 1].route /\ t.route = r
  BY <1>3 DEF r
<1> QED
  BY <1>6, <1>7 DEF Lists, t


-----------------------------------------------------------------------------
(* The commands *)

Complete(s) ==
  /\ Counts(s, Len(workspace.cells))
  /\ \A i \in DOMAIN policy : s.top[i] = Top(Listed(i, Len(workspace.cells), Route))

Ready == policy \in Policies /\ Valid(policy) /\ workspace \in Workspaces

(* The simulator has taken the cells up to the position, or all of them.    *)
Taken == \E s, n : s = simulator /\ n = position /\ Counts(s, n) /\ Lists(s, n)

Done ==
  \E s, t, u : Complete(s) /\ t = WithStates(s) /\ u = WithRateLimits(t) /\ simulator = u

(* All this is said of the policy and the workspace. *)
LEMMA SameAsBefore ==
  ASSUME policy' = policy, workspace' = workspace
  PROVE  /\ \A s, n : /\ Counts(s, n)' <=> Counts(s, n)
                      /\ Lists(s, n)' <=> Lists(s, n)
         /\ \A s : /\ Complete(s)' <=> Complete(s)
                   /\ WithStates(s)' = WithStates(s)
                   /\ WithRateLimits(s)' = WithRateLimits(s)
<1>1. \A cell : Matching(cell)' = Matching(cell)
  BY DEF Matching
<1>2. \A cell : FirstMatch(cell)' = FirstMatch(cell)
  BY <1>1 DEF FirstMatch
<1>3. \A cell, i : DecidedBy(cell, i)' <=> DecidedBy(cell, i)
  BY DEF DecidedBy
<1>4. /\ Rated' = Rated /\ SimulatorType' = SimulatorType
      /\ \A i : /\ Passes(i)' <=> Passes(i)
                /\ Denies(i)' <=> Denies(i)
                /\ Restrictive(i)' <=> Restrictive(i)
  BY DEF Rated, SimulatorType, Passes, Denies, Restrictive
<1>5. \A i, n : Of(i, n)' = Of(i, n)
  BY <1>3 DEF Of
<1>6. \A i, n, route : RowsOn(i, n, route)' = RowsOn(i, n, route)
  BY <1>5 DEF RowsOn
<1>7. \A i, n, route : EntryOf(i, n, route)' = EntryOf(i, n, route)
  BY <1>6 DEF EntryOf
<1>8. \A i, n, R : Listed(i, n, R)' = Listed(i, n, R)
  BY <1>7 DEF Listed
<1>9. \A i, n : ImpactOf(i, n)' = ImpactOf(i, n)
  BY <1>4, <1>5 DEF ImpactOf
<1>10. \A s, n : Counts(s, n)' <=> Counts(s, n)
  BY <1>2, <1>4, <1>9 DEF Counts
<1>11. \A s, n : Lists(s, n)' <=> Lists(s, n)
  BY <1>6, <1>8 DEF Lists
<1>12. \A s : Complete(s)' <=> Complete(s)
  BY <1>8, <1>10 DEF Complete
<1>13. \A claim : RateLimits(claim)' = RateLimits(claim)
  BY DEF RateLimits
<1>14. \A i : RowsOfRule(i)' = RowsOfRule(i)
  BY <1>13 DEF RowsOfRule
<1>15. \A i : Modeled(i)' = Modeled(i) /\ Limited(i)' = Limited(i)
  BY <1>14 DEF Modeled, Limited
<1>16. \A s : WithStates(s)' = WithStates(s)
  BY <1>13 DEF WithStates
<1>17. \A s : WithRateLimits(s)' = WithRateLimits(s)
  BY <1>15 DEF WithRateLimits
<1> QED
  BY <1>10, <1>11, <1>12, <1>16, <1>17

(* A step within a command keeps policy and workspace. *)
LEMMA TakenStays ==
  ASSUME policy' = policy, workspace' = workspace,
         Counts(simulator', position'), Lists(simulator', position')
  PROVE  Taken'
BY SameAsBefore DEF Taken

(* The same of a finished simulator. *)
LEMMA DoneStays ==
  ASSUME policy' = policy, workspace' = workspace,
         NEW s, Complete(s), simulator' = WithRateLimits(WithStates(s))
  PROVE  Done'
BY SameAsBefore DEF Done

(* A new simulator has counted nothing. *)
LEMMA NewIs ==
  policy \in Policies /\ workspace \in Workspaces /\ simulator = NewSimulator(policy)
    /\ position = 0 => Taken
<1> SUFFICES ASSUME policy \in Policies, workspace \in Workspaces,
                    simulator = NewSimulator(policy), position = 0
             PROVE  Counts(simulator, 0) /\ Lists(simulator, 0)
  BY DEF Taken
<1> DEFINE cells == workspace.cells
<1> DEFINE s == simulator
<1>1. cells \in Seq(Cell)
  BY WorkspaceIs
<1>2. RequestsOf(cells, {}) = 0
  BY <1>1, RequestsOfNone
<1>3. /\ s.observed = 0 /\ s.allowed = 0 /\ s.denied = 0 /\ s.limited = 0
      /\ s.route = Nothing
      /\ \A i \in DOMAIN policy : s.impacts[i] = NoImpact /\ s.rows[i] = 0 /\ s.top[i] = {}
  BY DEF NewSimulator
<1>4. s \in SimulatorType
  BY DEF NewSimulator, SimulatorType, NoImpact, Impact
<1>5. \A i : Of(i, 0) = {}
  BY DEF Of
<1>6. \A i, route : RowsOn(i, 0, route) = {}
  BY <1>5 DEF RowsOn
<1>7. \A i, route : RequestsOf(cells, RowsOn(i, 0, route)) = 0
  BY <1>2, <1>6
<1>8. \A i : RequestsOf(cells, Of(i, 0)) = 0
  BY <1>2, <1>5
<1>9. \A i, R : Listed(i, 0, R) = {}
  <2>1. \A i, route : EntryOf(i, 0, route).requests = 0
    BY <1>7 DEF EntryOf
  <2> QED
    BY <2>1 DEF Listed
<1>10. Top({}) = {}
  BY DEF Top
<1>11. RequestsOf(cells, 1 .. 0) = 0
  <2>1. 1 .. 0 = {}
    OBVIOUS
  <2> QED
    BY <1>2, <2>1
<1> DEFINE denied == [i \in DOMAIN policy |-> s.impacts[i].denied]
<1> DEFINE matched == [i \in DOMAIN policy |-> s.impacts[i].matched]
<1>12. Sum(denied, DOMAIN policy) = 0 /\ Sum(matched, Rated) = 0
  <2>1. /\ IsFiniteSet(DOMAIN policy) /\ Rated \in SUBSET DOMAIN policy /\ IsFiniteSet(Rated)
    BY PolicyIs, FS_Subset DEF Rated
  <2>2. \A i \in DOMAIN policy : denied[i] = 0 /\ matched[i] = 0
    BY <1>3 DEF NoImpact
  <2> HIDE DEF denied, matched
  <2>4. \A i \in Rated : matched[i] = 0
    BY <2>1, <2>2
  <2> QED
    BY <2>1, <2>2, <2>4, SumOfNone
<1>13. \A i \in DOMAIN policy : s.impacts[i] = ImpactOf(i, 0)
  BY <1>3, <1>8 DEF ImpactOf, NoImpact
<1>14. Counts(s, 0)
  <2>1. s.denied = Sum(denied, DOMAIN policy)
    BY <1>3, <1>12
  <2>2. s.observed = s.allowed + s.denied + Sum(matched, Rated)
    BY <1>3, <1>12
  <2>3. \A k : k \notin 1 .. 0
    OBVIOUS
  <2> HIDE DEF s
  <2> QED
    BY <1>3, <1>4, <1>11, <1>13, <2>1, <2>2, <2>3 DEF Counts
<1>15. Lists(s, 0)
  <2> HIDE DEF s
  <2> QED
    BY <1>3, <1>7, <1>9, <1>10 DEF Lists
<1> QED
  BY <1>14, <1>15

(* The last route goes into the lists. *)
LEMMA LastRoute ==
  ASSUME policy \in Policies, workspace \in Workspaces, NEW s,
         Counts(s, Len(workspace.cells)), Lists(s, Len(workspace.cells))
  PROVE  Complete(IF s.route = Nothing THEN s ELSE Flushed(s))
<1> DEFINE n == Len(workspace.cells)
<1>1. n \in Nat /\ s \in SimulatorType
  BY WorkspaceIs DEF Counts
<1>2. CASE n = 0
  <2>1. s.route = Nothing
    BY <1>2 DEF Lists
  <2>2. Route \ {Nothing} = Route
    BY CatalogAssumption
  <2>3. \A i \in DOMAIN policy : s.top[i] = Top(Listed(i, n, Route \ {s.route}))
    BY DEF Lists
  <2>4. \A i \in DOMAIN policy : s.top[i] = Top(Listed(i, n, Route))
    BY <2>1, <2>2, <2>3
  <2> QED
    BY <2>1, <2>4 DEF Complete
<1>3. CASE n # 0
  <2>1. n \in 1 .. n /\ n \in DOMAIN workspace.cells
    BY <1>1, <1>3, WorkspaceIs
  <2>2. s.route = workspace.cells[n].route
    BY <1>3 DEF Lists
  <2>3. s.route \in Route /\ s.route # Nothing
    BY <2>1, <2>2, WorkspaceIs, CatalogAssumption DEF Cell
  <2> DEFINE t == Flushed(s)
  <2>4. /\ t \in SimulatorType
        /\ t.observed = s.observed /\ t.allowed = s.allowed
        /\ t.denied = s.denied /\ t.limited = s.limited
        /\ t.impacts = s.impacts /\ t.protected = s.protected
    BY <1>1, <2>3, FlushedIs
  <2>5. \A i \in DOMAIN policy : t.top[i] = Top(Listed(i, n, Route))
    BY <1>1, <2>1, CutRouteByRoute
  <2> HIDE DEF t
  <2>6. Counts(t, n)
    BY <2>4 DEF Counts
  <2> QED
    BY <2>3, <2>5, <2>6 DEF Complete, t
<1> QED
  BY <1>2, <1>3

Held(profile) ==
  SumFunction([claim \in {c \in Claim : /\ RateLimits(c) # {}
                                        /\ policy[Min(RateLimits(c))].profile = profile}
                 |-> workspace.callers[claim].known])

(* What Finish adds to a complete simulator. *)
LEMMA FinishedIs ==
  ASSUME policy \in Policies, NEW u \in SimulatorType,
         \A i \in Rated : Modeled(i) \in Nat /\ Limited(i) \in Nat
  PROVE  LET s == WithRateLimits(WithStates(u))
             passed == [i \in Rated |-> Modeled(i) - Limited(i)]
             limited == [i \in Rated |-> Limited(i)]
         IN  /\ s.observed = u.observed /\ s.denied = u.denied
             /\ s.protected = u.protected /\ s.top = u.top
             /\ s.allowed = u.allowed + Sum(passed, Rated)
             /\ s.limited = Sum(limited, Rated)
             /\ \A i \in Rated :
                  /\ s.modeled[i] = Modeled(i)
                  /\ s.impacts[i] =
                       [matched |-> u.impacts[i].matched,
                        allowed |-> u.impacts[i].allowed + Modeled(i) - Limited(i),
                        denied |-> u.impacts[i].denied,
                        limited |-> Limited(i)]
             /\ \A i \in DOMAIN policy \ Rated :
                  s.impacts[i] = [matched |-> u.impacts[i].matched,
                                  allowed |-> u.impacts[i].allowed,
                                  denied |-> u.impacts[i].denied,
                                  limited |-> 0]
             /\ \A profile \in Profile : s.states[profile] = Held(profile)
<1> DEFINE states == [profile \in Profile |-> Held(profile)]
<1> DEFINE v == WithStates(u)
<1> DEFINE s == WithRateLimits(v)
<1> DEFINE passed == [i \in Rated |-> Modeled(i) - Limited(i)]
<1> DEFINE limited == [i \in Rated |-> Limited(i)]
<1> DEFINE modeled == [i \in DOMAIN policy |-> IF i \in Rated THEN Modeled(i) ELSE 0]
<1> DEFINE lost == [i \in DOMAIN policy |-> IF i \in Rated THEN Limited(i) ELSE 0]
<1> DEFINE impacts == [i \in DOMAIN policy |->
              [v.impacts[i] EXCEPT !.allowed = @ + modeled[i] - lost[i], !.limited = lost[i]]]
<1> DEFINE allowed == v.allowed + SumFunction([i \in Rated |-> modeled[i] - lost[i]])
<1> DEFINE held == SumFunction([i \in Rated |-> lost[i]])
<1>1. v = [u EXCEPT !.states = states]
  BY DEF WithStates, Held
<1>2. s = [v EXCEPT !.modeled = modeled, !.impacts = impacts, !.allowed = allowed,
                    !.limited = held]
  <2> HIDE DEF v
  <2>1. Rated = {i \in DOMAIN policy : policy[i].action = "rate_limit"}
    BY DEF Rated
  <2>2. s = [v EXCEPT
               !.modeled = modeled,
               !.impacts = [i \in DOMAIN policy |->
                              [v.impacts[i] EXCEPT !.allowed = @ + modeled[i] - lost[i],
                                                   !.limited = lost[i]]],
               !.allowed = v.allowed + SumFunction([i \in Rated |-> modeled[i] - lost[i]]),
               !.limited = SumFunction([i \in Rated |-> lost[i]])]
    BY <2>1, SMT DEF WithRateLimits
  <2> QED
    BY <2>2
<1>3. Rated \in SUBSET DOMAIN policy
  BY DEF Rated
<1>4. /\ [i \in Rated |-> modeled[i] - lost[i]] = passed
      /\ [i \in Rated |-> lost[i]] = limited
  BY <1>3
<1>5. /\ \A i \in Rated : modeled[i] = Modeled(i) /\ lost[i] = Limited(i)
      /\ \A i \in DOMAIN policy \ Rated : modeled[i] = 0 /\ lost[i] = 0
  BY <1>3
<1>6. /\ v.observed = u.observed /\ v.denied = u.denied /\ v.protected = u.protected
      /\ v.top = u.top /\ v.allowed = u.allowed /\ v.impacts = u.impacts
      /\ v.states = states
  BY <1>1 DEF SimulatorType
<1>7. DOMAIN v = DOMAIN u
  BY <1>1
<1>8. /\ SumFunction(passed) = Sum(passed, Rated)
      /\ SumFunction(limited) = Sum(limited, Rated)
  <2>1. DOMAIN passed = Rated /\ DOMAIN limited = Rated
    OBVIOUS
  <2> HIDE DEF passed, limited
  <2> QED
    BY <2>1, SumFunctionIs
<1>9. \A i \in DOMAIN policy :
        impacts[i] = [v.impacts[i] EXCEPT !.allowed = @ + modeled[i] - lost[i],
                                          !.limited = lost[i]]
  OBVIOUS
<1>10. \A i \in DOMAIN policy : u.impacts[i] \in Impact
  BY DEF SimulatorType
<1>11. allowed = u.allowed + Sum(passed, Rated) /\ held = Sum(limited, Rated)
  BY <1>4, <1>6, <1>8
<1> HIDE DEF v, s, modeled, lost, impacts, passed, limited, allowed, held
<1>12. /\ s.observed = v.observed /\ s.denied = v.denied /\ s.protected = v.protected
       /\ s.top = v.top /\ s.states = v.states /\ s.modeled = modeled
       /\ s.impacts = impacts /\ s.allowed = allowed /\ s.limited = held
  BY <1>2, <1>7 DEF SimulatorType
<1>13. \A i \in DOMAIN policy :
         impacts[i] = [matched |-> u.impacts[i].matched,
                       allowed |-> u.impacts[i].allowed + modeled[i] - lost[i],
                       denied |-> u.impacts[i].denied,
                       limited |-> lost[i]]
  <2> SUFFICES ASSUME NEW i \in DOMAIN policy
               PROVE  impacts[i] = [matched |-> u.impacts[i].matched,
                                    allowed |-> u.impacts[i].allowed + modeled[i] - lost[i],
                                    denied |-> u.impacts[i].denied,
                                    limited |-> lost[i]]
    OBVIOUS
  <2> DEFINE impact == u.impacts[i]
  <2>1. impact \in Impact
    BY <1>10
  <2>2. impacts[i] = [impact EXCEPT !.allowed = impact.allowed + modeled[i] - lost[i],
                                    !.limited = lost[i]]
    BY <1>6, <1>9, <2>1 DEF Impact
  <2> HIDE DEF impact
  <2>3. impacts[i] = [matched |-> impact.matched,
                      allowed |-> impact.allowed + modeled[i] - lost[i],
                      denied |-> impact.denied,
                      limited |-> lost[i]]
    BY <2>1, <2>2 DEF Impact
  <2> QED
    BY <2>3 DEF impact
<1>14. \A i \in DOMAIN policy \ Rated : u.impacts[i].allowed + modeled[i] - lost[i] = u.impacts[i].allowed
  BY <1>5, <1>10 DEF Impact
<1>15. \A i \in DOMAIN policy \ Rated :
         s.impacts[i] = [matched |-> u.impacts[i].matched,
                         allowed |-> u.impacts[i].allowed,
                         denied |-> u.impacts[i].denied,
                         limited |-> 0]
  BY <1>5, <1>12, <1>13, <1>14
<1>16. \A i \in Rated :
         /\ s.modeled[i] = Modeled(i)
         /\ s.impacts[i] = [matched |-> u.impacts[i].matched,
                            allowed |-> u.impacts[i].allowed + Modeled(i) - Limited(i),
                            denied |-> u.impacts[i].denied,
                            limited |-> Limited(i)]
  BY <1>3, <1>5, <1>12, <1>13
<1>17. \A profile \in Profile : s.states[profile] = Held(profile)
  BY <1>6, <1>12
<1> QED
  BY <1>6, <1>11, <1>12, <1>15, <1>16, <1>17 DEF s, v, passed, limited

-----------------------------------------------------------------------------
(* What a complete simulator says *)

(* The lists have the routes of the rule, and the counts all its cells.     *)
LEMMA CompleteIs ==
  ASSUME policy \in Policies, workspace \in Workspaces, NEW u, Complete(u),
         NEW i \in DOMAIN policy
  PROVE  /\ u \in SimulatorType
         /\ u.top[i] = Top({entry \in RoutesOf(i) : entry.requests > 0})
         /\ u.impacts[i] = [matched |-> RequestsOf(workspace.cells, CellsOf(i)),
                            allowed |-> IF Passes(i) THEN RequestsOf(workspace.cells, CellsOf(i))
                                        ELSE 0,
                            denied |-> IF Denies(i) THEN RequestsOf(workspace.cells, CellsOf(i))
                                       ELSE 0,
                            limited |-> 0]
<1> DEFINE n == Len(workspace.cells)
<1>1. Of(i, n) = CellsOf(i)
  BY WorkspaceIs DEF Of, CellsOf
<1>2. \A route : RowsOn(i, n, route) = {k \in CellsOf(i) : workspace.cells[k].route = route}
  BY <1>1 DEF RowsOn
<1>3. \A route : EntryOf(i, n, route) =
        [route |-> route,
         requests |-> RequestsOf(workspace.cells,
                                 {k \in CellsOf(i) : workspace.cells[k].route = route})]
  BY <1>2, Zenon DEF EntryOf
<1>4. {EntryOf(i, n, route) : route \in Route} = RoutesOf(i)
  BY <1>3, Zenon DEF RoutesOf
<1>5. Listed(i, n, Route) = {entry \in RoutesOf(i) : entry.requests > 0}
  BY <1>4 DEF Listed
<1>6. u.top[i] = Top({entry \in RoutesOf(i) : entry.requests > 0})
  BY <1>5, Zenon DEF Complete
<1>7. u \in SimulatorType /\ u.impacts[i] = ImpactOf(i, n)
  BY DEF Complete, Counts
<1>8. RequestsOf(workspace.cells, Of(i, n)) = RequestsOf(workspace.cells, CellsOf(i))
  BY <1>1, Zenon
<1>9. ImpactOf(i, n) = [matched |-> RequestsOf(workspace.cells, CellsOf(i)),
                        allowed |-> IF Passes(i) THEN RequestsOf(workspace.cells, CellsOf(i))
                                    ELSE 0,
                        denied |-> IF Denies(i) THEN RequestsOf(workspace.cells, CellsOf(i))
                                   ELSE 0,
                        limited |-> 0]
  BY <1>8 DEF ImpactOf
<1> QED
  BY <1>6, <1>7, <1>9

Finished(u) ==
  /\ Ready
  /\ Complete(u) /\ simulator = WithRateLimits(WithStates(u))

(* The impact of every rule, and that it is not more than it matches.       *)
LEMMA ImpactIs ==
  ASSUME NEW u, Finished(u), NEW i \in DOMAIN policy
  PROVE  LET matched == RequestsOf(workspace.cells, CellsOf(i))
             impact == simulator.impacts[i]
         IN  /\ matched \in Nat
             /\ impact \in Impact
             /\ impact.matched = matched
             /\ impact.denied = u.impacts[i].denied
             /\ impact.allowed + impact.denied + impact.limited <= matched
             /\ impact.limited = IF i \in Rated THEN Limited(i) ELSE 0
             /\ i \in Rated =>
                  /\ simulator.modeled[i] = Modeled(i)
                  /\ Modeled(i) \in Nat /\ Limited(i) \in Nat
                  /\ Limited(i) <= Modeled(i) /\ Modeled(i) <= matched
             /\ simulator.top[i] = Top({entry \in RoutesOf(i) : entry.requests > 0})
<1> DEFINE matched == RequestsOf(workspace.cells, CellsOf(i))
<1>1. /\ u \in SimulatorType
      /\ u.top[i] = Top({entry \in RoutesOf(i) : entry.requests > 0})
      /\ u.impacts[i] = [matched |-> matched,
                         allowed |-> IF Passes(i) THEN matched ELSE 0,
                         denied |-> IF Denies(i) THEN matched ELSE 0,
                         limited |-> 0]
  BY CompleteIs DEF Finished, Ready
<1>2. matched \in Nat
  <2>1. workspace.cells \in Seq(Cell) /\ CellsOf(i) \in SUBSET DOMAIN workspace.cells
    BY WorkspaceIs DEF Finished, Ready, CellsOf
  <2> QED
    BY <2>1, RequestsAre
<1>3. \A j \in Rated : /\ Modeled(j) \in Nat /\ Limited(j) \in Nat
                       /\ Limited(j) <= Modeled(j)
                       /\ Modeled(j) <= RequestsOf(workspace.cells, CellsOf(j))
  BY ReplayedAtMost DEF Finished, Ready, Rated
<1>4. /\ simulator.top = u.top
      /\ i \in Rated =>
           /\ simulator.modeled[i] = Modeled(i)
           /\ simulator.impacts[i] = [matched |-> u.impacts[i].matched,
                                      allowed |-> u.impacts[i].allowed + Modeled(i) - Limited(i),
                                      denied |-> u.impacts[i].denied,
                                      limited |-> Limited(i)]
      /\ i \notin Rated =>
           simulator.impacts[i] = [matched |-> u.impacts[i].matched,
                                   allowed |-> u.impacts[i].allowed,
                                   denied |-> u.impacts[i].denied,
                                   limited |-> 0]
  BY <1>1, <1>3, FinishedIs DEF Finished, Ready
<1>5. i \in Rated => ~Passes(i) /\ ~Denies(i)
  BY DEF Rated, Passes, Denies
<1>6. ~(Passes(i) /\ Denies(i))
  BY DEF Passes, Denies
<1> HIDE DEF matched
<1>7. CASE i \in Rated
  <2>1. simulator.impacts[i] = [matched |-> matched, allowed |-> 0 + Modeled(i) - Limited(i),
                                denied |-> 0, limited |-> Limited(i)]
    BY <1>1, <1>4, <1>5, <1>7
  <2>2. 0 + Modeled(i) - Limited(i) \in Nat /\ (0 + Modeled(i) - Limited(i)) + 0 + Limited(i) = Modeled(i)
    BY <1>3, <1>7
  <2> QED
    BY <1>1, <1>2, <1>3, <1>4, <1>5, <1>7, <2>1, <2>2 DEF matched, Impact
<1>8. CASE i \notin Rated
  <2>1. simulator.impacts[i] = [matched |-> matched,
                                allowed |-> IF Passes(i) THEN matched ELSE 0,
                                denied |-> IF Denies(i) THEN matched ELSE 0,
                                limited |-> 0]
    BY <1>1, <1>4, <1>8
  <2> QED
    BY <1>1, <1>2, <1>4, <1>6, <1>8, <2>1 DEF matched, Impact
<1> QED
  BY <1>7, <1>8

(* The totals are those of the rules; what no rule decides on is allowed,   *)
(* and what a rate limit matches is as far as it was replayed.              *)
LEMMA TotalsAre ==
  ASSUME NEW u, Finished(u)
  PROVE  LET cells == workspace.cells
             replayed == [i \in Rated |-> Modeled(i)]
             matched == [i \in Rated |-> RequestsOf(cells, CellsOf(i))]
         IN  /\ simulator.observed = RequestsOf(cells, DOMAIN cells)
             /\ simulator.observed \in Nat
             /\ simulator.denied = SumFunction([i \in DOMAIN policy |-> simulator.impacts[i].denied])
             /\ simulator.limited = SumFunction([i \in DOMAIN policy |-> simulator.impacts[i].limited])
             /\ Sum(replayed, Rated) <= Sum(matched, Rated)
             /\ Sum(replayed, Rated) \in Nat /\ Sum(matched, Rated) \in Nat
             /\ simulator.observed + Sum(replayed, Rated) =
                  Classified(simulator) + Sum(matched, Rated)
             /\ Classified(simulator) \in Nat
             /\ simulator.protected = u.protected
<1> DEFINE cells == workspace.cells
<1> DEFINE passed == [i \in Rated |-> Modeled(i) - Limited(i)]
<1> DEFINE limited == [i \in Rated |-> Limited(i)]
<1> DEFINE replayed == [i \in Rated |-> Modeled(i)]
<1> DEFINE matched == [i \in Rated |-> RequestsOf(cells, CellsOf(i))]
<1> DEFINE counted == [i \in DOMAIN policy |-> u.impacts[i].matched]
<1> DEFINE refused == [i \in DOMAIN policy |-> u.impacts[i].denied]
<1> DEFINE denials == [i \in DOMAIN policy |-> simulator.impacts[i].denied]
<1> DEFINE limits == [i \in DOMAIN policy |-> simulator.impacts[i].limited]
<1>1. IsFiniteSet(DOMAIN policy) /\ Rated \in SUBSET DOMAIN policy /\ IsFiniteSet(Rated)
  BY PolicyIs, FS_Subset DEF Rated, Finished, Ready
<1>2. \A i \in DOMAIN policy :
        /\ simulator.impacts[i].denied = u.impacts[i].denied
        /\ simulator.impacts[i] \in Impact
        /\ simulator.impacts[i].matched = RequestsOf(cells, CellsOf(i))
        /\ RequestsOf(cells, CellsOf(i)) \in Nat
        /\ simulator.impacts[i].limited = IF i \in Rated THEN Limited(i) ELSE 0
        /\ i \in Rated => /\ Modeled(i) \in Nat /\ Limited(i) \in Nat
                          /\ Limited(i) <= Modeled(i)
                          /\ Modeled(i) <= RequestsOf(cells, CellsOf(i))
  BY ImpactIs
<1>3. /\ u \in SimulatorType /\ u.limited = 0
      /\ u.observed = RequestsOf(cells, 1 .. Len(cells))
      /\ u.denied = Sum(refused, DOMAIN policy)
      /\ u.observed = u.allowed + u.denied + Sum(counted, Rated)
  BY DEF Finished, Ready, Complete, Counts
<1>4. /\ simulator.observed = u.observed /\ simulator.denied = u.denied
      /\ simulator.protected = u.protected
      /\ simulator.allowed = u.allowed + Sum(passed, Rated)
      /\ simulator.limited = Sum(limited, Rated)
  <2>1. \A i \in Rated : Modeled(i) \in Nat /\ Limited(i) \in Nat
    BY <1>1, <1>2
  <2> QED
    BY <1>3, <2>1, FinishedIs DEF Finished, Ready
<1>5. DOMAIN cells = 1 .. Len(cells)
  BY WorkspaceIs DEF Finished, Ready
<1>6. \A i \in DOMAIN policy : u.impacts[i].matched = RequestsOf(cells, CellsOf(i))
  <2> SUFFICES ASSUME NEW i \in DOMAIN policy
               PROVE  u.impacts[i].matched = RequestsOf(cells, CellsOf(i))
    OBVIOUS
  <2>1. u.impacts[i] = [matched |-> RequestsOf(workspace.cells, CellsOf(i)),
                        allowed |-> IF Passes(i) THEN RequestsOf(workspace.cells, CellsOf(i))
                                    ELSE 0,
                        denied |-> IF Denies(i) THEN RequestsOf(workspace.cells, CellsOf(i))
                                   ELSE 0,
                        limited |-> 0]
    BY CompleteIs DEF Finished, Ready
  <2> QED
    BY <2>1
<1>7. \A i \in Rated : /\ counted[i] = matched[i]
                       /\ passed[i] \in Nat /\ limited[i] \in Nat
                       /\ replayed[i] = passed[i] + limited[i]
                       /\ replayed[i] \in Nat /\ matched[i] \in Nat
                       /\ replayed[i] <= matched[i]
                       /\ limits[i] = limited[i]
  BY <1>1, <1>2, <1>6
<1>8. \A i \in DOMAIN policy \ Rated : limits[i] = 0
  BY <1>2
<1>9. \A i \in DOMAIN policy : refused[i] = denials[i] /\ limits[i] \in Nat /\ denials[i] \in Nat
  BY <1>2 DEF Impact
<1>10. /\ SumFunction(denials) = Sum(denials, DOMAIN policy)
       /\ SumFunction(limits) = Sum(limits, DOMAIN policy)
  <2>1. DOMAIN denials = DOMAIN policy /\ DOMAIN limits = DOMAIN policy
    OBVIOUS
  <2> HIDE DEF denials, limits
  <2> QED
    BY <2>1, SumFunctionIs
<1> HIDE DEF passed, limited, replayed, matched, counted, refused, denials, limits
<1>11. Sum(refused, DOMAIN policy) = Sum(denials, DOMAIN policy)
  BY <1>1, <1>9, SumSame
<1>12. Sum(limits, DOMAIN policy) = Sum(limited, Rated)
  <2> DEFINE others == DOMAIN policy \ Rated
  <2>1. IsFiniteSet(others) /\ \A i \in others : limits[i] = 0
    BY <1>1, <1>8, FS_Subset
  <2>2. Sum(limits, DOMAIN policy) = Sum(limits, Rated) + Sum(limits, others)
    BY <1>1, <1>9, SumSplit
  <2> HIDE DEF others
  <2>3. Sum(limits, others) = 0
    BY <2>1, SumOfNone
  <2>4. Sum(limits, Rated) = Sum(limited, Rated)
    BY <1>1, <1>7, SumSame
  <2>5. Sum(limited, Rated) \in Nat
    BY <1>1, <1>7, SumFacts
  <2> QED
    BY <2>2, <2>3, <2>4, <2>5
<1>13. Sum(counted, Rated) = Sum(matched, Rated)
  BY <1>1, <1>7, SumSame
<1>14. Sum(replayed, Rated) = Sum(passed, Rated) + Sum(limited, Rated)
  BY <1>1, <1>7, SumPlus
<1>15. Sum(replayed, Rated) <= Sum(matched, Rated)
  BY <1>1, <1>7, SumAtMost
<1>16. /\ Sum(replayed, Rated) \in Nat /\ Sum(matched, Rated) \in Nat
       /\ Sum(passed, Rated) \in Nat /\ Sum(limited, Rated) \in Nat
  <2>1. \A i \in Rated : replayed[i] \in Nat
    BY <1>7
  <2>2. \A i \in Rated : matched[i] \in Nat
    BY <1>7
  <2>3. \A i \in Rated : passed[i] \in Nat
    BY <1>7
  <2>4. \A i \in Rated : limited[i] \in Nat
    BY <1>7
  <2> QED
    BY <1>1, <2>1, <2>2, <2>3, <2>4, SumFacts
<1>17. u.observed \in Nat /\ u.allowed \in Nat /\ u.denied \in Nat
  BY <1>3 DEF SimulatorType
<1>18. /\ simulator.observed + Sum(replayed, Rated) = Classified(simulator) + Sum(matched, Rated)
       /\ Classified(simulator) \in Nat
  <2> DEFINE kept == Sum(passed, Rated)
             cut  == Sum(limited, Rated)
             through == Sum(replayed, Rated)
             all == Sum(matched, Rated)
  <2>1. kept \in Nat /\ cut \in Nat /\ through \in Nat /\ all \in Nat /\ through = kept + cut
    BY <1>14, <1>16
  <2>2. /\ simulator.observed = u.allowed + u.denied + all
        /\ simulator.allowed = u.allowed + kept
        /\ simulator.denied = u.denied /\ simulator.limited = cut
    BY <1>3, <1>4, <1>13
  <2> HIDE DEF kept, cut, through, all
  <2>3. /\ simulator.observed + through = Classified(simulator) + all
        /\ Classified(simulator) \in Nat
    BY <1>17, <2>1, <2>2 DEF Classified
  <2> QED
    BY <2>3 DEF through, all
<1>19. /\ simulator.observed = RequestsOf(cells, DOMAIN cells)
       /\ simulator.observed \in Nat
  BY <1>3, <1>4, <1>5, <1>17
<1>20. /\ simulator.denied = SumFunction(denials) /\ simulator.limited = SumFunction(limits)
  BY <1>3, <1>4, <1>10, <1>11, <1>12
<1> QED
  BY <1>4, <1>15, <1>16, <1>18, <1>19, <1>20 DEF denials, limits, replayed, matched

-----------------------------------------------------------------------------
(* What the properties say of a finished simulator *)

(* The last conjunct of the type invariant. *)
ImpactsTyped(s) ==
  \A i \in DOMAIN policy :
    /\ s.impacts[i] \in Impact
    /\ s.top[i] \subseteq [route : Route, requests : Nat \ {0}]
    /\ Cardinality(s.top[i]) <= TopRoutes

(* A list cut from the routes of a rule. *)
LEMMA ListIsTyped ==
  ASSUME policy \in Policies, workspace \in Workspaces, NEW i \in DOMAIN policy,
         NEW n \in 0 .. Len(workspace.cells), NEW R \in SUBSET Route
  PROVE  /\ Top(Listed(i, n, R)) \subseteq [route : Route, requests : Nat \ {0}]
         /\ Cardinality(Top(Listed(i, n, R))) <= TopRoutes
<1> DEFINE list == Listed(i, n, R)
<1>1. /\ IsFiniteSet(list) /\ list \in SUBSET Entry
      /\ list \in SUBSET [route : Route, requests : Nat \ {0}]
  BY ListedIs
<1> HIDE DEF list
<1>2. Top(list) \in SUBSET list /\ Cardinality(Top(list)) <= TopRoutes
  BY <1>1, TopLength
<1>3. Top(list) \subseteq [route : Route, requests : Nat \ {0}]
  BY <1>1, <1>2
<1> QED
  BY <1>2, <1>3 DEF list

(* The impacts and lists of a simulator that has taken some cells. *)
LEMMA TakenTyped ==
  ASSUME Ready, position \in 0 .. Len(workspace.cells),
         Counts(simulator, position), Lists(simulator, position)
  PROVE  ImpactsTyped(simulator)
<1> SUFFICES ASSUME NEW i \in DOMAIN policy
             PROVE  /\ simulator.impacts[i] \in Impact
                    /\ simulator.top[i] \subseteq [route : Route, requests : Nat \ {0}]
                    /\ Cardinality(simulator.top[i]) <= TopRoutes
  BY DEF ImpactsTyped
<1>1. simulator.impacts[i] \in Impact
  BY DEF Counts, SimulatorType
<1> DEFINE rest == Route \ {simulator.route}
<1>2. simulator.top[i] = Top(Listed(i, position, rest))
  BY DEF Lists
<1>3. rest \in SUBSET Route
  OBVIOUS
<1> HIDE DEF rest
<1>4. /\ Top(Listed(i, position, rest)) \subseteq [route : Route, requests : Nat \ {0}]
      /\ Cardinality(Top(Listed(i, position, rest))) <= TopRoutes
  BY <1>3, ListIsTyped DEF Ready
<1> QED
  BY <1>1, <1>2, <1>4

(* The impacts and lists of a finished simulator. *)
LEMMA FinishedTyped ==
  ASSUME NEW u, Finished(u)
  PROVE  ImpactsTyped(simulator)
<1> SUFFICES ASSUME NEW i \in DOMAIN policy
             PROVE  /\ simulator.impacts[i] \in Impact
                    /\ simulator.top[i] \subseteq [route : Route, requests : Nat \ {0}]
                    /\ Cardinality(simulator.top[i]) <= TopRoutes
  BY DEF ImpactsTyped
<1> DEFINE n == Len(workspace.cells)
<1>1. /\ simulator.impacts[i] \in Impact
      /\ simulator.top[i] = Top({entry \in RoutesOf(i) : entry.requests > 0})
  BY ImpactIs
<1>2. u.top[i] = Top({entry \in RoutesOf(i) : entry.requests > 0})
  BY CompleteIs DEF Finished, Ready
<1>3. u.top[i] = Top(Listed(i, n, Route))
  BY DEF Finished, Ready, Complete
<1>4. n \in 0 .. n /\ Route \in SUBSET Route
  BY WorkspaceIs DEF Finished, Ready
<1>5. /\ Top(Listed(i, n, Route)) \subseteq [route : Route, requests : Nat \ {0}]
      /\ Cardinality(Top(Listed(i, n, Route))) <= TopRoutes
  BY <1>4, ListIsTyped DEF Finished, Ready
<1>6. simulator.top[i] = Top(Listed(i, n, Route))
  BY <1>1, <1>2, <1>3
<1> QED
  BY <1>1, <1>5, <1>6

(* The invariant ImpactsExact (Add, flushRoute, Finish). *)
LEMMA FinishedExact ==
  ASSUME NEW u, Finished(u)
  PROVE  ImpactsExact
<1>1. \A i \in DOMAIN policy :
        /\ simulator.impacts[i].matched = RequestsOf(workspace.cells, CellsOf(i))
        /\ simulator.top[i] = Top({entry \in RoutesOf(i) : entry.requests > 0})
        /\ simulator.impacts[i].allowed + simulator.impacts[i].denied + simulator.impacts[i].limited
             <= simulator.impacts[i].matched
  <2> SUFFICES ASSUME NEW i \in DOMAIN policy
      PROVE
        /\ simulator.impacts[i].matched = RequestsOf(workspace.cells, CellsOf(i))
        /\ simulator.top[i] = Top({entry \in RoutesOf(i) : entry.requests > 0})
        /\ simulator.impacts[i].allowed + simulator.impacts[i].denied + simulator.impacts[i].limited
             <= simulator.impacts[i].matched
    OBVIOUS
  <2>1. LET matched == RequestsOf(workspace.cells, CellsOf(i))
            impact == simulator.impacts[i]
        IN  /\ impact.matched = matched
            /\ impact.allowed + impact.denied + impact.limited <= matched
    BY ImpactIs
  <2>2. simulator.top[i] = Top({entry \in RoutesOf(i) : entry.requests > 0})
    BY ImpactIs
  <2>3. simulator.impacts[i].matched = RequestsOf(workspace.cells, CellsOf(i))
    BY <2>1
  <2> QED
    BY <2>1, <2>2, <2>3
<1>2. /\ simulator.denied = SumFunction([i \in DOMAIN policy |-> simulator.impacts[i].denied])
      /\ simulator.limited = SumFunction([i \in DOMAIN policy |-> simulator.impacts[i].limited])
      /\ simulator.observed = RequestsOf(workspace.cells, DOMAIN workspace.cells)
  BY TotalsAre
<1> QED
  BY <1>1, <1>2 DEF ImpactsExact

(* What was not replayed makes a risk that cannot be acknowledged. *)
LEMMA FinishedConserves ==
  ASSUME NEW u, Finished(u)
  PROVE  Conserves
<1> DEFINE replayed == [i \in Rated |-> Modeled(i)]
<1> DEFINE matched == [i \in Rated |-> RequestsOf(workspace.cells, CellsOf(i))]
<1>1. /\ Sum(replayed, Rated) <= Sum(matched, Rated)
      /\ Sum(replayed, Rated) \in Nat /\ Sum(matched, Rated) \in Nat
      /\ simulator.observed + Sum(replayed, Rated) = Classified(simulator) + Sum(matched, Rated)
      /\ Classified(simulator) \in Nat /\ simulator.observed \in Nat
  BY TotalsAre
<1>2. IsFiniteSet(Rated) /\ Rated \in SUBSET DOMAIN policy
  BY PolicyIs, FS_Subset DEF Rated, Finished, Ready
<1>3. ASSUME NEW i \in Rated, Modeled(i) # RequestsOf(workspace.cells, CellsOf(i))
      PROVE  Risk("rate-coverage-incomplete", i, FALSE) \in Risks(simulator)
  <2>1. policy[i].action = "rate_limit" /\ i \in DOMAIN policy
    BY DEF Rated
  <2>2. simulator.modeled[i] = Modeled(i)
        /\ simulator.impacts[i].matched = RequestsOf(workspace.cells, CellsOf(i))
    BY <2>1, ImpactIs
  <2>3. Risk("rate-coverage-incomplete", i, FALSE) \in RuleRisks(simulator, i)
    BY <1>3, <2>1, <2>2 DEF RuleRisks
  <2> QED
    BY <2>1, <2>3 DEF Risks
<1>4. \A i \in Rated : /\ replayed[i] = Modeled(i)
                       /\ matched[i] = RequestsOf(workspace.cells, CellsOf(i))
  OBVIOUS
<1> HIDE DEF replayed, matched
<1>5. CASE Sum(replayed, Rated) = Sum(matched, Rated)
  <2>1. Classified(simulator) = simulator.observed
    BY <1>1, <1>5
  <2> QED
    BY <1>1, <2>1 DEF Conserves
<1>6. CASE Sum(replayed, Rated) # Sum(matched, Rated)
  <2>1. PICK i \in Rated : Modeled(i) # RequestsOf(workspace.cells, CellsOf(i))
    BY <1>2, <1>4, <1>6, SumSame
  <2> DEFINE risk == Risk("rate-coverage-incomplete", i, FALSE)
  <2>2. risk \in Risks(simulator)
    BY <1>3, <2>1
  <2>3. risk.kind = "rate-coverage-incomplete" /\ ~risk.acknowledgeable
    BY DEF Risk
  <2> HIDE DEF risk
  <2>4. Status(Risks(simulator)) = "blocked"
    BY <2>2, <2>3 DEF Status
  <2>5. Simulation.status = Status(Risks(simulator)) /\ Simulation.risks = Risks(simulator)
    BY DEF Simulation
  <2>6. Classified(simulator) <= simulator.observed
    BY <1>1
  <2> QED
    BY <2>2, <2>3, <2>4, <2>5, <2>6 DEF Conserves
<1> QED
  BY <1>5, <1>6

-----------------------------------------------------------------------------
(* What may be rendered *)

(* There are finitely many risks. *)
LEMMA RuleRisksFinite ==
  ASSUME NEW s, NEW i
  PROVE  IsFiniteSet(RuleRisks(s, i))
<1> DEFINE root == {Risk("broad-root-match", i, TRUE) : path \in {p \in policy[i].paths : p = << >>}}
<1>1. \A x : IsFiniteSet({x})
  BY FS_Singleton
<1>2. IsFiniteSet({})
  BY FS_EmptySet
<1>3. IsFiniteSet(root)
  <2>1. root \in SUBSET {Risk("broad-root-match", i, TRUE)}
    OBVIOUS
  <2> HIDE DEF root
  <2> QED
    BY <1>1, <2>1, FS_Subset
<1>4. ASSUME NEW S, IsFiniteSet(S), NEW c \in BOOLEAN, NEW x
      PROVE  IsFiniteSet(S \cup (IF c THEN {x} ELSE {}))
  <2>1. CASE c
    <3>1. S \cup (IF c THEN {x} ELSE {}) = S \cup {x}
      BY <2>1
    <3>2. IsFiniteSet(S \cup {x})
      BY <1>4, FS_AddElement
    <3> QED
      BY <3>1, <3>2
  <2>2. CASE ~c
    <3>1. S \cup (IF c THEN {x} ELSE {}) = S
      BY <2>2
    <3> QED
      BY <1>4, <3>1
  <2> QED
    BY <2>1, <2>2
<1> HIDE DEF root
<1> DEFINE c1 == i \in s.unclassified
<1> DEFINE c2 == Restrictive(i) /\ s.impacts[i].matched > s.observed \div 2
<1> DEFINE c3 == /\ policy[i].action = "allow" /\ ByClaim(policy[i])
                 /\ \E j \in i + 1 .. Len(policy) : Restrictive(j)
<1> DEFINE c4 == ByPath(policy[i]) /\ (s.actionable < s.observed \/ i \in s.ambiguous)
<1> DEFINE c5 == policy[i].action = "rate_limit" /\ s.modeled[i] # s.impacts[i].matched
<1> DEFINE c6 == policy[i].action = "cache"
<1> DEFINE x1 == Risk("path-deny-unclassified", i, TRUE)
<1> DEFINE x2 == Risk("high-impact", i, TRUE)
<1> DEFINE x3 == Risk("claimed-allow-bypass", i, TRUE)
<1> DEFINE x4 == Risk("path-normalization-drift", i, i \notin s.ambiguous)
<1> DEFINE x5 == Risk("rate-coverage-incomplete", i, FALSE)
<1> DEFINE x6 == Risk("analysis-only-cache", i, FALSE)
<1> DEFINE s1 == root \cup (IF c1 THEN {x1} ELSE {})
<1> DEFINE s2 == s1 \cup (IF c2 THEN {x2} ELSE {})
<1> DEFINE s3 == s2 \cup (IF c3 THEN {x3} ELSE {})
<1> DEFINE s4 == s3 \cup (IF c4 THEN {x4} ELSE {})
<1> DEFINE s5 == s4 \cup (IF c5 THEN {x5} ELSE {})
<1> DEFINE s6 == s5 \cup (IF c6 THEN {x6} ELSE {})
<1>5. RuleRisks(s, i) = s6
  BY Zenon DEF RuleRisks, root
<1>6. /\ c1 \in BOOLEAN /\ c2 \in BOOLEAN /\ c3 \in BOOLEAN
      /\ c4 \in BOOLEAN /\ c5 \in BOOLEAN /\ c6 \in BOOLEAN
  BY DEF Restrictive, ByClaim, ByPath
<1> HIDE DEF c1, c2, c3, c4, c5, c6, x1, x2, x3, x4, x5, x6
<1>7. IsFiniteSet(s1)
  BY <1>3, <1>4, <1>6
<1> HIDE DEF s1
<1>8. IsFiniteSet(s2)
  BY <1>4, <1>6, <1>7
<1> HIDE DEF s2
<1>9. IsFiniteSet(s3)
  BY <1>4, <1>6, <1>8
<1> HIDE DEF s3
<1>10. IsFiniteSet(s4)
  BY <1>4, <1>6, <1>9
<1> HIDE DEF s4
<1>11. IsFiniteSet(s5)
  BY <1>4, <1>6, <1>10
<1> HIDE DEF s5
<1>12. IsFiniteSet(s6)
  BY <1>4, <1>6, <1>11
<1> HIDE DEF s6
<1> QED
  BY <1>5, <1>12

(* There are finitely many risks, so as many acknowledgements as risks that *)
(* want one, taken from them, are all of them.                              *)
LEMMA RisksFinite ==
  ASSUME policy \in Policies, NEW s, s.protected \in SUBSET Claim
  PROVE  IsFiniteSet(Risks(s))
<1> DEFINE overflow == IF workspace.overflow > 0 /\ \E i \in DOMAIN policy : ByPath(policy[i])
                       THEN {Risk("cardinality-overflow", "route", FALSE)} ELSE {}
<1> DEFINE guarded == {Risk("protected-crawler", name, TRUE) : name \in s.protected}
<1> DEFINE families == {RuleRisks(s, i) : i \in DOMAIN policy}
<1> DEFINE crowded == {p \in Profile : s.states[p] > ZoneWarned}
<1> DEFINE zones == {Risk("nginx-zone", profile, s.states[profile] <= ZoneRefused) :
                       profile \in crowded}
<1>1. Risks(s) = overflow \cup guarded \cup (UNION families) \cup zones
  BY Zenon DEF Risks
<1>2. IsFiniteSet(overflow)
  BY FS_EmptySet, FS_Singleton
<1>3. IsFiniteSet(guarded)
  <2> DEFINE f == [name \in s.protected |-> Risk("protected-crawler", name, TRUE)]
  <2>1. f \in Surjection(s.protected, guarded)
    BY DEF Surjection
  <2>2. IsFiniteSet(s.protected)
    BY ClaimsFinite, FS_Subset
  <2> HIDE DEF f, guarded
  <2> QED
    BY <2>1, <2>2, FS_Surjection
<1>4. IsFiniteSet(UNION families)
  <2> DEFINE f == [i \in DOMAIN policy |-> RuleRisks(s, i)]
  <2>1. f \in Surjection(DOMAIN policy, families)
    BY DEF Surjection
  <2>2. IsFiniteSet(DOMAIN policy)
    BY PolicyIs
  <2>3. \A T \in families : IsFiniteSet(T)
    BY RuleRisksFinite
  <2> HIDE DEF f, families
  <2>4. IsFiniteSet(families)
    BY <2>1, <2>2, FS_Surjection
  <2> QED
    BY <2>3, <2>4, FS_UNION
<1>5. IsFiniteSet(zones)
  <2> DEFINE f == [profile \in crowded |->
                     Risk("nginx-zone", profile, s.states[profile] <= ZoneRefused)]
  <2>1. f \in Surjection(crowded, zones)
    BY DEF Surjection
  <2>2. IsFiniteSet(crowded)
    BY CatalogAssumption, FS_Subset
  <2> HIDE DEF f, crowded, zones
  <2> QED
    BY <2>1, <2>2, FS_Surjection
<1> HIDE DEF overflow, guarded, families, zones
<1>6. IsFiniteSet(overflow \cup guarded)
  BY <1>2, <1>3, FS_Union
<1>7. IsFiniteSet((overflow \cup guarded) \cup (UNION families))
  BY <1>4, <1>6, FS_Union
<1> DEFINE all == overflow \cup guarded \cup (UNION families) \cup zones
<1>8. IsFiniteSet(all)
  BY <1>5, <1>7, FS_Union
<1>9. Risks(s) = all
  BY <1>1, Zenon
<1> HIDE DEF all
<1> QED
  BY <1>8, <1>9

(* A rule is rendered for the cells it matches, unless it names crawlers    *)
(* and categories.                                                          *)
LEMMA RenderedMatches ==
  ASSUME NEW rule \in Rule, rule.names = {} \/ rule.categories = {}, NEW cell \in Cell
  PROVE  RenderedFor(rule, cell) <=> Matches(rule, cell)
<1>1. cell.claim \in Claim
  BY DEF Cell
<1>2. rule.names \in SUBSET Name
  BY DEF Rule
<1>3. cell.claim \in Expanded(rule) <=> MatchesClaim(rule, cell.claim)
  BY <1>1, <1>2 DEF Expanded, MatchesClaim, ByClaim
<1> QED
  BY <1>3 DEF RenderedFor, Matches

(* The configuration that is written of a policy with no risk left open,    *)
(* and with everything acknowledged that has to be.                         *)
LEMMA RenderProves ==
  ASSUME NEW u, Finished(u),
         Status(Risks(simulator)) \notin {"blocked", "analysis_only"},
         NEW acks, \A risk \in Risks(simulator) : risk.acknowledgeable => risk \in acks
  PROVE  Proven([workspace |-> workspace, policy |-> policy, acks |-> acks,
                 states |-> simulator.states])
<1> DEFINE cells == workspace.cells
<1> DEFINE configuration == [workspace |-> workspace, policy |-> policy, acks |-> acks,
                             states |-> simulator.states]
<1>0. /\ policy \in Policies /\ Valid(policy) /\ workspace \in Workspaces
      /\ DOMAIN cells = 1 .. Len(cells)
      /\ \A k \in DOMAIN cells : cells[k] \in Cell
  BY WorkspaceIs DEF Finished, Ready
<1>1. \A risk \in Risks(simulator) : risk.acknowledgeable
  BY DEF Status
<1>2. ASSUME NEW i \in DOMAIN policy PROVE policy[i].action # "cache"
  <2>1. policy[i].action = "cache" =>
          Risk("analysis-only-cache", i, FALSE) \in RuleRisks(simulator, i)
    BY DEF RuleRisks
  <2>2. policy[i].action = "cache" => Risk("analysis-only-cache", i, FALSE) \in Risks(simulator)
    BY <2>1 DEF Risks
  <2> QED
    BY <1>1, <2>2 DEF Risk
<1>3. ASSUME NEW i \in Rated
      PROVE  \A claim \in Claim : MatchesClaim(policy[i], claim) =>
               workspace.callers[claim].modeled = RequestsOf(cells, ClaimedBy(cells, claim))
  <2>1. policy[i].action = "rate_limit" /\ i \in DOMAIN policy
    BY DEF Rated
  <2>2. simulator.modeled[i] = Modeled(i)
        /\ simulator.impacts[i].matched = RequestsOf(cells, CellsOf(i))
    BY <2>1, ImpactIs
  <2>3. Modeled(i) # RequestsOf(cells, CellsOf(i)) =>
          Risk("rate-coverage-incomplete", i, FALSE) \in RuleRisks(simulator, i)
    BY <2>1, <2>2 DEF RuleRisks
  <2>4. Modeled(i) # RequestsOf(cells, CellsOf(i)) =>
          Risk("rate-coverage-incomplete", i, FALSE) \in Risks(simulator)
    BY <2>1, <2>3 DEF Risks
  <2>5. Modeled(i) = RequestsOf(cells, CellsOf(i))
    BY <1>1, <2>4 DEF Risk
  <2> QED
    BY <1>0, <2>1, <2>5, ReplayedAtMost
<1>4. ASSUME NEW i \in DOMAIN policy, policy[i].paths # {} PROVE workspace.overflow = 0
  <2>1. workspace.overflow > 0 =>
          Risk("cardinality-overflow", "route", FALSE) \in Risks(simulator)
    BY <1>4 DEF Risks, ByPath
  <2>2. workspace.overflow \in Nat
    BY <1>0, WorkspaceIs
  <2> QED
    BY <1>1, <2>1, <2>2 DEF Risk
<1>5. ASSUME NEW profile \in Profile
      PROVE  simulator.states[profile] =
               SumFunction([claim \in {c \in Claim : \E i \in DOMAIN policy :
                                         policy[i].profile = profile /\ MatchesClaim(policy[i], c)}
                              |-> workspace.callers[claim].clients])
  <2> DEFINE seen == {c \in Claim : /\ RateLimits(c) # {}
                                    /\ policy[Min(RateLimits(c))].profile = profile}
  <2> DEFINE named == {c \in Claim : \E i \in DOMAIN policy :
                         policy[i].profile = profile /\ MatchesClaim(policy[i], c)}
  <2>1. simulator.states[profile] = Held(profile)
    <3>1. u \in SimulatorType
      BY DEF Finished, Ready, Complete, Counts
    <3>2. \A i \in Rated : Modeled(i) \in Nat /\ Limited(i) \in Nat
      BY <1>0, ReplayedAtMost DEF Rated
    <3> QED
      BY <1>0, <3>1, <3>2, FinishedIs DEF Finished, Ready
  <2>2. ASSUME NEW c \in Claim, NEW i \in DOMAIN policy, policy[i].action = "rate_limit",
               MatchesClaim(policy[i], c)
        PROVE  RateLimits(c) = {i} /\ Min(RateLimits(c)) = i
    <3>1. RateLimits(c) = {i}
      BY <1>0, <2>2, LimitIsAlone
    <3>2. i \in Nat
      BY <1>0, PolicyIs
    <3>3. Min({i}) \in {i}
      BY <3>2, LeastIs
    <3> QED
      BY <3>1, <3>3
  <2>3. seen = named
    <3>1. ASSUME NEW c \in seen PROVE c \in named
      <4>1. PICK i \in RateLimits(c) : TRUE
        OBVIOUS
      <4>2. i \in DOMAIN policy /\ policy[i].action = "rate_limit" /\ MatchesClaim(policy[i], c)
        BY DEF RateLimits
      <4>3. Min(RateLimits(c)) = i
        BY <2>2, <4>2
      <4> QED
        BY <4>2, <4>3
    <3>2. ASSUME NEW c \in named PROVE c \in seen
      <4>1. PICK i \in DOMAIN policy : policy[i].profile = profile /\ MatchesClaim(policy[i], c)
        OBVIOUS
      <4>2. policy[i].action = "rate_limit"
        BY <1>0, <4>1, LimitHasProfile
      <4>3. RateLimits(c) = {i} /\ Min(RateLimits(c)) = i
        BY <2>2, <4>1, <4>2
      <4> QED
        BY <4>1, <4>3
    <3> QED
      BY <3>1, <3>2
  <2>4. ASSUME NEW c \in seen PROVE workspace.callers[c].known = workspace.callers[c].clients
    <3>1. PICK i \in RateLimits(c) : TRUE
      OBVIOUS
    <3>2. i \in Rated /\ MatchesClaim(policy[i], c)
      BY DEF RateLimits, Rated
    <3>3. workspace.callers[c].modeled = RequestsOf(cells, ClaimedBy(cells, c))
      BY <1>3, <3>2
    <3> QED
      BY <1>0, <3>3, CallersAre
  <2>5. Held(profile) = SumFunction([claim \in seen |-> workspace.callers[claim].known])
    BY DEF Held
  <2> HIDE DEF seen
  <2>6. [claim \in seen |-> workspace.callers[claim].known] =
          [claim \in seen |-> workspace.callers[claim].clients]
    BY <2>4
  <2>7. SumFunction([claim \in seen |-> workspace.callers[claim].known]) =
          SumFunction([claim \in seen |-> workspace.callers[claim].clients])
    BY <2>6, Zenon
  <2> HIDE DEF named
  <2>8. SumFunction([claim \in seen |-> workspace.callers[claim].clients]) =
          SumFunction([claim \in named |-> workspace.callers[claim].clients])
    BY <2>3, Zenon
  <2>9. simulator.states[profile] =
          SumFunction([claim \in named |-> workspace.callers[claim].clients])
    BY <2>1, <2>5, <2>7, <2>8
  <2> QED
    BY <2>9 DEF named
<1>6. ASSUME NEW k \in DOMAIN cells, cells[k].claim \in Protected,
             Decision(policy, cells[k], Matches) \in {"deny", "rate_limit"}
      PROVE  Risk("protected-crawler", cells[k].claim, TRUE) \in acks
  <2> DEFINE cell == cells[k]
  <2> DEFINE d == FirstMatch(cell)
  <2>1. Matching(cell) # {} /\ policy[Min(Matching(cell))].action \in {"deny", "rate_limit"}
    BY <1>6, Zenon DEF Decision, Matching
  <2>2. d = Min(Matching(cell)) /\ d # 0
    <3>1. d # 0
      BY <1>0, <2>1, FirstMatchIs
    <3> QED
      BY <2>1, <3>1 DEF FirstMatch
  <2>3. Restrictive(d)
    BY <2>1, <2>2 DEF Restrictive
  <2>4. cell.claim \in u.protected
    BY <1>0, <1>6, <2>2, <2>3 DEF Finished, Ready, Complete, Counts
  <2>5. cell.claim \in simulator.protected
    BY <2>4, TotalsAre
  <2>6. Risk("protected-crawler", cell.claim, TRUE) \in Risks(simulator)
    BY <2>5 DEF Risks
  <2>7. Risk("protected-crawler", cell.claim, TRUE).acknowledgeable
    BY DEF Risk
  <2> QED
    BY <2>6, <2>7
<1>7. ASSUME NEW k \in DOMAIN cells,
             \A i \in DOMAIN policy : policy[i].names = {} \/ policy[i].categories = {}
      PROVE  Decision(policy, cells[k], RenderedFor) = Decision(policy, cells[k], Matches)
  <2>1. \A i \in DOMAIN policy : policy[i] \in Rule
    BY <1>0, PolicyIs
  <2>2. \A i \in DOMAIN policy : RenderedFor(policy[i], cells[k]) <=> Matches(policy[i], cells[k])
    BY <1>0, <1>7, <2>1, RenderedMatches
  <2>3. {i \in DOMAIN policy : RenderedFor(policy[i], cells[k])} =
          {i \in DOMAIN policy : Matches(policy[i], cells[k])}
    BY <2>2
  <2> QED
    BY <2>3, Zenon DEF Decision
<1>8. /\ configuration.workspace = workspace /\ configuration.policy = policy
      /\ configuration.acks = acks /\ configuration.states = simulator.states
  OBVIOUS
<1>9. \A i \in DOMAIN policy : policy[i].action = "rate_limit" => i \in Rated
  BY DEF Rated
<1> HIDE DEF configuration
<1>10. Proven(configuration)
  BY <1>2, <1>3, <1>4, <1>5, <1>6, <1>7, <1>8, <1>9 DEF Proven
<1> QED
  BY <1>10 DEF configuration

-----------------------------------------------------------------------------
(* The invariant *)

IInv ==
  /\ command \in {"none", "simulate", "render"}
  /\ phase \in {"idle", "cells", "simulated"} /\ (phase = "idle" <=> command = "none")
  /\ phase = "idle" => policy = << >> /\ workspace = Nothing /\ position = 0
  /\ phase # "idle" => Ready /\ position \in 0 .. Len(workspace.cells)
  /\ phase = "cells" => Taken
  /\ phase = "simulated" => Done
  /\ RenderedIsProven

(* A finished simulator comes from a complete one. *)
LEMMA DoneIs ==
  ASSUME Ready, Done
  PROVE  \E u : Finished(u)
BY DEF Done, Finished

(* Nothing runs at first. *)
LEMMA Initially == Init => IInv
BY DEF Init, IInv, RenderedIsProven

(* A command that ends leaves nothing but its files. *)
LEMMA IdleAfterEnd ==
  ASSUME IInv, End, RenderedIsProven'
  PROVE  IInv'
BY DEF IInv, End

(* Every step of a command keeps the invariant. *)
LEMMA Inductive == IInv /\ [Next]_vars => IInv'
<1> SUFFICES ASSUME IInv, [Next]_vars PROVE IInv'
  OBVIOUS
<1>1. ASSUME NEW name \in {"simulate", "render"}, Start(name) PROVE IInv'
  <2>1. /\ command' = name /\ phase' = "cells" /\ position' = 0
        /\ policy' \in Policies /\ Valid(policy') /\ workspace' \in Workspaces
        /\ simulator' = NewSimulator(policy') /\ rendered' = Nothing
    BY <1>1 DEF Start
  <2>2. (policy \in Policies /\ workspace \in Workspaces /\ simulator = NewSimulator(policy)
           /\ position = 0 => Taken)'
    BY NewIs, PTL
  <2>3. Taken'
    BY <2>1, <2>2 DEF NewSimulator
  <2>4. Ready'
    BY <2>1 DEF Ready, Valid, WellFormed, Overlaps, Expanded, ByClaim, ByPath
  <2>5. position' \in 0 .. Len(workspace'.cells)
    <3>1. Len(workspace'.cells) \in Nat
      BY <2>1, WorkspaceAssumption
    <3> QED
      BY <2>1, <3>1
  <2> QED
    BY <2>1, <2>3, <2>4, <2>5 DEF IInv, RenderedIsProven
<1>2. CASE AddCell
  <2>1. /\ phase = "cells" /\ position < Len(workspace.cells) /\ position' = position + 1
        /\ simulator' = Added(simulator, workspace.cells[position + 1])
        /\ UNCHANGED <<command, phase, policy, workspace, file, rendered>>
    BY <1>2 DEF AddCell
  <2>2. /\ Ready /\ position \in Nat /\ position + 1 \in 0 .. Len(workspace.cells)
        /\ Counts(simulator, position) /\ Lists(simulator, position)
    <3>1. Ready /\ position \in 0 .. Len(workspace.cells) /\ Taken
      BY <2>1 DEF IInv
    <3>2. Len(workspace.cells) \in Nat
      BY <3>1, WorkspaceIs DEF Ready
    <3> QED
      BY <2>1, <3>1, <3>2 DEF Taken
  <2>3. Counts(simulator', position')
    BY <2>1, <2>2, CountsStep DEF Ready
  <2>4. Lists(simulator', position')
    <3>1. simulator \in SimulatorType
      BY <2>2 DEF Counts
    <3> QED
      BY <2>1, <2>2, <3>1, ListsStep DEF Ready
  <2>5. Taken'
    BY <2>1, <2>3, <2>4, TakenStays
  <2> QED
    BY <2>1, <2>2, <2>5 DEF IInv, Ready, RenderedIsProven, Valid
<1>3. CASE Finish
  <2> DEFINE u == IF simulator.route = Nothing THEN simulator ELSE Flushed(simulator)
  <2>1. /\ phase = "cells" /\ position = Len(workspace.cells)
        /\ simulator' = WithRateLimits(WithStates(u))
        /\ phase' = "simulated"
        /\ UNCHANGED <<command, policy, workspace, position, file, rendered>>
    BY <1>3 DEF Finish
  <2>2. Ready /\ Counts(simulator, position) /\ Lists(simulator, position)
    BY <2>1 DEF IInv, Taken
  <2>3. Complete(u)
    BY <2>1, <2>2, LastRoute DEF Ready
  <2> HIDE DEF u
  <2>4. Done'
    BY <2>1, <2>3, DoneStays
  <2> QED
    BY <2>1, <2>4 DEF IInv, Ready, RenderedIsProven, Valid
<1>4. CASE Publish
  BY <1>4, IdleAfterEnd DEF Publish, IInv, RenderedIsProven
<1>5. CASE EditFile
  BY <1>5 DEF EditFile, IInv, RenderedIsProven
<1>6. CASE Refuse
  BY <1>6, IdleAfterEnd DEF Refuse, IInv, RenderedIsProven
<1>7. CASE Render
  <2>1. PICK acks :
          /\ phase = "simulated" /\ file = Simulation
          /\ file.status \notin {"blocked", "analysis_only"}
          /\ Acknowledged(acks)
          /\ rendered' = [workspace |-> workspace, policy |-> policy, acks |-> acks,
                          states |-> simulator.states]
          /\ End
    BY <1>7 DEF Render
  <2>2. PICK u : Finished(u)
    BY <2>1, DoneIs DEF IInv
  <2>3. Status(Risks(simulator)) \notin {"blocked", "analysis_only"}
    BY <2>1 DEF Simulation
  <2>4. Required(Simulation) = {risk \in Risks(simulator) : risk.acknowledgeable}
    BY DEF Required, Simulation
  <2>5. IsFiniteSet(Required(Simulation))
    <3>1. simulator.protected \in SUBSET Claim
      <4>1. simulator.protected = u.protected
        BY <2>2, TotalsAre
      <4> QED
        BY <2>2, <4>1 DEF Finished, Ready, Complete, Counts, SimulatorType
    <3>2. IsFiniteSet(Risks(simulator))
      BY <2>2, <3>1, RisksFinite DEF Finished, Ready
    <3> QED
      BY <2>4, <3>2, FS_Subset
  <2>6. acks = Required(Simulation)
    BY <2>1, <2>5, FS_Subset DEF Acknowledged
  <2>7. Proven(rendered')
    BY <2>1, <2>2, <2>3, <2>4, <2>6, RenderProves
  <2>8. RenderedIsProven'
    BY <2>7 DEF RenderedIsProven
  <2> QED
    BY <2>1, <2>8, IdleAfterEnd
<1>8. CASE UNCHANGED vars
  <2>1. Taken => Taken'
    BY <1>8, TakenStays DEF vars, Taken
  <2>2. Done => Done'
    BY <1>8, DoneStays DEF vars, Done
  <2> QED
    BY <1>8, <2>1, <2>2 DEF vars, IInv, Ready, RenderedIsProven
<1> QED
  BY <1>1, <1>2, <1>3, <1>4, <1>5, <1>6, <1>7, <1>8 DEF Next

(* It implies the properties. *)
LEMMA Implied == IInv => TypeOK /\ ImpactsExact /\ Conserves /\ RenderedIsProven
<1> SUFFICES ASSUME IInv PROVE TypeOK /\ ImpactsExact /\ Conserves
  BY DEF IInv
<1>1. CASE phase = "idle"
  BY <1>1 DEF IInv, TypeOK, ImpactsExact, Conserves
<1>2. ASSUME phase # "idle", ImpactsTyped(simulator) PROVE TypeOK
  <2>1. Ready /\ position \in 0 .. Len(workspace.cells)
    BY <1>2 DEF IInv
  <2>2. Len(workspace.cells) \in Nat
    BY <2>1, WorkspaceIs DEF Ready
  <2> QED
    BY <1>2, <2>1, <2>2 DEF IInv, TypeOK, ImpactsTyped, Impact, Ready
<1>3. CASE phase = "cells"
  <2>1. ImpactsTyped(simulator)
    BY <1>3, TakenTyped DEF IInv, Taken
  <2> QED
    BY <1>2, <1>3, <2>1 DEF ImpactsExact, Conserves
<1>4. CASE phase = "simulated"
  <2>1. PICK u : Finished(u)
    BY <1>4, DoneIs DEF IInv
  <2> QED
    BY <1>2, <1>4, <2>1, FinishedTyped, FinishedExact, FinishedConserves
<1> QED
  BY <1>1, <1>3, <1>4 DEF IInv

(* The invariant holds in every state of the commands. *)
THEOREM Invariance == Spec => []IInv
<1> QED
  BY Initially, Inductive, PTL DEF Spec

(* The state of a command has its types, and no list of routes is longer    *)
(* than it is to be (flushRoute).                                           *)
THEOREM PolicyTypeCorrect == Spec => []TypeOK
BY Invariance, Implied, PTL

(* Every rule is shown with the requests that it alone decides on and with  *)
(* the most requested of their routes, in any number of cells and routes    *)
(* (Add, flushRoute, Finish).                                               *)
THEOREM ImpactsAlwaysExact == Spec => []ImpactsExact
BY Invariance, Implied, PTL

(* No valid policy counts a request twice or not at all, unless what was    *)
(* not replayed blocks it (Validate, Finish).                               *)
THEOREM AlwaysConserves == Spec => []Conserves
BY Invariance, Implied, PTL

(* Whatever files and acknowledgements are given, what is rendered was      *)
(* simulated, accounted for and acknowledged (Render).                      *)
THEOREM RenderedAlwaysProven == Spec => []RenderedIsProven
BY Invariance, Implied, PTL
=============================================================================
