-------------------------- MODULE PolicySimulation --------------------------
(***************************************************************************)
(* The policy commands.  "policy simulate" decides every traffic cell of a *)
(* workspace by the first rule that matches it, takes what a rate limit    *)
(* would have done from the replayed rate profiles, lists the risks and    *)
(* publishes the result.  "policy render" repeats all of it, compares it   *)
(* with the published one, wants the risks acknowledged, and writes server *)
(* configuration (Simulator, runSimulation, Render).                       *)
(*                                                                         *)
(* A path is the sequence of its segments, a rule is known by its place in *)
(* the policy, routes are numbered in the order of their names.  Bytes,    *)
(* durations, costs and arithmetic overflow are left out.  A workspace     *)
(* does not change while a command has it open.                            *)
(***************************************************************************)
EXTENDS Naturals, Sequences, FiniteSets, FiniteSetsExt, SequencesExt

CONSTANTS
  Name,        \* crawlers of the catalog
  CategoryOf,  \* their categories
  Protected,   \* the protected ones
  Unclaimed,   \* a caller that claims no crawler
  Method,
  Route,       \* normalized routes
  PrefixOf,    \* their actionable prefixes
  NoPrefix,    \* a route that has none
  Dynamic,     \* routes with a placeholder
  Profile,     \* rate profiles
  NoProfile,
  TopRoutes,   \* routes listed for a rule
  ZoneWarned, ZoneRefused,  \* more states than these make a risk, a blocker
  Policies,    \* bound: the policies that are tried
  Workspaces,  \* bound: the workspaces
  Nothing

Claim == Name \cup {Unclaimed}
Category == {CategoryOf[name] : name \in Name}

Rule ==
  [action : {"allow", "deny", "rate_limit", "cache"}, profile : Profile \cup {NoProfile},
   names : SUBSET Name, categories : SUBSET Category,
   paths : SUBSET Seq(STRING), methods : SUBSET Method]

(* What the rate profiles say of a claim; clients and known are how many    *)
(* callers there were, and how many of them have a row in subject_stats.    *)
Callers ==
  [modeled : Nat, limited : [Profile -> Nat], known : Nat, clients : Nat]

Cell ==
  [route : Route, method : Method, claim : Claim, unclassified : BOOLEAN, requests : Nat]

RequestsOf(cells, places) == SumFunction([k \in places |-> cells[k].requests])
ClaimedBy(cells, claim) == {k \in DOMAIN cells : cells[k].claim = claim}

ASSUME CatalogAssumption ==
  /\ IsFiniteSet(Name) /\ IsFiniteSet(Profile)
  /\ NoProfile \notin Profile /\ Nothing \notin Route

(* A workspace, as Aggregation leaves it: ordered by routes, no more replayed*)
(* than there was, and nothing replayed of a caller that has no row.        *)
ASSUME WorkspaceAssumption ==
  \A workspace \in Workspaces :
    /\ workspace.cells \in Seq(Cell) /\ workspace.overflow \in Nat
    /\ workspace.callers \in [Claim -> Callers]
    /\ \A i, j \in DOMAIN workspace.cells :
         i <= j => workspace.cells[i].route <= workspace.cells[j].route
    /\ \A claim \in Claim :
         LET callers == workspace.callers[claim]
             requests == RequestsOf(workspace.cells, ClaimedBy(workspace.cells, claim))
         IN  /\ callers.modeled <= requests
             /\ \A profile \in Profile : callers.limited[profile] <= callers.modeled
             /\ callers.known <= callers.clients
             /\ callers.known < callers.clients => callers.modeled < requests

ASSUME PolicyAssumption ==
  /\ Policies \subseteq Seq(Rule) /\ TopRoutes \in Nat \ {0} /\ ZoneWarned <= ZoneRefused
  /\ Route \subseteq Nat \ {0}

VARIABLES
  command,     \* the command that runs, or "none"
  phase,       \* where it is
  policy,      \* the policy it has loaded
  workspace,   \* the workspace it has open
  position,    \* the cells it has taken
  simulator,   \* the Simulator
  file,        \* simulation.json, the last one written
  rendered     \* the last configuration written

vars == <<command, phase, policy, workspace, position, simulator, file, rendered>>

-----------------------------------------------------------------------------
(* Validate *)

ByClaim(rule) == rule.names # {} \/ rule.categories # {}
ByPath(rule) == rule.paths # {}

WellFormed(rule) ==
  \/ /\ rule.action \in {"allow", "deny"}
     /\ ByClaim(rule) \/ ByPath(rule) \/ rule.methods # {}
     /\ rule.profile = NoProfile
  \/ /\ rule.action = "rate_limit"
     /\ ByClaim(rule) /\ ~ByPath(rule) /\ rule.methods = {} /\ rule.profile # NoProfile
  \/ /\ rule.action = "cache"
     /\ ~ByClaim(rule) /\ ByPath(rule)
     /\ rule.methods # {} /\ rule.methods \subseteq {"GET", "HEAD"}
     /\ rule.profile = NoProfile

(* The claims that a rule names, one way or the other.                      *)
Expanded(rule) ==
  IF ~ByClaim(rule) THEN Claim
  ELSE rule.names \cup {name \in Name : CategoryOf[name] \in rule.categories}

(* Fault: only rate limits are compared with each other. *)
OverlapsRateLimit(rules, i, j) ==
  rules[j].action = "rate_limit" /\ Expanded(rules[i]) \cap Expanded(rules[j]) # {}

Overlaps(rules, i, j) == Expanded(rules[i]) \cap Expanded(rules[j]) # {}

Valid(rules) ==
  /\ rules # << >>
  /\ \A i \in DOMAIN rules :
       /\ WellFormed(rules[i])
       /\ rules[i].action = "rate_limit" => \A j \in 1 .. i - 1 : ~Overlaps(rules, i, j)

-----------------------------------------------------------------------------
(* Matches *)

MatchesClaim(rule, claim) ==
  /\ rule.names = {} \/ claim \in rule.names
  /\ rule.categories = {} \/ (claim \in Name /\ CategoryOf[claim] \in rule.categories)

MatchesMethod(rule, method) == rule.methods = {} \/ method \in rule.methods

MatchesPath(rule, route) ==
  \/ rule.paths = {}
  \/ PrefixOf[route] # NoPrefix /\ \E path \in rule.paths : IsPrefix(path, PrefixOf[route])

Matches(rule, cell) ==
  /\ MatchesClaim(rule, cell.claim)
  /\ MatchesPath(rule, cell.route)
  /\ MatchesMethod(rule, cell.method)

Matching(cell) == {i \in DOMAIN policy : Matches(policy[i], cell)}

(* Fault: a later rule overrides an earlier one. *)
LastMatch(cell) == IF Matching(cell) = {} THEN 0 ELSE Max(Matching(cell))

FirstMatch(cell) == IF Matching(cell) = {} THEN 0 ELSE Min(Matching(cell))

(* ambiguousDynamicPath: the rule goes into a segment that a placeholder    *)
(* may stand for.                                                           *)
Ambiguous(rule, route) ==
  /\ PrefixOf[route] # NoPrefix /\ route \in Dynamic
  /\ \E path \in rule.paths : IsStrictPrefix(PrefixOf[route], path)

-----------------------------------------------------------------------------
(* Simulator *)

NoImpact == [matched |-> 0, allowed |-> 0, denied |-> 0, limited |-> 0]

NewSimulator(rules) ==
  [observed |-> 0, allowed |-> 0, denied |-> 0, limited |-> 0,
   impacts |-> [i \in DOMAIN rules |-> NoImpact],
   modeled |-> [i \in DOMAIN rules |-> 0],
   route |-> Nothing,
   rows |-> [i \in DOMAIN rules |-> 0],
   top |-> [i \in DOMAIN rules |-> {}],
   protected |-> {}, unclassified |-> {}, ambiguous |-> {}, actionable |-> 0,
   states |-> [profile \in Profile |-> 0]]

Above(one, other) ==
  \/ one.requests > other.requests
  \/ one.requests = other.requests /\ one.route < other.route

(* Fault: the list is cut one place too late. *)
TopAndOneMore(entries) ==
  {entry \in entries : Cardinality({other \in entries : Above(other, entry)}) <= TopRoutes}

Top(entries) ==
  {entry \in entries : Cardinality({other \in entries : Above(other, entry)}) < TopRoutes}

(* flushRoute: the list of every rule is cut whenever a route is added.     *)
Flushed(s) ==
  [s EXCEPT
     !.top = [i \in DOMAIN policy |->
                IF s.rows[i] = 0 THEN @[i]
                ELSE Top(@[i] \cup {[route |-> s.route, requests |-> s.rows[i]]})],
     !.rows = [i \in DOMAIN policy |-> 0]]

OnRoute(s, route) ==
  [(IF s.route \in {Nothing, route} THEN s ELSE Flushed(s)) EXCEPT !.route = route]

(* What is noted of a cell, whatever is done with it.                       *)
Observed(s, cell) ==
  LET first == FirstMatch(cell)
      tried == {i \in DOMAIN policy : first = 0 \/ i <= first}
  IN  [s EXCEPT
         !.observed = @ + cell.requests,
         !.actionable = IF PrefixOf[cell.route] = NoPrefix THEN @ ELSE @ + cell.requests,
         !.ambiguous = @ \cup {i \in tried : /\ MatchesClaim(policy[i], cell.claim)
                                             /\ MatchesMethod(policy[i], cell.method)
                                             /\ Ambiguous(policy[i], cell.route)}]

(* What the rule that decides on a cell makes of it. *)
Decided(s, cell, i) ==
  LET rule == policy[i]
      n == cell.requests
      passed == IF rule.action \in {"allow", "cache"} THEN n ELSE 0
      denied == IF rule.action = "deny" THEN n ELSE 0
  IN  [s EXCEPT
         !.impacts[i] = [matched |-> @.matched + n, allowed |-> @.allowed + passed,
                         denied |-> @.denied + denied, limited |-> @.limited],
         !.allowed = @ + passed,
         !.denied = @ + denied,
         !.rows[i] = @ + n,
         !.protected =
           @ \cup (IF rule.action \in {"deny", "rate_limit"} THEN {cell.claim} \cap Protected ELSE {}),
         !.unclassified =
           @ \cup (IF rule.action = "deny" /\ cell.unclassified /\ ByPath(rule) /\ ~ByClaim(rule)
                 THEN {i} ELSE {})]

Added(s, cell) ==
  LET seen == Observed(OnRoute(s, cell.route), cell)
      i == FirstMatch(cell)
  IN  IF i = 0 THEN [seen EXCEPT !.allowed = @ + cell.requests] ELSE Decided(seen, cell, i)

(* The rate limits of a claim: the first one that names it.                 *)
RateLimits(claim) ==
  {i \in DOMAIN policy : policy[i].action = "rate_limit" /\ MatchesClaim(policy[i], claim)}

(* AddSubjectState, for every row of the claims *)
WithStates(s) ==
  [s EXCEPT !.states = [profile \in Profile |->
     SumFunction([claim \in {c \in Claim : /\ RateLimits(c) # {}
                                          /\ policy[Min(RateLimits(c))].profile = profile}
                    |-> workspace.callers[claim].known])]]

(* The rows of rate_profile_impacts that a rate limit takes: those of its   *)
(* own profile which no earlier rule with this profile takes.               *)
RowsOfRule(i) ==
  {claim \in Claim :
     /\ i \in RateLimits(claim)
     /\ \A j \in RateLimits(claim) : policy[j].profile = policy[i].profile => i <= j}

Modeled(i) == SumFunction([claim \in RowsOfRule(i) |-> workspace.callers[claim].modeled])
Limited(i) ==
  SumFunction([claim \in RowsOfRule(i) |->
                 workspace.callers[claim].limited[policy[i].profile]])

(* Finish, up to the risks *)
WithRateLimits(s) ==
  LET rated == {i \in DOMAIN policy : policy[i].action = "rate_limit"}
      modeled == [i \in DOMAIN policy |-> IF i \in rated THEN Modeled(i) ELSE 0]
      limited == [i \in DOMAIN policy |-> IF i \in rated THEN Limited(i) ELSE 0]
  IN  [s EXCEPT
         !.modeled = modeled,
         !.impacts = [i \in DOMAIN policy |->
                        [s.impacts[i] EXCEPT !.allowed = @ + modeled[i] - limited[i],
                                             !.limited = limited[i]]],
         !.allowed = @ + SumFunction([i \in rated |-> modeled[i] - limited[i]]),
         !.limited = SumFunction([i \in rated |-> limited[i]])]

-----------------------------------------------------------------------------
(* Risks and status *)

Risk(kind, of, acknowledgeable) == [kind |-> kind, of |-> of, acknowledgeable |-> acknowledgeable]

Restrictive(i) == policy[i].action \in {"deny", "rate_limit"}

RuleRisks(s, i) ==
  {Risk("broad-root-match", i, TRUE) : path \in {p \in policy[i].paths : p = << >>}}
    \cup (IF i \in s.unclassified THEN {Risk("path-deny-unclassified", i, TRUE)} ELSE {})
    \cup (IF Restrictive(i) /\ s.impacts[i].matched > s.observed \div 2
          THEN {Risk("high-impact", i, TRUE)} ELSE {})
    \cup (IF /\ policy[i].action = "allow" /\ ByClaim(policy[i])
             /\ \E j \in i + 1 .. Len(policy) : Restrictive(j)
          THEN {Risk("claimed-allow-bypass", i, TRUE)} ELSE {})
    \cup (IF ByPath(policy[i]) /\ (s.actionable < s.observed \/ i \in s.ambiguous)
          THEN {Risk("path-normalization-drift", i, i \notin s.ambiguous)} ELSE {})
    \cup (IF policy[i].action = "rate_limit" /\ s.modeled[i] # s.impacts[i].matched
          THEN {Risk("rate-coverage-incomplete", i, FALSE)} ELSE {})
    \cup (IF policy[i].action = "cache" THEN {Risk("analysis-only-cache", i, FALSE)} ELSE {})

Risks(s) ==
  (IF workspace.overflow > 0 /\ \E i \in DOMAIN policy : ByPath(policy[i])
   THEN {Risk("cardinality-overflow", "route", FALSE)} ELSE {})
    \cup {Risk("protected-crawler", name, TRUE) : name \in s.protected}
    \cup (UNION {RuleRisks(s, i) : i \in DOMAIN policy})
    \cup {Risk("nginx-zone", profile, s.states[profile] <= ZoneRefused) :
            profile \in {p \in Profile : s.states[p] > ZoneWarned}}

(* statusFor *)
Status(risks) ==
  IF \E risk \in risks : ~risk.acknowledgeable /\ risk.kind # "analysis-only-cache" THEN "blocked"
  ELSE IF \E risk \in risks : risk.kind = "analysis-only-cache" THEN "analysis_only"
  ELSE IF risks # {} THEN "requires_ack"
  ELSE "safe"

(* What "policy simulate" publishes.                                        *)
Simulation ==
  [workspace |-> workspace, policy |-> policy,
   status |-> Status(Risks(simulator)), risks |-> Risks(simulator),
   totals |-> <<simulator.observed, simulator.allowed, simulator.denied, simulator.limited>>,
   impacts |-> simulator.impacts, top |-> simulator.top]

Required(simulation) == {risk \in simulation.risks : risk.acknowledgeable}

(* Conserves: every request is allowed, denied or limited, but for the ones *)
(* whose rate limit could not be replayed.                                  *)
Classified(s) == s.allowed + s.denied + s.limited

-----------------------------------------------------------------------------
(* The commands *)

Init ==
  /\ command = "none" /\ phase = "idle"
  /\ policy = << >> /\ workspace = Nothing /\ position = 0
  /\ simulator = Nothing /\ file = Nothing /\ rendered = Nothing

(* A command opens the workspace and loads the policy; one that is not      *)
(* valid ends it.  Only the last simulation.json is kept here.              *)
Start(name) ==
  /\ phase = "idle"
  /\ name = "render" => file # Nothing
  /\ command' = name /\ phase' = "cells" /\ position' = 0
  /\ \E rules \in Policies : Valid(rules) /\ policy' = rules
  /\ workspace' \in Workspaces
  /\ simulator' = NewSimulator(policy')
  /\ file' = IF name = "render" THEN file ELSE Nothing
  /\ rendered' = Nothing

AddCell ==
  /\ phase = "cells" /\ position < Len(workspace.cells)
  /\ position' = position + 1
  /\ simulator' = Added(simulator, workspace.cells[position'])
  /\ UNCHANGED <<command, phase, policy, workspace, file, rendered>>

Finish ==
  /\ phase = "cells" /\ position = Len(workspace.cells)
  /\ simulator' = WithRateLimits(WithStates(IF simulator.route = Nothing THEN simulator
                                            ELSE Flushed(simulator)))
  /\ phase' = "simulated"
  /\ UNCHANGED <<command, policy, workspace, position, file, rendered>>

(* A command ends and forgets what it had.                                  *)
End ==
  /\ command' = "none" /\ phase' = "idle"
  /\ policy' = << >> /\ workspace' = Nothing /\ position' = 0 /\ simulator' = Nothing

Publish ==
  /\ phase = "simulated" /\ command = "simulate"
  /\ file' = Simulation
  /\ End
  /\ UNCHANGED rendered

(* Somebody makes a harmless file of a simulation that was not.             *)
EditFile ==
  /\ phase = "idle" /\ file # Nothing
  /\ file' = [file EXCEPT !.status = "safe", !.risks = {}]
  /\ UNCHANGED <<command, phase, policy, workspace, position, simulator, rendered>>

(* Fault: it is enough that there are as many acknowledgements as risks. *)
AcknowledgedByNumber(acks) ==
  /\ acks \subseteq Required(Simulation) \cup {Nothing}
  /\ Cardinality(acks) = Cardinality(Required(Simulation))

(* validateAcknowledgements, without the status *)
Acknowledged(acks) ==
  /\ acks \subseteq Required(Simulation)
  /\ Cardinality(acks) = Cardinality(Required(Simulation))

Render ==
  /\ phase = "simulated" /\ command = "render"
  /\ file = Simulation
  /\ file.status \notin {"blocked", "analysis_only"}
  /\ \E acks \in SUBSET (Required(file) \cup {Nothing}) :
       /\ Acknowledged(acks)
       /\ rendered' = [workspace |-> workspace, policy |-> policy, acks |-> acks,
                       states |-> simulator.states]
  /\ End
  /\ UNCHANGED file

(* A command may end at any place, with an error of its own or of a write.  *)
Refuse ==
  /\ phase # "idle"
  /\ End
  /\ UNCHANGED <<file, rendered>>

Next ==
  \/ Start("simulate") \/ Start("render")
  \/ AddCell \/ Finish \/ Publish \/ EditFile
  \/ Render \/ Refuse

Spec == Init /\ [][Next]_vars

-----------------------------------------------------------------------------
TypeOK ==
  /\ command \in {"none", "simulate", "render"}
  /\ phase \in {"idle", "cells", "simulated"} /\ (phase = "idle" <=> command = "none")
  /\ policy \in Policies \cup {<< >>}
  /\ workspace \in Workspaces \cup {Nothing}
  /\ position \in Nat
  /\ phase # "idle" =>
       /\ position <= Len(workspace.cells)
       /\ \A i \in DOMAIN policy :
            /\ simulator.impacts[i] \in [matched : Nat, allowed : Nat, denied : Nat, limited : Nat]
            /\ simulator.top[i] \subseteq [route : Route, requests : Nat \ {0}]
            /\ Cardinality(simulator.top[i]) <= TopRoutes

(* The rule that decides on a cell when the policy is read as it is         *)
(* documented: it matches and no earlier one does.                          *)
DecidedBy(cell, i) ==
  Matches(policy[i], cell) /\ \A j \in 1 .. i - 1 : ~Matches(policy[j], cell)

(* The places of its cells, and its routes, all of them. *)
CellsOf(i) == {k \in DOMAIN workspace.cells : DecidedBy(workspace.cells[k], i)}

RoutesOf(i) ==
  {[route |-> route,
    requests |-> RequestsOf(workspace.cells, {k \in CellsOf(i) : workspace.cells[k].route = route})] :
     route \in Route}

(* First match wins: every rule is shown with the requests that it alone    *)
(* decides on and with the most requested of their routes, although the     *)
(* list is cut route by route; and the totals are those of the rules        *)
(* (Add, flushRoute, Finish).                                               *)
ImpactsExact ==
  phase = "simulated" =>
    LET impacts == simulator.impacts
        cells == workspace.cells
    IN  /\ \A i \in DOMAIN policy :
             /\ impacts[i].matched = RequestsOf(cells, CellsOf(i))
             /\ simulator.top[i] = Top({entry \in RoutesOf(i) : entry.requests > 0})
             /\ impacts[i].allowed + impacts[i].denied + impacts[i].limited
                  <= impacts[i].matched
        /\ simulator.denied = SumFunction([i \in DOMAIN policy |-> impacts[i].denied])
        /\ simulator.limited = SumFunction([i \in DOMAIN policy |-> impacts[i].limited])
        /\ simulator.observed = RequestsOf(cells, DOMAIN cells)

(* No valid policy counts a request twice, once by the cell it is in and    *)
(* once in the replayed rate limits, or not at all; what was not replayed   *)
(* blocks the policy (Validate, Finish; runSimulation gives up otherwise).  *)
Conserves ==
  phase = "simulated" =>
    /\ Classified(simulator) <= simulator.observed
    /\ \/ Classified(simulator) = simulator.observed
       \/ Simulation.status = "blocked"
          /\ \E risk \in Simulation.risks : risk.kind = "rate-coverage-incomplete"

(* The decision that is rendered for a cell: a rule that names crawlers and *)
(* categories is written for all of them (expandedNames).                   *)
RenderedFor(rule, cell) ==
  /\ cell.claim \in Expanded(rule)
  /\ MatchesPath(rule, cell.route) /\ MatchesMethod(rule, cell.method)

Decision(rules, cell, For(_, _)) ==
  LET matching == {i \in DOMAIN rules : For(rules[i], cell)} IN
    IF matching = {} THEN "allow" ELSE rules[Min(matching)].action

Proven(configuration) ==
  LET cells == configuration.workspace.cells
      rules == configuration.policy
      callers == configuration.workspace.callers
  IN  /\ \A i \in DOMAIN rules :
           /\ rules[i].action # "cache"
           /\ rules[i].action = "rate_limit" =>
                \A claim \in Claim :
                  MatchesClaim(rules[i], claim) =>
                    callers[claim].modeled = RequestsOf(cells, ClaimedBy(cells, claim))
           /\ rules[i].paths # {} => configuration.workspace.overflow = 0
      /\ \A profile \in Profile :
           configuration.states[profile] =
             SumFunction([claim \in {c \in Claim : \E i \in DOMAIN rules :
                                       rules[i].profile = profile /\ MatchesClaim(rules[i], c)}
                            |-> callers[claim].clients])
      /\ \A k \in DOMAIN cells :
           /\ /\ cells[k].claim \in Protected
              /\ Decision(rules, cells[k], Matches) \in {"deny", "rate_limit"}
              => Risk("protected-crawler", cells[k].claim, TRUE) \in configuration.acks
           /\ (\A i \in DOMAIN rules : rules[i].names = {} \/ rules[i].categories = {}) =>
                Decision(rules, cells[k], RenderedFor) = Decision(rules, cells[k], Matches)

(* Whatever files and acknowledgements are given, a configuration is only   *)
(* written when its very policy was simulated on this workspace, every      *)
(* request was accounted for, no path was in doubt, every caller that a     *)
(* zone has to hold was seen, and everybody who denies or limits a protected*)
(* crawler has said so; and it decides as the simulation did, when no rule  *)
(* names crawlers and categories (Render, validateAcknowledgements).        *)
RenderedIsProven == rendered # Nothing => Proven(rendered)

-----------------------------------------------------------------------------
(* README: a simulation shows "what a deny or rate-limit rule would have    *)
(* changed if it had been live".  So the configuration that is written      *)
(* decides on the cells it was simulated on as the simulation did.          *)
RendersWhatWasSimulated ==
  rendered # Nothing =>
    \A k \in DOMAIN rendered.workspace.cells :
      Decision(rendered.policy, rendered.workspace.cells[k], RenderedFor) =
        Decision(rendered.policy, rendered.workspace.cells[k], Matches)
=============================================================================
