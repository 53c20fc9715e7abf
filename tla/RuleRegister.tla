---------------------------- MODULE RuleRegister ----------------------------
(***************************************************************************)
(* What live protection promises to the operator of the web server,        *)
(* whatever fails underneath: Nginx enforces a rule set that somebody      *)
(* asked for since the last confirmed one, or a reload that will make it   *)
(* so is already under way.                                                *)
(*                                                                         *)
(* A coordinator asks for rule sets (the persisted desired state), one of  *)
(* the sets asked for is installed (the managed map file), Nginx loads     *)
(* what is installed, and a confirmation forgets every set but the last    *)
(* one asked for.  After a confirmed request for the empty set, and until  *)
(* the next request, nothing but the empty set can be enforced.            *)
(***************************************************************************)
CONSTANT Rule

VARIABLES
  asked,       \* the rule set last asked for
  candidates,  \* the rule sets asked for since the last confirmation
  installed,   \* the rule set in the file Nginx reads
  loaded,      \* the rule set Nginx enforces
  reloading    \* a reload has been requested and has not happened yet

vars == <<asked, candidates, installed, loaded, reloading>>

TypeOK ==
  /\ asked \in SUBSET Rule
  /\ candidates \in SUBSET (SUBSET Rule)
  /\ installed \in SUBSET Rule
  /\ loaded \in SUBSET Rule
  /\ reloading \in BOOLEAN

Init ==
  /\ asked = {}
  /\ candidates = {{}}
  /\ installed = {}
  /\ loaded = {}
  /\ reloading = FALSE

Ask(rules) ==
  /\ asked' = rules
  /\ candidates' = candidates \cup {rules}
  /\ UNCHANGED <<installed, loaded, reloading>>

Install(rules) ==
  /\ rules \in candidates
  /\ installed' = rules
  /\ UNCHANGED <<asked, candidates, loaded, reloading>>

RequestReload ==
  /\ reloading' = TRUE
  /\ UNCHANGED <<asked, candidates, installed, loaded>>

Load ==
  /\ loaded' = installed
  /\ reloading' = FALSE
  /\ UNCHANGED <<asked, candidates, installed>>

(* Only a set that is installed, and enforced or about to be, is confirmed. *)
Confirm ==
  /\ installed = asked
  /\ reloading \/ loaded = asked
  /\ candidates' = {asked}
  /\ UNCHANGED <<asked, installed, loaded, reloading>>

Next ==
  \/ \E rules \in SUBSET Rule : Ask(rules) \/ Install(rules)
  \/ RequestReload
  \/ Load
  \/ Confirm

Spec == Init /\ [][Next]_vars

(***************************************************************************)
(* The promise: the installed set was asked for since the last             *)
(* confirmation, and so was the enforced one unless Nginx is about to       *)
(* reload (clearLiveState, ApplyActiveMap and its rollbacks).               *)
(***************************************************************************)
OnlyAskedFor ==
  /\ asked \in candidates
  /\ installed \in candidates
  /\ reloading \/ loaded \in candidates
=============================================================================
