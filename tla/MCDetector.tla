------------------------------ MODULE MCDetector ------------------------------
(***************************************************************************)
(* Two prefixes, a shape below both of them, and a third action that only  *)
(* an inherited rule can be for: the window is two intervals of two ticks, *)
(* and a rule lives as long as the window.                                 *)
(***************************************************************************)
EXTENDS Detector, TLC

CONSTANTS api, shop, item, old

Passed(volume, shape) ==
  [denied |-> FALSE, limiter |-> "passed", safe |-> TRUE,
   volume |-> volume, shape |-> shape]

MCKind ==
  {Passed(api, item),
   [Passed(shop, item) EXCEPT !.limiter = "dry_run"],
   [Passed(shop, item) EXCEPT !.denied = TRUE],
   [Passed(api, item) EXCEPT !.limiter = "rejected", !.denied = TRUE]}

MCClaim == {<<api, api>>, <<shop, shop>>, <<old, old>>} \cup ({item} \X {api, shop})

Symmetry == Permutations(RecordId)

(* Bound: what is inherited at the very start are young rules, not for the  *)
(* first prefix; a restart inherits any.                                    *)
MCInit ==
  /\ DetectorInit
  /\ \A key \in Book!Active : key # api /\ rules[key].first = now

MCSpec == MCInit /\ [][DetectorNext]_detectorVars
=============================================================================
