---------------------------- MODULE DetectorConfig ----------------------------
(***************************************************************************)
(* The settings of the detector, what Config.Validate demands of them, and *)
(* the groups and actions the modules of the detector share.  The absolute *)
(* limits of single settings are left out, and so is the one on buckets.   *)
(***************************************************************************)
EXTENDS Naturals, FiniteSets

CONSTANTS
  Interval,   \* evaluation_interval_seconds
  Window,     \* window_seconds
  MaxLag,     \* max_event_lag_seconds
  MaxTracked, \* max_tracked_groups
  Required,   \* required_consecutive_evaluations
  MaxRules,   \* max_active_rules
  TTL,        \* ttl_seconds
  MinReload,  \* min_reload_interval_seconds
  Key,        \* actions: a method and a path prefix, each a volume group too
  Group,      \* what can be tracked: volume groups and shape groups
  Claim,      \* a group and the action it proposes
  NoRule,     \* no rule for an action
  Horizon     \* bound: the last tick of time

(* State.Rules keeps of a rule when it first and last qualified and expires. *)
Rule == [first : Nat, last : Nat, expires : Nat]

(* validateDetection: an interval divides the window. *)
ValidDetection ==
  /\ {Interval, Window, MaxTracked, Required, Horizon} \subseteq Nat \ {0}
  /\ MaxLag \in Nat
  /\ Window % Interval = 0

(* validateAction: a rule outlives a window and the wait for a reload. *)
ValidAction ==
  /\ {MaxRules, TTL, MinReload} \subseteq Nat \ {0}
  /\ Window <= TTL
  /\ MinReload <= TTL

ASSUME WindowAssumption == ValidDetection

ASSUME DetectorAssumption == ValidAction

ASSUME GroupAssumption ==
  /\ IsFiniteSet(Group)
  /\ Key \subseteq Group
  /\ Claim \subseteq Group \X Key
  /\ NoRule \notin Rule
=============================================================================
