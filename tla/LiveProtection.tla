--------------------------- MODULE LiveProtection ---------------------------
(***************************************************************************)
(* The live half of "crawlledger protect": unprivileged coordinators (the  *)
(* watcher of "protect run --apply" and the command "protect clear"), the  *)
(* privileged children they start through sudo ("protect apply"), the      *)
(* desired-state file, the managed Nginx map, the two lock files, and       *)
(* Nginx itself.                                                            *)
(*                                                                         *)
(* A rule is the method/path pair that crosses the privilege boundary      *)
(* (ApplyRule).  Expiry and refresh times belong to module RuleBook: here  *)
(* an evaluation may ask for any rule set.  A child that outlives its      *)
(* coordinator (the 45 s timeout of runSudo, a canceled context, a crash)  *)
(* keeps running: it is an orphan.                                          *)
(***************************************************************************)
EXTENDS FiniteSets

CONSTANTS
  Rule,     \* the method/path pairs a detector can ask to limit
  Watcher,  \* coordinator processes
  Child,    \* privileged child processes that can be alive at once (a bound)
  Config,   \* the contents the root-owned config file can have
  Nobody    \* holder of a free lock, config digest of a missing state file

ASSUME ProcessAssumption ==
  /\ Watcher \cap Child = {}
  /\ Nobody \notin Watcher \cup Child \cup Config

VARIABLES
  config,          \* the config file; loaded by every process at its start
  stateFile,       \* the persisted desired state: config digest and rules
  activeMap,       \* the rule set in the managed map file
  nginxRules,      \* the rule set Nginx enforces
  reloadSignal,    \* "nginx -s reload" was sent and not yet acted upon
  coordinatorLock, \* holder of crawlledger-state.lock
  applyLock,       \* holder of crawlledger-apply.lock
  wpc,             \* where each coordinator is
  wconfig,         \* the config it loaded
  desired,         \* Detector.state.Rules: the state it persists and hands over
  applied,         \* Detector.appliedRules: what it believes Nginx enforces
  canceled,        \* SIGTERM received
  invoked,         \* the child it waits for, or Nobody
  cpc,             \* where each child is
  cconfig,         \* the config it loaded
  payload,         \* the rule set received on stdin
  previous,        \* the map it found, for a rollback
  requested,       \* history: rule sets the state file held since the last
                   \* apply that a coordinator saw succeed
  cleared          \* history: a clear succeeded and no coordinator took the
                   \* lock since

watcherVars == <<wpc, wconfig, desired, applied, canceled, invoked>>
childVars == <<cpc, cconfig, payload, previous>>
nginxVars == <<activeMap, nginxRules, reloadSignal>>
vars == <<config, stateFile, nginxVars, coordinatorLock, applyLock,
          watcherVars, childVars, requested, cleared>>

(* What a state is projected to and a payload holds: each rule once.       *)
RuleSet == SUBSET Rule

(* What a state file that does not exist is read as. *)
NoState == [config |-> Nobody, rules |-> {}]

Waiting == {"reconcileApply", "loopApply", "clearApply"}
Loop == {"loop", "loopInvoke", "loopApply"}
Coordinating == {"reconcile", "reconcileInvoke", "clear", "clearInvoke"}
                  \cup Waiting \cup Loop
WatcherPC == {"off", "runLoaded", "clearLoaded"} \cup Coordinating

Unlocked == {"probe1", "probing1", "lock"}
Unchanging == {"probe2", "probing2", "read", "preflight"}
Changing == {"replace", "test", "undo", "reload", "undoReload", "retest",
             "rereload"}
(* ApplyActiveMap has returned an error: that of the replacement, one that  *)
(* says the previous map was restored, a RollbackError.                     *)
Returned == {"failed", "restored", "broken"}
ApplyHolding == Unchanging \cup Changing \cup Returned
Alive == Unlocked \cup ApplyHolding
(* A child somebody waits for leaves its exit status: 0, or not. *)
ChildPC == {"free", "succeeded", "exited"} \cup Alive

TypeOK ==
  /\ config \in Config
  /\ stateFile \in [config : Config \cup {Nobody}, rules : RuleSet]
  /\ activeMap \in RuleSet
  /\ nginxRules \in RuleSet
  /\ reloadSignal \in BOOLEAN
  /\ coordinatorLock \in Watcher \cup Child \cup {Nobody}
  /\ applyLock \in Child \cup {Nobody}
  /\ wpc \in [Watcher -> WatcherPC]
  /\ wconfig \in [Watcher -> Config]
  /\ desired \in [Watcher -> RuleSet]
  /\ applied \in [Watcher -> RuleSet]
  /\ canceled \in [Watcher -> BOOLEAN]
  /\ invoked \in [Watcher -> Child \cup {Nobody}]
  /\ cpc \in [Child -> ChildPC]
  /\ cconfig \in [Child -> Config]
  /\ payload \in [Child -> RuleSet]
  /\ previous \in [Child -> RuleSet]
  /\ requested \in SUBSET RuleSet
  /\ cleared \in BOOLEAN

(* After "protect setup": an empty map that Nginx has loaded, no state file. *)
Init ==
  /\ config \in Config
  /\ stateFile = NoState
  /\ activeMap = {}
  /\ nginxRules = {}
  /\ reloadSignal = FALSE
  /\ coordinatorLock = Nobody
  /\ applyLock = Nobody
  /\ wpc = [w \in Watcher |-> "off"]
  /\ wconfig = [w \in Watcher |-> config]
  /\ desired = [w \in Watcher |-> {}]
  /\ applied = [w \in Watcher |-> {}]
  /\ canceled = [w \in Watcher |-> FALSE]
  /\ invoked = [w \in Watcher |-> Nobody]
  /\ cpc = [k \in Child |-> "free"]
  /\ cconfig = [k \in Child |-> config]
  /\ payload = [k \in Child |-> {}]
  /\ previous = [k \in Child |-> {}]
  /\ requested = {{}}
  /\ cleared = FALSE

-----------------------------------------------------------------------------
(* Coordinators: ProtectRun and ProtectClear *)

Goto(w, place) == wpc' = [wpc EXCEPT ![w] = place]

(* The process ends: its memory is gone and the coordinator lock closed. *)
Stop(w) ==
  /\ Goto(w, "off")
  /\ desired' = [desired EXCEPT ![w] = {}]
  /\ applied' = [applied EXCEPT ![w] = {}]
  /\ canceled' = [canceled EXCEPT ![w] = FALSE]
  /\ invoked' = [invoked EXCEPT ![w] = Nobody]
  /\ coordinatorLock' = IF coordinatorLock = w THEN Nobody ELSE coordinatorLock

Load(w) ==
  /\ wpc[w] = "off"
  /\ \E place \in {"runLoaded", "clearLoaded"} : Goto(w, place)
  /\ wconfig' = [wconfig EXCEPT ![w] = config]
  /\ UNCHANGED <<config, stateFile, nginxVars, coordinatorLock, applyLock,
                 desired, applied, canceled, invoked, childVars, requested,
                 cleared>>

AcquireCoordinatorLock(w) ==
  /\ \/ wpc[w] = "runLoaded" /\ Goto(w, "reconcile")
     \/ wpc[w] = "clearLoaded" /\ Goto(w, "clear")
  /\ coordinatorLock = Nobody
  /\ coordinatorLock' = w
  /\ cleared' = FALSE
  /\ UNCHANGED <<config, stateFile, nginxVars, applyLock, wconfig, desired,
                 applied, canceled, invoked, childVars, requested>>

CoordinatorLockHeld(w) ==
  /\ wpc[w] \in {"runLoaded", "clearLoaded"}
  /\ coordinatorLock # Nobody
  /\ Stop(w)
  /\ UNCHANGED <<config, stateFile, nginxVars, applyLock, wconfig, childVars,
                 requested, cleared>>

(* Fault: the state is handed over without having been written. *)
WriteStateSkipped(w, rules) ==
  /\ UNCHANGED stateFile
  /\ requested' = requested \cup {rules}

(* The rename of the atomic replacement took place. *)
WriteState(w, rules) ==
  /\ stateFile' = [config |-> wconfig[w], rules |-> rules]
  /\ requested' = requested \cup {rules}

(* The write fails: before the rename, or after it (the directory sync). *)
WriteStateFails(w, rules) ==
  \/ WriteState(w, rules)
  \/ UNCHANGED <<stateFile, requested>>

(* The rules a new watcher inherits: none from another config. *)
Inherited(w) ==
  IF stateFile.config = wconfig[w] THEN stateFile.rules ELSE {}

(* reconcileLiveStateWith up to the apply: expired rules are dropped, and   *)
(* the state is written only when that or the digests changed it.          *)
Reconcile(w) ==
  /\ wpc[w] = "reconcile"
  /\ \E kept \in SUBSET Inherited(w) :
       /\ IF stateFile = [config |-> wconfig[w], rules |-> kept]
          THEN UNCHANGED <<stateFile, requested>>
          ELSE WriteState(w, kept)
       /\ desired' = [desired EXCEPT ![w] = kept]
  /\ Goto(w, "reconcileInvoke")
  /\ UNCHANGED <<config, nginxVars, coordinatorLock, applyLock, wconfig,
                 applied, canceled, invoked, childVars, cleared>>

ReconcileFails(w) ==
  /\ wpc[w] = "reconcile"
  /\ \E kept \in SUBSET Inherited(w) : WriteStateFails(w, kept)
  /\ Stop(w)
  /\ UNCHANGED <<config, nginxVars, applyLock, wconfig, childVars, cleared>>

(* InvokePrivilegedApply: the desired state is projected onto a new child. *)
Invoke(w) ==
  /\ \/ wpc[w] = "reconcileInvoke" /\ Goto(w, "reconcileApply")
     \/ wpc[w] = "loopInvoke" /\ Goto(w, "loopApply")
     \/ wpc[w] = "clearInvoke" /\ Goto(w, "clearApply")
  /\ \E k \in Child :
       /\ cpc[k] = "free"
       /\ cpc' = [cpc EXCEPT ![k] = "probe1"]
       /\ payload' = [payload EXCEPT ![k] = desired[w]]
       /\ invoked' = [invoked EXCEPT ![w] = k]
  /\ UNCHANGED <<config, stateFile, nginxVars, coordinatorLock, applyLock,
                 wconfig, desired, applied, canceled, cconfig, previous,
                 requested, cleared>>

(* Fault: the finished child is never waited for. *)
AbandonWithoutWait(w) == UNCHANGED cpc

(* The coordinator no longer waits: an exit status is consumed, a child     *)
(* that is alive becomes an orphan.                                         *)
Abandon(w) ==
  cpc' = [k \in Child |-> IF invoked[w] = k /\ cpc[k] \in {"succeeded", "exited"}
                          THEN "free" ELSE cpc[k]]

(* Fault: the error of the child is ignored. *)
ErrorIgnored(w) == cpc[invoked[w]] \in {"succeeded", "exited"}

ExitedCleanly(w) == cpc[invoked[w]] = "succeeded"

(* The child exited with status 0: MarkApplied, or the end of a clear. *)
ApplySucceeds(w) ==
  /\ wpc[w] \in Waiting
  /\ ExitedCleanly(w)
  /\ Abandon(w)
  /\ requested' = {stateFile.rules}
  /\ \/ /\ wpc[w] \in {"reconcileApply", "loopApply"}
        /\ Goto(w, "loop")
        /\ applied' = [applied EXCEPT ![w] = desired[w]]
        /\ invoked' = [invoked EXCEPT ![w] = Nobody]
        /\ UNCHANGED <<desired, canceled, coordinatorLock, cleared>>
     \/ /\ wpc[w] = "clearApply"
        /\ Stop(w)
        /\ cleared' = TRUE
  /\ UNCHANGED <<config, stateFile, nginxVars, applyLock, wconfig, cconfig,
                 payload, previous>>

(* The child failed, or the coordinator stopped waiting for it: after 45 s, *)
(* after 50 s of a graceful clear, or because its context was canceled.  A  *)
(* loop goes on, because the exit status of sudo never carries a            *)
(* RollbackError (IsRollbackFailure is false of it); a reconciliation or a  *)
(* clear ends the process.                                                  *)
ApplyFails(w) ==
  /\ wpc[w] \in Waiting
  /\ Abandon(w)
  /\ \/ /\ wpc[w] = "loopApply"
        /\ Goto(w, "loop")
        /\ invoked' = [invoked EXCEPT ![w] = Nobody]
        /\ UNCHANGED <<desired, applied, canceled, coordinatorLock>>
     \/ /\ wpc[w] \in {"reconcileApply", "clearApply"}
        /\ Stop(w)
  /\ UNCHANGED <<config, stateFile, nginxVars, applyLock, wconfig, cconfig,
                 payload, previous, requested, cleared>>

(* Decision.ApplyNow: a removal or a first activation never waits, another *)
(* change waits for min_reload_interval_seconds since the last apply.      *)
ApplyNow(w, rules) ==
  /\ applied[w] # rules
  /\ \/ applied[w] \ rules # {}
     \/ applied[w] = {}

(* Detector.Evaluate and the state write of handleProtectionDecision.      *)
(* Equal rule sets may still differ in their times, which also writes.     *)
Evaluate(w) ==
  /\ wpc[w] = "loop"
  /\ \E rules \in RuleSet :
       /\ \/ WriteState(w, rules)
          \/ rules = desired[w] /\ UNCHANGED <<stateFile, requested>>
       /\ desired' = [desired EXCEPT ![w] = rules]
       /\ \/ applied[w] # rules /\ Goto(w, "loopInvoke")
          \/ ~ApplyNow(w, rules) /\ UNCHANGED wpc
  /\ UNCHANGED <<config, nginxVars, coordinatorLock, applyLock, wconfig,
                 applied, canceled, invoked, childVars, cleared>>

(* The state write fails: a canceled context goes on to the graceful clear, *)
(* any other error ends the watcher and leaves its rules in Nginx.          *)
EvaluateFails(w) ==
  /\ wpc[w] = "loop"
  /\ \/ /\ canceled[w]
        /\ Goto(w, "clear")
        /\ UNCHANGED <<stateFile, requested, coordinatorLock, desired, applied,
                       canceled, invoked>>
     \/ /\ \E rules \in RuleSet : WriteStateFails(w, rules)
        /\ Stop(w)
  /\ UNCHANGED <<config, nginxVars, applyLock, wconfig, childVars, cleared>>

(* Follow or Evaluate returned an error: the watcher ends without a clear. *)
LoopFails(w) ==
  /\ wpc[w] = "loop"
  /\ Stop(w)
  /\ UNCHANGED <<config, stateFile, nginxVars, applyLock, wconfig, childVars,
                 requested, cleared>>

(* ProtectRun up to a graceful clear, whose context cannot be canceled. *)
Running == {"reconcile", "reconcileInvoke", "reconcileApply"} \cup Loop

(* SIGTERM.  Before the loop a canceled context makes a step fail, which    *)
(* every step may do anyway, or is noticed only in the loop.  A signal that *)
(* comes before the coordinator lock is taken counts when it is; "protect   *)
(* clear" at most fails of one.                                             *)
Cancel(w) ==
  /\ wpc[w] \in Running
  /\ canceled' = [canceled EXCEPT ![w] = TRUE]
  /\ UNCHANGED <<config, stateFile, nginxVars, coordinatorLock, applyLock, wpc,
                 wconfig, desired, applied, invoked, childVars, requested,
                 cleared>>

(* The loop selects ctx.Done and returns context.Canceled. *)
GracefulStop(w) ==
  /\ wpc[w] = "loop"
  /\ canceled[w]
  /\ Goto(w, "clear")
  /\ UNCHANGED <<config, stateFile, nginxVars, coordinatorLock, applyLock,
                 wconfig, desired, applied, canceled, invoked, childVars,
                 requested, cleared>>

ClearLiveState(w) ==
  /\ wpc[w] = "clear"
  /\ WriteState(w, {})
  /\ desired' = [desired EXCEPT ![w] = {}]
  /\ Goto(w, "clearInvoke")
  /\ UNCHANGED <<config, nginxVars, coordinatorLock, applyLock, wconfig,
                 applied, canceled, invoked, childVars, cleared>>

ClearFails(w) ==
  /\ wpc[w] = "clear"
  /\ WriteStateFails(w, {})
  /\ Stop(w)
  /\ UNCHANGED <<config, nginxVars, applyLock, wconfig, childVars, cleared>>

(* The process dies at any point. *)
Crash(w) ==
  /\ wpc[w] # "off"
  /\ Stop(w)
  /\ Abandon(w)
  /\ UNCHANGED <<config, stateFile, nginxVars, applyLock, wconfig, cconfig,
                 payload, previous, requested, cleared>>

-----------------------------------------------------------------------------
(* Privileged children: ProtectApply and ApplyActiveMap *)

Step(k, place) == cpc' = [cpc EXCEPT ![k] = place]

(* The process ends: its memory is gone and the locks it holds closed. *)
Exit(k, status) ==
  /\ Step(k, IF \E w \in Watcher : invoked[w] = k THEN status ELSE "free")
  /\ payload' = [payload EXCEPT ![k] = {}]
  /\ previous' = [previous EXCEPT ![k] = {}]
  /\ applyLock' = IF applyLock = k THEN Nobody ELSE applyLock
  /\ coordinatorLock' = IF coordinatorLock = k THEN Nobody ELSE coordinatorLock

(* ProbeCoordinatorLock tries the lock it expects to find held: when it is *)
(* free the child holds it for a moment, then refuses.                     *)
Probe(k, place, probing) ==
  IF coordinatorLock = Nobody
  THEN Step(k, probing) /\ coordinatorLock' = k
  ELSE Step(k, place) /\ UNCHANGED coordinatorLock

FirstProbe(k) ==
  /\ cpc[k] = "probe1"
  /\ Probe(k, "lock", "probing1")
  /\ cconfig' = [cconfig EXCEPT ![k] = config]
  /\ UNCHANGED <<config, stateFile, nginxVars, applyLock, watcherVars, payload,
                 previous, requested, cleared>>

(* Fault: a shared lock instead of an exclusive one. *)
ApplyLockShared == TRUE

ApplyLockFree == applyLock = Nobody

AcquireApplyLock(k) ==
  /\ cpc[k] = "lock"
  /\ ApplyLockFree
  /\ applyLock' = k
  /\ Step(k, "probe2")
  /\ UNCHANGED <<config, stateFile, nginxVars, coordinatorLock, watcherVars,
                 cconfig, payload, previous, requested, cleared>>

SecondProbe(k) ==
  /\ cpc[k] = "probe2"
  /\ Probe(k, "read", "probing2")
  /\ UNCHANGED <<config, stateFile, nginxVars, applyLock, watcherVars, cconfig,
                 payload, previous, requested, cleared>>

(* Fault: the payload is trusted. *)
RequestMatchesDigest(k) == stateFile.config \in {cconfig[k], Nobody}

(* Fault: the digest of the config is not compared. *)
RequestMatchesRules(k) == stateFile.rules = payload[k]

(* The persisted state has the digest of the config this child loaded and   *)
(* its projection equals the payload; a missing file stands for no rules.   *)
RequestMatches(k) ==
  /\ stateFile.config \in {cconfig[k], Nobody}
  /\ stateFile.rules = payload[k]

ValidateApplyRequest(k) ==
  /\ cpc[k] = "read"
  /\ RequestMatches(k)
  /\ Step(k, "preflight")
  /\ UNCHANGED <<config, stateFile, nginxVars, coordinatorLock, applyLock,
                 watcherVars, cconfig, payload, previous, requested,
                 cleared>>

(* nginx -T lists every managed marker once, and the map is read back. *)
Preflight(k) ==
  /\ cpc[k] = "preflight"
  /\ previous' = [previous EXCEPT ![k] = activeMap]
  /\ Step(k, "replace")
  /\ UNCHANGED <<config, stateFile, nginxVars, coordinatorLock, applyLock,
                 watcherVars, cconfig, payload, requested, cleared>>

(* Every step before the replacement can fail and changes nothing: a lock  *)
(* held by another child, a payload that does not match, an I/O error, a    *)
(* timeout of nginx -T, the probe that found no coordinator.                *)
Refuse(k) ==
  /\ cpc[k] \in Unlocked \cup Unchanging
  /\ Exit(k, "exited")
  /\ UNCHANGED <<config, stateFile, nginxVars, watcherVars, cconfig, requested,
                 cleared>>

Replace(k) ==
  /\ cpc[k] = "replace"
  /\ activeMap' = payload[k]
  /\ Step(k, "test")
  /\ UNCHANGED <<config, stateFile, nginxRules, reloadSignal, coordinatorLock,
                 applyLock, watcherVars, cconfig, payload, previous, requested,
                 cleared>>

(* The replacement fails before its rename, or after it when the directory *)
(* cannot be synced: the new map then stays, without a test or a reload.    *)
ReplaceFails(k) ==
  /\ cpc[k] = "replace"
  /\ activeMap' \in {activeMap, payload[k]}
  /\ Step(k, "failed")
  /\ UNCHANGED <<config, stateFile, nginxRules, reloadSignal, coordinatorLock,
                 applyLock, watcherVars, cconfig, payload, previous, requested,
                 cleared>>

(* nginx -t of the new map. *)
Test(k) ==
  /\ cpc[k] = "test"
  /\ \E place \in {"reload", "undo"} : Step(k, place)
  /\ UNCHANGED <<config, stateFile, nginxVars, coordinatorLock, applyLock,
                 watcherVars, cconfig, payload, previous, requested, cleared>>

(* Fault: the new map is never reloaded. *)
SignalSkipped == UNCHANGED reloadSignal

SignalNginx == reloadSignal' = TRUE

(* nginx -s reload succeeds: the signal is sent.  Nginx acts on it later. *)
Reload(k) ==
  /\ cpc[k] = "reload"
  /\ SignalNginx
  /\ Exit(k, "succeeded")
  /\ UNCHANGED <<config, stateFile, activeMap, nginxRules, watcherVars,
                 cconfig, requested, cleared>>

(* The reload command reports failure, a timeout for one: the signal may    *)
(* have been sent all the same.                                             *)
ReloadFails(k) ==
  /\ cpc[k] = "reload"
  /\ reloadSignal' \in {reloadSignal, TRUE}
  /\ Step(k, "undoReload")
  /\ UNCHANGED <<config, stateFile, activeMap, nginxRules, coordinatorLock,
                 applyLock, watcherVars, cconfig, payload, previous, requested,
                 cleared>>

(* Fault: the rollback writes the new map again. *)
RestoreDesired(k) == activeMap' = payload[k]

RestorePrevious(k) == activeMap' = previous[k]

(* The rollback: the previous map is put back and, after a failed reload,   *)
(* tested and reloaded.                                                     *)
Undo(k) ==
  /\ \/ /\ cpc[k] = "undo"
        /\ RestorePrevious(k)
        /\ Step(k, "restored")
        /\ UNCHANGED reloadSignal
     \/ /\ cpc[k] = "undoReload"
        /\ RestorePrevious(k)
        /\ Step(k, "retest")
        /\ UNCHANGED reloadSignal
     \/ /\ cpc[k] = "retest"
        /\ Step(k, "rereload")
        /\ UNCHANGED <<activeMap, reloadSignal>>
     \/ /\ cpc[k] = "rereload"
        /\ SignalNginx
        /\ Step(k, "restored")
        /\ UNCHANGED activeMap
  /\ UNCHANGED <<config, stateFile, nginxRules, coordinatorLock, applyLock,
                 watcherVars, cconfig, payload, previous, requested, cleared>>

UndoFails(k) ==
  /\ \/ /\ cpc[k] \in {"undo", "undoReload"}
        /\ activeMap' \in {activeMap, previous[k]}
        /\ UNCHANGED reloadSignal
     \/ /\ cpc[k] = "retest"
        /\ UNCHANGED <<activeMap, reloadSignal>>
     \/ /\ cpc[k] = "rereload"
        /\ reloadSignal' \in {reloadSignal, TRUE}
        /\ UNCHANGED activeMap
  /\ Step(k, "broken")
  /\ UNCHANGED <<config, stateFile, nginxRules, coordinatorLock, applyLock,
                 watcherVars, cconfig, payload, previous, requested, cleared>>

(* ProtectApply returns the error, or the process is killed anywhere. *)
Die(k) ==
  /\ cpc[k] \in Changing \cup Returned
  /\ Exit(k, "exited")
  /\ UNCHANGED <<config, stateFile, nginxVars, watcherVars, cconfig, requested,
                 cleared>>

-----------------------------------------------------------------------------
(* The environment *)

(* The Nginx master acts on the signal and reads the map as it is then. *)
NginxReload ==
  /\ reloadSignal
  /\ nginxRules' = activeMap
  /\ reloadSignal' = FALSE
  /\ UNCHANGED <<config, stateFile, activeMap, coordinatorLock, applyLock,
                 watcherVars, childVars, requested, cleared>>

NginxRestart ==
  /\ nginxRules' = activeMap
  /\ reloadSignal' = FALSE
  /\ UNCHANGED <<config, stateFile, activeMap, coordinatorLock, applyLock,
                 watcherVars, childVars, requested, cleared>>

EditConfig ==
  /\ \E edited \in Config \ {config} : config' = edited
  /\ UNCHANGED <<stateFile, nginxVars, coordinatorLock, applyLock, watcherVars,
                 childVars, requested, cleared>>

-----------------------------------------------------------------------------
WatcherNext(w) ==
  \/ Load(w) \/ AcquireCoordinatorLock(w) \/ CoordinatorLockHeld(w)
  \/ Reconcile(w) \/ ReconcileFails(w)
  \/ Invoke(w) \/ ApplySucceeds(w) \/ ApplyFails(w)
  \/ Evaluate(w) \/ EvaluateFails(w) \/ LoopFails(w)
  \/ Cancel(w) \/ GracefulStop(w) \/ ClearLiveState(w) \/ ClearFails(w)
  \/ Crash(w)

ChildNext(k) ==
  \/ FirstProbe(k) \/ AcquireApplyLock(k) \/ SecondProbe(k)
  \/ ValidateApplyRequest(k) \/ Preflight(k) \/ Refuse(k)
  \/ Replace(k) \/ ReplaceFails(k) \/ Test(k) \/ Reload(k) \/ ReloadFails(k)
  \/ Undo(k) \/ UndoFails(k) \/ Die(k)

Next ==
  \/ \E w \in Watcher : WatcherNext(w)
  \/ \E k \in Child : ChildNext(k)
  \/ NginxReload \/ NginxRestart \/ EditConfig

Spec == Init /\ [][Next]_vars

(***************************************************************************)
(* Fairness.  Every command of a child runs under a timeout of 10 s (30 s  *)
(* for a rollback) and every wait of a coordinator under one of 45 s, so    *)
(* both always go on, to a success or a failure.  The select of             *)
(* runProtectionLoop picks among its ready cases at random, so ctx.Done is  *)
(* not passed over for ever: strong fairness.  Nginx acts on its signals.   *)
(***************************************************************************)
Fairness ==
  /\ \A w \in Watcher :
       /\ WF_vars(AcquireCoordinatorLock(w) \/ CoordinatorLockHeld(w))
       /\ WF_vars(Reconcile(w) \/ ReconcileFails(w))
       /\ WF_vars(Invoke(w))
       /\ WF_vars(ApplySucceeds(w) \/ ApplyFails(w))
       /\ WF_vars(ClearLiveState(w) \/ ClearFails(w))
       /\ SF_vars(GracefulStop(w))
  /\ \A k \in Child : WF_vars(ChildNext(k))
  /\ WF_vars(NginxReload)

FairSpec == Spec /\ Fairness

-----------------------------------------------------------------------------
(* Safety *)

(* The managed map, and what Nginx enforces unless a reload is on its way,  *)
(* is a rule set the state file has held since the last apply a coordinator *)
(* saw succeed: no orphan, crash, rollback or restart brings back an older  *)
(* one (ValidateApplyRequest under the apply lock, reconcileLiveState).     *)
OnlyRequestedRules ==
  /\ activeMap \in requested
  /\ reloadSignal \/ nginxRules \in requested

(* Once a graceful stop or "protect clear" has reported success, and until  *)
(* another coordinator takes the lock, no rule is in the state file, in the *)
(* map, or (but for a reload on its way) in Nginx, whatever orphans do.     *)
ClearedStaysClear ==
  cleared => /\ stateFile.rules = {}
             /\ activeMap = {}
             /\ reloadSignal \/ nginxRules = {}

(* The desired state is on disk before a child is asked to apply it, and    *)
(* nobody else writes it while a coordinator relies on it                   *)
(* (handleProtectionDecision, reconcileLiveStateWith, clearLiveState).      *)
DesiredIsPersisted ==
  \A w \in Watcher :
    /\ wpc[w] \in Loop \cup Waiting \cup {"reconcileInvoke", "clearInvoke"} =>
         stateFile = [config |-> wconfig[w], rules |-> desired[w]]
    /\ wpc[w] \in Waiting /\ cpc[invoked[w]] \in Alive =>
         payload[invoked[w]] = stateFile.rules

(* At most one process at a time is between reading the state and ending    *)
(* its change of the map, and at most one coordinator is at work, although  *)
(* the probes of orphans borrow the coordinator lock.                       *)
OneWriter ==
  /\ \A j, k \in Child : {cpc[j], cpc[k]} \subseteq ApplyHolding => j = k
  /\ \A v, w \in Watcher : {wpc[v], wpc[w]} \subseteq Coordinating => v = w

(* A child changes the map for a coordinator only under the config that     *)
(* coordinator runs with: an edit of the root-owned file under a running    *)
(* watcher stops its applies (the digest in ValidateApplyRequest).          *)
OneConfig ==
  \A w \in Watcher, k \in Child :
    invoked[w] = k /\ cpc[k] \in Changing => cconfig[k] = wconfig[w]

(* An apply that reports the previous map restored leaves the map it found: *)
(* no other process wrote it meanwhile (ApplyActiveMap, rollbackReload).    *)
RestoredIsPrevious ==
  \A k \in Child : cpc[k] = "restored" => activeMap = previous[k]

-----------------------------------------------------------------------------
(* Refinement: the state file is the register, the map its installed value. *)

Register == INSTANCE RuleRegister WITH
  asked <- stateFile.rules, candidates <- requested,
  installed <- activeMap, loaded <- nginxRules, reloading <- reloadSignal

(* Live protection keeps the promise of RuleRegister. *)
ImplementsRegister == Register!Spec

-----------------------------------------------------------------------------
(* Liveness *)

(* A watcher that receives SIGTERM, in its loop or while it still starts,   *)
(* ends, with or without a clear: no wait for a child, a lock or an orphan  *)
(* holds it up (ProtectRun, runProtectionLoop, runSudo, AcquireApplyLock    *)
(* without blocking).                                                       *)
StopEnds == \A w \in Watcher : canceled[w] ~> wpc[w] = "off"

(* After a successful clear Nginx lets every rule go, unless a coordinator  *)
(* starts first.                                                            *)
ClearReachesNginx == cleared ~> (nginxRules = {} \/ ~cleared)

-----------------------------------------------------------------------------
(* What the documents say and the code does not keep *)

(* README.md: the child "restores the previous map if any step fails".     *)
(* An apply that returns an error other than a failed rollback has left the *)
(* map as it found it (ApplyActiveMap).                                     *)
FailedApplyRestores ==
  \A k \in Child : cpc[k] \in {"failed", "restored"} => activeMap = previous[k]

(* A web server that recovers: whatever is tried again and again works in   *)
(* the end, and every evaluation interval evaluates.                        *)
Recovery ==
  /\ \A w \in Watcher :
       /\ SF_vars(Evaluate(w) /\ desired'[w] = desired[w] /\ wpc' # wpc)
       /\ SF_vars(ApplySucceeds(w))
  /\ \A k \in Child :
       /\ SF_vars(FirstProbe(k)) /\ SF_vars(AcquireApplyLock(k))
       /\ SF_vars(SecondProbe(k)) /\ SF_vars(ValidateApplyRequest(k))
       /\ SF_vars(Preflight(k)) /\ SF_vars(Replace(k))
       /\ SF_vars(Test(k) /\ cpc'[k] = "reload") /\ SF_vars(Reload(k))

RecoveringSpec == FairSpec /\ Recovery

(* README.md: "Default lifetime is a sliding ten minutes".  A rule that a   *)
(* watcher, at work for ever, no longer asks for is at some time no longer  *)
(* enforced (Detector.Evaluate, ApplyRequired).  It takes that no apply of  *)
(* the rule reports success before it expires, though one took effect.      *)
ExpiredRulesLeave ==
  \A w \in Watcher, r \in Rule :
    <>[](wpc[w] \in Loop /\ r \notin desired[w]) => []<>(r \notin nginxRules)
=============================================================================
