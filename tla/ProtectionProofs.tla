--------------------------- MODULE ProtectionProofs ---------------------------
(***************************************************************************)
(* Proofs about LiveProtection and Setup for any sets of rules,            *)
(* coordinators, children and configs.                                     *)
(*                                                                         *)
(* The first part is about LiveProtection: its safety invariants, and that *)
(* it implements RuleRegister, each of them also beside another process    *)
(* that takes the locks when they are free (Beside), such as a setup.  The *)
(* inductive invariant says who holds which lock (Locks), who waits for    *)
(* whom (Waits), and what is known of the rule sets at each place of a     *)
(* child.  Its heart is Settled: while a child that succeeded has not been *)
(* waited for, nothing anywhere can still install another rule set than    *)
(* the one in the state file, so the confirmation may forget the others.   *)
(*                                                                         *)
(* The second part is about Setup: a setup is alone between its locks,     *)
(* keeps the rules of the map it rewrites, leaves the managed files that   *)
(* it reports and a configuration that Nginx can load, and live protection *)
(* keeps its promises beside it.  None of this is inductive.  Who holds a  *)
(* lock (Held) keeps children away while files change, so a child that     *)
(* changes the map finds it there and a setup finds it empty (Managed);    *)
(* what each replacement and each restoration leaves behind is remembered  *)
(* to the end (Replaced, Undone).  A setup is then, for the live           *)
(* protection, another process that takes free locks and has Nginx reload  *)
(* (Beside), and its invariant holds.                                      *)
(***************************************************************************)
EXTENDS Setup, TLAPS

(* What TypeOK says of everything but the holders of the locks. *)
Typed ==
  /\ config \in Config
  /\ stateFile \in [config : Config \cup {Nobody}, rules : RuleSet]
  /\ activeMap \in RuleSet
  /\ nginxRules \in RuleSet
  /\ reloadSignal \in BOOLEAN
  /\ wpc \in [Watcher -> WatcherPC]
  /\ wconfig \in [Watcher -> Config]
  /\ desired \in [Watcher -> RuleSet]
  /\ applied \in [Watcher -> RuleSet]
  /\ canceled \in [Watcher -> BOOLEAN]
  /\ invoked \in [Watcher -> Child \cup {Nobody}]
  /\ cpc \in [Child -> ChildPC]
  /\ cconfig \in [Child -> Config]
  /\ payload \in [Child -> RuleSet]
  /\ previous \in [Child -> RuleSet]
  /\ requested \in SUBSET RuleSet
  /\ cleared \in BOOLEAN

(* What another process may do beside the live protection: take locks that  *)
(* nobody holds, free its own, and have Nginx reload.                       *)
Beside ==
  /\ UNCHANGED <<config, stateFile, activeMap, nginxRules, watcherVars,
                 childVars, requested, cleared>>
  /\ reloadSignal' \in {reloadSignal, TRUE}
  /\ \A p \in Watcher \cup Child :
       /\ coordinatorLock' = p <=> coordinatorLock = p
       /\ applyLock' = p <=> applyLock = p

(* The request was found to match the state file: the child goes on to      *)
(* install it.                                                              *)
Committed == {"preflight"} \cup Changing \cup Returned

(* The three ways to hold a lock. *)
Locks ==
  /\ \A w \in Watcher : wpc[w] \in Coordinating <=> coordinatorLock = w
  /\ \A k \in Child : cpc[k] \in {"probing1", "probing2"} <=> coordinatorLock = k
  /\ \A k \in Child : cpc[k] \in ApplyHolding <=> applyLock = k

(* A coordinator waits for a child that exists; an exit status has a waiter. *)
Waits ==
  /\ \A w \in Watcher : wpc[w] \in Waiting <=> invoked[w] \in Child
  /\ \A w \in Watcher : invoked[w] \in Child => cpc[invoked[w]] # "free"
  /\ \A k \in Child : cpc[k] \in {"succeeded", "exited"} =>
       \E w \in Watcher : invoked[w] = k

(* A clear hands over the empty rule set. *)
ClearAsksNothing ==
  \A w \in Watcher : wpc[w] \in {"clearInvoke", "clearApply"} => desired[w] = {}

(* Whatever is enforced, installed, or may still be, is a candidate. *)
Candidates ==
  /\ stateFile.rules \in requested
  /\ activeMap \in requested
  /\ reloadSignal \/ nginxRules \in requested
  /\ \A k \in Child : cpc[k] \in Committed => payload[k] \in requested
  /\ \A k \in Child : cpc[k] \in Changing \cup Returned => previous[k] \in requested

(* Nobody changes the map between two steps of the child that changes it. *)
OwnMap ==
  \A k \in Child :
    /\ cpc[k] \in {"test", "reload"} => activeMap = payload[k]
    /\ cpc[k] \in {"retest", "rereload", "restored"} => activeMap = previous[k]

(* Only the rule set of the state file is installed or can come back. *)
Settled ==
  /\ activeMap = stateFile.rules
  /\ reloadSignal \/ nginxRules = stateFile.rules
  /\ \A k \in Child : cpc[k] \in Committed => payload[k] = stateFile.rules
  /\ \A k \in Child : cpc[k] \in Changing \cup Returned =>
       previous[k] = stateFile.rules

Confirmable ==
  \A w \in Watcher :
    invoked[w] \in Child /\ cpc[invoked[w]] = "succeeded" => Settled

(* Nobody has asked for a rule since the clear. *)
NothingAsked == cleared => requested = {{}} /\ coordinatorLock \notin Watcher

(* OneConfig, from the moment the request was validated. *)
SameConfig ==
  \A w \in Watcher, k \in Child :
    invoked[w] = k /\ cpc[k] \in Committed => cconfig[k] = wconfig[w]

Inductive ==
  /\ Typed
  /\ Locks
  /\ Waits
  /\ DesiredIsPersisted
  /\ ClearAsksNothing
  /\ Candidates
  /\ OwnMap
  /\ Confirmable
  /\ NothingAsked
  /\ SameConfig

-----------------------------------------------------------------------------
(* Initially *)

(* After "protect setup" every variable is in its type. *)
LEMMA TypeInit == Init => Typed
<1> SUFFICES ASSUME Init PROVE Typed
  OBVIOUS
<1> USE DEF Init
<1>1. stateFile \in [config : Config \cup {Nobody}, rules : RuleSet]
  BY DEF NoState, RuleSet
<1>2. activeMap \in RuleSet /\ nginxRules \in RuleSet
  BY DEF RuleSet
<1>3. wpc \in [Watcher -> WatcherPC] /\ cpc \in [Child -> ChildPC]
  BY DEF WatcherPC, ChildPC
<1>4. desired \in [Watcher -> RuleSet] /\ applied \in [Watcher -> RuleSet]
  BY DEF RuleSet
<1>5. payload \in [Child -> RuleSet] /\ previous \in [Child -> RuleSet]
  BY DEF RuleSet
<1>6. requested \in SUBSET RuleSet
  BY DEF RuleSet
<1> QED
  BY <1>1, <1>2, <1>3, <1>4, <1>5, <1>6 DEF Typed

(* After "protect setup" no lock is held, nobody waits, no rule is asked    *)
(* for or installed.                                                        *)
LEMMA InductiveInit == Init => Inductive
<1> SUFFICES ASSUME Init PROVE Inductive
  OBVIOUS
<1>1. Typed
  BY TypeInit
<1>2. \A w \in Watcher : wpc[w] = "off" /\ invoked[w] = Nobody
  BY DEF Init
<1>3. \A k \in Child : cpc[k] = "free"
  BY DEF Init
<1>4. Locks
  BY <1>2, <1>3, ProcessAssumption
  DEF Init, Locks, Coordinating, Waiting, Loop, ApplyHolding, Unchanging,
      Changing, Returned
<1>5. Waits
  BY <1>2, <1>3, ProcessAssumption DEF Waits, Waiting
<1>6. DesiredIsPersisted /\ ClearAsksNothing
  BY <1>2 DEF DesiredIsPersisted, ClearAsksNothing, Loop, Waiting
<1>7. Candidates /\ OwnMap
  BY <1>3 DEF Init, NoState, Candidates, OwnMap, Committed, Changing, Returned
<1>8. Confirmable /\ NothingAsked
  BY <1>2, ProcessAssumption DEF Init, Confirmable, NothingAsked
<1>9. SameConfig
  BY <1>3, SMTT(30) DEF SameConfig, Committed, Changing, Returned
<1> QED
  BY <1>1, <1>4, <1>5, <1>6, <1>7, <1>8, <1>9 DEF Inductive

-----------------------------------------------------------------------------
(* Every step keeps each part of the inductive invariant *)

(* Every step of a coordinator, a child or Nginx keeps the types. *)
LEMMA TypeStep ==
  Typed /\ [Next \/ Beside]_vars => Typed'
<1> SUFFICES ASSUME Typed, [Next \/ Beside]_vars PROVE Typed'
  OBVIOUS
<1> USE ProcessAssumption
    DEF Typed, RuleSet, WatcherPC, ChildPC, Waiting, Loop, Coordinating,
        Unlocked, Unchanging, Changing, Returned, ApplyHolding, Alive,
        watcherVars, childVars, nginxVars
<1>1. ASSUME NEW w \in Watcher, Load(w) PROVE Typed'
  BY <1>1 DEF Load, Goto
<1>2. ASSUME NEW w \in Watcher, AcquireCoordinatorLock(w) PROVE Typed'
  BY <1>2 DEF AcquireCoordinatorLock, Goto
<1>3. ASSUME NEW w \in Watcher, CoordinatorLockHeld(w) PROVE Typed'
  BY <1>3 DEF CoordinatorLockHeld, Stop, Goto
<1>4. ASSUME NEW w \in Watcher, Reconcile(w) PROVE Typed'
  BY <1>4 DEF Reconcile, Goto, WriteState, Inherited
<1>5. ASSUME NEW w \in Watcher, ReconcileFails(w) PROVE Typed'
  BY <1>5 DEF ReconcileFails, Stop, Goto, WriteState, WriteStateFails, Inherited
<1>6. ASSUME NEW w \in Watcher, Invoke(w) PROVE Typed'
  BY <1>6 DEF Invoke, Goto
<1>7. ASSUME NEW w \in Watcher, ApplySucceeds(w) PROVE Typed'
  <2>1. requested' \in SUBSET RuleSet
    BY <1>7 DEF ApplySucceeds
  <2>2. cpc' \in [Child -> ChildPC]
    BY <1>7 DEF ApplySucceeds, Abandon
  <2>3. CASE wpc[w] \in {"reconcileApply", "loopApply"}
    BY <1>7, <2>1, <2>2, <2>3 DEF ApplySucceeds, Goto
  <2>4. CASE wpc[w] = "clearApply"
    BY <1>7, <2>1, <2>2, <2>4 DEF ApplySucceeds, Stop, Goto
  <2> QED
    BY <1>7, <2>3, <2>4 DEF ApplySucceeds
<1>8. ASSUME NEW w \in Watcher, ApplyFails(w) PROVE Typed'
  BY <1>8, ZenonT(40) DEF ApplyFails, Stop, Goto, Abandon
<1>9. ASSUME NEW w \in Watcher, Evaluate(w) PROVE Typed'
  BY <1>9 DEF Evaluate, Goto, WriteState
<1>10. ASSUME NEW w \in Watcher, EvaluateFails(w) PROVE Typed'
  <2>1. CASE Goto(w, "clear") /\ UNCHANGED <<stateFile, requested, coordinatorLock,
                                         desired, applied, canceled, invoked>>
    BY <1>10, <2>1 DEF EvaluateFails, Goto
  <2>2. CASE Stop(w) /\ \E rules \in RuleSet : WriteStateFails(w, rules)
    BY <1>10, <2>2 DEF EvaluateFails, Stop, Goto, WriteStateFails, WriteState
  <2> QED
    BY <1>10, <2>1, <2>2 DEF EvaluateFails
<1>11. ASSUME NEW w \in Watcher, LoopFails(w) PROVE Typed'
  BY <1>11 DEF LoopFails, Stop, Goto
<1>12. ASSUME NEW w \in Watcher, Cancel(w) PROVE Typed'
  BY <1>12 DEF Cancel
<1>13. ASSUME NEW w \in Watcher, GracefulStop(w) PROVE Typed'
  BY <1>13 DEF GracefulStop, Goto
<1>14. ASSUME NEW w \in Watcher, ClearLiveState(w) PROVE Typed'
  BY <1>14 DEF ClearLiveState, Goto, WriteState
<1>15. ASSUME NEW w \in Watcher, ClearFails(w) PROVE Typed'
  BY <1>15 DEF ClearFails, Stop, Goto, WriteState, WriteStateFails
<1>16. ASSUME NEW w \in Watcher, Crash(w) PROVE Typed'
  BY <1>16 DEF Crash, Stop, Goto, Abandon
<1>17. ASSUME NEW k \in Child, FirstProbe(k) PROVE Typed'
  BY <1>17 DEF FirstProbe, Probe, Step
<1>18. ASSUME NEW k \in Child, AcquireApplyLock(k) PROVE Typed'
  BY <1>18 DEF AcquireApplyLock, Step, ApplyLockFree
<1>19. ASSUME NEW k \in Child, SecondProbe(k) PROVE Typed'
  BY <1>19 DEF SecondProbe, Probe, Step
<1>20. ASSUME NEW k \in Child, ValidateApplyRequest(k) PROVE Typed'
  BY <1>20 DEF ValidateApplyRequest, Step, RequestMatches
<1>21. ASSUME NEW k \in Child, Preflight(k) PROVE Typed'
  BY <1>21 DEF Preflight, Step
<1>22. ASSUME NEW k \in Child, Refuse(k) PROVE Typed'
  BY <1>22 DEF Refuse, Exit, Step
<1>23. ASSUME NEW k \in Child, Replace(k) PROVE Typed'
  BY <1>23 DEF Replace, Step
<1>24. ASSUME NEW k \in Child, ReplaceFails(k) PROVE Typed'
  BY <1>24 DEF ReplaceFails, Step
<1>25. ASSUME NEW k \in Child, Test(k) PROVE Typed'
  BY <1>25 DEF Test, Step
<1>26. ASSUME NEW k \in Child, Reload(k) PROVE Typed'
  BY <1>26 DEF Reload, Exit, Step, SignalNginx
<1>27. ASSUME NEW k \in Child, ReloadFails(k) PROVE Typed'
  BY <1>27 DEF ReloadFails, Step
<1>28. ASSUME NEW k \in Child, Undo(k) PROVE Typed'
  BY <1>28 DEF Undo, Step, SignalNginx, RestorePrevious
<1>29. ASSUME NEW k \in Child, UndoFails(k) PROVE Typed'
  BY <1>29 DEF UndoFails, Step
<1>30. ASSUME NEW k \in Child, Die(k) PROVE Typed'
  BY <1>30 DEF Die, Exit, Step
<1>31. ASSUME NginxReload PROVE Typed'
  BY <1>31 DEF NginxReload
<1>32. ASSUME NginxRestart PROVE Typed'
  BY <1>32 DEF NginxRestart
<1>33. ASSUME EditConfig PROVE Typed'
  BY <1>33 DEF EditConfig
<1>34. CASE UNCHANGED vars
  BY <1>34 DEF vars
<1>35. CASE Beside
  BY <1>35 DEF Beside
<1> QED
  BY <1>1, <1>2, <1>3, <1>4, <1>5, <1>6, <1>7, <1>8, <1>9, <1>10, <1>11,
     <1>12, <1>13, <1>14, <1>15, <1>16, <1>17, <1>18, <1>19, <1>20, <1>21,
     <1>22, <1>23, <1>24, <1>25, <1>26, <1>27, <1>28, <1>29, <1>30, <1>31,
     <1>32, <1>33, <1>34, <1>35
  DEF Next, WatcherNext, ChildNext

(* Every step keeps each lock with the process whose place says it holds it *)
(* (the flock calls of AcquireCoordinatorLock, AcquireApplyLock and the      *)
(* probes, all closed at the end of the process).                            *)
LEMMA LocksStep ==
  Typed /\ Locks /\ [Next \/ Beside]_vars => Locks'
<1> SUFFICES ASSUME Typed, Locks, [Next \/ Beside]_vars PROVE Locks'
  OBVIOUS
<1> USE ProcessAssumption
    DEF Typed, Locks, WatcherPC, ChildPC, Waiting, Loop, Coordinating,
        Unlocked, Unchanging, Changing, Returned, ApplyHolding, Alive,
        watcherVars, childVars, nginxVars
<1>1. ASSUME NEW w \in Watcher, Load(w) PROVE Locks'
  BY <1>1 DEF Load, Goto
<1>2. ASSUME NEW w \in Watcher, AcquireCoordinatorLock(w) PROVE Locks'
  BY <1>2 DEF AcquireCoordinatorLock, Goto
<1>3. ASSUME NEW w \in Watcher, CoordinatorLockHeld(w) PROVE Locks'
  BY <1>3 DEF CoordinatorLockHeld, Stop, Goto
<1>4. ASSUME NEW w \in Watcher, Reconcile(w) PROVE Locks'
  BY <1>4 DEF Reconcile, Goto, WriteState, Inherited
<1>5. ASSUME NEW w \in Watcher, ReconcileFails(w) PROVE Locks'
  BY <1>5 DEF ReconcileFails, Stop, Goto, WriteState, WriteStateFails, Inherited
<1>6. ASSUME NEW w \in Watcher, Invoke(w) PROVE Locks'
  BY <1>6 DEF Invoke, Goto
<1>7. ASSUME NEW w \in Watcher, ApplySucceeds(w) PROVE Locks'
  BY <1>7 DEF ApplySucceeds, Stop, Goto, Abandon, ExitedCleanly
<1>8. ASSUME NEW w \in Watcher, ApplyFails(w) PROVE Locks'
  BY <1>8 DEF ApplyFails, Stop, Goto, Abandon
<1>9. ASSUME NEW w \in Watcher, Evaluate(w) PROVE Locks'
  BY <1>9 DEF Evaluate, Goto, WriteState
<1>10. ASSUME NEW w \in Watcher, EvaluateFails(w) PROVE Locks'
  BY <1>10 DEF EvaluateFails, Stop, Goto, WriteState, WriteStateFails
<1>11. ASSUME NEW w \in Watcher, LoopFails(w) PROVE Locks'
  BY <1>11 DEF LoopFails, Stop, Goto
<1>12. ASSUME NEW w \in Watcher, Cancel(w) PROVE Locks'
  BY <1>12 DEF Cancel
<1>13. ASSUME NEW w \in Watcher, GracefulStop(w) PROVE Locks'
  BY <1>13 DEF GracefulStop, Goto
<1>14. ASSUME NEW w \in Watcher, ClearLiveState(w) PROVE Locks'
  BY <1>14 DEF ClearLiveState, Goto, WriteState
<1>15. ASSUME NEW w \in Watcher, ClearFails(w) PROVE Locks'
  BY <1>15 DEF ClearFails, Stop, Goto, WriteState, WriteStateFails
<1>16. ASSUME NEW w \in Watcher, Crash(w) PROVE Locks'
  BY <1>16 DEF Crash, Stop, Goto, Abandon
<1>17. ASSUME NEW k \in Child, FirstProbe(k) PROVE Locks'
  BY <1>17 DEF FirstProbe, Probe, Step
<1>18. ASSUME NEW k \in Child, AcquireApplyLock(k) PROVE Locks'
  BY <1>18 DEF AcquireApplyLock, Step, ApplyLockFree
<1>19. ASSUME NEW k \in Child, SecondProbe(k) PROVE Locks'
  BY <1>19 DEF SecondProbe, Probe, Step
<1>20. ASSUME NEW k \in Child, ValidateApplyRequest(k) PROVE Locks'
  BY <1>20 DEF ValidateApplyRequest, Step, RequestMatches
<1>21. ASSUME NEW k \in Child, Preflight(k) PROVE Locks'
  BY <1>21 DEF Preflight, Step
<1>22. ASSUME NEW k \in Child, Refuse(k) PROVE Locks'
  BY <1>22 DEF Refuse, Exit, Step
<1>23. ASSUME NEW k \in Child, Replace(k) PROVE Locks'
  BY <1>23 DEF Replace, Step
<1>24. ASSUME NEW k \in Child, ReplaceFails(k) PROVE Locks'
  BY <1>24 DEF ReplaceFails, Step
<1>25. ASSUME NEW k \in Child, Test(k) PROVE Locks'
  BY <1>25 DEF Test, Step
<1>26. ASSUME NEW k \in Child, Reload(k) PROVE Locks'
  BY <1>26 DEF Reload, Exit, Step, SignalNginx
<1>27. ASSUME NEW k \in Child, ReloadFails(k) PROVE Locks'
  BY <1>27 DEF ReloadFails, Step
<1>28. ASSUME NEW k \in Child, Undo(k) PROVE Locks'
  BY <1>28 DEF Undo, Step, SignalNginx, RestorePrevious
<1>29. ASSUME NEW k \in Child, UndoFails(k) PROVE Locks'
  BY <1>29, ZenonT(40) DEF UndoFails, Step
<1>30. ASSUME NEW k \in Child, Die(k) PROVE Locks'
  BY <1>30 DEF Die, Exit, Step
<1>31. ASSUME NginxReload PROVE Locks'
  BY <1>31 DEF NginxReload
<1>32. ASSUME NginxRestart PROVE Locks'
  BY <1>32 DEF NginxRestart
<1>33. ASSUME EditConfig PROVE Locks'
  BY <1>33 DEF EditConfig
<1>34. CASE UNCHANGED vars
  BY <1>34 DEF vars
<1>35. CASE Beside
  BY <1>35 DEF Beside
<1> QED
  BY <1>1, <1>2, <1>3, <1>4, <1>5, <1>6, <1>7, <1>8, <1>9, <1>10, <1>11,
     <1>12, <1>13, <1>14, <1>15, <1>16, <1>17, <1>18, <1>19, <1>20, <1>21,
     <1>22, <1>23, <1>24, <1>25, <1>26, <1>27, <1>28, <1>29, <1>30, <1>31,
     <1>32, <1>33, <1>34, <1>35
  DEF Next, WatcherNext, ChildNext

(* Every step keeps the pairing of a coordinator and its child (runSudo). *)
LEMMA WaitsStep ==
  Typed /\ Locks /\ Waits /\ [Next \/ Beside]_vars => Waits'
<1> SUFFICES ASSUME Typed, Locks, Waits, [Next \/ Beside]_vars PROVE Waits'
  OBVIOUS
<1> USE ProcessAssumption
    DEF Typed, Locks, Waits, WatcherPC, ChildPC, Waiting, Loop,
        Coordinating, Unlocked, Unchanging, Changing, Returned, ApplyHolding,
        Alive, watcherVars, childVars, nginxVars
<1>1. ASSUME NEW w \in Watcher, Load(w) PROVE Waits'
  BY <1>1 DEF Load, Goto
<1>2. ASSUME NEW w \in Watcher, AcquireCoordinatorLock(w) PROVE Waits'
  BY <1>2 DEF AcquireCoordinatorLock, Goto
<1>3. ASSUME NEW w \in Watcher, CoordinatorLockHeld(w) PROVE Waits'
  BY <1>3 DEF CoordinatorLockHeld, Stop, Goto
<1>4. ASSUME NEW w \in Watcher, Reconcile(w) PROVE Waits'
  BY <1>4 DEF Reconcile, Goto, WriteState, Inherited
<1>5. ASSUME NEW w \in Watcher, ReconcileFails(w) PROVE Waits'
  BY <1>5 DEF ReconcileFails, Stop, Goto, WriteState, WriteStateFails, Inherited
<1>6. ASSUME NEW w \in Watcher, Invoke(w) PROVE Waits'
  BY <1>6 DEF Invoke, Goto
<1>7. ASSUME NEW w \in Watcher, ApplySucceeds(w) PROVE Waits'
  BY <1>7 DEF ApplySucceeds, Stop, Goto, Abandon, ExitedCleanly
<1>8. ASSUME NEW w \in Watcher, ApplyFails(w) PROVE Waits'
  BY <1>8 DEF ApplyFails, Stop, Goto, Abandon
<1>9. ASSUME NEW w \in Watcher, Evaluate(w) PROVE Waits'
  BY <1>9 DEF Evaluate, Goto, WriteState
<1>10. ASSUME NEW w \in Watcher, EvaluateFails(w) PROVE Waits'
  BY <1>10 DEF EvaluateFails, Stop, Goto, WriteState, WriteStateFails
<1>11. ASSUME NEW w \in Watcher, LoopFails(w) PROVE Waits'
  BY <1>11 DEF LoopFails, Stop, Goto
<1>12. ASSUME NEW w \in Watcher, Cancel(w) PROVE Waits'
  BY <1>12 DEF Cancel
<1>13. ASSUME NEW w \in Watcher, GracefulStop(w) PROVE Waits'
  BY <1>13 DEF GracefulStop, Goto
<1>14. ASSUME NEW w \in Watcher, ClearLiveState(w) PROVE Waits'
  BY <1>14 DEF ClearLiveState, Goto, WriteState
<1>15. ASSUME NEW w \in Watcher, ClearFails(w) PROVE Waits'
  BY <1>15 DEF ClearFails, Stop, Goto, WriteState, WriteStateFails
<1>16. ASSUME NEW w \in Watcher, Crash(w) PROVE Waits'
  BY <1>16 DEF Crash, Stop, Goto, Abandon
<1>17. ASSUME NEW k \in Child, FirstProbe(k) PROVE Waits'
  BY <1>17 DEF FirstProbe, Probe, Step
<1>18. ASSUME NEW k \in Child, AcquireApplyLock(k) PROVE Waits'
  BY <1>18 DEF AcquireApplyLock, Step, ApplyLockFree
<1>19. ASSUME NEW k \in Child, SecondProbe(k) PROVE Waits'
  BY <1>19 DEF SecondProbe, Probe, Step
<1>20. ASSUME NEW k \in Child, ValidateApplyRequest(k) PROVE Waits'
  BY <1>20 DEF ValidateApplyRequest, Step, RequestMatches
<1>21. ASSUME NEW k \in Child, Preflight(k) PROVE Waits'
  BY <1>21 DEF Preflight, Step
<1>22. ASSUME NEW k \in Child, Refuse(k) PROVE Waits'
  BY <1>22 DEF Refuse, Exit, Step
<1>23. ASSUME NEW k \in Child, Replace(k) PROVE Waits'
  BY <1>23 DEF Replace, Step
<1>24. ASSUME NEW k \in Child, ReplaceFails(k) PROVE Waits'
  BY <1>24 DEF ReplaceFails, Step
<1>25. ASSUME NEW k \in Child, Test(k) PROVE Waits'
  BY <1>25 DEF Test, Step
<1>26. ASSUME NEW k \in Child, Reload(k) PROVE Waits'
  BY <1>26 DEF Reload, Exit, Step, SignalNginx
<1>27. ASSUME NEW k \in Child, ReloadFails(k) PROVE Waits'
  BY <1>27 DEF ReloadFails, Step
<1>28. ASSUME NEW k \in Child, Undo(k) PROVE Waits'
  BY <1>28 DEF Undo, Step, SignalNginx, RestorePrevious
<1>29. ASSUME NEW k \in Child, UndoFails(k) PROVE Waits'
  BY <1>29 DEF UndoFails, Step
<1>30. ASSUME NEW k \in Child, Die(k) PROVE Waits'
  BY <1>30 DEF Die, Exit, Step
<1>31. ASSUME NginxReload PROVE Waits'
  BY <1>31 DEF NginxReload
<1>32. ASSUME NginxRestart PROVE Waits'
  BY <1>32 DEF NginxRestart
<1>33. ASSUME EditConfig PROVE Waits'
  BY <1>33 DEF EditConfig
<1>34. CASE UNCHANGED vars
  BY <1>34 DEF vars
<1>35. CASE Beside
  BY <1>35, SMTT(30) DEF Beside
<1> QED
  BY <1>1, <1>2, <1>3, <1>4, <1>5, <1>6, <1>7, <1>8, <1>9, <1>10, <1>11,
     <1>12, <1>13, <1>14, <1>15, <1>16, <1>17, <1>18, <1>19, <1>20, <1>21,
     <1>22, <1>23, <1>24, <1>25, <1>26, <1>27, <1>28, <1>29, <1>30, <1>31,
     <1>32, <1>33, <1>34, <1>35
  DEF Next, WatcherNext, ChildNext

(* Every step keeps the desired state of a working coordinator on disk: only *)
(* the holder of the coordinator lock writes it.                             *)
LEMMA DesiredStep ==
  Typed /\ Locks /\ Waits /\ DesiredIsPersisted
    /\ [Next \/ Beside]_vars => DesiredIsPersisted'
<1> SUFFICES ASSUME Typed, Locks, Waits, DesiredIsPersisted,
                    [Next \/ Beside]_vars
             PROVE  DesiredIsPersisted'
  OBVIOUS
<1> USE ProcessAssumption
    DEF Typed, Locks, Waits, DesiredIsPersisted, WatcherPC, ChildPC,
        Waiting, Loop, Coordinating, Unlocked, Unchanging, Changing,
        Returned, ApplyHolding, Alive, watcherVars, childVars, nginxVars
<1>1. ASSUME NEW w \in Watcher, Load(w) PROVE DesiredIsPersisted'
  BY <1>1 DEF Load, Goto
<1>2. ASSUME NEW w \in Watcher, AcquireCoordinatorLock(w) PROVE DesiredIsPersisted'
  BY <1>2 DEF AcquireCoordinatorLock, Goto
<1>3. ASSUME NEW w \in Watcher, CoordinatorLockHeld(w) PROVE DesiredIsPersisted'
  BY <1>3 DEF CoordinatorLockHeld, Stop, Goto
<1>4. ASSUME NEW w \in Watcher, Reconcile(w) PROVE DesiredIsPersisted'
  BY <1>4 DEF Reconcile, Goto, WriteState, Inherited
<1>5. ASSUME NEW w \in Watcher, ReconcileFails(w) PROVE DesiredIsPersisted'
  BY <1>5 DEF ReconcileFails, Stop, Goto, WriteState, WriteStateFails, Inherited
<1>6. ASSUME NEW w \in Watcher, Invoke(w) PROVE DesiredIsPersisted'
  BY <1>6 DEF Invoke, Goto
<1>7. ASSUME NEW w \in Watcher, ApplySucceeds(w) PROVE DesiredIsPersisted'
  BY <1>7 DEF ApplySucceeds, Stop, Goto, Abandon, ExitedCleanly
<1>8. ASSUME NEW w \in Watcher, ApplyFails(w) PROVE DesiredIsPersisted'
  BY <1>8 DEF ApplyFails, Stop, Goto, Abandon
<1>9. ASSUME NEW w \in Watcher, Evaluate(w) PROVE DesiredIsPersisted'
  BY <1>9 DEF Evaluate, Goto, WriteState
<1>10. ASSUME NEW w \in Watcher, EvaluateFails(w) PROVE DesiredIsPersisted'
  BY <1>10 DEF EvaluateFails, Stop, Goto, WriteState, WriteStateFails
<1>11. ASSUME NEW w \in Watcher, LoopFails(w) PROVE DesiredIsPersisted'
  BY <1>11 DEF LoopFails, Stop, Goto
<1>12. ASSUME NEW w \in Watcher, Cancel(w) PROVE DesiredIsPersisted'
  BY <1>12 DEF Cancel
<1>13. ASSUME NEW w \in Watcher, GracefulStop(w) PROVE DesiredIsPersisted'
  BY <1>13 DEF GracefulStop, Goto
<1>14. ASSUME NEW w \in Watcher, ClearLiveState(w) PROVE DesiredIsPersisted'
  <2>1. stateFile' = [config |-> wconfig[w], rules |-> desired'[w]]
    BY <1>14 DEF ClearLiveState, WriteState
  <2>2. \A v \in Watcher : wpc'[v] \in Coordinating => v = w
    BY <1>14 DEF ClearLiveState, Goto
  <2>3. wpc'[w] = "clearInvoke" /\ wconfig' = wconfig
    BY <1>14 DEF ClearLiveState, Goto
  <2> QED
    BY <2>1, <2>2, <2>3
<1>15. ASSUME NEW w \in Watcher, ClearFails(w) PROVE DesiredIsPersisted'
  BY <1>15 DEF ClearFails, Stop, Goto, WriteState, WriteStateFails
<1>16. ASSUME NEW w \in Watcher, Crash(w) PROVE DesiredIsPersisted'
  BY <1>16 DEF Crash, Stop, Goto, Abandon
<1>17. ASSUME NEW k \in Child, FirstProbe(k) PROVE DesiredIsPersisted'
  BY <1>17 DEF FirstProbe, Probe, Step
<1>18. ASSUME NEW k \in Child, AcquireApplyLock(k) PROVE DesiredIsPersisted'
  BY <1>18 DEF AcquireApplyLock, Step, ApplyLockFree
<1>19. ASSUME NEW k \in Child, SecondProbe(k) PROVE DesiredIsPersisted'
  BY <1>19 DEF SecondProbe, Probe, Step
<1>20. ASSUME NEW k \in Child, ValidateApplyRequest(k) PROVE DesiredIsPersisted'
  BY <1>20 DEF ValidateApplyRequest, Step, RequestMatches
<1>21. ASSUME NEW k \in Child, Preflight(k) PROVE DesiredIsPersisted'
  BY <1>21 DEF Preflight, Step
<1>22. ASSUME NEW k \in Child, Refuse(k) PROVE DesiredIsPersisted'
  BY <1>22 DEF Refuse, Exit, Step
<1>23. ASSUME NEW k \in Child, Replace(k) PROVE DesiredIsPersisted'
  BY <1>23 DEF Replace, Step
<1>24. ASSUME NEW k \in Child, ReplaceFails(k) PROVE DesiredIsPersisted'
  BY <1>24 DEF ReplaceFails, Step
<1>25. ASSUME NEW k \in Child, Test(k) PROVE DesiredIsPersisted'
  BY <1>25 DEF Test, Step
<1>26. ASSUME NEW k \in Child, Reload(k) PROVE DesiredIsPersisted'
  BY <1>26 DEF Reload, Exit, Step, SignalNginx
<1>27. ASSUME NEW k \in Child, ReloadFails(k) PROVE DesiredIsPersisted'
  BY <1>27 DEF ReloadFails, Step
<1>28. ASSUME NEW k \in Child, Undo(k) PROVE DesiredIsPersisted'
  BY <1>28 DEF Undo, Step, SignalNginx, RestorePrevious
<1>29. ASSUME NEW k \in Child, UndoFails(k) PROVE DesiredIsPersisted'
  BY <1>29, ZenonT(40) DEF UndoFails, Step
<1>30. ASSUME NEW k \in Child, Die(k) PROVE DesiredIsPersisted'
  BY <1>30 DEF Die, Exit, Step
<1>31. ASSUME NginxReload PROVE DesiredIsPersisted'
  BY <1>31 DEF NginxReload
<1>32. ASSUME NginxRestart PROVE DesiredIsPersisted'
  BY <1>32 DEF NginxRestart
<1>33. ASSUME EditConfig PROVE DesiredIsPersisted'
  BY <1>33 DEF EditConfig
<1>34. CASE UNCHANGED vars
  BY <1>34 DEF vars
<1>35. CASE Beside
  BY <1>35 DEF Beside
<1> QED
  BY <1>1, <1>2, <1>3, <1>4, <1>5, <1>6, <1>7, <1>8, <1>9, <1>10, <1>11,
     <1>12, <1>13, <1>14, <1>15, <1>16, <1>17, <1>18, <1>19, <1>20, <1>21,
     <1>22, <1>23, <1>24, <1>25, <1>26, <1>27, <1>28, <1>29, <1>30, <1>31,
     <1>32, <1>33, <1>34, <1>35
  DEF Next, WatcherNext, ChildNext

(* clearLiveState hands over the empty rule set it wrote. *)
LEMMA ClearAsksNothingStep ==
  Typed /\ ClearAsksNothing /\ [Next \/ Beside]_vars => ClearAsksNothing'
<1> SUFFICES ASSUME Typed, ClearAsksNothing,
                    [Next \/ Beside]_vars
             PROVE  ClearAsksNothing'
  OBVIOUS
<1> USE ProcessAssumption
    DEF Typed, ClearAsksNothing, WatcherPC, ChildPC, Waiting, Loop,
        Coordinating, Unlocked, Unchanging, Changing, Returned, ApplyHolding,
        Alive, watcherVars, childVars, nginxVars
<1>1. ASSUME NEW w \in Watcher, Load(w) PROVE ClearAsksNothing'
  BY <1>1 DEF Load, Goto
<1>2. ASSUME NEW w \in Watcher, AcquireCoordinatorLock(w) PROVE ClearAsksNothing'
  BY <1>2 DEF AcquireCoordinatorLock, Goto
<1>3. ASSUME NEW w \in Watcher, CoordinatorLockHeld(w) PROVE ClearAsksNothing'
  BY <1>3 DEF CoordinatorLockHeld, Stop, Goto
<1>4. ASSUME NEW w \in Watcher, Reconcile(w) PROVE ClearAsksNothing'
  BY <1>4 DEF Reconcile, Goto, WriteState, Inherited
<1>5. ASSUME NEW w \in Watcher, ReconcileFails(w) PROVE ClearAsksNothing'
  BY <1>5 DEF ReconcileFails, Stop, Goto, WriteState, WriteStateFails, Inherited
<1>6. ASSUME NEW w \in Watcher, Invoke(w) PROVE ClearAsksNothing'
  BY <1>6 DEF Invoke, Goto
<1>7. ASSUME NEW w \in Watcher, ApplySucceeds(w) PROVE ClearAsksNothing'
  BY <1>7 DEF ApplySucceeds, Stop, Goto, Abandon, ExitedCleanly
<1>8. ASSUME NEW w \in Watcher, ApplyFails(w) PROVE ClearAsksNothing'
  BY <1>8 DEF ApplyFails, Stop, Goto, Abandon
<1>9. ASSUME NEW w \in Watcher, Evaluate(w) PROVE ClearAsksNothing'
  BY <1>9 DEF Evaluate, Goto, WriteState
<1>10. ASSUME NEW w \in Watcher, EvaluateFails(w) PROVE ClearAsksNothing'
  BY <1>10 DEF EvaluateFails, Stop, Goto, WriteState, WriteStateFails
<1>11. ASSUME NEW w \in Watcher, LoopFails(w) PROVE ClearAsksNothing'
  BY <1>11 DEF LoopFails, Stop, Goto
<1>12. ASSUME NEW w \in Watcher, Cancel(w) PROVE ClearAsksNothing'
  BY <1>12 DEF Cancel
<1>13. ASSUME NEW w \in Watcher, GracefulStop(w) PROVE ClearAsksNothing'
  BY <1>13 DEF GracefulStop, Goto
<1>14. ASSUME NEW w \in Watcher, ClearLiveState(w) PROVE ClearAsksNothing'
  BY <1>14 DEF ClearLiveState, Goto, WriteState
<1>15. ASSUME NEW w \in Watcher, ClearFails(w) PROVE ClearAsksNothing'
  BY <1>15 DEF ClearFails, Stop, Goto, WriteState, WriteStateFails
<1>16. ASSUME NEW w \in Watcher, Crash(w) PROVE ClearAsksNothing'
  BY <1>16 DEF Crash, Stop, Goto, Abandon
<1>17. ASSUME NEW k \in Child, FirstProbe(k) PROVE ClearAsksNothing'
  BY <1>17 DEF FirstProbe, Probe, Step
<1>18. ASSUME NEW k \in Child, AcquireApplyLock(k) PROVE ClearAsksNothing'
  BY <1>18 DEF AcquireApplyLock, Step, ApplyLockFree
<1>19. ASSUME NEW k \in Child, SecondProbe(k) PROVE ClearAsksNothing'
  BY <1>19 DEF SecondProbe, Probe, Step
<1>20. ASSUME NEW k \in Child, ValidateApplyRequest(k) PROVE ClearAsksNothing'
  BY <1>20 DEF ValidateApplyRequest, Step, RequestMatches
<1>21. ASSUME NEW k \in Child, Preflight(k) PROVE ClearAsksNothing'
  BY <1>21 DEF Preflight, Step
<1>22. ASSUME NEW k \in Child, Refuse(k) PROVE ClearAsksNothing'
  BY <1>22 DEF Refuse, Exit, Step
<1>23. ASSUME NEW k \in Child, Replace(k) PROVE ClearAsksNothing'
  BY <1>23 DEF Replace, Step
<1>24. ASSUME NEW k \in Child, ReplaceFails(k) PROVE ClearAsksNothing'
  BY <1>24 DEF ReplaceFails, Step
<1>25. ASSUME NEW k \in Child, Test(k) PROVE ClearAsksNothing'
  BY <1>25 DEF Test, Step
<1>26. ASSUME NEW k \in Child, Reload(k) PROVE ClearAsksNothing'
  BY <1>26 DEF Reload, Exit, Step, SignalNginx
<1>27. ASSUME NEW k \in Child, ReloadFails(k) PROVE ClearAsksNothing'
  BY <1>27 DEF ReloadFails, Step
<1>28. ASSUME NEW k \in Child, Undo(k) PROVE ClearAsksNothing'
  BY <1>28 DEF Undo, Step, SignalNginx, RestorePrevious
<1>29. ASSUME NEW k \in Child, UndoFails(k) PROVE ClearAsksNothing'
  BY <1>29 DEF UndoFails, Step
<1>30. ASSUME NEW k \in Child, Die(k) PROVE ClearAsksNothing'
  BY <1>30 DEF Die, Exit, Step
<1>31. ASSUME NginxReload PROVE ClearAsksNothing'
  BY <1>31 DEF NginxReload
<1>32. ASSUME NginxRestart PROVE ClearAsksNothing'
  BY <1>32 DEF NginxRestart
<1>33. ASSUME EditConfig PROVE ClearAsksNothing'
  BY <1>33 DEF EditConfig
<1>34. CASE UNCHANGED vars
  BY <1>34 DEF vars
<1>35. CASE Beside
  BY <1>35 DEF Beside
<1> QED
  BY <1>1, <1>2, <1>3, <1>4, <1>5, <1>6, <1>7, <1>8, <1>9, <1>10, <1>11,
     <1>12, <1>13, <1>14, <1>15, <1>16, <1>17, <1>18, <1>19, <1>20, <1>21,
     <1>22, <1>23, <1>24, <1>25, <1>26, <1>27, <1>28, <1>29, <1>30, <1>31,
     <1>32, <1>33, <1>34, <1>35
  DEF Next, WatcherNext, ChildNext

(* The apply lock keeps every other child away from the map. *)
LEMMA OwnMapStep ==
  Typed /\ Locks /\ OwnMap /\ [Next \/ Beside]_vars => OwnMap'
<1> SUFFICES ASSUME Typed, Locks, OwnMap, [Next \/ Beside]_vars PROVE OwnMap'
  OBVIOUS
<1> USE ProcessAssumption
    DEF Typed, Locks, OwnMap, WatcherPC, ChildPC, Waiting, Loop,
        Coordinating, Unlocked, Unchanging, Changing, Returned, ApplyHolding,
        Alive, watcherVars, childVars, nginxVars
<1>1. ASSUME NEW w \in Watcher, Load(w) PROVE OwnMap'
  BY <1>1 DEF Load, Goto
<1>2. ASSUME NEW w \in Watcher, AcquireCoordinatorLock(w) PROVE OwnMap'
  BY <1>2 DEF AcquireCoordinatorLock, Goto
<1>3. ASSUME NEW w \in Watcher, CoordinatorLockHeld(w) PROVE OwnMap'
  BY <1>3 DEF CoordinatorLockHeld, Stop, Goto
<1>4. ASSUME NEW w \in Watcher, Reconcile(w) PROVE OwnMap'
  BY <1>4 DEF Reconcile, Goto, WriteState, Inherited
<1>5. ASSUME NEW w \in Watcher, ReconcileFails(w) PROVE OwnMap'
  BY <1>5 DEF ReconcileFails, Stop, Goto, WriteState, WriteStateFails, Inherited
<1>6. ASSUME NEW w \in Watcher, Invoke(w) PROVE OwnMap'
  BY <1>6 DEF Invoke, Goto
<1>7. ASSUME NEW w \in Watcher, ApplySucceeds(w) PROVE OwnMap'
  BY <1>7 DEF ApplySucceeds, Stop, Goto, Abandon, ExitedCleanly
<1>8. ASSUME NEW w \in Watcher, ApplyFails(w) PROVE OwnMap'
  BY <1>8 DEF ApplyFails, Stop, Goto, Abandon
<1>9. ASSUME NEW w \in Watcher, Evaluate(w) PROVE OwnMap'
  BY <1>9 DEF Evaluate, Goto, WriteState
<1>10. ASSUME NEW w \in Watcher, EvaluateFails(w) PROVE OwnMap'
  BY <1>10 DEF EvaluateFails, Stop, Goto, WriteState, WriteStateFails
<1>11. ASSUME NEW w \in Watcher, LoopFails(w) PROVE OwnMap'
  BY <1>11 DEF LoopFails, Stop, Goto
<1>12. ASSUME NEW w \in Watcher, Cancel(w) PROVE OwnMap'
  BY <1>12 DEF Cancel
<1>13. ASSUME NEW w \in Watcher, GracefulStop(w) PROVE OwnMap'
  BY <1>13 DEF GracefulStop, Goto
<1>14. ASSUME NEW w \in Watcher, ClearLiveState(w) PROVE OwnMap'
  BY <1>14 DEF ClearLiveState, Goto, WriteState
<1>15. ASSUME NEW w \in Watcher, ClearFails(w) PROVE OwnMap'
  BY <1>15 DEF ClearFails, Stop, Goto, WriteState, WriteStateFails
<1>16. ASSUME NEW w \in Watcher, Crash(w) PROVE OwnMap'
  BY <1>16 DEF Crash, Stop, Goto, Abandon
<1>17. ASSUME NEW k \in Child, FirstProbe(k) PROVE OwnMap'
  BY <1>17 DEF FirstProbe, Probe, Step
<1>18. ASSUME NEW k \in Child, AcquireApplyLock(k) PROVE OwnMap'
  BY <1>18 DEF AcquireApplyLock, Step, ApplyLockFree
<1>19. ASSUME NEW k \in Child, SecondProbe(k) PROVE OwnMap'
  BY <1>19 DEF SecondProbe, Probe, Step
<1>20. ASSUME NEW k \in Child, ValidateApplyRequest(k) PROVE OwnMap'
  BY <1>20 DEF ValidateApplyRequest, Step, RequestMatches
<1>21. ASSUME NEW k \in Child, Preflight(k) PROVE OwnMap'
  BY <1>21 DEF Preflight, Step
<1>22. ASSUME NEW k \in Child, Refuse(k) PROVE OwnMap'
  BY <1>22 DEF Refuse, Exit, Step
<1>23. ASSUME NEW k \in Child, Replace(k) PROVE OwnMap'
  BY <1>23 DEF Replace, Step
<1>24. ASSUME NEW k \in Child, ReplaceFails(k) PROVE OwnMap'
  BY <1>24 DEF ReplaceFails, Step
<1>25. ASSUME NEW k \in Child, Test(k) PROVE OwnMap'
  BY <1>25 DEF Test, Step
<1>26. ASSUME NEW k \in Child, Reload(k) PROVE OwnMap'
  BY <1>26 DEF Reload, Exit, Step, SignalNginx
<1>27. ASSUME NEW k \in Child, ReloadFails(k) PROVE OwnMap'
  BY <1>27 DEF ReloadFails, Step
<1>28. ASSUME NEW k \in Child, Undo(k) PROVE OwnMap'
  BY <1>28 DEF Undo, Step, SignalNginx, RestorePrevious
<1>29. ASSUME NEW k \in Child, UndoFails(k) PROVE OwnMap'
  BY <1>29, ZenonT(40) DEF UndoFails, Step
<1>30. ASSUME NEW k \in Child, Die(k) PROVE OwnMap'
  BY <1>30 DEF Die, Exit, Step
<1>31. ASSUME NginxReload PROVE OwnMap'
  BY <1>31 DEF NginxReload
<1>32. ASSUME NginxRestart PROVE OwnMap'
  BY <1>32 DEF NginxRestart
<1>33. ASSUME EditConfig PROVE OwnMap'
  BY <1>33 DEF EditConfig
<1>34. CASE UNCHANGED vars
  BY <1>34 DEF vars
<1>35. CASE Beside
  BY <1>35, SMTT(30) DEF Beside
<1> QED
  BY <1>1, <1>2, <1>3, <1>4, <1>5, <1>6, <1>7, <1>8, <1>9, <1>10, <1>11,
     <1>12, <1>13, <1>14, <1>15, <1>16, <1>17, <1>18, <1>19, <1>20, <1>21,
     <1>22, <1>23, <1>24, <1>25, <1>26, <1>27, <1>28, <1>29, <1>30, <1>31,
     <1>32, <1>33, <1>34, <1>35
  DEF Next, WatcherNext, ChildNext

(* Every step installs, loads or remembers candidates only, and a           *)
(* confirmation forgets none that is still in use.                          *)
LEMMA CandidatesStep ==
  Typed /\ Waits /\ Candidates /\ Confirmable /\ [Next \/ Beside]_vars => Candidates'
<1> SUFFICES ASSUME Typed, Waits, Candidates, Confirmable,
                    [Next \/ Beside]_vars
             PROVE  Candidates'
  OBVIOUS
<1> USE ProcessAssumption
    DEF Typed, Waits, Candidates, Confirmable, Settled, Committed,
        WatcherPC, ChildPC, Waiting, Loop, Coordinating, Unlocked,
        Unchanging, Changing, Returned, ApplyHolding, Alive, watcherVars,
        childVars, nginxVars
<1>1. ASSUME NEW w \in Watcher, Load(w) PROVE Candidates'
  BY <1>1 DEF Load, Goto
<1>2. ASSUME NEW w \in Watcher, AcquireCoordinatorLock(w) PROVE Candidates'
  BY <1>2 DEF AcquireCoordinatorLock, Goto
<1>3. ASSUME NEW w \in Watcher, CoordinatorLockHeld(w) PROVE Candidates'
  BY <1>3 DEF CoordinatorLockHeld, Stop, Goto
<1>4. ASSUME NEW w \in Watcher, Reconcile(w) PROVE Candidates'
  BY <1>4 DEF Reconcile, Goto, WriteState, Inherited
<1>5. ASSUME NEW w \in Watcher, ReconcileFails(w) PROVE Candidates'
  BY <1>5 DEF ReconcileFails, Stop, Goto, WriteState, WriteStateFails, Inherited
<1>6. ASSUME NEW w \in Watcher, Invoke(w) PROVE Candidates'
  BY <1>6 DEF Invoke, Goto
<1>7. ASSUME NEW w \in Watcher, ApplySucceeds(w) PROVE Candidates'
  BY <1>7 DEF ApplySucceeds, Stop, Goto, Abandon, ExitedCleanly
<1>8. ASSUME NEW w \in Watcher, ApplyFails(w) PROVE Candidates'
  BY <1>8 DEF ApplyFails, Stop, Goto, Abandon
<1>9. ASSUME NEW w \in Watcher, Evaluate(w) PROVE Candidates'
  BY <1>9 DEF Evaluate, Goto, WriteState
<1>10. ASSUME NEW w \in Watcher, EvaluateFails(w) PROVE Candidates'
  BY <1>10 DEF EvaluateFails, Stop, Goto, WriteState, WriteStateFails
<1>11. ASSUME NEW w \in Watcher, LoopFails(w) PROVE Candidates'
  BY <1>11 DEF LoopFails, Stop, Goto
<1>12. ASSUME NEW w \in Watcher, Cancel(w) PROVE Candidates'
  BY <1>12 DEF Cancel
<1>13. ASSUME NEW w \in Watcher, GracefulStop(w) PROVE Candidates'
  BY <1>13 DEF GracefulStop, Goto
<1>14. ASSUME NEW w \in Watcher, ClearLiveState(w) PROVE Candidates'
  BY <1>14 DEF ClearLiveState, Goto, WriteState
<1>15. ASSUME NEW w \in Watcher, ClearFails(w) PROVE Candidates'
  BY <1>15 DEF ClearFails, Stop, Goto, WriteState, WriteStateFails
<1>16. ASSUME NEW w \in Watcher, Crash(w) PROVE Candidates'
  BY <1>16 DEF Crash, Stop, Goto, Abandon
<1>17. ASSUME NEW k \in Child, FirstProbe(k) PROVE Candidates'
  BY <1>17 DEF FirstProbe, Probe, Step
<1>18. ASSUME NEW k \in Child, AcquireApplyLock(k) PROVE Candidates'
  BY <1>18 DEF AcquireApplyLock, Step, ApplyLockFree
<1>19. ASSUME NEW k \in Child, SecondProbe(k) PROVE Candidates'
  BY <1>19 DEF SecondProbe, Probe, Step
<1>20. ASSUME NEW k \in Child, ValidateApplyRequest(k) PROVE Candidates'
  BY <1>20 DEF ValidateApplyRequest, Step, RequestMatches
<1>21. ASSUME NEW k \in Child, Preflight(k) PROVE Candidates'
  BY <1>21 DEF Preflight, Step
<1>22. ASSUME NEW k \in Child, Refuse(k) PROVE Candidates'
  BY <1>22 DEF Refuse, Exit, Step
<1>23. ASSUME NEW k \in Child, Replace(k) PROVE Candidates'
  BY <1>23 DEF Replace, Step
<1>24. ASSUME NEW k \in Child, ReplaceFails(k) PROVE Candidates'
  BY <1>24 DEF ReplaceFails, Step
<1>25. ASSUME NEW k \in Child, Test(k) PROVE Candidates'
  BY <1>25 DEF Test, Step
<1>26. ASSUME NEW k \in Child, Reload(k) PROVE Candidates'
  BY <1>26 DEF Reload, Exit, Step, SignalNginx
<1>27. ASSUME NEW k \in Child, ReloadFails(k) PROVE Candidates'
  BY <1>27, ZenonT(40) DEF ReloadFails, Step
<1>28. ASSUME NEW k \in Child, Undo(k) PROVE Candidates'
  BY <1>28 DEF Undo, Step, SignalNginx, RestorePrevious
<1>29. ASSUME NEW k \in Child, UndoFails(k) PROVE Candidates'
  <2>1. cpc[k] \in Changing /\ cpc' = [cpc EXCEPT ![k] = "broken"]
    BY <1>29 DEF UndoFails, Step
  <2>2. UNCHANGED <<stateFile, payload, previous, nginxRules, requested>>
    BY <1>29 DEF UndoFails
  <2>3. activeMap' \in {activeMap, previous[k]}
    BY <1>29 DEF UndoFails
  <2>4. reloadSignal' \in {reloadSignal, TRUE}
    BY <1>29 DEF UndoFails
  <2>5. activeMap' \in requested
    BY <2>1, <2>3
  <2> QED
    BY <2>1, <2>2, <2>4, <2>5, ZenonT(40)
<1>30. ASSUME NEW k \in Child, Die(k) PROVE Candidates'
  BY <1>30 DEF Die, Exit, Step
<1>31. ASSUME NginxReload PROVE Candidates'
  BY <1>31 DEF NginxReload
<1>32. ASSUME NginxRestart PROVE Candidates'
  BY <1>32 DEF NginxRestart
<1>33. ASSUME EditConfig PROVE Candidates'
  BY <1>33 DEF EditConfig
<1>34. CASE UNCHANGED vars
  BY <1>34 DEF vars
<1>35. CASE Beside
  <2>1. UNCHANGED <<stateFile, activeMap, nginxRules, cpc, payload, previous,
                    requested>>
    BY <1>35 DEF Beside
  <2>2. reloadSignal => reloadSignal'
    BY <1>35 DEF Beside
  <2> QED
    BY <2>1, <2>2
<1> QED
  BY <1>1, <1>2, <1>3, <1>4, <1>5, <1>6, <1>7, <1>8, <1>9, <1>10, <1>11,
     <1>12, <1>13, <1>14, <1>15, <1>16, <1>17, <1>18, <1>19, <1>20, <1>21,
     <1>22, <1>23, <1>24, <1>25, <1>26, <1>27, <1>28, <1>29, <1>30, <1>31,
     <1>32, <1>33, <1>34, <1>35
  DEF Next, WatcherNext, ChildNext

(* A child succeeds while it holds the apply lock and its payload is the    *)
(* state on disk; until its coordinator notices, every other child finds    *)
(* that same state.                                                         *)
LEMMA ConfirmableStep ==
  Typed /\ Locks /\ Waits /\ DesiredIsPersisted /\ OwnMap /\ Confirmable
    /\ [Next \/ Beside]_vars => Confirmable'
<1> SUFFICES ASSUME Typed, Locks, Waits, DesiredIsPersisted, OwnMap, Confirmable,
                    [Next \/ Beside]_vars
             PROVE  Confirmable'
  OBVIOUS
<1> USE ProcessAssumption
    DEF Typed, Locks, Waits, DesiredIsPersisted, OwnMap, Confirmable,
        Settled, Committed, WatcherPC, ChildPC, Waiting, Loop, Coordinating,
        Unlocked, Unchanging, Changing, Returned, ApplyHolding, Alive,
        watcherVars, childVars, nginxVars
<1>1. ASSUME NEW w \in Watcher, Load(w) PROVE Confirmable'
  BY <1>1 DEF Load, Goto
<1>2. ASSUME NEW w \in Watcher, AcquireCoordinatorLock(w) PROVE Confirmable'
  BY <1>2 DEF AcquireCoordinatorLock, Goto
<1>3. ASSUME NEW w \in Watcher, CoordinatorLockHeld(w) PROVE Confirmable'
  BY <1>3 DEF CoordinatorLockHeld, Stop, Goto
<1>4. ASSUME NEW w \in Watcher, Reconcile(w) PROVE Confirmable'
  BY <1>4 DEF Reconcile, Goto, WriteState, Inherited
<1>5. ASSUME NEW w \in Watcher, ReconcileFails(w) PROVE Confirmable'
  BY <1>5 DEF ReconcileFails, Stop, Goto, WriteState, WriteStateFails, Inherited
<1>6. ASSUME NEW w \in Watcher, Invoke(w) PROVE Confirmable'
  BY <1>6 DEF Invoke, Goto
<1>7. ASSUME NEW w \in Watcher, ApplySucceeds(w) PROVE Confirmable'
  BY <1>7 DEF ApplySucceeds, Stop, Goto, Abandon, ExitedCleanly
<1>8. ASSUME NEW w \in Watcher, ApplyFails(w) PROVE Confirmable'
  BY <1>8 DEF ApplyFails, Stop, Goto, Abandon
<1>9. ASSUME NEW w \in Watcher, Evaluate(w) PROVE Confirmable'
  BY <1>9 DEF Evaluate, Goto, WriteState
<1>10. ASSUME NEW w \in Watcher, EvaluateFails(w) PROVE Confirmable'
  BY <1>10 DEF EvaluateFails, Stop, Goto, WriteState, WriteStateFails
<1>11. ASSUME NEW w \in Watcher, LoopFails(w) PROVE Confirmable'
  BY <1>11 DEF LoopFails, Stop, Goto
<1>12. ASSUME NEW w \in Watcher, Cancel(w) PROVE Confirmable'
  BY <1>12 DEF Cancel
<1>13. ASSUME NEW w \in Watcher, GracefulStop(w) PROVE Confirmable'
  BY <1>13 DEF GracefulStop, Goto
<1>14. ASSUME NEW w \in Watcher, ClearLiveState(w) PROVE Confirmable'
  BY <1>14 DEF ClearLiveState, Goto, WriteState
<1>15. ASSUME NEW w \in Watcher, ClearFails(w) PROVE Confirmable'
  BY <1>15 DEF ClearFails, Stop, Goto, WriteState, WriteStateFails
<1>16. ASSUME NEW w \in Watcher, Crash(w) PROVE Confirmable'
  BY <1>16 DEF Crash, Stop, Goto, Abandon
<1>17. ASSUME NEW k \in Child, FirstProbe(k) PROVE Confirmable'
  BY <1>17 DEF FirstProbe, Probe, Step
<1>18. ASSUME NEW k \in Child, AcquireApplyLock(k) PROVE Confirmable'
  BY <1>18 DEF AcquireApplyLock, Step, ApplyLockFree
<1>19. ASSUME NEW k \in Child, SecondProbe(k) PROVE Confirmable'
  BY <1>19 DEF SecondProbe, Probe, Step
<1>20. ASSUME NEW k \in Child, ValidateApplyRequest(k) PROVE Confirmable'
  BY <1>20 DEF ValidateApplyRequest, Step, RequestMatches
<1>21. ASSUME NEW k \in Child, Preflight(k) PROVE Confirmable'
  BY <1>21 DEF Preflight, Step
<1>22. ASSUME NEW k \in Child, Refuse(k) PROVE Confirmable'
  BY <1>22 DEF Refuse, Exit, Step
<1>23. ASSUME NEW k \in Child, Replace(k) PROVE Confirmable'
  BY <1>23 DEF Replace, Step
<1>24. ASSUME NEW k \in Child, ReplaceFails(k) PROVE Confirmable'
  BY <1>24 DEF ReplaceFails, Step
<1>25. ASSUME NEW k \in Child, Test(k) PROVE Confirmable'
  BY <1>25 DEF Test, Step
<1>26. ASSUME NEW k \in Child, Reload(k) PROVE Confirmable'
  BY <1>26 DEF Reload, Exit, Step, SignalNginx
<1>27. ASSUME NEW k \in Child, ReloadFails(k) PROVE Confirmable'
  <2>1. cpc[k] = "reload" /\ cpc' = [cpc EXCEPT ![k] = "undoReload"]
    BY <1>27 DEF ReloadFails, Step
  <2>2. UNCHANGED <<stateFile, activeMap, invoked, payload, previous,
                    nginxRules>>
    BY <1>27 DEF ReloadFails
  <2>3. reloadSignal' \in {reloadSignal, TRUE}
    BY <1>27 DEF ReloadFails
  <2> SUFFICES ASSUME NEW w \in Watcher, invoked'[w] \in Child,
                      cpc'[invoked'[w]] = "succeeded"
               PROVE  Settled'
    BY DEF Confirmable
  <2>5. Settled
    BY <2>1, <2>2 DEF Confirmable
  <2>6. \A j \in Child : /\ cpc'[j] \in Committed => cpc[j] \in Committed
                         /\ cpc'[j] \in Changing \cup Returned =>
                              cpc[j] \in Changing \cup Returned
    BY <2>1
  <2>7. stateFile' = stateFile /\ activeMap' = stateFile.rules
    BY <2>1, <2>2, <2>3, <2>5
  <2>8. reloadSignal' \/ nginxRules' = stateFile.rules
    BY <2>2, <2>3, <2>5
  <2>9. payload' = payload /\ previous' = previous
    BY <2>2
  <2> HIDE DEF Typed, Locks, Waits, DesiredIsPersisted, OwnMap, Confirmable
  <2> QED
    BY <2>5, <2>6, <2>7, <2>8, <2>9 DEF Settled
<1>28. ASSUME NEW k \in Child, Undo(k) PROVE Confirmable'
  BY <1>28 DEF Undo, Step, SignalNginx, RestorePrevious
<1>29. ASSUME NEW k \in Child, UndoFails(k) PROVE Confirmable'
  <2>1. cpc[k] \in Changing /\ cpc' = [cpc EXCEPT ![k] = "broken"]
    BY <1>29 DEF UndoFails, Step
  <2>2. UNCHANGED <<stateFile, invoked, payload, previous, nginxRules>>
    BY <1>29 DEF UndoFails
  <2>3. activeMap' \in {activeMap, previous[k]}
    BY <1>29 DEF UndoFails
  <2>4. reloadSignal' \in {reloadSignal, TRUE}
    BY <1>29 DEF UndoFails
  <2> SUFFICES ASSUME NEW w \in Watcher, invoked'[w] \in Child,
                      cpc'[invoked'[w]] = "succeeded"
               PROVE  Settled'
    BY DEF Confirmable
  <2>5. Settled
    BY <2>1, <2>2 DEF Confirmable
  <2>6. \A j \in Child : /\ cpc'[j] \in Committed => cpc[j] \in Committed
                         /\ cpc'[j] \in Changing \cup Returned =>
                              cpc[j] \in Changing \cup Returned
    BY <2>1
  <2>7. stateFile' = stateFile /\ activeMap' = stateFile.rules
    BY <2>1, <2>2, <2>3, <2>5
  <2>8. reloadSignal' \/ nginxRules' = stateFile.rules
    BY <2>2, <2>3, <2>4, <2>5
  <2>9. payload' = payload /\ previous' = previous
    BY <2>2
  <2> HIDE DEF Typed, Locks, Waits, DesiredIsPersisted, OwnMap, Confirmable
  <2> QED
    BY <2>5, <2>6, <2>7, <2>8, <2>9 DEF Settled
<1>30. ASSUME NEW k \in Child, Die(k) PROVE Confirmable'
  BY <1>30 DEF Die, Exit, Step
<1>31. ASSUME NginxReload PROVE Confirmable'
  BY <1>31 DEF NginxReload
<1>32. ASSUME NginxRestart PROVE Confirmable'
  BY <1>32 DEF NginxRestart
<1>33. ASSUME EditConfig PROVE Confirmable'
  BY <1>33 DEF EditConfig
<1>34. CASE UNCHANGED vars
  BY <1>34 DEF vars
<1>35. CASE Beside
  <2>1. UNCHANGED <<stateFile, activeMap, nginxRules, cpc, payload, previous,
                    invoked>>
    BY <1>35 DEF Beside
  <2>2. reloadSignal => reloadSignal'
    BY <1>35 DEF Beside
  <2>3. Settled => Settled'
    BY <2>1, <2>2
  <2> HIDE DEF Settled
  <2> QED
    BY <2>1, <2>3
<1> QED
  BY <1>1, <1>2, <1>3, <1>4, <1>5, <1>6, <1>7, <1>8, <1>9, <1>10, <1>11,
     <1>12, <1>13, <1>14, <1>15, <1>16, <1>17, <1>18, <1>19, <1>20, <1>21,
     <1>22, <1>23, <1>24, <1>25, <1>26, <1>27, <1>28, <1>29, <1>30, <1>31,
     <1>32, <1>33, <1>34, <1>35
  DEF Next, WatcherNext, ChildNext

(* After a clear only a new coordinator can ask for rules. *)
LEMMA NothingAskedStep ==
  Typed /\ Locks /\ DesiredIsPersisted /\ ClearAsksNothing /\ NothingAsked
    /\ [Next \/ Beside]_vars => NothingAsked'
<1> SUFFICES ASSUME Typed, Locks, DesiredIsPersisted, ClearAsksNothing, NothingAsked,
                    [Next \/ Beside]_vars
             PROVE  NothingAsked'
  OBVIOUS
<1> USE ProcessAssumption
    DEF Typed, Locks, DesiredIsPersisted, ClearAsksNothing, NothingAsked,
        WatcherPC, ChildPC, Waiting, Loop, Coordinating, Unlocked,
        Unchanging, Changing, Returned, ApplyHolding, Alive, watcherVars,
        childVars, nginxVars
<1>1. ASSUME NEW w \in Watcher, Load(w) PROVE NothingAsked'
  BY <1>1 DEF Load, Goto
<1>2. ASSUME NEW w \in Watcher, AcquireCoordinatorLock(w) PROVE NothingAsked'
  BY <1>2 DEF AcquireCoordinatorLock, Goto
<1>3. ASSUME NEW w \in Watcher, CoordinatorLockHeld(w) PROVE NothingAsked'
  BY <1>3 DEF CoordinatorLockHeld, Stop, Goto
<1>4. ASSUME NEW w \in Watcher, Reconcile(w) PROVE NothingAsked'
  BY <1>4 DEF Reconcile, Goto, WriteState, Inherited
<1>5. ASSUME NEW w \in Watcher, ReconcileFails(w) PROVE NothingAsked'
  BY <1>5 DEF ReconcileFails, Stop, Goto, WriteState, WriteStateFails, Inherited
<1>6. ASSUME NEW w \in Watcher, Invoke(w) PROVE NothingAsked'
  BY <1>6 DEF Invoke, Goto
<1>7. ASSUME NEW w \in Watcher, ApplySucceeds(w) PROVE NothingAsked'
  <2>1. requested' = {stateFile.rules} /\ coordinatorLock = w
    BY <1>7 DEF ApplySucceeds
  <2>2. CASE wpc[w] = "clearApply"
    <3>1. coordinatorLock' = Nobody
      BY <1>7, <2>1, <2>2 DEF ApplySucceeds, Stop
    <3>2. stateFile.rules = {}
      BY <2>2
    <3> QED
      BY <2>1, <3>1, <3>2
  <2>3. CASE wpc[w] # "clearApply"
    BY <1>7, <2>1, <2>3 DEF ApplySucceeds
  <2> QED
    BY <2>2, <2>3
<1>8. ASSUME NEW w \in Watcher, ApplyFails(w) PROVE NothingAsked'
  BY <1>8 DEF ApplyFails, Stop, Goto, Abandon
<1>9. ASSUME NEW w \in Watcher, Evaluate(w) PROVE NothingAsked'
  BY <1>9 DEF Evaluate, Goto, WriteState
<1>10. ASSUME NEW w \in Watcher, EvaluateFails(w) PROVE NothingAsked'
  BY <1>10 DEF EvaluateFails, Stop, Goto, WriteState, WriteStateFails
<1>11. ASSUME NEW w \in Watcher, LoopFails(w) PROVE NothingAsked'
  BY <1>11 DEF LoopFails, Stop, Goto
<1>12. ASSUME NEW w \in Watcher, Cancel(w) PROVE NothingAsked'
  BY <1>12 DEF Cancel
<1>13. ASSUME NEW w \in Watcher, GracefulStop(w) PROVE NothingAsked'
  BY <1>13 DEF GracefulStop, Goto
<1>14. ASSUME NEW w \in Watcher, ClearLiveState(w) PROVE NothingAsked'
  BY <1>14 DEF ClearLiveState, Goto, WriteState
<1>15. ASSUME NEW w \in Watcher, ClearFails(w) PROVE NothingAsked'
  BY <1>15 DEF ClearFails, Stop, Goto, WriteState, WriteStateFails
<1>16. ASSUME NEW w \in Watcher, Crash(w) PROVE NothingAsked'
  BY <1>16 DEF Crash, Stop, Goto, Abandon
<1>17. ASSUME NEW k \in Child, FirstProbe(k) PROVE NothingAsked'
  BY <1>17 DEF FirstProbe, Probe, Step
<1>18. ASSUME NEW k \in Child, AcquireApplyLock(k) PROVE NothingAsked'
  BY <1>18 DEF AcquireApplyLock, Step, ApplyLockFree
<1>19. ASSUME NEW k \in Child, SecondProbe(k) PROVE NothingAsked'
  BY <1>19 DEF SecondProbe, Probe, Step
<1>20. ASSUME NEW k \in Child, ValidateApplyRequest(k) PROVE NothingAsked'
  BY <1>20 DEF ValidateApplyRequest, Step, RequestMatches
<1>21. ASSUME NEW k \in Child, Preflight(k) PROVE NothingAsked'
  BY <1>21 DEF Preflight, Step
<1>22. ASSUME NEW k \in Child, Refuse(k) PROVE NothingAsked'
  BY <1>22 DEF Refuse, Exit, Step
<1>23. ASSUME NEW k \in Child, Replace(k) PROVE NothingAsked'
  BY <1>23 DEF Replace, Step
<1>24. ASSUME NEW k \in Child, ReplaceFails(k) PROVE NothingAsked'
  BY <1>24 DEF ReplaceFails, Step
<1>25. ASSUME NEW k \in Child, Test(k) PROVE NothingAsked'
  BY <1>25 DEF Test, Step
<1>26. ASSUME NEW k \in Child, Reload(k) PROVE NothingAsked'
  BY <1>26 DEF Reload, Exit, Step, SignalNginx
<1>27. ASSUME NEW k \in Child, ReloadFails(k) PROVE NothingAsked'
  BY <1>27 DEF ReloadFails, Step
<1>28. ASSUME NEW k \in Child, Undo(k) PROVE NothingAsked'
  BY <1>28 DEF Undo, Step, SignalNginx, RestorePrevious
<1>29. ASSUME NEW k \in Child, UndoFails(k) PROVE NothingAsked'
  BY <1>29 DEF UndoFails, Step
<1>30. ASSUME NEW k \in Child, Die(k) PROVE NothingAsked'
  BY <1>30 DEF Die, Exit, Step
<1>31. ASSUME NginxReload PROVE NothingAsked'
  BY <1>31 DEF NginxReload
<1>32. ASSUME NginxRestart PROVE NothingAsked'
  BY <1>32 DEF NginxRestart
<1>33. ASSUME EditConfig PROVE NothingAsked'
  BY <1>33 DEF EditConfig
<1>34. CASE UNCHANGED vars
  BY <1>34 DEF vars
<1>35. CASE Beside
  BY <1>35 DEF Beside
<1> QED
  BY <1>1, <1>2, <1>3, <1>4, <1>5, <1>6, <1>7, <1>8, <1>9, <1>10, <1>11,
     <1>12, <1>13, <1>14, <1>15, <1>16, <1>17, <1>18, <1>19, <1>20, <1>21,
     <1>22, <1>23, <1>24, <1>25, <1>26, <1>27, <1>28, <1>29, <1>30, <1>31,
     <1>32, <1>33, <1>34, <1>35
  DEF Next, WatcherNext, ChildNext

(* The digest that ValidateApplyRequest compares ties a child to the config *)
(* of its coordinator.                                                      *)
LEMMA SameConfigStep ==
  Typed /\ Locks /\ Waits /\ DesiredIsPersisted /\ SameConfig
    /\ [Next \/ Beside]_vars => SameConfig'
<1> SUFFICES ASSUME Typed, Locks, Waits, DesiredIsPersisted, SameConfig,
                    [Next \/ Beside]_vars
             PROVE  SameConfig'
  OBVIOUS
<1> USE ProcessAssumption
    DEF Typed, Locks, Waits, DesiredIsPersisted, SameConfig, Committed,
        WatcherPC, ChildPC, Waiting, Loop, Coordinating, Unlocked,
        Unchanging, Changing, Returned, ApplyHolding, Alive, watcherVars,
        childVars, nginxVars
<1>1. ASSUME NEW w \in Watcher, Load(w) PROVE SameConfig'
  BY <1>1 DEF Load, Goto
<1>2. ASSUME NEW w \in Watcher, AcquireCoordinatorLock(w) PROVE SameConfig'
  BY <1>2 DEF AcquireCoordinatorLock, Goto
<1>3. ASSUME NEW w \in Watcher, CoordinatorLockHeld(w) PROVE SameConfig'
  BY <1>3 DEF CoordinatorLockHeld, Stop, Goto
<1>4. ASSUME NEW w \in Watcher, Reconcile(w) PROVE SameConfig'
  BY <1>4 DEF Reconcile, Goto, WriteState, Inherited
<1>5. ASSUME NEW w \in Watcher, ReconcileFails(w) PROVE SameConfig'
  BY <1>5 DEF ReconcileFails, Stop, Goto, WriteState, WriteStateFails, Inherited
<1>6. ASSUME NEW w \in Watcher, Invoke(w) PROVE SameConfig'
  BY <1>6 DEF Invoke, Goto
<1>7. ASSUME NEW w \in Watcher, ApplySucceeds(w) PROVE SameConfig'
  BY <1>7 DEF ApplySucceeds, Stop, Goto, Abandon, ExitedCleanly
<1>8. ASSUME NEW w \in Watcher, ApplyFails(w) PROVE SameConfig'
  BY <1>8 DEF ApplyFails, Stop, Goto, Abandon
<1>9. ASSUME NEW w \in Watcher, Evaluate(w) PROVE SameConfig'
  BY <1>9 DEF Evaluate, Goto, WriteState
<1>10. ASSUME NEW w \in Watcher, EvaluateFails(w) PROVE SameConfig'
  BY <1>10 DEF EvaluateFails, Stop, Goto, WriteState, WriteStateFails
<1>11. ASSUME NEW w \in Watcher, LoopFails(w) PROVE SameConfig'
  BY <1>11 DEF LoopFails, Stop, Goto
<1>12. ASSUME NEW w \in Watcher, Cancel(w) PROVE SameConfig'
  BY <1>12 DEF Cancel
<1>13. ASSUME NEW w \in Watcher, GracefulStop(w) PROVE SameConfig'
  BY <1>13 DEF GracefulStop, Goto
<1>14. ASSUME NEW w \in Watcher, ClearLiveState(w) PROVE SameConfig'
  BY <1>14 DEF ClearLiveState, Goto, WriteState
<1>15. ASSUME NEW w \in Watcher, ClearFails(w) PROVE SameConfig'
  BY <1>15 DEF ClearFails, Stop, Goto, WriteState, WriteStateFails
<1>16. ASSUME NEW w \in Watcher, Crash(w) PROVE SameConfig'
  BY <1>16 DEF Crash, Stop, Goto, Abandon
<1>17. ASSUME NEW k \in Child, FirstProbe(k) PROVE SameConfig'
  BY <1>17 DEF FirstProbe, Probe, Step
<1>18. ASSUME NEW k \in Child, AcquireApplyLock(k) PROVE SameConfig'
  BY <1>18 DEF AcquireApplyLock, Step, ApplyLockFree
<1>19. ASSUME NEW k \in Child, SecondProbe(k) PROVE SameConfig'
  BY <1>19 DEF SecondProbe, Probe, Step
<1>20. ASSUME NEW k \in Child, ValidateApplyRequest(k) PROVE SameConfig'
  BY <1>20 DEF ValidateApplyRequest, Step, RequestMatches
<1>21. ASSUME NEW k \in Child, Preflight(k) PROVE SameConfig'
  BY <1>21 DEF Preflight, Step
<1>22. ASSUME NEW k \in Child, Refuse(k) PROVE SameConfig'
  BY <1>22 DEF Refuse, Exit, Step
<1>23. ASSUME NEW k \in Child, Replace(k) PROVE SameConfig'
  BY <1>23 DEF Replace, Step
<1>24. ASSUME NEW k \in Child, ReplaceFails(k) PROVE SameConfig'
  BY <1>24 DEF ReplaceFails, Step
<1>25. ASSUME NEW k \in Child, Test(k) PROVE SameConfig'
  BY <1>25 DEF Test, Step
<1>26. ASSUME NEW k \in Child, Reload(k) PROVE SameConfig'
  BY <1>26 DEF Reload, Exit, Step, SignalNginx
<1>27. ASSUME NEW k \in Child, ReloadFails(k) PROVE SameConfig'
  BY <1>27 DEF ReloadFails, Step
<1>28. ASSUME NEW k \in Child, Undo(k) PROVE SameConfig'
  BY <1>28 DEF Undo, Step, SignalNginx, RestorePrevious
<1>29. ASSUME NEW k \in Child, UndoFails(k) PROVE SameConfig'
  <2>1. cpc[k] \in Changing /\ cpc' = [cpc EXCEPT ![k] = "broken"]
    BY <1>29 DEF UndoFails, Step
  <2>2. UNCHANGED <<wconfig, cconfig, invoked>>
    BY <1>29 DEF UndoFails
  <2> QED
    BY <2>1, <2>2
<1>30. ASSUME NEW k \in Child, Die(k) PROVE SameConfig'
  BY <1>30 DEF Die, Exit, Step
<1>31. ASSUME NginxReload PROVE SameConfig'
  BY <1>31 DEF NginxReload
<1>32. ASSUME NginxRestart PROVE SameConfig'
  BY <1>32 DEF NginxRestart
<1>33. ASSUME EditConfig PROVE SameConfig'
  BY <1>33 DEF EditConfig
<1>34. CASE UNCHANGED vars
  BY <1>34 DEF vars
<1>35. CASE Beside
  BY <1>35 DEF Beside
<1> QED
  BY <1>1, <1>2, <1>3, <1>4, <1>5, <1>6, <1>7, <1>8, <1>9, <1>10, <1>11,
     <1>12, <1>13, <1>14, <1>15, <1>16, <1>17, <1>18, <1>19, <1>20, <1>21,
     <1>22, <1>23, <1>24, <1>25, <1>26, <1>27, <1>28, <1>29, <1>30, <1>31,
     <1>32, <1>33, <1>34, <1>35
  DEF Next, WatcherNext, ChildNext

-----------------------------------------------------------------------------
(* The theorems *)

(* Live protection keeps its inductive invariant, whatever happens beside it. *)
LEMMA InductiveStep == Inductive /\ [Next \/ Beside]_vars => Inductive'
  BY TypeStep, LocksStep, WaitsStep, DesiredStep, ClearAsksNothingStep,
     OwnMapStep, CandidatesStep, ConfirmableStep, NothingAskedStep,
     SameConfigStep
  DEF Inductive

(* It holds in every reachable state. *)
LEMMA InductiveAlways == Spec => []Inductive
<1>1. Inductive /\ [Next]_vars => Inductive'
  BY InductiveStep
<1> QED
  BY InductiveInit, <1>1, PTL DEF Spec

(* The locks are held by coordinators and children, or have been. *)
LEMMA Holders ==
  ASSUME [Next]_vars
  PROVE  /\ coordinatorLock' \in {coordinatorLock, Nobody} \cup Watcher \cup Child
         /\ applyLock' \in {applyLock, Nobody} \cup Child
<1>1. ASSUME NEW w \in Watcher, WatcherNext(w)
      PROVE  coordinatorLock' \in {coordinatorLock, Nobody, w} /\ applyLock' = applyLock
  BY <1>1
  DEF WatcherNext, Load, AcquireCoordinatorLock, CoordinatorLockHeld, Reconcile,
      ReconcileFails, Invoke, ApplySucceeds, ApplyFails, Evaluate, EvaluateFails,
      LoopFails, Cancel, GracefulStop, ClearLiveState, ClearFails, Crash, Stop
<1>2. ASSUME NEW k \in Child, ChildNext(k)
      PROVE  /\ coordinatorLock' \in {coordinatorLock, Nobody, k}
             /\ applyLock' \in {applyLock, Nobody, k}
  BY <1>2
  DEF ChildNext, FirstProbe, AcquireApplyLock, SecondProbe, ValidateApplyRequest,
      Preflight, Refuse, Replace, ReplaceFails, Test, Reload, ReloadFails, Undo,
      UndoFails, Die, Exit, Probe
<1>3. CASE NginxReload \/ NginxRestart \/ EditConfig \/ UNCHANGED vars
  BY <1>3 DEF NginxReload, NginxRestart, EditConfig, vars
<1> QED
  BY <1>1, <1>2, <1>3 DEF Next

(* Every variable of coordinators, children, files and Nginx keeps its type. *)
THEOREM TypeCorrect == Spec => []TypeOK
<1> DEFINE Held == /\ coordinatorLock \in Watcher \cup Child \cup {Nobody}
                   /\ applyLock \in Child \cup {Nobody}
<1>1. Init => Held
  BY DEF Init
<1>2. Held /\ [Next]_vars => Held'
  BY Holders
<1>3. Spec => []Held
  BY <1>1, <1>2, PTL DEF Spec
<1>4. Inductive /\ Held => TypeOK
  BY DEF Inductive, Typed, TypeOK
<1> QED
  BY InductiveAlways, <1>3, <1>4, PTL

(* The map and Nginx hold only rule sets asked for since the last confirmed *)
(* apply, whatever coordinators, orphans, crashes and rollbacks do.         *)
THEOREM OnlyRequestedRulesAlways == Spec => []OnlyRequestedRules
<1>1. Inductive => OnlyRequestedRules
  BY DEF Inductive, Candidates, OnlyRequestedRules
<1> QED
  BY InductiveAlways, <1>1, PTL

(* After a successful clear no orphan brings a rule back. *)
THEOREM ClearedStaysClearAlways == Spec => []ClearedStaysClear
<1>1. Inductive => ClearedStaysClear
  BY DEF Inductive, Candidates, NothingAsked, ClearedStaysClear
<1> QED
  BY InductiveAlways, <1>1, PTL

(* A coordinator's desired state is on disk while it relies on it. *)
THEOREM DesiredIsPersistedAlways == Spec => []DesiredIsPersisted
<1>1. Inductive => DesiredIsPersisted
  BY DEF Inductive
<1> QED
  BY InductiveAlways, <1>1, PTL

(* One writer of the map and one working coordinator, although the probes   *)
(* of children borrow the coordinator lock.                                 *)
THEOREM OneWriterAlways == Spec => []OneWriter
<1>1. Inductive => OneWriter
  BY DEF Inductive, Locks, OneWriter
<1> QED
  BY InductiveAlways, <1>1, PTL

(* A child changes the map for a coordinator under that coordinator's       *)
(* config.                                                                  *)
THEOREM OneConfigAlways == Spec => []OneConfig
<1>1. Inductive => OneConfig
  BY DEF Inductive, SameConfig, OneConfig, Committed
<1> QED
  BY InductiveAlways, <1>1, PTL

(* An apply that reports the previous map restored has restored it. *)
THEOREM RestoredIsPreviousAlways == Spec => []RestoredIsPrevious
<1>1. Inductive => RestoredIsPrevious
  BY DEF Inductive, OwnMap, RestoredIsPrevious
<1> QED
  BY InductiveAlways, <1>1, PTL

-----------------------------------------------------------------------------
(* Refinement *)

(* After "protect setup" the register is in an initial state. *)
LEMMA RegisterInit == Init => Register!Init
  BY DEF Init, NoState, Register!Init

(* Writing the state file asks for its rules. *)
LEMMA WriteAsks ==
  ASSUME NEW w, NEW rules \in RuleSet, WriteState(w, rules),
         UNCHANGED nginxVars
  PROVE  Register!Next
<1>1. Register!Ask(rules)
  BY DEF WriteState, nginxVars, Register!Ask
<1> QED
  BY <1>1 DEF RuleSet, Register!Next

(* Putting a candidate into the map installs it. *)
LEMMA CandidateInstalls ==
  ASSUME NEW rules \in RuleSet, rules \in requested, activeMap' = rules,
         UNCHANGED <<stateFile, nginxRules, reloadSignal, requested>>
  PROVE  Register!Next
<1>1. Register!Install(rules)
  BY DEF Register!Install
<1> QED
  BY <1>1 DEF RuleSet, Register!Next

(* Every step is a step of the register or leaves it alone. *)
LEMMA RegisterStep ==
  Inductive /\ [Next \/ Beside]_vars => [Register!Next]_(Register!vars)
<1> SUFFICES ASSUME Inductive, [Next \/ Beside]_vars
             PROVE  Register!Next \/ UNCHANGED Register!vars
  OBVIOUS
<1> USE DEF Register!vars
<1> DEFINE Same == UNCHANGED <<stateFile, nginxVars, requested>>
<1>1. Same => UNCHANGED Register!vars
  BY DEF nginxVars
<1>2. ASSUME NEW w \in Watcher,
             \/ Load(w) \/ AcquireCoordinatorLock(w) \/ CoordinatorLockHeld(w)
             \/ Invoke(w) \/ ApplyFails(w) \/ LoopFails(w) \/ Cancel(w)
             \/ GracefulStop(w) \/ Crash(w)
      PROVE  Same
  BY <1>2 DEF Load, AcquireCoordinatorLock, CoordinatorLockHeld, Invoke,
              ApplyFails, LoopFails, Cancel, GracefulStop, Crash
<1>3. ASSUME NEW k \in Child,
             \/ FirstProbe(k) \/ AcquireApplyLock(k) \/ SecondProbe(k)
             \/ ValidateApplyRequest(k) \/ Preflight(k) \/ Refuse(k)
             \/ Test(k) \/ Die(k)
      PROVE  Same
  BY <1>3 DEF FirstProbe, AcquireApplyLock, SecondProbe, ValidateApplyRequest,
              Preflight, Refuse, Test, Die
<1>4. \A w \in Watcher : Inherited(w) \in RuleSet
  BY DEF Inductive, Typed, Inherited, RuleSet
<1>5. ASSUME NEW w \in Watcher, Reconcile(w)
      PROVE  Same \/ Register!Next
  <2>1. PICK kept \in SUBSET Inherited(w) :
          UNCHANGED <<stateFile, requested>> \/ WriteState(w, kept)
    BY <1>5 DEF Reconcile
  <2>2. UNCHANGED nginxVars
    BY <1>5 DEF Reconcile
  <2>3. kept \in RuleSet
    BY <1>4 DEF RuleSet
  <2> QED
    BY <2>1, <2>2, <2>3, WriteAsks
<1>6. ASSUME NEW w \in Watcher, ReconcileFails(w)
      PROVE  Same \/ Register!Next
  <2>1. PICK kept \in SUBSET Inherited(w) : WriteStateFails(w, kept)
    BY <1>6 DEF ReconcileFails
  <2>2. UNCHANGED nginxVars
    BY <1>6 DEF ReconcileFails
  <2>3. kept \in RuleSet
    BY <1>4 DEF RuleSet
  <2> QED
    BY <2>1, <2>2, <2>3, WriteAsks DEF WriteStateFails
<1>7. ASSUME NEW w \in Watcher, ApplySucceeds(w)
      PROVE  Register!Confirm
  <2>1. invoked[w] \in Child /\ cpc[invoked[w]] = "succeeded"
    BY <1>7 DEF Inductive, Waits, ApplySucceeds, ExitedCleanly
  <2>2. Settled
    BY <2>1 DEF Inductive, Confirmable
  <2>3. requested' = {stateFile.rules}
    BY <1>7 DEF ApplySucceeds
  <2>4. UNCHANGED <<stateFile, activeMap, nginxRules, reloadSignal>>
    BY <1>7 DEF ApplySucceeds, nginxVars
  <2> QED
    BY <2>2, <2>3, <2>4 DEF Settled, Register!Confirm
<1>8. ASSUME NEW w \in Watcher, Evaluate(w)
      PROVE  Same \/ Register!Next
  <2>1. PICK rules \in RuleSet :
          UNCHANGED <<stateFile, requested>> \/ WriteState(w, rules)
    BY <1>8 DEF Evaluate
  <2>2. UNCHANGED nginxVars
    BY <1>8 DEF Evaluate
  <2> QED
    BY <2>1, <2>2, WriteAsks
<1>9. ASSUME NEW w \in Watcher, EvaluateFails(w)
      PROVE  Same \/ Register!Next
  <2>1. UNCHANGED nginxVars
    BY <1>9 DEF EvaluateFails
  <2>2. \/ UNCHANGED <<stateFile, requested>>
        \/ \E rules \in RuleSet : WriteState(w, rules)
    BY <1>9 DEF EvaluateFails, WriteStateFails
  <2> QED
    BY <2>1, <2>2, WriteAsks
<1>10. ASSUME NEW w \in Watcher, ClearLiveState(w) \/ ClearFails(w)
       PROVE  Same \/ Register!Next
  <2>1. UNCHANGED nginxVars
    BY <1>10 DEF ClearLiveState, ClearFails
  <2>2. UNCHANGED <<stateFile, requested>> \/ WriteState(w, {})
    BY <1>10 DEF ClearLiveState, ClearFails, WriteStateFails
  <2>3. {} \in RuleSet
    BY DEF RuleSet
  <2> QED
    BY <2>1, <2>2, <2>3, WriteAsks
<1>11. ASSUME NEW k \in Child, Replace(k) \/ ReplaceFails(k)
       PROVE  Same \/ Register!Next
  <2>1. payload[k] \in RuleSet /\ payload[k] \in requested
    BY <1>11 DEF Inductive, Typed, Candidates, Committed, Changing, Replace,
                 ReplaceFails
  <2>2. activeMap' \in {activeMap, payload[k]}
    BY <1>11 DEF Replace, ReplaceFails
  <2>3. UNCHANGED <<stateFile, nginxRules, reloadSignal, requested>>
    BY <1>11 DEF Replace, ReplaceFails
  <2> QED
    BY <2>1, <2>2, <2>3, CandidateInstalls DEF nginxVars
<1>12. ASSUME NEW k \in Child, Reload(k) \/ ReloadFails(k)
       PROVE  Same \/ Register!RequestReload
  <2>1. UNCHANGED <<stateFile, activeMap, nginxRules, requested>>
    BY <1>12 DEF Reload, ReloadFails
  <2>2. reloadSignal' \in {reloadSignal, TRUE}
    BY <1>12 DEF Reload, ReloadFails, SignalNginx
  <2> QED
    BY <2>1, <2>2 DEF nginxVars, Register!RequestReload
<1>13. ASSUME NEW k \in Child, Undo(k) \/ UndoFails(k)
       PROVE  Same \/ Register!Next
  <2>1. previous[k] \in RuleSet /\ previous[k] \in requested
    BY <1>13 DEF Inductive, Typed, Candidates, Changing, Undo, UndoFails
  <2>2. UNCHANGED <<stateFile, nginxRules, requested>>
    BY <1>13 DEF Undo, UndoFails
  <2>3. \/ activeMap' = previous[k] /\ UNCHANGED reloadSignal
        \/ reloadSignal' = TRUE /\ UNCHANGED activeMap
        \/ UNCHANGED <<activeMap, reloadSignal>>
    BY <1>13 DEF Undo, UndoFails, RestorePrevious, SignalNginx
  <2>4. CASE activeMap' = previous[k] /\ UNCHANGED reloadSignal
    BY <2>1, <2>2, <2>4, CandidateInstalls
  <2>5. CASE reloadSignal' = TRUE /\ UNCHANGED activeMap
    BY <2>2, <2>5 DEF Register!RequestReload, Register!Next
  <2>6. CASE UNCHANGED <<activeMap, reloadSignal>>
    BY <2>2, <2>6 DEF nginxVars
  <2> QED
    BY <2>3, <2>4, <2>5, <2>6
<1>14. ASSUME NginxReload \/ NginxRestart
       PROVE  Register!Load
  BY <1>14 DEF NginxReload, NginxRestart, Register!Load
<1>18. ASSUME Beside
       PROVE  Same \/ Register!RequestReload
  <2>1. UNCHANGED <<stateFile, activeMap, nginxRules, requested>>
    BY <1>18 DEF Beside
  <2>2. reloadSignal' \in {reloadSignal, TRUE}
    BY <1>18 DEF Beside
  <2> QED
    BY <2>1, <2>2 DEF nginxVars, Register!RequestReload
<1>15. EditConfig \/ UNCHANGED vars => Same
  BY DEF EditConfig, vars
<1> HIDE DEF Same
<1>16. CASE \E w \in Watcher : WatcherNext(w)
  BY <1>1, <1>2, <1>5, <1>6, <1>7, <1>8, <1>9, <1>10, <1>16
  DEF WatcherNext, Register!Next
<1>17. CASE \E k \in Child : ChildNext(k)
  BY <1>1, <1>3, <1>11, <1>12, <1>13, <1>17 DEF ChildNext, Register!Next
<1> QED
  BY <1>1, <1>14, <1>15, <1>16, <1>17, <1>18 DEF Next, Register!Next

(* Live protection implements the register: the state file is what was      *)
(* asked for, the map what is installed, and a successful child confirms.   *)
THEOREM ImplementsRegisterAlways == Spec => ImplementsRegister
<1>1. Inductive /\ [Next]_vars => [Register!Next]_(Register!vars)
  BY RegisterStep
<1> QED
  BY InductiveAlways, RegisterInit, <1>1, PTL
  DEF Spec, ImplementsRegister, Register!Spec

-----------------------------------------------------------------------------
(* Setups *)

(* Where everybody is, and what the files and the memory of a setup can be. *)
Types ==
  /\ wpc \in [Watcher -> WatcherPC]
  /\ cpc \in [Child -> ChildPC]
  /\ spc \in SetupPC
  /\ config \in Config
  /\ files \in [File -> Contents]
  /\ found \in [File -> Contents]
  /\ spc # "off" => sconfig \in Config
  /\ included \in BOOLEAN /\ undone \in BOOLEAN /\ reverting \in BOOLEAN

(* Who is in which section holds its lock. *)
Held ==
  /\ \A w \in Watcher : wpc[w] \in Coordinating => coordinatorLock = w
  /\ \A k \in Child : cpc[k] \in ApplyHolding => applyLock = k
  /\ spc \in Installing \cup {"apply", "state", "leaving"} => coordinatorLock = Root
  /\ spc \in Installing \cup {"state"} => applyLock = Root

(* Without its file a map has no rules, a child that changes it finds all   *)
(* the files, and a setup that is past its checks found no rule.            *)
Managed ==
  /\ files["map"] = Nobody => activeMap = {}
  /\ \A k \in Child : cpc[k] \in Changing => Provisioned
  /\ spc = "check" => found = files /\ foundRules = activeMap
  /\ spc \in Installing \ {"check"} => activeMap = {} /\ foundRules = {}

(* What the replacements so far have left, and what nginx -T was told. *)
Replaced ==
  /\ spc \in {"server", "map"} \cup Commands =>
       files["http"] = Rendered("http", sconfig)
  /\ spc \in {"map"} \cup Commands => files["server"] = Rendered("server", sconfig)
  /\ spc \in Commands => files["map"] = Rendered("map", sconfig)
  /\ spc \in {"test", "reload"} /\ reported => included
  /\ spc \in Installing \ {"check", "installed"} => installed = Nobody

Undone ==
  /\ undone /\ spc \in {"undoServer", "undoMap", "sync"} => files["http"] = found["http"]
  /\ undone /\ spc \in {"undoMap", "sync"} => files["server"] = found["server"]
  /\ undone /\ spc = "sync" => files["map"] = found["map"]
  /\ spc \in {"retest", "rereload", "restored"} => files = found
  /\ spc \in {"rereload", "restored"} /\ reverting => Loadable

SetupInductive ==
  Types /\ Held /\ Managed /\ Replaced /\ Undone /\ SetupIsLoaded /\ RestoredIsFound

-----------------------------------------------------------------------------
(* What coordinators and children do to the locks and the map *)

(* Every process is somewhere. *)
Places ==
  /\ wpc \in [Watcher -> WatcherPC]
  /\ cpc \in [Child -> ChildPC]

(* A coordinator takes a free lock only and changes no map; its section is  *)
(* that of its lock.                                                        *)
LEMMA CoordinatorFrame ==
  ASSUME NEW w \in Watcher, WatcherNext(w), Places, Held
  PROVE  /\ Places'
         /\ UNCHANGED <<config, applyLock, nginxVars>>
         /\ \A k \in Child : cpc'[k] \in ApplyHolding => cpc[k] = cpc'[k]
         /\ \A v \in Watcher : wpc'[v] \in Coordinating => coordinatorLock' = v
         /\ coordinatorLock = Root => coordinatorLock' = Root
<1> USE ProcessAssumption, RootAssumption
    DEF Places, Held, WatcherPC, ChildPC, Waiting, Loop, Coordinating, Unlocked,
        Unchanging, Changing, Returned, ApplyHolding, Alive, watcherVars,
        childVars, nginxVars, Goto
<1>1. CASE Load(w)
  BY <1>1 DEF Load
<1>2. CASE AcquireCoordinatorLock(w)
  BY <1>2 DEF AcquireCoordinatorLock
<1>3. CASE CoordinatorLockHeld(w)
  BY <1>3 DEF CoordinatorLockHeld, Stop
<1>4. CASE Reconcile(w)
  BY <1>4 DEF Reconcile, WriteState, Inherited
<1>5. CASE ReconcileFails(w)
  BY <1>5 DEF ReconcileFails, Stop
<1>6. CASE Invoke(w)
  BY <1>6 DEF Invoke
<1>7. CASE ApplySucceeds(w)
  BY <1>7 DEF ApplySucceeds, Stop, Abandon
<1>8. CASE ApplyFails(w)
  BY <1>8 DEF ApplyFails, Stop, Abandon
<1>9. CASE Evaluate(w)
  BY <1>9 DEF Evaluate, WriteState
<1>10. CASE EvaluateFails(w)
  BY <1>10 DEF EvaluateFails, Stop
<1>11. CASE LoopFails(w)
  BY <1>11 DEF LoopFails, Stop
<1>12. CASE Cancel(w)
  BY <1>12 DEF Cancel
<1>13. CASE GracefulStop(w)
  BY <1>13 DEF GracefulStop
<1>14. CASE ClearLiveState(w)
  BY <1>14 DEF ClearLiveState, WriteState
<1>15. CASE ClearFails(w)
  BY <1>15 DEF ClearFails, Stop
<1>16. CASE Crash(w)
  BY <1>16 DEF Crash, Stop, Abandon
<1> QED
  BY <1>1, <1>2, <1>3, <1>4, <1>5, <1>6, <1>7, <1>8, <1>9, <1>10, <1>11,
     <1>12, <1>13, <1>14, <1>15, <1>16
  DEF WatcherNext

(* A child holds the apply lock from its second probe on, takes a free      *)
(* coordinator lock only, and changes the map in its last section only.     *)
LEMMA ChildFrame ==
  ASSUME NEW k \in Child, ChildNext(k), Places, Held
  PROVE  /\ Places'
         /\ UNCHANGED <<config, nginxRules, wpc>>
         /\ reloadSignal' \in {reloadSignal, TRUE}
         /\ activeMap' = activeMap \/ cpc[k] \in Changing
         /\ \A j \in Child \ {k} : cpc'[j] = cpc[j]
         /\ cpc'[k] \in Changing => cpc[k] \in Changing \/ cpc'[k] = "replace"
         /\ \A j \in Child : cpc'[j] \in ApplyHolding => applyLock' = j
         /\ applyLock = Root => applyLock' = Root
         /\ \A v \in Watcher : wpc[v] \in Coordinating => coordinatorLock' = v
         /\ coordinatorLock = Root => coordinatorLock' = Root
<1> USE ProcessAssumption, RootAssumption
    DEF Places, Held, WatcherPC, ChildPC, Waiting, Loop, Coordinating, Unlocked,
        Unchanging, Changing, Returned, ApplyHolding, Alive, watcherVars,
        childVars, nginxVars, Step
<1>1. CASE FirstProbe(k)
  BY <1>1 DEF FirstProbe, Probe
<1>2. CASE AcquireApplyLock(k)
  BY <1>2 DEF AcquireApplyLock, ApplyLockFree
<1>3. CASE SecondProbe(k)
  BY <1>3 DEF SecondProbe, Probe
<1>4. CASE ValidateApplyRequest(k)
  BY <1>4 DEF ValidateApplyRequest
<1>5. CASE Preflight(k)
  BY <1>5 DEF Preflight
<1>6. CASE Refuse(k)
  BY <1>6 DEF Refuse, Exit
<1>7. CASE Replace(k)
  BY <1>7 DEF Replace
<1>8. CASE ReplaceFails(k)
  BY <1>8 DEF ReplaceFails
<1>9. CASE Test(k)
  BY <1>9 DEF Test
<1>10. CASE Reload(k)
  BY <1>10 DEF Reload, Exit, SignalNginx
<1>11. CASE ReloadFails(k)
  BY <1>11 DEF ReloadFails
<1>12. CASE Undo(k)
  BY <1>12, ZenonT(40) DEF Undo, SignalNginx
<1>13. CASE UndoFails(k)
  BY <1>13 DEF UndoFails
<1>14. CASE Die(k)
  BY <1>14 DEF Die, Exit
<1> QED
  BY <1>1, <1>2, <1>3, <1>4, <1>5, <1>6, <1>7, <1>8, <1>9, <1>10, <1>11,
     <1>12, <1>13, <1>14
  DEF ChildNext

-----------------------------------------------------------------------------
(* Every step keeps each part of the inductive invariant *)

(* The order of replacements and restorations. *)
LEMMA Order ==
  /\ Then["http"] = "server" /\ Then["server"] = "map" /\ Then["map"] = "expand"
  /\ Then["undoHttp"] = "undoServer" /\ Then["undoServer"] = "undoMap"
  /\ Then["undoMap"] = "sync"
  /\ DOMAIN Restores = {"undoHttp", "undoServer", "undoMap"}
  /\ Restores["undoHttp"] = "http" /\ Restores["undoServer"] = "server"
  /\ Restores["undoMap"] = "map"
  BY DEF Then, Restores

(* One restoration, by its place; it is remembered when it does not happen. *)
Restored(f) ==
  /\ files' \in {files, [files EXCEPT ![f] = found[f]]}
  /\ undone' => undone /\ files' = [files EXCEPT ![f] = found[f]]
  /\ undone' \in BOOLEAN
  /\ activeMap' \in {activeMap, foundRules}

(* A restoration happens in the order of the files, and changes nothing else. *)
LEMMA UndoInOrder ==
  ASSUME UndoFile, undone \in BOOLEAN
  PROVE  /\ \/ spc = "undoHttp" /\ Restored("http") /\ spc' = "undoServer"
            \/ spc = "undoServer" /\ Restored("server") /\ spc' = "undoMap"
            \/ spc = "undoMap" /\ Restored("map") /\ spc' = "sync"
         /\ UNCHANGED <<liveVars, nginxRules, reloadSignal, coordinatorLock,
                        applyLock, nginxFiles, included, foundVars, reverting,
                        reported, installed>>
<1>1. spc \in {"undoHttp", "undoServer", "undoMap"} /\ spc' = Then[spc]
  BY Order DEF UndoFile
<1>2. Restored(Restores[spc])
  <2>1. CASE RestoreFile(Restores[spc]) /\ undone' \in {undone, FALSE}
    <3>1. /\ files' = [files EXCEPT ![Restores[spc]] = found[Restores[spc]]]
          /\ activeMap' \in {activeMap, foundRules}
      BY <2>1 DEF RestoreFile, Put
    <3>2. undone' = undone \/ undone' = FALSE
      BY <2>1
    <3>3. undone' \in BOOLEAN /\ (undone' => undone)
      <4>1. undone' = undone => undone' \in BOOLEAN /\ (undone' => undone)
        OBVIOUS
      <4>2. undone' = FALSE => undone' \in BOOLEAN /\ (undone' => undone)
        OBVIOUS
      <4> QED
        BY <3>2, <4>1, <4>2
    <3> QED
      BY <3>1, <3>3 DEF Restored
  <2>2. CASE undone' = FALSE /\ UNCHANGED <<files, activeMap>>
    BY <2>2 DEF Restored
  <2> QED
    BY <2>1, <2>2 DEF UndoFile
<1>3. UNCHANGED <<liveVars, nginxRules, reloadSignal, coordinatorLock, applyLock,
                  nginxFiles, included, foundVars, reverting, reported, installed>>
  BY DEF UndoFile
<1> QED
  BY <1>1, <1>2, <1>3, Order

(* The setup, the live protection and Nginx keep the types. *)
LEMMA TypesStep ==
  SetupInductive /\ [SetupNext]_allVars => Types'
<1> SUFFICES ASSUME SetupInductive, [SetupNext]_allVars PROVE Types'
  OBVIOUS
<1> USE RootAssumption, Order
    DEF SetupInductive, Types, Rendered, Contents, NoFiles, SetupPC, Installing,
        Commands, Undoing, Outcome, File, liveVars, nginxVars, fileVars,
        setupVars, foundVars, watcherVars, childVars, vars
<1>1. CASE SetupLoad
  BY <1>1 DEF SetupLoad
<1>2. CASE LockCoordinators
  BY <1>2 DEF LockCoordinators
<1>3. CASE LockChildren
  BY <1>3 DEF LockChildren, TakeApplyLock
<1>4. CASE FindFiles
  BY <1>4 DEF FindFiles
<1>5. CASE CheckFiles
  BY <1>5 DEF CheckFiles, EmptyMap
<1>6. CASE SetupRefuses
  BY <1>6 DEF SetupRefuses, SetupEnds
<1>7. CASE ReplaceFile
  BY <1>7 DEF ReplaceFile, Put
<1>8. CASE ReplaceFileFails
  BY <1>8 DEF ReplaceFileFails, Put
<1>9. CASE Ask
  BY <1>9 DEF Ask, Loadable
<1>10. CASE AskFails
  BY <1>10 DEF AskFails
<1>11. CASE SetupReload
  BY <1>11 DEF SetupReload, SignalNginx
<1>12. CASE SetupReloadFails
  BY <1>12 DEF SetupReloadFails
<1>13. CASE UndoFile
  <2>1. CASE spc = "undoHttp" /\ Restored("http") /\ spc' = "undoServer"
    BY <1>13, <2>1, UndoInOrder DEF Restored
  <2>2. CASE spc = "undoServer" /\ Restored("server") /\ spc' = "undoMap"
    BY <1>13, <2>2, UndoInOrder DEF Restored
  <2>3. CASE spc = "undoMap" /\ Restored("map") /\ spc' = "sync"
    BY <1>13, <2>3, UndoInOrder DEF Restored
  <2> QED
    BY <1>13, <2>1, <2>2, <2>3, UndoInOrder
<1>14. CASE FinishUndo
  BY <1>14 DEF FinishUndo, Loadable, SignalNginx
<1>15. CASE FinishUndoFails
  BY <1>15 DEF FinishUndoFails
<1>16. CASE ReleaseApplyLock
  BY <1>16 DEF ReleaseApplyLock
<1>17. CASE SetupDies
  BY <1>17 DEF SetupDies, SetupEnds
<1>18. CASE IncludeFragments
  BY <1>18 DEF IncludeFragments
<1>19. CASE NginxLoads
  BY <1>19 DEF NginxLoads, NginxReload, NginxRestart, setupVars
<1>20. CASE CoordinatorStep
  BY <1>20, CoordinatorFrame DEF CoordinatorStep, Places, setupVars
<1>21. CASE ChildStep
  BY <1>21, ChildFrame DEF ChildStep, Places, setupVars
<1>22. CASE EditConfigAtRest
  BY <1>22 DEF EditConfigAtRest, EditConfig
<1>23. CASE UNCHANGED allVars
  BY <1>23 DEF allVars, vars
<1> QED
  BY <1>1, <1>2, <1>3, <1>4, <1>5, <1>6, <1>7, <1>8, <1>9, <1>10, <1>11,
     <1>12, <1>13, <1>14, <1>15, <1>16, <1>17, <1>18, <1>19, <1>20, <1>21,
     <1>22, <1>23
  DEF SetupNext, SetupStep

(* A lock is taken when it is free, and kept by the process in its section. *)
LEMMA HeldStep ==
  SetupInductive /\ [SetupNext]_allVars => Held'
<1> SUFFICES ASSUME SetupInductive, [SetupNext]_allVars PROVE Held'
  OBVIOUS
<1> USE RootAssumption, ProcessAssumption, Order
    DEF SetupInductive, Types, Held, Installing, Commands, Undoing, Outcome, File,
        liveVars, nginxVars, fileVars, setupVars, foundVars, watcherVars,
        childVars, vars
<1>1. CASE SetupLoad
  BY <1>1 DEF SetupLoad
<1>2. CASE LockCoordinators
  BY <1>2 DEF LockCoordinators
<1>3. CASE LockChildren
  BY <1>3 DEF LockChildren, TakeApplyLock
<1>4. CASE FindFiles
  BY <1>4 DEF FindFiles
<1>5. CASE CheckFiles
  BY <1>5 DEF CheckFiles, EmptyMap
<1>6. CASE SetupRefuses
  BY <1>6 DEF SetupRefuses, SetupEnds
<1>7. CASE ReplaceFile
  BY <1>7 DEF ReplaceFile, Put
<1>8. CASE ReplaceFileFails
  BY <1>8 DEF ReplaceFileFails, Put
<1>9. CASE Ask
  BY <1>9 DEF Ask, Loadable
<1>10. CASE AskFails
  BY <1>10 DEF AskFails
<1>11. CASE SetupReload
  BY <1>11 DEF SetupReload, SignalNginx
<1>12. CASE SetupReloadFails
  BY <1>12 DEF SetupReloadFails
<1>13. CASE UndoFile
  <2>1. CASE spc = "undoHttp" /\ Restored("http") /\ spc' = "undoServer"
    BY <1>13, <2>1, UndoInOrder DEF Restored
  <2>2. CASE spc = "undoServer" /\ Restored("server") /\ spc' = "undoMap"
    BY <1>13, <2>2, UndoInOrder DEF Restored
  <2>3. CASE spc = "undoMap" /\ Restored("map") /\ spc' = "sync"
    BY <1>13, <2>3, UndoInOrder DEF Restored
  <2> QED
    BY <1>13, <2>1, <2>2, <2>3, UndoInOrder
<1>14. CASE FinishUndo
  BY <1>14 DEF FinishUndo, Loadable, SignalNginx
<1>15. CASE FinishUndoFails
  BY <1>15 DEF FinishUndoFails
<1>16. CASE ReleaseApplyLock
  BY <1>16 DEF ReleaseApplyLock
<1>17. CASE SetupDies
  BY <1>17 DEF SetupDies, SetupEnds
<1>18. CASE IncludeFragments
  BY <1>18 DEF IncludeFragments
<1>19. CASE NginxLoads
  BY <1>19 DEF NginxLoads, NginxReload, NginxRestart, setupVars
<1>20. CASE CoordinatorStep
  BY <1>20, CoordinatorFrame DEF CoordinatorStep, Places, setupVars
<1>21. CASE ChildStep
  BY <1>21, ChildFrame DEF ChildStep, Places, setupVars
<1>22. CASE EditConfigAtRest
  BY <1>22 DEF EditConfigAtRest, EditConfig
<1>23. CASE UNCHANGED allVars
  BY <1>23 DEF allVars, vars
<1> QED
  BY <1>1, <1>2, <1>3, <1>4, <1>5, <1>6, <1>7, <1>8, <1>9, <1>10, <1>11,
     <1>12, <1>13, <1>14, <1>15, <1>16, <1>17, <1>18, <1>19, <1>20, <1>21,
     <1>22, <1>23
  DEF SetupNext, SetupStep

(* Rules are changed under the apply lock only, by who found all the files. *)
LEMMA ManagedStep ==
  SetupInductive /\ [SetupNext]_allVars => Managed'
<1> SUFFICES ASSUME SetupInductive, [SetupNext]_allVars PROVE Managed'
  OBVIOUS
<1> USE RootAssumption, ProcessAssumption, Order
    DEF SetupInductive, Types, Held, Managed, Rendered, NoFiles, Contents,
        Provisioned, Installing, Commands, Undoing, Outcome, File, liveVars,
        nginxVars, fileVars, setupVars, foundVars, watcherVars, childVars,
        vars
<1>1. CASE SetupLoad
  BY <1>1 DEF SetupLoad
<1>2. CASE LockCoordinators
  BY <1>2 DEF LockCoordinators
<1>3. CASE LockChildren
  BY <1>3 DEF LockChildren, TakeApplyLock
<1>4. CASE FindFiles
  BY <1>4 DEF FindFiles
<1>5. CASE CheckFiles
  BY <1>5 DEF CheckFiles, EmptyMap
<1>6. CASE SetupRefuses
  BY <1>6 DEF SetupRefuses, SetupEnds
<1>7. CASE ReplaceFile
  BY <1>7 DEF ReplaceFile, Put
<1>8. CASE ReplaceFileFails
  BY <1>8 DEF ReplaceFileFails, Put
<1>9. CASE Ask
  BY <1>9 DEF Ask, Loadable
<1>10. CASE AskFails
  BY <1>10 DEF AskFails
<1>11. CASE SetupReload
  BY <1>11 DEF SetupReload, SignalNginx
<1>12. CASE SetupReloadFails
  BY <1>12 DEF SetupReloadFails
<1>13. CASE UndoFile
  <2>1. CASE spc = "undoHttp" /\ Restored("http") /\ spc' = "undoServer"
    BY <1>13, <2>1, UndoInOrder DEF Restored, Changing, ApplyHolding
  <2>2. CASE spc = "undoServer" /\ Restored("server") /\ spc' = "undoMap"
    BY <1>13, <2>2, UndoInOrder DEF Restored, Changing, ApplyHolding
  <2>3. CASE spc = "undoMap" /\ Restored("map") /\ spc' = "sync"
    BY <1>13, <2>3, UndoInOrder DEF Restored, Changing, ApplyHolding
  <2> QED
    BY <1>13, <2>1, <2>2, <2>3, UndoInOrder
<1>14. CASE FinishUndo
  BY <1>14 DEF FinishUndo, Loadable, SignalNginx
<1>15. CASE FinishUndoFails
  BY <1>15 DEF FinishUndoFails
<1>16. CASE ReleaseApplyLock
  BY <1>16 DEF ReleaseApplyLock
<1>17. CASE SetupDies
  BY <1>17 DEF SetupDies, SetupEnds
<1>18. CASE IncludeFragments
  BY <1>18 DEF IncludeFragments
<1>19. CASE NginxLoads
  BY <1>19 DEF NginxLoads, NginxReload, NginxRestart, setupVars
<1>20. CASE CoordinatorStep
  BY <1>20, CoordinatorFrame DEF CoordinatorStep, Places, setupVars, Changing,
      ApplyHolding
<1>21. CASE ChildStep
  <2>1. PICK k \in Child :
          ChildNext(k) /\ (cpc'[k] = "replace" => included /\ Provisioned)
    BY <1>21 DEF ChildStep
  <2>2. UNCHANGED <<files, spc, found, foundRules>>
    BY <1>21 DEF ChildStep
  <2>3. /\ activeMap' = activeMap \/ cpc[k] \in Changing
        /\ cpc'[k] \in Changing => cpc[k] \in Changing \/ cpc'[k] = "replace"
        /\ \A j \in Child \ {k} : cpc'[j] = cpc[j]
    BY <2>1, ChildFrame DEF Places
  <2>4. Provisioned' = Provisioned
    BY <2>2
  <2>5. \A j \in Child : cpc'[j] \in Changing => Provisioned'
    BY <2>1, <2>3, <2>4
  <2>6. cpc[k] \in Changing => files["map"] # Nobody /\ spc \notin Installing
    BY DEF Changing, ApplyHolding
  <2> QED
    BY <2>2, <2>3, <2>5, <2>6
<1>22. CASE EditConfigAtRest
  BY <1>22 DEF EditConfigAtRest, EditConfig
<1>23. CASE UNCHANGED allVars
  BY <1>23 DEF allVars, vars
<1> QED
  BY <1>1, <1>2, <1>3, <1>4, <1>5, <1>6, <1>7, <1>8, <1>9, <1>10, <1>11,
     <1>12, <1>13, <1>14, <1>15, <1>16, <1>17, <1>18, <1>19, <1>20, <1>21,
     <1>22, <1>23
  DEF SetupNext, SetupStep

(* A file that was replaced keeps its contents until the setup ends. *)
LEMMA ReplacedStep ==
  SetupInductive /\ [SetupNext]_allVars => Replaced'
<1> SUFFICES ASSUME SetupInductive, [SetupNext]_allVars PROVE Replaced'
  OBVIOUS
<1> USE RootAssumption, Order
    DEF SetupInductive, Types, Replaced, Rendered, Installing, Commands, Undoing,
        Outcome, File, liveVars, nginxVars, fileVars, setupVars, foundVars,
        watcherVars, childVars, vars
<1>1. CASE SetupLoad
  BY <1>1 DEF SetupLoad
<1>2. CASE LockCoordinators
  BY <1>2 DEF LockCoordinators
<1>3. CASE LockChildren
  BY <1>3 DEF LockChildren, TakeApplyLock
<1>4. CASE FindFiles
  BY <1>4 DEF FindFiles
<1>5. CASE CheckFiles
  BY <1>5 DEF CheckFiles, EmptyMap
<1>6. CASE SetupRefuses
  BY <1>6 DEF SetupRefuses, SetupEnds
<1>7. CASE ReplaceFile
  BY <1>7 DEF ReplaceFile, Put
<1>8. CASE ReplaceFileFails
  BY <1>8 DEF ReplaceFileFails, Put
<1>9. CASE Ask
  BY <1>9 DEF Ask, Loadable
<1>10. CASE AskFails
  BY <1>10 DEF AskFails
<1>11. CASE SetupReload
  BY <1>11 DEF SetupReload, SignalNginx
<1>12. CASE SetupReloadFails
  BY <1>12 DEF SetupReloadFails
<1>13. CASE UndoFile
  <2>1. CASE spc = "undoHttp" /\ Restored("http") /\ spc' = "undoServer"
    BY <1>13, <2>1, UndoInOrder DEF Restored
  <2>2. CASE spc = "undoServer" /\ Restored("server") /\ spc' = "undoMap"
    BY <1>13, <2>2, UndoInOrder DEF Restored
  <2>3. CASE spc = "undoMap" /\ Restored("map") /\ spc' = "sync"
    BY <1>13, <2>3, UndoInOrder DEF Restored
  <2> QED
    BY <1>13, <2>1, <2>2, <2>3, UndoInOrder
<1>14. CASE FinishUndo
  BY <1>14 DEF FinishUndo, Loadable, SignalNginx
<1>15. CASE FinishUndoFails
  BY <1>15 DEF FinishUndoFails
<1>16. CASE ReleaseApplyLock
  BY <1>16 DEF ReleaseApplyLock
<1>17. CASE SetupDies
  BY <1>17 DEF SetupDies, SetupEnds
<1>18. CASE IncludeFragments
  BY <1>18 DEF IncludeFragments
<1>19. CASE NginxLoads
  BY <1>19 DEF NginxLoads, NginxReload, NginxRestart, setupVars
<1>20. CASE CoordinatorStep
  BY <1>20, CoordinatorFrame DEF CoordinatorStep, Places, setupVars
<1>21. CASE ChildStep
  BY <1>21, ChildFrame DEF ChildStep, Places, setupVars
<1>22. CASE EditConfigAtRest
  BY <1>22 DEF EditConfigAtRest, EditConfig
<1>23. CASE UNCHANGED allVars
  BY <1>23 DEF allVars, vars
<1> QED
  BY <1>1, <1>2, <1>3, <1>4, <1>5, <1>6, <1>7, <1>8, <1>9, <1>10, <1>11,
     <1>12, <1>13, <1>14, <1>15, <1>16, <1>17, <1>18, <1>19, <1>20, <1>21,
     <1>22, <1>23
  DEF SetupNext, SetupStep

(* A file that was restored keeps its contents until the setup ends. *)
LEMMA UndoneStep ==
  SetupInductive /\ [SetupNext]_allVars => Undone'
<1> SUFFICES ASSUME SetupInductive, [SetupNext]_allVars PROVE Undone'
  OBVIOUS
<1> USE RootAssumption, Order
    DEF SetupInductive, Types, Undone, Replaced, Loadable, Installing, Commands,
        Undoing, Outcome, File, liveVars, nginxVars, fileVars, setupVars,
        foundVars, watcherVars, childVars, vars
<1>1. CASE SetupLoad
  BY <1>1 DEF SetupLoad
<1>2. CASE LockCoordinators
  BY <1>2 DEF LockCoordinators
<1>3. CASE LockChildren
  BY <1>3 DEF LockChildren, TakeApplyLock
<1>4. CASE FindFiles
  BY <1>4 DEF FindFiles
<1>5. CASE CheckFiles
  BY <1>5 DEF CheckFiles, EmptyMap
<1>6. CASE SetupRefuses
  BY <1>6 DEF SetupRefuses, SetupEnds
<1>7. CASE ReplaceFile
  BY <1>7 DEF ReplaceFile, Put
<1>8. CASE ReplaceFileFails
  BY <1>8 DEF ReplaceFileFails, Put
<1>9. CASE Ask
  BY <1>9 DEF Ask, Loadable
<1>10. CASE AskFails
  BY <1>10 DEF AskFails
<1>11. CASE SetupReload
  BY <1>11 DEF SetupReload, SignalNginx
<1>12. CASE SetupReloadFails
  BY <1>12 DEF SetupReloadFails
<1>13. CASE UndoFile
  <2>1. CASE spc = "undoHttp" /\ Restored("http") /\ spc' = "undoServer"
    BY <1>13, <2>1, UndoInOrder DEF Restored
  <2>2. CASE spc = "undoServer" /\ Restored("server") /\ spc' = "undoMap"
    BY <1>13, <2>2, UndoInOrder DEF Restored
  <2>3. CASE spc = "undoMap" /\ Restored("map") /\ spc' = "sync"
    BY <1>13, <2>3, UndoInOrder DEF Restored
  <2> QED
    BY <1>13, <2>1, <2>2, <2>3, UndoInOrder
<1>14. CASE FinishUndo
  BY <1>14 DEF FinishUndo, Loadable, SignalNginx
<1>15. CASE FinishUndoFails
  BY <1>15 DEF FinishUndoFails
<1>16. CASE ReleaseApplyLock
  BY <1>16 DEF ReleaseApplyLock
<1>17. CASE SetupDies
  BY <1>17 DEF SetupDies, SetupEnds
<1>18. CASE IncludeFragments
  BY <1>18 DEF IncludeFragments
<1>19. CASE NginxLoads
  BY <1>19 DEF NginxLoads, NginxReload, NginxRestart, setupVars
<1>20. CASE CoordinatorStep
  BY <1>20, CoordinatorFrame DEF CoordinatorStep, Places, setupVars
<1>21. CASE ChildStep
  BY <1>21, ChildFrame DEF ChildStep, Places, setupVars
<1>22. CASE EditConfigAtRest
  BY <1>22 DEF EditConfigAtRest, EditConfig
<1>23. CASE UNCHANGED allVars
  BY <1>23 DEF allVars, vars
<1> QED
  BY <1>1, <1>2, <1>3, <1>4, <1>5, <1>6, <1>7, <1>8, <1>9, <1>10, <1>11,
     <1>12, <1>13, <1>14, <1>15, <1>16, <1>17, <1>18, <1>19, <1>20, <1>21,
     <1>22, <1>23
  DEF SetupNext, SetupStep

(* What a success has installed stays until the next setup changes a file. *)
LEMMA SetupIsLoadedStep ==
  SetupInductive /\ [SetupNext]_allVars => SetupIsLoaded'
<1> SUFFICES ASSUME SetupInductive, [SetupNext]_allVars PROVE SetupIsLoaded'
  OBVIOUS
<1> USE RootAssumption, Order
    DEF SetupInductive, Types, Replaced, SetupIsLoaded, Rendered, Installing,
        Commands, Undoing, Outcome, File, liveVars, nginxVars, fileVars,
        setupVars, foundVars, watcherVars, childVars, vars
<1>1. CASE SetupLoad
  BY <1>1 DEF SetupLoad
<1>2. CASE LockCoordinators
  BY <1>2 DEF LockCoordinators
<1>3. CASE LockChildren
  BY <1>3 DEF LockChildren, TakeApplyLock
<1>4. CASE FindFiles
  BY <1>4 DEF FindFiles
<1>5. CASE CheckFiles
  BY <1>5 DEF CheckFiles, EmptyMap
<1>6. CASE SetupRefuses
  BY <1>6 DEF SetupRefuses, SetupEnds
<1>7. CASE ReplaceFile
  BY <1>7 DEF ReplaceFile, Put
<1>8. CASE ReplaceFileFails
  BY <1>8 DEF ReplaceFileFails, Put
<1>9. CASE Ask
  BY <1>9 DEF Ask, Loadable
<1>10. CASE AskFails
  BY <1>10 DEF AskFails
<1>11. CASE SetupReload
  BY <1>11 DEF SetupReload, SignalNginx
<1>12. CASE SetupReloadFails
  BY <1>12 DEF SetupReloadFails
<1>13. CASE UndoFile
  <2>1. CASE spc = "undoHttp" /\ Restored("http") /\ spc' = "undoServer"
    BY <1>13, <2>1, UndoInOrder DEF Restored
  <2>2. CASE spc = "undoServer" /\ Restored("server") /\ spc' = "undoMap"
    BY <1>13, <2>2, UndoInOrder DEF Restored
  <2>3. CASE spc = "undoMap" /\ Restored("map") /\ spc' = "sync"
    BY <1>13, <2>3, UndoInOrder DEF Restored
  <2> QED
    BY <1>13, <2>1, <2>2, <2>3, UndoInOrder
<1>14. CASE FinishUndo
  BY <1>14 DEF FinishUndo, Loadable, SignalNginx
<1>15. CASE FinishUndoFails
  BY <1>15 DEF FinishUndoFails
<1>16. CASE ReleaseApplyLock
  BY <1>16 DEF ReleaseApplyLock
<1>17. CASE SetupDies
  BY <1>17 DEF SetupDies, SetupEnds
<1>18. CASE IncludeFragments
  BY <1>18 DEF IncludeFragments
<1>19. CASE NginxLoads
  <2>1. installed # Nobody => Nobody \notin {files[f] : f \in File}
    OBVIOUS
  <2>2. CASE Loadable
    BY <1>19, <2>2 DEF NginxLoads, NginxReload, NginxRestart
  <2>3. CASE ~Loadable
    BY <1>19, <2>1, <2>3 DEF NginxLoads, Loadable
  <2> QED
    BY <2>2, <2>3
<1>20. CASE CoordinatorStep
  BY <1>20, CoordinatorFrame DEF CoordinatorStep, Places, setupVars
<1>21. CASE ChildStep
  BY <1>21, ChildFrame DEF ChildStep, Places, setupVars
<1>22. CASE EditConfigAtRest
  BY <1>22 DEF EditConfigAtRest, EditConfig
<1>23. CASE UNCHANGED allVars
  BY <1>23 DEF allVars, vars
<1> QED
  BY <1>1, <1>2, <1>3, <1>4, <1>5, <1>6, <1>7, <1>8, <1>9, <1>10, <1>11,
     <1>12, <1>13, <1>14, <1>15, <1>16, <1>17, <1>18, <1>19, <1>20, <1>21,
     <1>22, <1>23
  DEF SetupNext, SetupStep

(* What a rollback has restored stays until the setup ends. *)
LEMMA RestoredIsFoundStep ==
  SetupInductive /\ [SetupNext]_allVars => RestoredIsFound'
<1> SUFFICES ASSUME SetupInductive, [SetupNext]_allVars PROVE RestoredIsFound'
  OBVIOUS
<1> USE RootAssumption, Order
    DEF SetupInductive, Types, Undone, Replaced, RestoredIsFound, Installing,
        Commands, Undoing, Outcome, File, liveVars, nginxVars, fileVars,
        setupVars, foundVars, watcherVars, childVars, vars
<1>1. CASE SetupLoad
  BY <1>1 DEF SetupLoad
<1>2. CASE LockCoordinators
  BY <1>2 DEF LockCoordinators
<1>3. CASE LockChildren
  BY <1>3 DEF LockChildren, TakeApplyLock
<1>4. CASE FindFiles
  BY <1>4 DEF FindFiles
<1>5. CASE CheckFiles
  BY <1>5 DEF CheckFiles, EmptyMap
<1>6. CASE SetupRefuses
  BY <1>6 DEF SetupRefuses, SetupEnds
<1>7. CASE ReplaceFile
  BY <1>7 DEF ReplaceFile, Put
<1>8. CASE ReplaceFileFails
  BY <1>8 DEF ReplaceFileFails, Put
<1>9. CASE Ask
  BY <1>9 DEF Ask, Loadable
<1>10. CASE AskFails
  BY <1>10 DEF AskFails
<1>11. CASE SetupReload
  BY <1>11 DEF SetupReload, SignalNginx
<1>12. CASE SetupReloadFails
  BY <1>12 DEF SetupReloadFails
<1>13. CASE UndoFile
  <2>1. CASE spc = "undoHttp" /\ Restored("http") /\ spc' = "undoServer"
    BY <1>13, <2>1, UndoInOrder DEF Restored
  <2>2. CASE spc = "undoServer" /\ Restored("server") /\ spc' = "undoMap"
    BY <1>13, <2>2, UndoInOrder DEF Restored
  <2>3. CASE spc = "undoMap" /\ Restored("map") /\ spc' = "sync"
    BY <1>13, <2>3, UndoInOrder DEF Restored
  <2> QED
    BY <1>13, <2>1, <2>2, <2>3, UndoInOrder
<1>14. CASE FinishUndo
  BY <1>14 DEF FinishUndo, Loadable, SignalNginx
<1>15. CASE FinishUndoFails
  BY <1>15 DEF FinishUndoFails
<1>16. CASE ReleaseApplyLock
  BY <1>16 DEF ReleaseApplyLock
<1>17. CASE SetupDies
  BY <1>17 DEF SetupDies, SetupEnds
<1>18. CASE IncludeFragments
  BY <1>18 DEF IncludeFragments
<1>19. CASE NginxLoads
  BY <1>19 DEF NginxLoads, NginxReload, NginxRestart, setupVars
<1>20. CASE CoordinatorStep
  BY <1>20, CoordinatorFrame DEF CoordinatorStep, Places, setupVars
<1>21. CASE ChildStep
  BY <1>21, ChildFrame DEF ChildStep, Places, setupVars
<1>22. CASE EditConfigAtRest
  BY <1>22 DEF EditConfigAtRest, EditConfig
<1>23. CASE UNCHANGED allVars
  BY <1>23 DEF allVars, vars
<1> QED
  BY <1>1, <1>2, <1>3, <1>4, <1>5, <1>6, <1>7, <1>8, <1>9, <1>10, <1>11,
     <1>12, <1>13, <1>14, <1>15, <1>16, <1>17, <1>18, <1>19, <1>20, <1>21,
     <1>22, <1>23
  DEF SetupNext, SetupStep

-----------------------------------------------------------------------------
(* Initially no process is at work, and no managed file is there. *)
LEMMA SetupInductiveInit == SetupInit => SetupInductive
<1> SUFFICES ASSUME SetupInit PROVE SetupInductive
  OBVIOUS
<1> USE ProcessAssumption, RootAssumption
    DEF SetupInit, Init, NoFiles, File, Installing, Commands, Undoing, Outcome
<1>1. Types
  BY DEF Types, WatcherPC, ChildPC, SetupPC, Contents
<1>2. Held
  BY DEF Held, Coordinating, Waiting, Loop, ApplyHolding, Unchanging, Changing,
         Returned
<1>3. Managed
  BY DEF Managed, Changing
<1>4. Replaced /\ Undone
  BY DEF Replaced, Undone
<1>5. SetupIsLoaded /\ RestoredIsFound
  BY DEF SetupIsLoaded, RestoredIsFound
<1> QED
  BY <1>1, <1>2, <1>3, <1>4, <1>5 DEF SetupInductive

(* The invariant holds in every reachable state. *)
LEMMA SetupInductiveAlways == SetupSpec => []SetupInductive
<1>1. SetupInductive /\ [SetupNext]_allVars => SetupInductive'
  BY TypesStep, HeldStep, ManagedStep, ReplacedStep, UndoneStep,
     SetupIsLoadedStep, RestoredIsFoundStep DEF SetupInductive
<1> QED
  BY <1>1, SetupInductiveInit, PTL DEF SetupSpec

(* The files of a setup change, but not the rules in its map. *)
LEMMA SetupChangesNoRule ==
  ASSUME SetupInductive, SetupStep
  PROVE  activeMap' = activeMap
<1>1. spc \in Installing \ {"check"} => activeMap = {} /\ foundRules = {}
  BY DEF SetupInductive, Managed
<1>2. CASE ReplaceFile \/ ReplaceFileFails
  BY <1>1, <1>2 DEF ReplaceFile, ReplaceFileFails, Put, Installing, File
<1>3. CASE UndoFile
  BY <1>1, <1>3, UndoInOrder
  DEF Restored, Installing, Undoing, SetupInductive, Types
<1>4. CASE ~(ReplaceFile \/ ReplaceFileFails \/ UndoFile)
  BY <1>4
  DEF SetupStep, SetupLoad, LockCoordinators, LockChildren, FindFiles,
      CheckFiles, SetupRefuses, Ask, AskFails, SetupReload, SetupReloadFails,
      FinishUndo, FinishUndoFails, ReleaseApplyLock, SetupDies, vars, nginxVars
<1> QED
  BY <1>2, <1>3, <1>4

-----------------------------------------------------------------------------
(* The theorems *)

(* Between the locks of a setup there is no other writer, however many      *)
(* coordinators and children there are (ProvisionSetupLocks).               *)
THEOREM SetupAloneAlways == SetupSpec => []SetupAlone
<1>1. SetupInductive => SetupAlone
  BY ProcessAssumption, RootAssumption DEF SetupInductive, Held, SetupAlone, Installing
<1> QED
  BY <1>1, SetupInductiveAlways, PTL

(* No step of a setup, successful, failing or last, changes which rules the *)
(* managed map has (SetupManagedFiles).                                     *)
THEOREM SetupKeepsRulesAlways == SetupSpec => SetupKeepsRules
<1>1. SetupInductive /\ SetupStep => activeMap' = activeMap
  BY SetupChangesNoRule
<1> QED
  BY <1>1, SetupInductiveAlways, PTL DEF SetupSpec, SetupKeepsRules

(* A reported success stands for three files of one config, loaded or about *)
(* to be once they are included (SetupResult).                              *)
THEOREM SetupIsLoadedAlways == SetupSpec => []SetupIsLoaded
<1>1. SetupInductive => SetupIsLoaded
  BY DEF SetupInductive
<1> QED
  BY <1>1, SetupInductiveAlways, PTL

(* A failure without a RollbackError stands for the files that were found   *)
(* (restoreManagedFiles, setupRollback).                                    *)
THEOREM RestoredIsFoundAlways == SetupSpec => []RestoredIsFound
<1>1. SetupInductive => RestoredIsFound
  BY DEF SetupInductive
<1> QED
  BY <1>1, SetupInductiveAlways, PTL

-----------------------------------------------------------------------------
(* Nginx can always load its configuration *)

(* A fragment is included once all the files are there, and then every      *)
(* setup finds them, to put them back.                                      *)
Complete ==
  included =>
    /\ Provisioned
    /\ spc \in Installing \ {"installed"} => \A f \in File : found[f] # Nobody

(* Files that are included are replaced or put back, never removed. *)
LEMMA CompleteStep ==
  SetupInductive /\ Complete /\ [SetupNext]_allVars => Complete'
<1> SUFFICES ASSUME SetupInductive, Complete, [SetupNext]_allVars,
                    included'
             PROVE  /\ Provisioned'
                    /\ spc' \in Installing \ {"installed"} =>
                         \A f \in File : found'[f] # Nobody
  BY DEF Complete
<1> USE RootAssumption, ProcessAssumption
<1>1. CASE ReplaceFile \/ ReplaceFileFails
  <2>1. included /\ spc \in File /\ found' = found
    BY <1>1 DEF ReplaceFile, ReplaceFileFails, foundVars
  <2>2. sconfig \in Config /\ files \in [File -> Contents]
    BY <2>1 DEF SetupInductive, Types, File
  <2>3. files' \in {files, [files EXCEPT ![spc] = Rendered(spc, sconfig)]}
    BY <1>1 DEF ReplaceFile, ReplaceFileFails, Put
  <2>4. Rendered(spc, sconfig) # Nobody
    BY <2>2 DEF Rendered
  <2>5. \A f \in File : files'[f] # Nobody
    BY <2>1, <2>2, <2>3, <2>4 DEF Complete, Provisioned
  <2>6. spc \in Installing \ {"installed"}
    BY <2>1 DEF Installing, File
  <2> QED
    BY <2>1, <2>5, <2>6 DEF Complete, Provisioned
<1>2. CASE UndoFile
  <2>1. included /\ found' = found /\ spc \in Installing \ {"installed"}
    BY <1>2, UndoInOrder DEF foundVars, Installing, Undoing, SetupInductive, Types
  <2>2. PICK f \in File : files' \in {files, [files EXCEPT ![f] = found[f]]}
    BY <1>2, UndoInOrder DEF Restored, File, SetupInductive, Types
  <2>3. files \in [File -> Contents]
    BY DEF SetupInductive, Types
  <2>4. \A g \in File : files'[g] # Nobody
    BY <2>1, <2>2, <2>3 DEF Complete, Provisioned
  <2> QED
    BY <2>1, <2>4 DEF Complete, Provisioned
<1>3. CASE FindFiles
  BY <1>3 DEF FindFiles, Complete, Provisioned, fileVars
<1>4. CASE IncludeFragments
  <2>1. installed # Nobody /\ UNCHANGED <<files, found, spc>>
    BY <1>4 DEF IncludeFragments, setupVars, foundVars
  <2>2. files = [f \in File |-> Rendered(f, installed)]
    BY <2>1 DEF SetupInductive, SetupIsLoaded
  <2>3. \A f \in File : files[f] # Nobody
    BY <2>1, <2>2 DEF Rendered
  <2>4. spc \in Installing \ {"installed"} => spc = "check" /\ found = files
    BY <2>1 DEF SetupInductive, Replaced, Managed
  <2> QED
    BY <2>1, <2>3, <2>4 DEF Provisioned
<1>5. CASE CheckFiles \/ Ask \/ AskFails \/ SetupReload \/ SetupReloadFails
            \/ FinishUndo \/ FinishUndoFails
  <2>1. spc \in Installing \ {"installed"} /\ UNCHANGED <<included, files, found>>
    BY <1>5
    DEF CheckFiles, Ask, AskFails, SetupReload, SetupReloadFails, FinishUndo,
        FinishUndoFails, fileVars, foundVars, Installing, Commands, Undoing
  <2> QED
    BY <2>1 DEF Complete, Provisioned
<1>6. CASE SetupLoad \/ LockCoordinators \/ LockChildren \/ ReleaseApplyLock
            \/ SetupRefuses \/ SetupDies
  <2>1. UNCHANGED <<included, files>>
        /\ spc' \in {"off", "loaded", "apply", "state", "leaving"}
    BY <1>6
    DEF SetupLoad, LockCoordinators, LockChildren, ReleaseApplyLock,
        SetupRefuses, SetupDies, SetupEnds, fileVars
  <2> QED
    BY <2>1
    DEF Complete, Provisioned, Installing, File, Commands, Undoing, Outcome
<1>7. CASE NginxLoads \/ CoordinatorStep \/ ChildStep \/ EditConfigAtRest
            \/ UNCHANGED allVars
  <2>1. UNCHANGED <<included, files, found, spc>>
    BY <1>7
    DEF NginxLoads, CoordinatorStep, ChildStep, EditConfigAtRest, allVars,
        fileVars, setupVars, foundVars
  <2> QED
    BY <2>1 DEF Complete, Provisioned
<1> QED
  BY <1>1, <1>2, <1>3, <1>4, <1>5, <1>6, <1>7 DEF SetupNext, SetupStep

(* It holds in every reachable state. *)
LEMMA CompleteAlways == SetupSpec => []Complete
<1>1. SetupInit => Complete
  BY DEF SetupInit, Complete
<1> QED
  BY <1>1, SetupInductiveAlways, CompleteStep, PTL DEF SetupSpec

(* Once the fragments are included, no setup that fails, rolls back or is   *)
(* killed leaves Nginx with an include of a file that is missing: it can    *)
(* always be reloaded or restarted (restoreManagedFiles).                   *)
THEOREM LoadableAlways == SetupSpec => []Loadable
<1>1. Complete => Loadable
  BY DEF Complete, Provisioned, Loadable
<1> QED
  BY <1>1, CompleteAlways, PTL

-----------------------------------------------------------------------------
(* Live protection beside a setup *)

(* A setup takes locks that nobody holds and changes no rule. *)
LEMMA SetupIsBeside ==
  ASSUME SetupInductive, SetupStep, activeMap' = activeMap
  PROVE  Beside
<1> USE RootAssumption, ProcessAssumption
<1>1. UNCHANGED <<config, stateFile, nginxRules, watcherVars, childVars,
                  requested, cleared>>
  BY DEF SetupStep, SetupLoad, LockCoordinators, LockChildren, FindFiles,
         CheckFiles, SetupRefuses, ReplaceFile, ReplaceFileFails, Ask, AskFails,
         SetupReload, SetupReloadFails, UndoFile, FinishUndo, FinishUndoFails,
         ReleaseApplyLock, SetupDies, liveVars, nginxVars, vars
<1>2. reloadSignal' \in {reloadSignal, TRUE}
  BY DEF SetupStep, SetupLoad, LockCoordinators, LockChildren, FindFiles,
         CheckFiles, SetupRefuses, ReplaceFile, ReplaceFileFails, Ask, AskFails,
         SetupReload, SetupReloadFails, UndoFile, FinishUndo, FinishUndoFails,
         ReleaseApplyLock, SetupDies, liveVars, nginxVars, vars, SignalNginx
<1>3. \A p \in Watcher \cup Child :
        /\ coordinatorLock' = p <=> coordinatorLock = p
        /\ applyLock' = p <=> applyLock = p
  <2>1. CASE LockCoordinators
    BY <2>1 DEF LockCoordinators
  <2>2. CASE LockChildren
    BY <2>2 DEF LockChildren, TakeApplyLock
  <2>3. CASE SetupRefuses \/ SetupDies
    BY <2>3 DEF SetupRefuses, SetupDies, SetupEnds
  <2>4. CASE ReleaseApplyLock
    <3>1. applyLock = Root
      BY <2>4 DEF ReleaseApplyLock, SetupInductive, Held, Installing
    <3> QED
      BY <2>4, <3>1 DEF ReleaseApplyLock
  <2>5. CASE UNCHANGED <<coordinatorLock, applyLock>>
    BY <2>5
  <2>6. CASE ~(LockCoordinators \/ LockChildren \/ SetupRefuses \/ SetupDies
                 \/ ReleaseApplyLock)
    BY <2>5, <2>6
    DEF SetupStep, SetupLoad, FindFiles, CheckFiles, ReplaceFile,
        ReplaceFileFails, Ask, AskFails, SetupReload, SetupReloadFails, UndoFile,
        FinishUndo, FinishUndoFails, vars
  <2> QED
    BY <2>1, <2>2, <2>3, <2>4, <2>6
<1> QED
  BY <1>1, <1>2, <1>3 DEF Beside

(* Everything that happens is a step of the live protection, or beside it. *)
LEMMA LiveStep ==
  SetupInductive /\ Complete /\ [SetupNext]_allVars => [Next \/ Beside]_vars
<1> SUFFICES ASSUME SetupInductive, Complete, [SetupNext]_allVars
             PROVE  Next \/ Beside \/ UNCHANGED vars
  OBVIOUS
<1>1. CASE SetupStep
  BY <1>1, SetupIsBeside, SetupChangesNoRule
<1>2. CASE NginxLoads
  BY <1>2 DEF NginxLoads, Complete, Provisioned, Loadable, Next
<1>3. CASE CoordinatorStep \/ ChildStep
  BY <1>3 DEF CoordinatorStep, ChildStep, Next
<1>4. CASE EditConfigAtRest
  BY <1>4 DEF EditConfigAtRest, Next
<1>5. CASE IncludeFragments \/ UNCHANGED allVars
  BY <1>5 DEF IncludeFragments, allVars
<1> QED
  BY <1>1, <1>2, <1>3, <1>4, <1>5 DEF SetupNext

(* So the invariant of live protection holds beside setups. *)
LEMMA LiveInductiveAlways == SetupSpec => []Inductive
<1>1. SetupInit => Inductive
  BY InductiveInit DEF SetupInit
<1> QED
  BY <1>1, SetupInductiveAlways, CompleteAlways, LiveStep, InductiveStep, PTL
  DEF SetupSpec

(* What live protection promises holds beside setups at any time, that      *)
(* succeed, fail or are killed: no stale rule comes back, a clear stays     *)
(* clear, what a coordinator relies on is on disk, there is one writer of   *)
(* the map under one config, and a restored map is the one that was found   *)
(* (ProvisionSetupLocks, SetupManagedFiles).                                *)
THEOREM ProtectedBesideSetup ==
  SetupSpec => [](/\ OnlyRequestedRules /\ ClearedStaysClear
                  /\ DesiredIsPersisted /\ OneWriter /\ OneConfig
                  /\ RestoredIsPrevious)
<1>1. Inductive => OnlyRequestedRules /\ ClearedStaysClear
  BY DEF Inductive, Candidates, NothingAsked, OnlyRequestedRules, ClearedStaysClear
<1>2. Inductive => DesiredIsPersisted /\ RestoredIsPrevious
  BY DEF Inductive, OwnMap, RestoredIsPrevious
<1>3. Inductive => OneWriter /\ OneConfig
  BY DEF Inductive, Locks, SameConfig, OneWriter, OneConfig, Committed
<1> QED
  BY <1>1, <1>2, <1>3, LiveInductiveAlways, PTL

(* The map that setups rewrite still implements the register. *)
THEOREM ImplementsRegisterBesideSetup == SetupSpec => ImplementsRegister
<1>1. SetupInit => Register!Init
  BY RegisterInit DEF SetupInit
<1>2. Inductive /\ [Next \/ Beside]_vars => [Register!Next]_(Register!vars)
  BY RegisterStep
<1> QED
  BY <1>1, <1>2, SetupInductiveAlways, CompleteAlways, LiveStep,
     LiveInductiveAlways, PTL
  DEF SetupSpec, ImplementsRegister, Register!Spec

-----------------------------------------------------------------------------
(* Types *)

(* Before the first setup no file is there and no lock is held. *)
LEMMA SetupTypeInit == SetupInit => SetupTypeOK
<1> SUFFICES ASSUME SetupInit PROVE SetupTypeOK
  OBVIOUS
<1> USE DEF SetupInit, Init
<1>1. NoFiles \in [File -> Contents]
  BY DEF NoFiles, Contents
<1>2. \A f \in File : {NoFiles[f], NoFiles[f], NoFiles[f]} \subseteq
        {Nobody} \cup {Rendered(f, c) : c \in Config}
  BY DEF NoFiles
<1>3. spc \in SetupPC /\ foundRules \in RuleSet
  BY DEF SetupPC, RuleSet
<1> QED
  BY <1>1, <1>2, <1>3 DEF SetupTypeOK

(* What a managed file may be. *)
Content(f) == {Nobody} \cup {Rendered(f, c) : c \in Config}

(* Files are written and remembered as they were rendered, and rules as     *)
(* they were read.                                                          *)
LEMMA SetupTypeStep ==
  Inductive /\ SetupInductive /\ SetupInductive' /\ SetupTypeOK
    /\ [SetupNext]_allVars => SetupTypeOK'
<1> SUFFICES ASSUME Inductive, SetupInductive, SetupInductive', SetupTypeOK,
                    [SetupNext]_allVars
             PROVE  SetupTypeOK'
  OBVIOUS
<1> USE RootAssumption, ProcessAssumption
<1> DEFINE All == \A f \in File : /\ files[f] \in Content(f)
                                  /\ nginxFiles[f] \in Content(f)
                                  /\ found[f] \in Content(f)
<1>1. All /\ {files, nginxFiles, found} \subseteq [File -> Contents]
  BY DEF SetupTypeOK, Content
<1>2. coordinatorLock' \in Watcher \cup Child \cup {Nobody, Root}
      /\ applyLock' \in Child \cup {Nobody, Root}
  <2>1. \/ [Next]_vars
        \/ SetupStep \/ NginxLoads
    BY DEF SetupNext, IncludeFragments, CoordinatorStep, ChildStep,
           EditConfigAtRest, allVars, Next
  <2>2. CASE [Next]_vars
    BY <2>2, Holders DEF SetupTypeOK
  <2>3. CASE SetupStep
    <3>1. /\ coordinatorLock' \in {coordinatorLock, Nobody, Root}
          /\ applyLock' \in {applyLock, Nobody, Root}
      BY <2>3
      DEF SetupStep, SetupLoad, LockCoordinators, LockChildren, FindFiles,
          CheckFiles, SetupRefuses, ReplaceFile, ReplaceFileFails, Ask, AskFails,
          SetupReload, SetupReloadFails, UndoFile, FinishUndo, FinishUndoFails,
          ReleaseApplyLock, SetupDies, SetupEnds, TakeApplyLock, vars
    <3> QED
      BY <3>1 DEF SetupTypeOK
  <2>4. CASE NginxLoads
    BY <2>4 DEF NginxLoads, NginxReload, NginxRestart, SetupTypeOK
  <2> QED
    BY <2>1, <2>2, <2>3, <2>4
<1>3. /\ \A f \in File : found'[f] \in Content(f)
      /\ foundRules' \in RuleSet
  <2>1. found' \in {found, files, NoFiles} /\ foundRules' \in {foundRules, activeMap, {}}
    BY DEF SetupNext, SetupStep, SetupLoad, LockCoordinators, LockChildren,
           FindFiles, CheckFiles, SetupRefuses, ReplaceFile, ReplaceFileFails,
           Ask, AskFails, SetupReload, SetupReloadFails, UndoFile, FinishUndo,
           FinishUndoFails, ReleaseApplyLock, SetupDies, SetupEnds,
           IncludeFragments, NginxLoads, CoordinatorStep, ChildStep,
           EditConfigAtRest, allVars, setupVars, foundVars
  <2>2. \A f \in File : NoFiles[f] \in Content(f)
    BY DEF NoFiles, Content
  <2>3. \A f \in File : found'[f] \in Content(f)
    BY <1>1, <2>1, <2>2
  <2>4. activeMap \in RuleSet /\ {} \in RuleSet /\ foundRules \in RuleSet
    BY DEF Inductive, Typed, SetupTypeOK, RuleSet
  <2> QED
    BY <2>1, <2>3, <2>4
<1>4. /\ \A f \in File : nginxFiles'[f] \in Content(f)
      /\ nginxFiles' \in [File -> Contents]
  <2>1. nginxFiles' \in {nginxFiles, files, NoFiles}
    BY DEF SetupNext, SetupStep, SetupLoad, LockCoordinators, LockChildren,
           FindFiles, CheckFiles, SetupRefuses, ReplaceFile, ReplaceFileFails,
           Ask, AskFails, SetupReload, SetupReloadFails, UndoFile, FinishUndo,
           FinishUndoFails, ReleaseApplyLock, SetupDies, IncludeFragments,
           NginxLoads, CoordinatorStep, ChildStep, EditConfigAtRest, allVars,
           fileVars
  <2>2. \A f \in File : NoFiles[f] \in Content(f)
    BY DEF NoFiles, Content
  <2>3. NoFiles \in [File -> Contents]
    BY DEF NoFiles, Contents
  <2> QED
    BY <1>1, <2>1, <2>2, <2>3
<1>5. \A f \in File : files'[f] \in Content(f)
  <2>1. CASE ReplaceFile \/ ReplaceFileFails
    <3>1. sconfig \in Config
      BY <2>1 DEF SetupInductive, Types, ReplaceFile, ReplaceFileFails, File
    <3>2. spc \in File
          /\ files' \in {files, [files EXCEPT ![spc] = Rendered(spc, sconfig)]}
      BY <2>1 DEF ReplaceFile, ReplaceFileFails, Put
    <3>3. Rendered(spc, sconfig) \in Content(spc)
      BY <3>1 DEF Content
    <3> HIDE DEF Content
    <3> QED
      BY <1>1, <3>2, <3>3
  <2>2. CASE UndoFile
    <3>1. PICK f \in File : files' \in {files, [files EXCEPT ![f] = found[f]]}
      BY <2>2, UndoInOrder DEF Restored, File, SetupInductive, Types
    <3> QED
      BY <1>1, <3>1
  <2>3. CASE ~(ReplaceFile \/ ReplaceFileFails \/ UndoFile)
    <3>1. files' = files
      BY <2>3
      DEF SetupNext, SetupStep, SetupLoad, LockCoordinators, LockChildren,
          FindFiles, CheckFiles, SetupRefuses, Ask, AskFails, SetupReload,
          SetupReloadFails, FinishUndo, FinishUndoFails, ReleaseApplyLock,
          SetupDies, IncludeFragments, NginxLoads, CoordinatorStep, ChildStep,
          EditConfigAtRest, allVars, fileVars
    <3> QED
      BY <1>1, <3>1
  <2> QED
    BY <2>1, <2>2, <2>3
<1>6. /\ sconfig' \in Config \cup {Nobody}
      /\ installed' \in Config \cup {Nobody}
      /\ reported' \in BOOLEAN
  <2>1. /\ sconfig' \in {sconfig, config, Nobody}
        /\ installed' \in {installed, sconfig, Nobody}
        /\ reported' = reported \/ reported' = included
    BY DEF SetupNext, SetupStep, SetupLoad, LockCoordinators, LockChildren,
           FindFiles, CheckFiles, SetupRefuses, ReplaceFile, ReplaceFileFails,
           Ask, AskFails, SetupReload, SetupReloadFails, UndoFile, FinishUndo,
           FinishUndoFails, ReleaseApplyLock, SetupDies, SetupEnds,
           IncludeFragments, NginxLoads, CoordinatorStep, ChildStep,
           EditConfigAtRest, allVars, setupVars, foundVars
  <2>2. /\ config \in Config /\ sconfig \in Config \cup {Nobody}
        /\ installed \in Config \cup {Nobody}
    BY DEF SetupTypeOK, SetupInductive, Types
  <2>3. reported \in BOOLEAN /\ included \in BOOLEAN
    BY DEF SetupTypeOK
  <2> QED
    BY <2>1, <2>2, <2>3
<1>7. /\ files' \in [File -> Contents] /\ found' \in [File -> Contents]
      /\ spc' \in SetupPC
      /\ included' \in BOOLEAN /\ undone' \in BOOLEAN /\ reverting' \in BOOLEAN
  BY DEF SetupInductive, Types
<1>8. \A f \in File : {files'[f], nginxFiles'[f], found'[f]} \subseteq Content(f)
  BY <1>3, <1>4, <1>5
<1> QED
  BY <1>2, <1>3, <1>4, <1>6, <1>7, <1>8 DEF SetupTypeOK, Content

(* Locks, files and the places of a setup keep their types. *)
THEOREM SetupTypeCorrect == SetupSpec => []SetupTypeOK
  BY SetupTypeInit, SetupTypeStep, SetupInductiveAlways, LiveInductiveAlways, PTL
  DEF SetupSpec
=============================================================================
