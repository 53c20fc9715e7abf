-------------------------------- MODULE Setup --------------------------------
(***************************************************************************)
(* "protect setup" beside the live protection: root installs the HTTP      *)
(* include, the server include and an empty map into the managed directory, *)
(* asks Nginx what it sees, tests and reloads, and puts back what it found  *)
(* when a step fails.  It takes the coordinator lock and the apply lock     *)
(* first, so at most one setup is between its locks: one process is         *)
(* modelled, a second one would refuse.  Includes differ by the config they *)
(* were rendered from; the empty map is the same under every config.        *)
(***************************************************************************)
EXTENDS LiveProtection

CONSTANT Root \* the setup process, a holder of both locks

ASSUME RootAssumption ==
  /\ Root \notin Watcher \cup Child \cup Config \cup {Nobody}
  /\ "there" \notin Config \cup {Nobody}

VARIABLES
  files,      \* the managed files: the config of an include, "there" for the
              \* map (its rules are activeMap), Nobody for a missing file
  nginxFiles, \* the managed files Nginx runs with
  included,   \* the operator's Nginx configuration includes the fragments
  spc,        \* where the setup is
  sconfig,    \* the config it loaded
  found,      \* the managed files it found, for a rollback
  foundRules, \* the rules of the map it found
  reverting,  \* its reload failed: Nginx has to load the restored files
  undone,     \* every restoration of the rollback worked so far
  reported,   \* the three markers were in nginx -T (SetupResult)
  installed   \* history: the last setup succeeded and none has changed a file
              \* since: Nobody if not so, else its config

liveVars == <<config, stateFile, watcherVars, childVars, requested, cleared>>
fileVars == <<files, nginxFiles, included>>
foundVars == <<sconfig, found, foundRules>>
setupVars == <<spc, foundVars, reverting, undone, reported, installed>>
allVars == <<vars, fileVars, setupVars>>

File == {"http", "server", "map"}
Contents == Config \cup {Nobody, "there"}
NoFiles == [f \in File |-> Nobody]

(* What RenderProtectionIncludes and RenderActiveMap give. *)
Rendered(f, c) == IF f = "map" THEN "there" ELSE c

(* Replacements and restorations run in this order, then comes a command. *)
Then == [http |-> "server", server |-> "map", map |-> "expand",
         undoHttp |-> "undoServer", undoServer |-> "undoMap",
         undoMap |-> "sync"]
Restores == [undoHttp |-> "http", undoServer |-> "server", undoMap |-> "map"]

Commands == {"expand", "test", "reload"}
Undoing == {"undoHttp", "undoServer", "undoMap", "sync", "retest", "rereload"}
Outcome == {"installed", "restored", "broken"}
Installing == {"check"} \cup File \cup Commands \cup Undoing \cup Outcome
SetupPC == {"off", "loaded", "apply", "state", "leaving"} \cup Installing

SetupTypeOK ==
  /\ coordinatorLock \in Watcher \cup Child \cup {Nobody, Root}
  /\ applyLock \in Child \cup {Nobody, Root}
  /\ {files, nginxFiles, found} \subseteq [File -> Contents]
  /\ \A f \in File : {files[f], nginxFiles[f], found[f]} \subseteq
       {Nobody} \cup {Rendered(f, c) : c \in Config}
  /\ included \in BOOLEAN
  /\ spc \in SetupPC
  /\ sconfig \in Config \cup {Nobody}
  /\ foundRules \in RuleSet
  /\ {reverting, undone, reported} \subseteq BOOLEAN
  /\ installed \in Config \cup {Nobody}

(* Before the first setup: no managed file, nothing included. *)
SetupInit ==
  /\ Init
  /\ files = NoFiles
  /\ nginxFiles = NoFiles
  /\ included = FALSE
  /\ spc = "off"
  /\ sconfig = Nobody
  /\ found = NoFiles
  /\ foundRules = {}
  /\ reverting = FALSE
  /\ undone = TRUE
  /\ reported = FALSE
  /\ installed = Nobody

-----------------------------------------------------------------------------
(* The setup process: ProtectSetup and SetupManagedFiles *)

(* The process ends: its memory is gone and its locks are closed. *)
SetupEnds ==
  /\ spc' = "off"
  /\ sconfig' = Nobody
  /\ found' = NoFiles
  /\ foundRules' = {}
  /\ reverting' = FALSE
  /\ undone' = TRUE
  /\ coordinatorLock' = IF coordinatorLock = Root THEN Nobody ELSE coordinatorLock
  /\ applyLock' = IF applyLock = Root THEN Nobody ELSE applyLock

SetupLoad ==
  /\ spc = "off"
  /\ spc' = "loaded"
  /\ sconfig' = config
  /\ UNCHANGED <<vars, fileVars, found, foundRules, reverting, undone,
                 reported, installed>>

(* ProvisionSetupLocks: first the lock of coordinators, then that of the    *)
(* children, neither of them waited for.                                    *)
LockCoordinators ==
  /\ spc = "loaded"
  /\ coordinatorLock = Nobody
  /\ coordinatorLock' = Root
  /\ spc' = "apply"
  /\ UNCHANGED <<liveVars, nginxVars, applyLock, fileVars, foundVars,
                 reverting, undone, reported, installed>>

(* Fault: an orphan still at work is overlooked. *)
ApplyLockIgnored == applyLock' = Root

TakeApplyLock ==
  /\ applyLock = Nobody
  /\ applyLock' = Root

LockChildren ==
  /\ spc = "apply"
  /\ TakeApplyLock
  /\ spc' = "state"
  /\ UNCHANGED <<liveVars, nginxVars, coordinatorLock, fileVars, foundVars,
                 reverting, undone, reported, installed>>

(* No state file, or one without a rule; then loadPreviousManagedFiles. *)
FindFiles ==
  /\ spc = "state"
  /\ stateFile.rules = {}
  /\ found' = files
  /\ foundRules' = activeMap
  /\ spc' = "check"
  /\ UNCHANGED <<vars, fileVars, sconfig, reverting, undone, reported,
                 installed>>

(* Fault: rules left in the map are not noticed. *)
AnyMap == TRUE

(* A map that is there must be canonically empty. *)
EmptyMap == found["map"] = Nobody \/ foundRules = {}

CheckFiles ==
  /\ spc = "check"
  /\ EmptyMap
  /\ spc' = "http"
  /\ installed' = Nobody
  /\ UNCHANGED <<vars, fileVars, foundVars, reverting, undone, reported>>

(* A lock that is held, a rule in the state or in the map, an I/O error:    *)
(* the setup ends and has changed nothing.                                  *)
SetupRefuses ==
  /\ spc \in {"loaded", "apply", "state", "check"}
  /\ SetupEnds
  /\ UNCHANGED <<liveVars, nginxVars, fileVars, reported, installed>>

(* The rename of one file took place. *)
Put(f, contents, rules) ==
  /\ files' = [files EXCEPT ![f] = contents]
  /\ activeMap' = IF f = "map" THEN rules ELSE activeMap

ReplaceFile ==
  /\ spc \in File
  /\ Put(spc, Rendered(spc, sconfig), {})
  /\ spc' = Then[spc]
  /\ UNCHANGED <<liveVars, nginxRules, reloadSignal, coordinatorLock, applyLock,
                 nginxFiles, included, foundVars, reverting, undone, reported,
                 installed>>

(* The replacement fails before its rename or after it. *)
ReplaceFileFails ==
  /\ spc \in File
  /\ \/ Put(spc, Rendered(spc, sconfig), {})
     \/ UNCHANGED <<files, activeMap>>
  /\ spc' = "undoHttp"
  /\ UNCHANGED <<liveVars, nginxRules, reloadSignal, coordinatorLock, applyLock,
                 nginxFiles, included, foundVars, reverting, undone, reported,
                 installed>>

(* Nginx accepts its configuration: it includes no file that is missing. *)
Loadable == included => Nobody \notin {files[f] : f \in File}

(* nginx -T and nginx -t succeed; the first one tells which markers Nginx   *)
(* would load.                                                              *)
Ask ==
  /\ \/ spc = "expand" /\ spc' = "test" /\ reported' = included
     \/ spc = "test" /\ spc' = "reload" /\ UNCHANGED reported
  /\ Loadable
  /\ UNCHANGED <<vars, fileVars, foundVars, reverting, undone, installed>>

(* A command fails, or nginx -T shows a marker twice. *)
AskFails ==
  /\ spc \in {"expand", "test"}
  /\ spc' = "undoHttp"
  /\ UNCHANGED <<vars, fileVars, foundVars, reverting, undone, reported,
                 installed>>

SetupReload ==
  /\ spc = "reload"
  /\ SignalNginx
  /\ spc' = "installed"
  /\ installed' = sconfig
  /\ UNCHANGED <<liveVars, activeMap, nginxRules, coordinatorLock, applyLock,
                 fileVars, foundVars, reverting, undone, reported>>

SetupReloadFails ==
  /\ spc = "reload"
  /\ reloadSignal' \in {reloadSignal, TRUE}
  /\ spc' = "undoHttp"
  /\ reverting' = TRUE
  /\ UNCHANGED <<liveVars, activeMap, nginxRules, coordinatorLock, applyLock,
                 fileVars, foundVars, undone, reported, installed>>

(* Fault: a file that was not there before is left in place. *)
RestoreExisting(f) ==
  IF found[f] = Nobody THEN UNCHANGED <<files, activeMap>>
                       ELSE Put(f, found[f], foundRules)

(* A file that was there is written again, another one is removed. *)
RestoreFile(f) == Put(f, found[f], foundRules)

(* restoreManagedFiles goes on after a failure and remembers it. *)
UndoFile ==
  /\ spc \in DOMAIN Restores
  /\ \/ RestoreFile(Restores[spc]) /\ undone' \in {undone, FALSE}
     \/ undone' = FALSE /\ UNCHANGED <<files, activeMap>>
  /\ spc' = Then[spc]
  /\ UNCHANGED <<liveVars, nginxRules, reloadSignal, coordinatorLock, applyLock,
                 nginxFiles, included, foundVars, reverting, reported,
                 installed>>

(* The directory is synced; after a failed reload Nginx also has to accept  *)
(* and load the restored files.                                             *)
FinishUndo ==
  /\ undone
  /\ \/ /\ spc = "sync"
        /\ spc' = IF reverting THEN "retest" ELSE "restored"
        /\ UNCHANGED reloadSignal
     \/ /\ spc = "retest"
        /\ Loadable
        /\ spc' = "rereload"
        /\ UNCHANGED reloadSignal
     \/ /\ spc = "rereload"
        /\ SignalNginx
        /\ spc' = "restored"
  /\ UNCHANGED <<liveVars, activeMap, nginxRules, coordinatorLock, applyLock,
                 fileVars, foundVars, reverting, undone, reported, installed>>

(* A RollbackError. *)
FinishUndoFails ==
  /\ \/ spc \in {"sync", "retest"} /\ UNCHANGED reloadSignal
     \/ spc = "rereload" /\ reloadSignal' \in {reloadSignal, TRUE}
  /\ spc' = "broken"
  /\ UNCHANGED <<liveVars, activeMap, nginxRules, coordinatorLock, applyLock,
                 fileVars, foundVars, reverting, undone, reported, installed>>

(* The deferred closes: the apply lock goes first, and an orphan may take   *)
(* it and find the coordinator lock still held by this process.             *)
ReleaseApplyLock ==
  /\ spc \in Outcome
  /\ applyLock' = Nobody
  /\ spc' = "leaving"
  /\ UNCHANGED <<liveVars, nginxVars, coordinatorLock, fileVars, foundVars,
                 reverting, undone, reported, installed>>

(* It returns, or is killed at any point. *)
SetupDies ==
  /\ spc \in {"leaving"} \cup Installing
  /\ SetupEnds
  /\ UNCHANGED <<liveVars, nginxVars, fileVars, reported, installed>>

SetupStep ==
  \/ SetupLoad \/ LockCoordinators \/ LockChildren \/ FindFiles \/ CheckFiles
  \/ SetupRefuses \/ ReplaceFile \/ ReplaceFileFails \/ Ask \/ AskFails
  \/ SetupReload \/ SetupReloadFails \/ UndoFile \/ FinishUndo
  \/ FinishUndoFails \/ ReleaseApplyLock \/ SetupDies

-----------------------------------------------------------------------------
(* The operator, Nginx and the live protection with managed files *)

(* "Include the reported HTTP fragment once inside http {}". *)
IncludeFragments ==
  /\ ~included
  /\ installed # Nobody
  /\ included' = TRUE
  /\ UNCHANGED <<vars, files, nginxFiles, setupVars>>

(* Nginx reads what its configuration includes, or keeps what it has when   *)
(* that is no valid configuration; a restart would not come up.             *)
NginxLoads ==
  /\ IF Loadable
     THEN /\ NginxReload \/ NginxRestart
          /\ nginxFiles' = IF included THEN files ELSE NoFiles
     ELSE /\ reloadSignal
          /\ reloadSignal' = FALSE
          /\ UNCHANGED <<liveVars, activeMap, nginxRules, coordinatorLock,
                         applyLock, nginxFiles>>
  /\ UNCHANGED <<files, included, setupVars>>

(* ValidateLiveSecurity and ValidateApplySecurity find every managed file. *)
Provisioned == Nobody \notin {files[f] : f \in File}

CoordinatorStep ==
  /\ \E w \in Watcher : WatcherNext(w) /\ (wpc[w] = "off" => Provisioned)
  /\ UNCHANGED <<fileVars, setupVars>>

(* A child validates the files before its first probe, and its nginx -T has *)
(* to show every marker.                                                    *)
ChildStep ==
  /\ \E k \in Child :
       /\ ChildNext(k)
       /\ cpc'[k] \in {"lock", "probing1"} => Provisioned
       /\ cpc'[k] = "replace" => included /\ Provisioned
  /\ UNCHANGED <<fileVars, setupVars>>

(* The config file is edited while no child lives and no lock is held (a    *)
(* bound: edits under a watcher are part of the runs of LiveProtection).    *)
EditConfigAtRest ==
  /\ \A k \in Child : cpc[k] = "free"
  /\ coordinatorLock = Nobody
  /\ EditConfig
  /\ UNCHANGED <<fileVars, setupVars>>

SetupNext ==
  \/ SetupStep \/ IncludeFragments \/ NginxLoads \/ CoordinatorStep \/ ChildStep
  \/ EditConfigAtRest

SetupSpec == SetupInit /\ [][SetupNext]_allVars

-----------------------------------------------------------------------------
(* Between the locks of a setup no child reads the state or changes the map *)
(* and no coordinator is at work, orphans and their probes included         *)
(* (ProvisionSetupLocks, ProtectApply).                                     *)
SetupAlone ==
  spc \in Installing =>
    /\ \A k \in Child : cpc[k] \notin ApplyHolding
    /\ \A w \in Watcher : wpc[w] \notin Coordinating

(* A setup rewrites the map it shares with the live protection without      *)
(* dropping a rule that is active and without bringing one back, whether it *)
(* succeeds, rolls back, or is killed (SetupManagedFiles).                  *)
SetupKeepsRules == [][SetupStep => activeMap' = activeMap]_allVars

(* Once a setup has succeeded, the managed files are those of one config,   *)
(* and if it reported its includes active Nginx has loaded them or has a    *)
(* reload on its way, until the next setup that changes a file              *)
(* (SetupResult, IncludesActive).                                           *)
SetupIsLoaded ==
  installed # Nobody =>
    /\ files = [f \in File |-> Rendered(f, installed)]
    /\ reported => included /\ (reloadSignal \/ nginxFiles = files)

(* A setup that fails without a RollbackError has left the three files as   *)
(* it found them, whichever step failed, and when that was its reload Nginx *)
(* has loaded them or has a reload on its way (restoreManagedFiles,         *)
(* setupRollback: "previous files restored").                               *)
RestoredIsFound ==
  spc = "restored" =>
    /\ files = found
    /\ reverting /\ included => reloadSignal \/ nginxFiles = found
=============================================================================
