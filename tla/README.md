# Verification of CrawlLedger

TLA+ models of [CrawlLedger](https://github.com/balyakin/crawlledger), TLC runs that
check them on small instances, and theorems about them that TLAPS proves for every value
of the constants. This page says what the program's parts are, which module models which,
what each run and each proof shows, and what is left out.

    tlc -workers 2 -config LiveSafety.cfg MCLiveProtection    # one run
    tlapm ProtectionProofs.tla                                # one proof module

Paths like `app/protect.go` are under `src/internal/`.

## 1. The system

CrawlLedger is one Go program with two halves.

**Offline**: `analyze` reads access logs into a *workspace* (a directory with an SQLite
database, JSON and HTML reports and a manifest with their hashes); `simulate` replays a
deny/rate-limit policy on a workspace; `render` writes the policy as an Nginx or Caddy
configuration, if a simulation of this very policy on this workspace allows it.

**Live**: `protect run` follows an Nginx log, compares a rolling window of traffic with a
baseline taken from a workspace, and keeps a set of temporary rate-limit rules. With
`--apply` it writes the set as its *desired state* and starts, through `sudo`, the
privileged `protect apply`, which replaces a *managed map* file and reloads Nginx.
`protect clear` empties it all; `protect setup` installs the managed files once.

The live half is where processes, locks, crashes and timeouts meet, so it is modelled
first and in most detail.

### Components

| component | state it keeps | operations | what is hard | what makes it correct | module |
|---|---|---|---|---|---|
| live protection (`app/protect.go`, `protect/mutate.go`, `coordinator.go`, `state_file.go`) | state file, map file, two lock files, memory of watcher and child | run, clear, apply, roll back, reload | orphaned children, crashes anywhere, failures after the effect, edits of the config | Nginx enforces only what was asked for; one writer; a clear stays a clear; a stop ends | `LiveProtection`, `RuleRegister` |
| detector: window, groups, rules (`protect/detector.go`, loop of `app/protect.go`, ranges of `protect/config.go`) | buckets per site, group, rule; rules with their times, streaks, what was applied | observe, evaluate, prune, mark applied, inherit | late records, late and skipped evaluations, the limit on groups; expiry meeting capacity and refresh; coalescing; failed applies | sums are those of the window; actions fit their group; rules come and stay on evidence only; lifetimes slide, capacity holds, changes are applied in time | `Detector` of `RollingWindow` and `RuleBook`, over `DetectorConfig` |
| detector: sensor health (`detector.go`) | ring of the last lines, count of errors | record a line | the ring wraps | the count is that of the last lines | `SensorHealth`, `SlidingHealth` |
| baseline capture and matching (`protect/baseline.go`, `store/sqlite/protect.go`) | percentiles per group | build, compare | partial minutes, empty minutes, lost routes, exclusions | exact percentile; normal traffic does not qualify; excluded paths are never reached | `Qualification` |
| log follower (`protect/follower.go`) | open file, offset, partial line | read, cut, rewind, switch | rotation and truncation between any two system calls | whole lines, once, in order, none lost that stays readable | `Follower` |
| aggregator and rate model (`aggregate/`, `store/sqlite/aggregates.go`) | rows in memory, rows in SQLite, token buckets, sketches | add, flush, finish | batches cut anywhere, limits, out-of-order time | tables are exact; a subject is counted wholly or not at all | `Aggregation` |
| offline analysis, its workspace (`app/analyze.go`, `workspace.go`, `store/sqlite/store.go`, `atomicfile/`) | progress, database row, files and temporary names | analyse, publish, open | any of many steps fails; two findings of one ID; a reader at any time | what opens is complete; what was reported complete opens | `Analysis` |
| policy validation and matching, simulation, rendering (`policy/`, `app/simulate.go`, `app/render.go`, `render/`) | counters of a simulation | validate, simulate, render | overlapping rules, two implementations of matching | impacts are exact; only what was simulated is rendered | `PolicySimulation` |
| setup of the managed Nginx files (`app/protect.go` `ProtectSetup`, `protect/mutate.go`) | three files, what Nginx has loaded of them, both locks | check, replace, ask, test, reload, roll back | any step fails or is the last; orphans; reloads by others | no rule is lost or revived; success means one version, loaded; a reported rollback is one | `Setup` |
| Nginx fragments, markers, preflight | none | render, compare, inspect | text, owners, modes | - | partly: which file must be there and shown when (`Setup`), what a map entry matches (`Qualification`) |
| protection config and security checks | none | decode, validate | ranges, owners, modes | - | partly: the relations between settings (`DetectorConfig`) |
| cost and findings (`findings/`) | none that outlives a call | arithmetic on finished totals | IDs must be unique | - | partly: automation findings and their IDs (`Analysis`) |
| SQL (`store/sqlite/`) | tables | queries, migrations | - | - | partly: what the queries return (`Analysis`, `PolicySimulation`) |
| sanitized bundles (`app/sanitize.go`) | two files | write | order of publication | bundle before manifest | planned |
| log parsers; normalization and pseudonyms; classification, catalog, robots | none | pure functions on strings | - | - | not modelled |
| input sources; reports and manifest encoding; domain values; analysis configuration; application wiring; command line and support packages | none that outlives a call | I/O, arithmetic, layout | - | - | not modelled |

How they interact: Nginx writes the protection log; the *follower* goroutine hands lines
over an unbuffered channel to the loop, which calls the *detector* (`Observe`,
`ObserveError`) and, when the timer fires, `Evaluate`; a decision is persisted in the state
file and handed to a *child process* through standard input; the child checks it against
the state file under the apply lock, writes the map and signals Nginx. The detector's
baseline comes from a *workspace*, which an *analysis* published file by file, the manifest
last; policy commands open workspaces the same way. The two halves share no memory.

The hazards (steps and orders that a test hardly reaches, each at its source line) are
listed in `PROJECT.json` under "hazards", with the properties that cover them.

## 2. Modules

| module | models | extends / composes | checked by | proved in |
|---|---|---|---|---|
| `RuleRegister` | abstract: what live protection promises an operator | - | `live_safety` (as a PROPERTY) | `ProtectionProofs` |
| `LiveProtection` | watchers, children, locks, files, Nginx | INSTANCE `RuleRegister` | `live_safety`, `live_stop`, `live_rollback`, `live_expiry` | `ProtectionProofs` |
| `Setup` | the installation of the managed files, beside all of the above | EXTENDS `LiveProtection` | `live_setup` | `ProtectionProofs` |
| `DetectorConfig` | settings, what the config check demands of them | - | `detector` | - |
| `RuleBook` | rules and evaluations | EXTENDS `DetectorConfig` | `detector` (as part of `Detector`) | `RuleBookProofs` |
| `RollingWindow` | buckets and the loop's timing | EXTENDS `DetectorConfig` | `detector` (as part of `Detector`) | `DetectorProofs` |
| `Detector` | window and rules as one: what qualifies follows from the sums | EXTENDS `RollingWindow`, INSTANCE `RuleBook` | `detector` | `DetectorProofs` |
| `SlidingHealth` | abstract: the last N lines | - | `qualification` (as a PROPERTY) | `QualificationProofs` |
| `SensorHealth` | the ring | - | `qualification` | `QualificationProofs` |
| `Qualification` | baseline, thresholds, exclusions, with the sensor | EXTENDS `SensorHealth`, INSTANCE `SlidingHealth` | `qualification` | `QualificationProofs` |
| `Follower` | follower, log rotation | - | `follower` | `FollowerProofs` |
| `Aggregation` | aggregator and tables | - | `analysis` | `AnalysisProofs` |
| `Analysis` | an analysis and readers of its workspace | EXTENDS `Aggregation` | `analysis*` | `AnalysisProofs` |
| `PolicySimulation` | policies from validation to rendering | - | `policy_*` | `PolicySimulationProofs` |
| `NumberFacts` | no code: sums, multiples, quotients, ascending orders | - | - | itself; its lemmas are cited by the proofs of the others |

`MC*` modules give the constants their values. An operator under a comment that begins
with "Fault:" is a plausible mistake in the code: each property is shown to fail when one
of these takes the place of the definition that follows it ("mutants" in `PROJECT.json`),
so that no property holds by the shape of its model alone.

### LiveProtection

One process is one element of `Watcher` or `Child`, and its program counter (`wpc`,
`cpc`) says where in `ProtectRun`/`ProtectClear` or `ProtectApply` it is. One action is
the code between two points at which another process can see a difference.

| variables | in the code |
|---|---|
| `config` | the root-owned config file; `wconfig`, `cconfig` are the digests a process loaded |
| `stateFile` | the desired state on disk, its digest and rules |
| `activeMap`, `nginxRules`, `reloadSignal` | the managed map, what the Nginx workers enforce, a signal sent and not acted on |
| `coordinatorLock`, `applyLock` | holders of the two `flock`s |
| `desired`, `applied`, `canceled`, `invoked` | `Detector.state.Rules`, `Detector.appliedRules`, the context, the child that `runSudo` waits for |
| `payload`, `previous` | standard input of the child, the map it read back for a rollback |
| `requested`, `cleared` | history variables for the properties |

The coordinator's actions are `Load` ... `Crash`; the child's `FirstProbe` ... `Die`, in
the order of the code; the environment's `NginxReload`, `NginxRestart`, `EditConfig`. Every
step that does I/O has a failing twin. Two failures are modelled with the effect they can
have had: a file replacement that fails after its rename (the directory sync), and a
reload command that fails or times out after the signal was sent. A coordinator that stops
waiting (45 s, cancellation, death) leaves its child alive: an orphan, which goes on with
root's rights. The probe of the coordinator lock takes the lock for a moment when it is
free, so that a starting watcher can find it held by a child.

`RuleRegister` is what is left when all this is hidden: rule sets are asked for, one that
was asked for since the last confirmation is installed, Nginx loads what is installed, and
a confirmation is only given when the last set asked for is installed, and enforced or
about to be. The refinement maps `asked` to the rules of the state file, `candidates` to
`requested`, `installed`/`loaded`/`reloading` to the map and Nginx.

### Setup

One process, `Root`, in the order of `ProtectSetup` and `SetupManagedFiles`: `SetupLoad`,
`LockCoordinators`, `LockChildren`, `FindFiles` and `CheckFiles` (no rule in the state or in
the map), `ReplaceFile` three times, `Ask` for `nginx -T` and `nginx -t`, `SetupReload`; on
a failure `UndoFile` three times, which goes on after a failed restoration, and
`FinishUndo`, which after a failed reload tests and reloads again. Each has a failing twin,
and `SetupDies` is possible between any two. A second setup would find the locks taken.

| variables | in the code |
|---|---|
| `files` | HTTP include, server include, map: the config each was rendered from (`activeMap` has the rules of the map) |
| `nginxFiles`, `included` | what Nginx has loaded of them; whether the operator's own configuration includes them |
| `spc`, `sconfig` | where the setup is, the config it loaded |
| `found`, `foundRules` | `previousManagedFiles` |
| `reverting`, `undone` | which rollback it is, whether every restoration worked |
| `reported`, `installed` | `SetupResult.IncludesActive`; history: the last success that nothing has changed since |

Everything of `LiveProtection` runs beside it (`CoordinatorStep`, `ChildStep`), with what
its checks ask of the managed files (`Provisioned`), and Nginx is reloaded or restarted by
others at any moment (`NginxLoads`, which keeps what it has when a file is missing).

### Detector

`DetectorEvaluate` is the whole of `Detector.Evaluate` with the outcome of its apply: it
prunes, compares the sums of the window with the thresholds, counts streaks, updates the
rules and asks for an apply. `DetectorObserve` is a line of the log: it counts
as an attempt against the rules that are applied *now*, so that a failed or late apply
changes what the window sees. `DetectorRestart` is the end of a watcher and the start of
the next, which inherits rules and begins with empty buckets. One threshold stands for
those of all groups (`Qualification` has where they come from), and whether a shape group
cost enough upstream is left open. Its two halves:

### RuleBook

`EvaluateWith(time, qualified, attempted, allowed)` is `Detector.Evaluate` from
`evaluateGroups` to the decision, together with its outcome (`MarkApplied`, or an apply
that failed), for any groups that qualify, any rules attempted against and any suspension:
`Evaluate` lets all of them occur, `Detector` those that follow from the window.
`Restart(time)` is the end of a watcher and the reconciliation of the next one. Reasons
and thresholds, which are carried along in a rule, are left out. Which of several new
rules get the last places follows from the order of keys and is left open.

### RollingWindow

`Observe(id, kind, ts)`, the pruning in `Evaluate`, and `Tick`. The loop is modelled with the
code's timing: `due` is what the timer is set to, records and the timer are served in any
order, an evaluation may be served late (up to `Delay`) and those that passed meanwhile
are skipped. A record has the denial, the verdict of Nginx's limiter, its safety and its
two groups. The history variable `observed` keeps the records that may still count, which
the sums are compared with.

### SensorHealth, SlidingHealth, Qualification

`SensorHealth` is the ring with its running count, `SlidingHealth` the plain sequence of
the last `Size` lines. `Qualification` extends the ring with three phases: a log is
recorded (`RecordPast`), a baseline is built from it (`BuildBaseline`, losing whichever
routes did not fit the workspace), and live requests are observed, time moves and
evaluations name the groups that qualify. Paths are sequences of segments, so that prefixes
and trailing slashes are those of `RulePathMatches`.

### Follower

Files are sequences of characters; a character is the number of its line and how many
follow, so that a line put together wrongly shows. `Read`, `ReadEOF`, `ConsumeRest`,
`ConsumeLine`, `Rewind`, `NotShorter`, `Compare`, `Look`, `Open` are the system calls of
`Follow` and `inspectEOF`, one each, with `Write`, `Rename`, `Create`, `Obstruct`,
`Reopen` and `Truncate` of Nginx and logrotate between any two of them. `Ahead` are the
lines of the open file that are still to be handed on: `OnceInOrder` says that they come
after all that was, `NothingSkipped` that together with these, with what was truncated away
and with other files (the one it has left is one) they are all lines there are.

### Aggregation and Analysis

`Add(event)` is the whole of `Aggregator.Add`: the row of the route, the row of the subject
or its overflow, the token bucket, the rate impact, the sketch, and the flush when the batch
is full. `Flush` is the one SQLite transaction. One history variable, `taken`, remembers
what became of each event, and the tables are compared with it.

`Analysis` puts this into `Service.Analyze`: sources, lines that are accepted, rejected or
skipped, then the steps of `Order` to the manifest, each of which may fail (`Fail`) or be
the last of the process (`Crash`); and beside it a reader (`List` ... `NoSideFiles`), the
checks of `openWorkspace` in their order, at any time. Findings are calculated from the
stored subjects: `Automation` are those that may be automated, `FindingID` is made of the
client alone, and the step fails when two findings have one ID. A published file has two
names for a while, as `WriteNew` links and then removes its temporary one.

### PolicySimulation

A command starts with a valid policy and a workspace (`Start`), simulates cell by cell
(`AddCell`), and then adds the replayed rate limits, risks and status (`Finish`).
`simulate` publishes the result (`Publish`); `render` compares it with the published one,
looks at the acknowledgements, and writes the configuration or gives up (`Render`,
`Refuse`). Somebody may edit the published file in between (`EditFile`). `Matches` is the
matcher of the simulation, `RenderedFor` that of the written configuration.

## 3. Runs

All run with two workers in under five minutes. `CHECK_DEADLOCK FALSE` is set only where a
bound on time, lines or requests ends the behaviour (`detector`,
`qualification`, `follower`, `analysis*`); the others are free of deadlock.

| run | question | instance | states |
|---|---|---|---|
| `live_safety` | Whatever fails, dies or outlives its parent: are only requested rules installed, by one writer, and is `RuleRegister` kept? | 1 rule, 2 coordinators, 2 children, 2 configs, symmetric in coordinators, children and configs | 2.7 million |
| `live_stop` | Does a stop end, and does a clear reach Nginx? | 1 rule, 1 coordinator, 2 children, fair | 131 thousand |
| `live_rollback` (violation) | Does a failed apply restore the previous map? | 1 of each | small |
| `live_expiry` (violation) | Does Nginx let go of expired rules while the watcher lives? | 1 of each, `RecoveringSpec` | small |
| `live_setup` | May a setup at any time, failing or killed anywhere, lose a rule or revive one, meet a child or a coordinator at work, or leave a mixture behind a success or a reported rollback? | 1 rule, 1 coordinator, 1 child, 2 configs, 1 setup at a time, any number of them | 3.1 million |
| `qualification` | Is the baseline exact, does normal traffic stay below it, is an excluded path ever reached, does the ring implement the sliding window? | minute and window of 2 ticks, logs of 8 ticks and 5 requests, 3 live requests, ring of 3 | 613 thousand |
| `detector` | Are the compared sums those of the window, do rules come and stay on evidence only, and are lifetimes, capacity, streaks and the timing of applies kept? | 4 groups (2 tracked) on 3 actions, 4 kinds of records, 2 in sight, interval 2, window 4, lag 2, delay 1, 2 evaluations to activate, 2 rules at most, TTL 4, reload interval 3, threshold 1, share 50 %, 8 ticks | 1.1 million |
| `follower` | Are lines whole, once, in order, none skipped, and do they all arrive? | 2 files, 3 lines of 1 or 3 characters with a limit of 1, reads of 2, 1 truncation | 450 thousand |
| `analysis` | Are tables exact, is what opens complete, does what is complete open? | 4 events, 2 routes (1 has a row), 3 clients (2 tracked), batches of 7 rows, 2 sources of 2 lines | 401 thousand |
| `analysis_findings` (violation) | Are the IDs of findings distinct? | the same, automation from 1 request | |
| `policy_simulation` | Are impacts exact, and is only the simulated rendered? | 19 policies of up to 3 rules, 4 workspaces of 6 kinds of cells, 3 crawlers | 58 thousand |
| `policy_render` (violation) | Does what is rendered decide as the simulation did? | the same | |

What the properties say is in the comment above each. The type invariants of
`LiveProtection`, `Setup`, `Detector` and `Analysis`, the running count of `SensorHealth` and the
reporting of a full `RollingWindow` are proved (section 5) and not repeated in the runs.

**Why these bounds are enough.** Live: an interference needs a stale child and a fresh one,
or an old coordinator and a new one, so two of each; one rule distinguishes "asked for",
"withdrawn" and "asked for again", and two configs an edit. The detector's window has two
intervals of two ticks, and the horizon lies beyond one window plus one delayed evaluation,
so that records are counted, pruned, late and skipped; its limit on groups is below the
number of groups, its capacity below that of actions; two groups share an action and one
shape lies below two prefixes; the TTL is as short as the config check allows, so that
rules expire, are refreshed and are inherited within the horizon. Two records in sight are
enough as one reaches the threshold: evidence is one record, and the other is the one that
could be mistaken for it. A setup has one child, which can be an orphan of a coordinator
that died, and as many successors as it takes; two configs tell the includes of two
versions apart. The follower's lines are below and above the limit, and reads cut lines
anywhere; two files and a truncation allow every interleaving of rotation with the four
calls of a switch. The analysis has fewer places for routes, subjects, sketches and
rejected lines than events, batches that are flushed in the middle, and clock values both
before and after one another. In `qualification` the ring wraps any number of times, and
logs have partial first and last minutes, empty minutes and a minute between.

Proofs (section 5) remove the bounds for the properties listed there.

### Fairness

`LiveProtection!Fairness`: every command that a child runs has a timeout of 10 s (30 s in a
rollback: `mutate.go`, `CommandExecutor.Run`), and every wait of a coordinator one of 45 s
(`runSudo`), so both go on, to a success *or a failure* - weak fairness of the
disjunction, never of success. The `select` of `runProtectionLoop` picks at random among
its ready cases, so `ctx.Done` is not passed over for ever: strong fairness of
`GracefulStop`. Nginx acts on its signals. A crash, an expired wait or a refusal remain
possible at every step. `RecoveringSpec` adds, for `live_expiry` only, that retried steps
succeed in the end, so that no step of the counterexample fails for ever. What it takes is
that no apply reports success while the rule is still desired.

`Follower!FairSpec`: weak fairness of the follower's steps; it polls, and the loop takes
its lines. Nothing is assumed of Nginx or of rotation.

## 4. Where the code differs from what is said of it

Four runs end in a violation of one property each, which quotes its claim:

1. `live_rollback`: the README says the child "restores the previous map if any step
   fails" (README.md:238). `ApplyActiveMap` returns the error of the replacement without a
   rollback (`mutate.go:141`), and `atomicfile.Replace` can fail after its rename
   (`write.go:127-131`): the new map stays, untested.
2. `live_expiry`: "Default lifetime is a sliding ten minutes" (README.md:196). After an
   apply that changed the map and reported failure, the rule is not in `appliedRules`. The
   apply is retried while the rule is desired; if none of these reports success before the
   rule expires (a failure late in its lifetime, or a fault that lasts), desired and applied
   are then equal, nothing is applied (`detector.go:294`), and Nginx keeps the rule as long
   as the watcher runs.
3. `analysis_findings`: `Detect` returns an error "duplicate finding ID"
   (`findings/detect.go:36`) when two findings have one ID, which ends the analysis as an
   internal error. The ID of an automation finding is made of the client alone
   (`detect.go:233`), but subjects are clients *with* a user agent (`queries.go:323-328`): a
   client with two user agents, both over the thresholds, makes the analysis fail.
4. `policy_render`: a simulation shows "what a deny or rate-limit rule would have changed"
   (README.md:15). A rule with crawler names *and* categories is simulated for crawlers in
   both (`matcher.go:10`) and rendered for those in either (`nginx.go:120`).

`RenderedIsProven` states what does hold: equality for every rule without both lists.
`OnlyRequestedRules` and `ImplementsRegister` state what holds in spite of 1 and 2: even
then nothing is installed that was not asked for since the last confirmed apply.

Two more disagreements were seen while modelling. They need no search through behaviours,
so no run is about them:

- `Evaluate` wants times that are multiples of the interval since the epoch and otherwise
  returns "evaluation time must be epoch-aligned" (`detector.go:259`); the loop takes
  multiples since year 1, the zero time of `time.Truncate` (`app/protect.go:363`), 719162
  days earlier. The two agree for the divisors of 719162 * 86400 s. The configuration takes
  34 intervals from 1 to 60 s that are none, such as 7, 11 or 13 s (with a window they
  divide, `config.go:193`, `config.go:212`): a watcher with one of these ends at its first
  evaluation, and what it has inherited stays in Nginx.
- `manifest.json` is the "Completion marker" (README.md:134). `WriteNew` removes its
  temporary name after it has linked it (`write.go:58-65`); a command that has listed that
  name, and looks at it when it is gone, refuses the complete workspace (`workspace.go:223`).
  The next attempt succeeds: `PublishedOpens` is about readers that begin later.

## 5. Proofs

Every theorem holds for all values of the constants that satisfy the ASSUMEs of its
module; nothing else is assumed, and no step is omitted. Theorems in `PROJECT.json`
name the property of a run that they generalise.

**ProtectionProofs**, of `LiveProtection` (any number of rules, coordinators, children, configs): type
correctness, `OnlyRequestedRules`, `ClearedStaysClear`, `DesiredIsPersisted`, `OneWriter`,
`OneConfig`, `RestoredIsPrevious`, and that `LiveProtection` implements `RuleRegister`. None
of them is inductive. The invariant is
`Typed /\ Locks /\ Waits /\ DesiredIsPersisted /\ ClearAsksNothing /\ Candidates /\
OwnMap /\ Confirmable /\ NothingAsked /\ SameConfig`:

- `Locks`: who is in which section holds which lock (and a probing child the coordinator
  lock), from which `OneWriter` follows;
- `Waits`: a child is waited for by one coordinator at most, and only where it waits;
- `Candidates`: what any child past its validation may still write (its payload and its
  previous map) has been asked for since the last confirmation. It is the heart of the
  argument: a payload is compared with the state file under the apply lock, which the
  child keeps until it ends, so what an orphan may write was desired then;
- `OwnMap`: a child under way has its payload or its previous map in the file;
- `Confirmable`: once the child that a coordinator waits for has succeeded, the map, what
  Nginx enforces or is about to, and all that a child under way could still write are the
  rules of the state file (`Settled`); so a confirmation may forget every other set. An
  orphan that was validated before had to end before the successful child got the lock;
  one that is validated after it has the same rules;
- `NothingAsked`, `ClearAsksNothing`: between a clear and the next coordinator only the
  empty set is asked for; `SameConfig`: a validated child has the coordinator's config.

The refinement is proved action by action: each is an `Ask`, `Install`, `RequestReload`,
`Load`, `Confirm` or a stutter of the register. Every one of these lemmas is stated for a
step of `Next` *or* of `Beside`: another process that takes locks nobody holds, frees its
own and has Nginx reload. This is what makes the promises carry over to a setup.

**ProtectionProofs**, of `Setup` (any number of rules, coordinators, children, configs): types
(`SetupTypeOK`), `SetupAlone`, `SetupKeepsRules`, `SetupIsLoaded` and `RestoredIsFound`,
from the invariant `Types /\ Held /\ Managed /\ Replaced /\ Undone` with the last two of
them. `Held` is who holds which lock, so that no child is at work while files change;
`Managed` says that a child which changes the map has found all the files, that a missing
map file has no rules, and that a setup past its checks has found an empty map, which is
why writing one keeps the rules; `Replaced` and `Undone` say what each replacement and each
restoration has left. Two lemmas (`CoordinatorFrame`, `ChildFrame`) sum up what
coordinators and children do to locks and map. From it follow

- `LoadableAlways`: Nginx's configuration never includes a file that is missing, whatever
  fails. This needs `Complete`: once a fragment is included all three files are there, and
  a setup found them all, so that each restoration puts one back and removes none;
- `ProtectedBesideSetup`, `ImplementsRegisterBesideSetup`: with setups starting, failing
  and dying at any time, live protection keeps *all* its invariants and still implements
  `RuleRegister`, since every step of a setup is one of `Beside` (`SetupIsBeside`).

**RuleBookProofs** (any keys, groups, TTL, interval, capacity, no horizon needed): types,
`SlidingLifetime`, `WithinCapacity`, `ApplyIsPrompt`, `OnlyExpiryDrops`,
`ActivationTakesAStreak`, from
`TypeOK /\ SlidingLifetime /\ WithinCapacity /\ Pending /\ ApplyIsPrompt /\ Streak`:
`Pending` relates rules that are not applied yet to the last successful apply, whatever has
failed since, `Streak` each group's
count to the number of evaluations since it was last calm.

**DetectorProofs**, first part, about `RollingWindow`: types, `ActionFitsGroup`,
`LimitReported`, and that the sums which an evaluation compares are the numbers of the
records in the window (`WindowExact`), for any window, interval, lag, delay, limit and any
records. The invariant is `TypeOK /\ Timeline /\ Bounded /\ BucketsCount /\ OnlyTracked /\
OnePrefix /\ OwnVolume /\ LimitReported`. `BucketsCount` says that every bucket counts
exactly the records that fall into it and were not pruned; it needs that buckets,
evaluations and the edges of a window are all multiples of the interval (`Aligned`), so
that a record leaves the window together with its bucket. The sum over the buckets is then
the number of records in their union (`NumberFacts`).

Second part: every step of `Detector` is a step of `RollingWindow` or leaves its variables
alone (`DetectorImplementsWindow`), and every step is one of `RuleBook` or a stutter
(`DetectorImplementsRuleBook`). The second needs that what the window lets qualify is a
claim the rule book knows, for which a tracked group must propose the action of one of its
records (`ClaimsKnown`), and that evaluations come in order (`Timeline`). So what is proved
about each half for *any* qualifications and *any* applied rules holds of the two together:
types, `SlidingLifetime`, `WithinCapacity`, `ApplyIsPrompt`, `ActionFitsGroup`,
`WindowExact`, `OnlyExpiryDrops`, `ActivationTakesAStreak`. Only of the two together can it
be said that no rule appears or is prolonged without records in sight that account for it
(`RulesHaveEvidence`).

**QualificationProofs**: types, `ErrorsCounted`, and that a suspension
is exactly more errors than tolerated among the lines of the ring; the invariant adds
`Filling` (slots beyond the count are empty). The ring implements `SlidingHealth`: read
from its oldest slot (`Reads`) it is the sequence of the last lines, before and after it
has wrapped. `Qualification` implements `SensorHealth`, which carries these over to it.
Of the baseline, for any logs, minutes and paths:

- `BaselineExact`: the baseline that is built is the nearest rank of all complete minutes,
  the empty ones included, though the code sorts only the minutes that had requests
  and indexes them with the empty ones subtracted. `Ascending` orders are counted from
  below (`NumberFacts`), which gives both sides the same characterisation;
- `ExcludedNeverLimited`: requests under an excluded path are counted in no group, and no
  group that qualifies proposes an action which reaches one;
- `QuietStaysQuiet`: a group whose traffic stays within its percentile minute by minute
  never qualifies, **under the hypothesis** `Outweighs == multiplier * Window > Minute *
  Parts`, where `Parts` is the number of minutes that a window may touch. Not every
  configuration that the check accepts has it: it allows multipliers from 2 and windows from
  10 s (`config.go:192`, `config.go:196`). A multiplier of 3 is enough for windows of a
  minute or longer, one of 2 is not for a window of a minute, and the example
  configuration, with 10, needs windows of more than 12 s.

**FollowerProofs** (any lines, limits and read sizes, any number of files, rotations and
truncations): types, `WholeLines`, `OnceInOrder` and `NothingSkipped`, so that what
is left of `EverythingArrives` is that the follower goes on. The invariant is about the files
(`FilesWhole`: whole lines in their order; `Newest`, `NoneLost`) and about the reader:
`ChunkRead` (what was read and not consumed is the piece of the file before the offset, or
was before a cut that is not noticed yet), `Elsewhere` (where a switch stands), `Partial`
(the line in the making is the beginning of the line that the next character belongs to,
or dropped because that one is too long: `FitsIn`), `HandledBehind` (what was handed on lies
before all that is to come, here and in the file at the path) and `Consumed` (what was
passed by was handed on). `overtaken` histories (section 6) are excluded only where the
properties exclude them.

**AnalysisProofs**: `TablesExact`, `AllOrNothing` and `RateConforms` of
the aggregates for any limits, batch sizes, rates, bursts and any events, from `TypeOK /\
Finite /\ Settled /\ Budget /\ RateConforms /\ RoutesTaken /\ TablesExact`. `Budget` is the
potential argument of token buckets: what was let through since any earlier request, plus
the tokens left, is at most the capacity and the refill. `SmallestMerges`: merging sketches
of the K smallest loses nothing. Of the analysis: types, the aggregate properties under
every failure, `OpenedIsComplete` (a workspace that opens is complete, all sources taken
and adding up, its hashes those of what is there) and `PublishedOpens`, from `Pipeline ==
PipelineType /\ Progress /\ Manifest /\ Names /\ Readers`: `Progress` says what each step of
`Order` leaves behind, `Manifest` that a linked manifest means all of it.

**PolicySimulationProofs** (any catalog, any valid policy, any workspace, any number of
routes listed for a rule): `TypeOK`, `ImpactsExact`, `Conserves` and `RenderedIsProven`. The
invariant says what the simulator knows of the cells it has taken (`Counts`: of every rule
the sum over the cells it decides on, and that all requests are allowed, denied or matched
by a rate limit) and which lists it has (`Lists`: of every rule the top routes of those it
has left behind). Three arguments carry it:

- cutting a list whenever a route is added gives what cutting it once at the end would
  (`TopOfTop`): entries are in a strict total order, so a list that was cut is full of
  entries above all that it lost. It needs that cells come in the order of their routes,
  so that no route returns after it was left (`RouteIsNew`);
- a valid rate limit shares no claim with an earlier rule (`LimitIsAlone`). It therefore
  decides on all cells of its claims, and the replayed rows it takes are those of the same
  claims (`LimitDecides`): what was replayed of them is at most what it matched
  (`ReplayedAtMost`). The totals then add up, unless a rate limit was replayed in part, which
  is a risk that nobody can acknowledge;
- a status that may be rendered leaves no such risk, so every rate limit was replayed in
  full and every caller of its claims has a row; risks are finitely many, so acknowledgements
  taken from those required and as many as these are all of them.

They rest on two assumptions about the inputs: `WorkspaceAssumption`, what an analysis leaves
in a workspace (checked as such in `Aggregation`, `TablesExact`), and `CatalogAssumption`,
that catalog and profiles are finite.

**NumberFacts** is about numbers and finite sets alone. Induction over data is not
available from the library, whose theorems take an operator as a parameter, so it is
stated once with a *set* in the place of the predicate (`SetsBySize`) and used for
what the others need: a sum over a set splits, is monotone, and is the number of elements
of a union of classes; multiples and quotients; any finite set has an ascending order.

Not proved, and checked by TLC only:

- liveness (`StopEnds`, `ClearReachesNginx`, `EverythingArrives`) and all that speaks of
  ENABLED: out of the prover's reach.

## 6. Assumptions and what is left out

Of the environment: the wall clock does not go back, neither between watchers (`RuleBook`)
nor under one (`RollingWindow`: `app/protect.go:382` would wait until it has caught up);
SQLite commits a transaction or leaves all as it was, and has side files only while open; a
rename is atomic, and the loss of power with unsynced data is not modelled; the output
directory of an analysis is used by nobody else; a workspace is not changed while a policy
command has it open; `flock`s go with their process.

Of the live half: the detector's evaluations are multiples of the interval since the epoch,
as `Evaluate` demands (see the end of section 4); an
evaluation takes effect when its state is written, so that one whose write fails, after
which the watcher ends, counts as not having happened (`RuleBook!Restart`); a SIGTERM before
the coordinator lock is taken counts as one just after; rules are method/path pairs without reasons and thresholds; several
nested prefixes that match one record are one action per record; records the loop reads
after an evaluation was due and before it is served lie in a later bucket and are dropped
by that prune: the models state this (`InScope` in `RollingWindow`) and exclude such
records from `WindowExact` and `RulesHaveEvidence`; the number of buckets per group that
the config check allows for (`config.go:218`) can be exceeded by late or skipped
evaluations, a limit on memory alone. A file truncated and grown beyond the old offset
between two looks of the follower cannot be told from one that grew; `overtaken` marks
these histories and the properties exclude them. Lines that Nginx writes to a renamed file
after the follower's last read and before its switch (`follower.go:198-211`) are not read:
`NothingSkipped` counts them as lines of another file, and `EverythingArrives` speaks of
lines that stay readable. When Nginx is reloaded by others
between two replacements of a setup that then fails before its own reload, the files are
restored and Nginx keeps the mixture it has loaded: only a failed reload makes the rollback
reload again (`mutate.go:215`), so `RestoredIsFound` says no more than that. In
`live_setup` the config is edited only while no process of the live protection is at work,
as the other `live_*` runs have the edits under a watcher; the content of fragments is the
config they were rendered from.

Of qualification: fewer distinct clients than a sketch keeps (so its estimate is exact),
groups within the tracked limit, one prefix per route, the log format that a baseline
needs, eligible baselines only (`--apply`; the dry run with an ineligible one is left out).
`QuietStaysQuiet` supposes that multiplier times window exceeds the minutes that a window
touches: with a multiplier of 2 and a window of 60 s the normal traffic of two adjacent
minutes already equals the threshold. The example configuration uses 10.

Of the offline half: one rate profile stands for three, user agents overflow as routes do,
columns summed like the requests are left out, and so are int64 overflows, which end an
analysis. The tolerated share of rejected lines is a plain number. Of policies, list sizes,
identifiers, bytes, costs and the text of configurations are left out.

Not modelled, with no module: parsers, normalization, classification, the catalog and
robots rules are stateless functions on strings, and reports are layout; costs and the
findings other than automation are arithmetic on finished totals; SQL, migrations, input
readers and the command line are I/O; security checks of owners and modes are one-shot
validations. None of them has an order of steps that a model checker could vary.
`PROJECT.json` lists each with its reason.

## 7. Plan

Done, in this order: `RuleRegister` and `LiveProtection` with their proofs, `RuleBook`,
`SensorHealth`, `RollingWindow`, `Follower`, `Aggregation`, `Analysis`, `PolicySimulation`,
`Qualification`, `Setup` with its proofs, the composed `Detector` with its proofs, the
findings of `Analysis`, the proofs about `Follower`, the baseline, the sums of the window,
live protection beside a setup, and the policy commands.

Next, by what matters most:

1. *Thresholds in the detector*: `Qualification` in place of the one threshold of
   `Detector`, with a rolling window of its own per group.
2. *Sanitized bundles*: the hand-off of bundle and manifest, with the writes of `Analysis`.
