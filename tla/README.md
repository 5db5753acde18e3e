# npm-check: a TLA+ verification project

`npm-check` reads, checks and rewrites npm and pnpm lockfiles. This directory
holds TLA+ models of its stateful parts, TLC configurations that model-check them,
and TLAPS proofs that all the safety properties it checks hold for every value of
the constants. Paths below are those of the repository (`src/…` is the JavaScript, `bin/cli.js` the command
line).

## 1. Inventory

### 1.1 Components, their state and their operations

| Component | Code | State | Operations |
|---|---|---|---|
| Worker pool | `src/parallel-processor.js` 19–196, `src/workers/*` | `workers`, `queue`, `active`, `terminated`; per worker `busy`, `current`, `dead` and its listeners | `init`, `execute`, `_dispatch`, `_assign`/`onMessage`, `_handleWorkerFailure`, the `error` and `exit` listeners, `terminate` |
| Parallel processing | `src/parallel-processor.js` 204–374, `src/performance.js` | chunks, `completed`, the promises of the chunks | `processInParallel`, the mergers, chunking, the dedupe map, memory figures |
| Backups and writing commands | `src/backup.js`, `bin/cli.js` | the files, the backup directory, what a running command has read | `createBackup`, `listBackups`, `restoreFromLatestBackup`, `cleanOldBackups`; `migrate`, `upgrade`, `fix`, `prune`, `dedupe`, `upgrade-hashes`, `fix-checksums`, `pin`, `remediate` with `--write` |
| Registry scans | `src/checker.js` 106–633, `src/deprecation.js`, `src/vuln.js` | `results`, the shared index of the lanes, `completed` | collect candidates, group into units, fetch, record, count |
| Registry requests | `src/integrity.js` 120–330 | one promise, one socket, two timers per hop | `getJson`, `postJson`, redirect, collect, time out |
| Registry authentication | `src/registry-auth.js` | credential fields per nerf dart | `createRegistryAuth`, `authFor` |
| Checksum fixer | `src/checksum-fixer.js` | candidates, resolutions | classify, resolve from registry or tarball, apply |
| Pruner | `src/pruner.js` | `reachable`, `queue` | `findOrphanedPackages`, `prunePackages` |
| Remediation | `src/remediate.js`, `src/overrides.js` | findings, planned bumps | match, plan, apply to `package.json` and lockfile |
| Migration, fixing, upgrading, pinning | `src/migrator.js`, `src/fixer.js`, `src/updater.js`, `src/pinner.js` | none (document to document) | v1/v2/v3 conversion, repair, dedupe, pin |
| Exceptions | `src/exceptions.js` | none | parse, match, expire, apply waivers |
| Licences | `src/checker.js` 140–380, 682–760 | none | SPDX expressions against an approved list |
| Progress reporter | `src/progress-reporter.js` | `current`, `total`, `finished`, dates | `update`, `increment`, `finish`, `reset` |
| Streaming parser | `src/streaming-parser.js`, `src/parser.js` | bytes read, chunks | stream, parse |
| Validators | `src/validator.js`, `src/package-json-validator.js`, … | none | field rules, and the agreement of the two forms of a lockfile |
| Configuration audit | `src/audit.js`, `src/audit-config.js` | none | rules over configuration files |
| Facts | `src/facts/*` | module queue, resolver caches, merge fold | scan, resolve, walk, merge lockfile graphs |
| Report | `src/report.js` | stage results | run the stages, combine, exit code |
| pnpm | `src/pnpm-format.js` | none | translate a pnpm lockfile's entries |
| Command line | `bin/cli.js` | none beyond a process | parse flags, read, call, back up, write |

### 1.2 How they interact

`bin/cli.js` calls everything else. A writing command reads a file, computes,
may wait for the network, calls `createBackup` and rewrites the file; the backup
directory is the only state that outlives a process, and other processes (npm,
an editor, another `npm-check`) share it and the lockfile. `processInParallel`
creates a pool, hands it one job per chunk and awaits all of them; threads answer
through `message` events and fail through `error` and `exit` events. The three
registry scans run units on shared-memory lanes; every fetch is a `getJson` or
`postJson` call, which asks `authFor` for a credential for each URL it requests.
`report` runs the rules of `audit` and then the scans one after another, and hands
all findings to one gate; `remediate` takes its findings from two of the scans. The
facts walk reads sources, follows imports through `node_modules` and folds the
lockfiles; it shares the registry of nothing and judges nothing.

### 1.3 What is hard here

* Worker events race with calls: results, errors, exits, respawns, `terminate`.
* Lanes of a scan interleave at every `await` and share counters and an index.
* A request has many ways to settle (end, error, size, idle timer, deadline,
  a redirected request) and exactly one promise.
* A process may die between any two file-system calls, and two processes may
  work on the same files; dates have millisecond resolution.
* Checks must fail closed: no error, timeout or omission may look like success.
* A lockfile has two forms at once, and each command reads and writes one, the
  other or both; what one command leaves is what the next one finds.
* Several layers of configuration, exceptions, flags and gates lie between a
  finding and the exit code.
* What a static walk cannot establish must be told, across budgets, failing
  reads, four ways of resolving a name and text that is only partly parsed.

`PROJECT.json` lists these one by one, at their lines, with the properties that
cover them.

### 1.4 What makes each component correct

* *Worker pool*: every accepted task has one owner until it settles, settles with
  its own result, and does settle unless its worker was torn down; capacity is
  kept; nothing waits beside an idle worker.
* *Parallel processing*: all chunks in order or an exception; no thread survives.
* *Backups*: what a command overwrites can be brought back, whenever it dies, if it
  was not edited after the backup was read; cleaning keeps the newest N; backups are
  never overwritten.
* *Scans*: every entry is accounted for once; the verdict fails closed; nothing
  is blamed on an entry that the registry did not say of it.
* *Requests*: an answer is the answer of the last request; `null` only for a 404
  or for a whole body that says `null`; settled within the deadlines; no credential
  outside its scope.
* *Pruner*: `reachable` is exactly the closure of the roots under
  Node's resolution; pruning changes no resolution, orphans no nested package and
  leaves nothing for a second prune.
* *Commands on a lockfile*: nothing locked is lost or changed between the forms;
  hashes that were obtained stay; what is left unfixed is reported; a pin is the
  version that is installed; valid stays valid.
* *Report*: exit code 0 is earned; no finding vanishes but by an exception that
  names it; an advisory is held against exactly the versions it covers.
* *Remediation*: one outcome per package that deserves one; both files change alike.
* *Facts*: complete, or a gap is told; what is taken of an import is recorded of the
  package it loads; the fold of lockfiles depends on no order.

## 2. Modules

| Module | Models | Composed with |
|---|---|---|
| `TaskServer` | abstract specification of a pool: a first-come first-served server | – |
| `WorkerPool` | `class WorkerPool` and its threads | implements `TaskServer` |
| `WorkerPoolProofs` | theorems about `WorkerPool` and `ParallelRun` | extends `ParallelRun` |
| `ParallelRun` | `processInParallel` | extends `WorkerPool` |
| `BackupStore` | `backup.js` and the writing commands | – |
| `BackupStoreProofs` | theorems about `BackupStore` | extends it |
| `RegistryScan` | `checkIntegrity`, `checkDeprecations`, `checkVulnerabilities` | – |
| `RegistryScanProofs` | theorems about `RegistryScan` | extends it |
| `RegistryAuth` | `createRegistryAuth`, `authFor` | – |
| `RegistryRequest` | `getJson`, `postJson` | extends `RegistryAuth` |
| `RegistryRequestProofs` | theorems about `RegistryRequest` | extends it |
| `Pruner` | `findOrphanedPackages`, `prunePackages`, the prune command | – |
| `PrunerProofs` | theorems about `Pruner` | extends it |
| `LockfileCommands` | the commands that rewrite a lockfile: `migrator.js`, `fixer.js`, `checksum-fixer.js`, `updater.js`, `pinner.js`, `prune` | – |
| `LockfileCommandsProofs` | theorems about `LockfileCommands` | extends it |
| `Advisories` | versions, ranges and severities of `vuln.js` | – |
| `AuditRules` | the rules of `audit.js`, with `npmrc-validator.js` | extends `Advisories` |
| `AuditConfig` | `audit-config.js`, `exceptions.js` | extends `AuditRules` |
| `Report` | the stages, the gate and the exit code of `report.js` and `audit` | extends `AuditConfig` |
| `Remediation` | `remediate.js`; the properties of the three commands | extends `Report` |
| `RemediationProofs` | theorems about the order of versions and the three commands | extends it |
| `ModuleResolver` | `facts/resolve.js`, `facts/specifier.js` | – |
| `ImportScan` | `facts/scan.js` | – |
| `LockfileGraph` | `facts/lockfile-graph.js` | – |
| `Facts` | `facts/collect.js`, `facts/modulegraph.js` | extends `ModuleResolver`, instantiates the two others |
| `FactsProofs` | theorems about `Facts` and the three modules it is made of | extends it |
| `MC…` | constants for TLC | – |

`PROJECT.json` "map" gives the lines each definition translates. Definitions
commented "Mutant" are deliberate errors, used to confirm that a property can
fail; no specification uses them.

### 2.1 WorkerPool

The variables `workers`, `queue`, `active`, `terminated` and `info` are the
fields of the class and the record it keeps of each worker. `info[w].listener` is
the job the `message` listener was registered for (`once` and
`removeAllListeners` clear it). `thread`, `inbox`, `outbox` and `events` are the
thread and the messages and events between it and the main thread; `promise` and
`answer` are what the callers of `execute` see.

Each handler runs to completion on the main thread, so each is one action that
includes the `_dispatch` it ends with: `InitPool`, `Execute`, `Terminate`,
`OnMessage`, `OnError`, `OnExit`. `Work`, `Fault` and `Stop` are the thread's own
steps. `Dispatch` is written as a choice of how many jobs start and which idle
workers take them; it does not depend on the order of `this.workers`.

Things the model shows of the code that are not errors by its own documentation:
a job in flight at `terminate()` never settles (`processInParallel` never waits
for one); a result delivered after `terminate()` makes `active` −1 (nothing reads
it then); `init()` does not dispatch, so a job executed before `init()` waits for
the next event (`EarlyExecute = TRUE` shows the stall; `processInParallel`
calls `init` first). A `postMessage` that throws would leave a worker busy for
ever; it is not modelled, since the tasks are JSON data, which always clone.

### 2.2 ParallelRun

One call, `phase` by `phase`: refuse, return a single chunk, or start the pool,
submit every chunk, run the continuation of each settled chunk (`Continue`), merge
or throw, terminate in the `finally` and wait for the threads. Continuations are
microtasks, so `CallWaits` keeps worker events out while one is ready. A chunk's
processed form is the number of the chunk its result was computed from.

### 2.3 BackupStore

A command is the list of file-system calls it still has to make (`plan`); any
other process, an editor, or a crash may come between any two calls. `raced` is what
an editor put into a file between two calls of a command and no backup has been read
from it since: the code locks nothing, so a command that has read a file for its backup
overwrites an edit that comes then, and the properties exempt exactly that. Contents are
version numbers; a file opened for writing is `Torn` until written. A `setting`,
which never changes, says what runs at once and how fine the clocks are. A backup has
a name (millisecond and counter) and an mtime; `ListBackups` is the stable sort
of the directory by descending mtime. `setting.grain` says how many dated calls fit
a millisecond, so a grain of 4 produces the collisions of names and mtimes.

Observed and documented rather than forbidden: a backup that a crash left empty
is the newest, and `restore` would use it; `restore` makes no backup of what it
overwrites; two commands that overlap lose the first one's changes (which stay in
a backup); of two backups of one millisecond the older is listed first, though the
comment at `backup.js:120` says "newest-first"; two cleaners whose listings
straddle a new backup go below `--keep`. This is why the recovery properties are
stated for one process on a fine clock (`Orderly`) and the floor for one cleaner.

### 2.4 RegistryScan

The three scans share one shape and one copy of `mapWithConcurrency` each, so they
share one module; `scan` says which it is and the recorders differ. `Begin`
forms the units (`UnitsBy` puts together the candidates that a key sends to the same
place) and every lane takes one; `Answer` is the continuation after the
`await`, with everything the recorder does (each entry of the unit has an `Outcome`,
and `Record` adds what entries of that outcome add to the results); `Complete` is the count and the next
turn of the `while`. `told` remembers what the registry answered, so that the
verdict can be compared with it. A registry answer is abstracted to what the
recorders tell apart (see the module's head). Where the advisories of one name should
be, something that is no list (`Malformed`) counts as none (`vuln.js:305`); the verdict
of the properties is then that nothing was said ("unsaid"). A deprecation answer that is not an
object counts as "not deprecated" in the code, as in the model. An advisory that is
`null` makes the recorder throw: the call rejects while other lanes go on and
mutate results nobody will see (`Settle`, and `Answer` with "poison").

### 2.5 RegistryRequest and RegistryAuth

A call makes at most two requests ("hops"), each with its socket, its two timers
and its promise; settling the second settles the first. The network may connect,
answer, send, stall or break at any time; `Tick` is time, and may not pass a due
timer. The first hop's response is drained while the second runs, and its timers
still run and may reject the call: `SettledInTime` is therefore stated over the
sum of the deadlines. A body that arrived whole is a
document, the literal `null`, which the code answers as it answers a 404, or no JSON
(`Parses`). `RegistryAuth` computes the header from layered `.npmrc` entries: of two
for one scope the later, of several scopes the longest prefix of the path that has a
credential. `CredentialInScope` says that no overridden entry is sent, and none past a
longer prefix that has a token.

### 2.6 Pruner

`packages` is the map of the lockfile file; a key is a source directory and the
`node_modules` levels below it, so a key's enclosing packages are its prefixes.
`Begin` is a call of `prunePackages` up to the seeding of the queue, `WalkEntry`
one turn of the worklist with everything `walkEntry` and `visit` do, `Prune` the
return and the write of the command, after which the file may be pruned again.
The queue is a set (the order of the walk changes nothing the caller sees). The
dependency sections followed from every entry are one set, `devDependencies`
the other. `ResolutionCandidates` and `VisitDependency` are the code's upward
search; the reference `Resolved` says which installed copy Node's rule means,
without a search. A lockfile's links lead to source directories, never into
`node_modules` (`PrunerAssumption`; npm writes others only with
`install-strategy=linked`, which is outside the model).

### 2.7 LockfileCommands

One document, `lock`, in up to two forms: the `packages` map and the nested
`dependencies` tree, here a function from paths of names. `manifest` is
package.json and `exit` the exit code of the last command. Each command is one
step with everything it does to both forms; what may come between its file calls
is in `BackupStore`. The conversions are the code's: `LegacyNode` and
`PackageEntry` say what each direction keeps of an entry, so what a round trip
through version 1 forgets is forgotten here. `AsWritten` is the lockfile npm would
write for a project, and `origin` remembers what each entry really is. Hashes are
the true one, a placeholder, a sha1, a sha1 that `upgrade-hashes` has relabelled,
one of a local file, or none.

### 2.8 Advisories, AuditRules, AuditConfig, Report, Remediation

One run of `report`, `audit` or `remediate`, stage by stage; a run is chosen in
`Init` with its project, configuration files, flags and everything the registry
will say. `AuditRules` says what each rule finds, `AuditConfig` which settings and
exceptions are in force, `Report` what happens to the findings (buckets,
`applyScanExceptions`, `dedupeRemoteFindings`, sections, budgets, gate),
`Remediation` what is planned and written. Findings are records of a place, an
identity and severities; wording is left out. A place begins with the file or the key
of `packages` where the finding is, and an exception may name it as it is written
(`FindingPackage`). A lockfile of version 1 has no `packages`, and most rules find
nothing in it; `.npmrc` is a sequence of entries, the last of which decides. The
stages wait for the network but nothing else can change their findings meanwhile, so they are steps in sequence.
`Advisories` compares versions as the code does, identifier by identifier; the
reference is `Precedes`, the order that semver.org publishes, which `MCRemediation`
in turn checks against a chain of versions written in that order.

### 2.9 ModuleResolver, ImportScan, LockfileGraph, Facts

`ModuleResolver` is which file an import loads: extensions tried in order, the walk
up `node_modules`, `exports` and `imports` maps with conditions and patterns,
`main`, `module`, links and tsconfig aliases; a target of an `imports` map goes through
the resolver again. `ImportScan` is what the scan of one
file yields (its sites, the names it binds, those that are referenced, and which text of a
`.svelte` file is script); the parser itself is external, so a file is given as its
declarations, uses and markup tokens, and whether text that was copied out of markup
parses is a choice. What a file really takes of an import (`Takings`) is stated apart
from the scan: off the call itself, through a name, by an export list, where it is
declared, or through a promise. `LockfileGraph` folds sightings. `Facts`
composes them: `ReadSource` per source file, then one action per outcome of
following an import (`SkipNoLoad`, `FollowUnresolved`, `FollowElsewhere`,
`FollowLoaded`, `FollowPastBudget`, `FollowUnread`, `FollowParsed`), then one
`ReadLockfile` per lockfile. The resolver is a pure function of the tree, which
does not change while its facts are collected, so its answers are tabulated once,
in `resolution`; `loads` is a history table of what the imports really load, which
differs where a package takes the name of a builtin.

## 3. Runs

| Run | Instance | Shows |
|---|---|---|
| `WorkerPool_safety` | 3 tasks (symmetric), 2 workers, 1 thread death, 2 `init`, `terminate` at any time | the safety properties below, and that the pool implements `TaskServer` |
| `ParallelRun_call` | up to 3 chunks on 2 workers, 2 deaths, four operations | all chunks in order or an exception, no thread left, progress; the call and every task of the pool settle |
| `BackupStore_settings` | one process, all commands, `--keep 1`, crashes, edits between any two calls; two processes at 4 dated calls per millisecond, one cleaning | what is overwritten is backed up unless it was edited after the backup was read; torn files and half-done `pin` can be restored; immutable backups; the floor of `--keep` |
| `RegistryScan_all` | 2–3 entries, 2 registries, 2 names, 2 versions, 2 hashes, 0 or 2 lanes, slices of 1 or 2 | accounting, fail-closed, no false alarm, quiet after return, no deadlock |
| `RegistryRequest_call` | 2 hosts, paths of 0 or 1 segment, 5 layered `.npmrc` pairs, cap 2, idle 1, deadline 3 | answers, credentials, deadlines, sockets |
| `Pruner_prune` | 10,000 lockfiles over 7 keys: a nested copy, cycles, a workspace with its own and a linked name; pruned twice | the closure, resolutions, hosts, idempotence, termination |
| `LockfileCommands_any_order` | 12 projects (nested, bundled, git, file and workspace packages), three lockfile versions and a damaged one, every command with every answer of the registry | four properties over any sequence of commands |
| `LockfileCommands_stamps` | the same | violated: placeholders are stamped on what has no registry hash |
| `Remediation_runs` | about 8,000 runs: a chain of 12 versions against 60 ranges, what scans meet, which registries are deaf, exceptions, flags, rules over odd projects, layers of configuration, `remediate` | the exit code is earned, nothing vanishes, advisories match exactly, the plan accounts |
| `Remediation_uncertain` | the runs with scans | violated: a finding recorded as a warning so as not to fail a run does fail it |
| `Facts_collect` | one project with every kind of import, every budget and any failing reads; every `.svelte` markup of one import among 3 tokens; up to 3 lockfiles that name a package up to three times | gaps are told, everything taken of an import is recorded, the fold is fair |
| `Facts_gaps` | three small trees | violated: packages are left out without a word |

### 3.1 Properties, by question

* *Is a task ever lost, run twice or answered with another's result?* `OneOwner`,
  `OwnAnswer`; and `ImplementsServer`, the refinement of `TaskServer`.
* *Does the pool stall, leak capacity or trust a dead thread?* `WorkConserving`,
  `CapacityKept`, `NoReapedWorker`, `EveryTaskSettles`.
* *Is a partly failed parallel run ever returned?* `AllOrNothing`,
  `ProgressCounts`, `CallSettles`.
* *Can a crash or an overlap lose a file?* `OverwrittenIsBackedUp`,
  `TornIsRestorable`, `PinUndoable`, `BackupsImmutable`, `CleanKeepsNewest`.
* *Can a scan pass without having checked, or blame wrongly?* `Accounted`,
  `FailClosed`, `NoFalseAlarm`, `QuietAfterReturn`; that a call settles is the
  absence of deadlock, since every step of a running scan makes progress.
* *Can a request report the wrong thing, hang, or leak a credential?*
  `AnsweredByLast`, `SettledInTime`, `SocketsReleased`, `CredentialInScope`.
* *Does prune remove something needed?* `KeepsExactlyNeeded`, `SameResolution`,
  `HostsStay`, `PruneOnce`, `Terminates`.
* *Can a sequence of commands damage a lockfile?* `LockedKept`, `FixedOrReported`,
  `PinnedIsInstalled`, `ValidStays`.
* *Can a run pass that should not, or hide what it found?* `ExitIsEarned`,
  `NothingVanishes`, `AffectedExactly`; *or change what it should not?* `PlanAccounts`.
* *Can the facts be silently wrong?* `GapsTold`, `UseCredited`, `MergedFairly`.

### 3.2 Bounds, and why they are enough

Two workers and three tasks give a queue behind busy workers, completions out of
order, a respawn and a late message of an old worker in one behaviour; a second
`init` puts records of both lives side by side. Three chunks are the least with a
first failure, a later continuation and one still running. For backups, one
process with crashes covers each command and each half-done command followed by
another; the races need two writers or a writer and a cleaner, and a third process
shows what survives a race. Two entries give every pair of equal or different
registry, name and version (deprecation and integrity); advisories need three for
a name with two versions beside another name. One redirect is the budget of every
caller. The commands on a lockfile are explored to the end, so any sequence of
them is covered; two versions of one package at two places and one workspace make
the two forms differ wherever the conversions can. For `report`, runs vary one
part at a time around a base (the parts meet only in the gate, where scans,
exceptions and flags are varied together). Markups have one import and three more
tokens: an opener, a closer and something that hides one of them. Budgets go from
nothing to one more than the installed files that have imports. For the pruner,
two levels of `node_modules` and one workspace give every case of the upward
search (own, enclosing, project); the theorems cover the rest. `MaxWorkers`,
`MaxInits`, `MaxFaults`, `MaxTime`, `MaxVer` bound what would otherwise count for
ever; the guards that use them are the only ones not taken from the code.

### 3.3 Fairness

*WorkerPool*: the event loop fires every pending event, a thread asked to stop
stops, and a thread that has a task answers it or dies. Nothing obliges a caller
to call or a thread to fail. *ParallelRun*: the same, and the main thread runs
what is ready. *RegistryRequest*: time passes and due timers fire; nothing is
assumed of the registry. *Pruner*: the walk is one synchronous call, so it goes
on. The other specifications have none, and no liveness property.

`EveryTaskSettles` is checked in `ParallelRun_call`, on the pool as its only caller
drives it (`terminate` after a failed chunk included), which also holds it without
the symmetry that liveness checking does not allow.

### 3.4 Findings

1. `LockfileCommands_stamps`: `fix` stamps `sha512-PLACEHOLDER` on links, file
   dependencies and bundled packages once a migration through version 1 has dropped
   the fields that told them apart.
2. `Remediation_uncertain`: an advisory that could not be matched to a version is
   recorded as a warning "never a run-failing error", and still trips the severity
   gate of `report`, which reads the severity of the advisory.
3. `Facts_gaps`: three ways in which a package that is loaded is left out without a
   gap being told: a builtin's name with a slash or a path after it, a package
   without a package.json, a script lost from a `.svelte` file of a package.

### 3.5 Other observations

Met while modelling; none is a run of its own.

* *Pool*: the `exit` listener ignores a clean exit of an idle worker, which is then
  still given tasks (`IdleCleanExit = TRUE` shows it; `NoReapedWorker` fails then).
* *Parallel run*: a large lockfile of exactly one chunk comes back without the
  operation having run (`ReturnChunk`), though `@returns` says "Processed lockfile".
* *Backups*: the order within a millisecond and the two cleaners of §2.3; an edit that
  comes after `createBackup` has read the file and before the command writes it is in
  no backup.
* *Requests*: a 200 whose body is the literal `null` is taken for "no such package"
  (`integrity.js:166`).
* *Scans*: advisories of a name that are no list count as none (`vuln.js:305`).
* *Rules*: `.npmrc`'s rule set to "off" also skips its security checks; an exception
  expires at the start of the day it names (`isExpired` compares instants, and its comment
  says "strictly before"); `failOn.severity` of the configuration file is parsed
  and never read (`docs/CLI.md:252` says it gates).
* *Remediation*: an advisory without an id flags nothing; a dependency declared in
  two sections is bumped in the first only.
* *Facts*, use that is not counted: `docs/API.md:288-289` says that use is never
  under-reported, and `types.d.ts:39-42` that a property-access binding is a reference by
  construction and that any occurrence counts, a re-export too. But a part taken directly
  off a call, as in `require('p').foo()`, `(await import('p')).foo()` or a nested pattern, is a binding of
  its site that is neither referenced nor makes the site opaque (`scan.js:217`); in
  `import { a } from 'p'; export { a }` and in `export const { a } = require('p')` the
  part is not counted either (`scan.js:393`); of `import('p').then(...)` the binding is
  `then`, whatever the callback takes; and a part whose name is quoted is passed over.
  `Uncounted` names exactly these: with it empty `UseCredited` fails, and with it the part,
  where it is known, must still be shown.
* *Facts*, else: of two imports that give a whole module the same local name in two blocks
  only the last is followed (`trackedIdentifiers`; `UseCredited` leaves it out as
  `Rebound`); a nested `link` does not end the upward search in a lockfile, though the
  comment at `lockfile-graph.js:191` speaks of one; the dependencies of workspace
  members are not root dependencies in npm's form; a first-party import that is not
  found is only counted.

## 4. Proofs

`WorkerPoolProofs` proves, for every number of tasks, places, worker records,
`init` calls and faults (`PoolAssumption` only says that these are numbers, that
`Size` is positive and that `None` is no task): `TypeCorrect`, `OneOwnerHolds`,
`OwnAnswerHolds`, `CapacityHolds`, `WorkConservingHolds` (when `execute` follows
`init`) and `NoReapedWorkerHolds` (when no idle thread exits with code 0; the
first observation of §3.5 is what happens otherwise).

None of these is inductive alone. `OneOwner` says that a pending promise has one
owner; to keep it when a message arrives one must know that the listener and
`current` agree and that a busy record means a held job (`Coherent`), and that the
message in a mailbox is about the job held (`Mailed`), which in turn needs that a
dead record's late messages find no listener and that a fresh worker has empty
mailboxes (`Unspawned`). Capacity needs that a worker is spliced at most once
(`dead` implies outside the pool). `Deaths` relates the events a thread left to
why it died. `IInv` is their conjunction.

Every handler ends in `_dispatch`, so the invariant's parts are operators of a
queue, a pool and records *not yet assigned*, and the lemmas `DispatchTypes`,
`DispatchCoherent`, `DispatchOwned`, `DispatchMailed` and `DispatchDrains` say once
what a dispatch does to whatever a handler hands it. There is then one lemma per
action (`InitPoolStep`, `ExecuteStep`, `TerminateStep`, `MessageStep`, …) and the
temporal theorems.

`PrunerProofs` proves the five safety properties of `Pruner` for every lockfile,
infinite ones included. `IInv` says that the walk has all roots, that every entry
taken from the queue has its edges in `reachable` (so that an empty queue means
closed), and that `reachable` lies in every closed set (so that it is the least).
`VisitIsResolved` relates the search to Node's rule, by the depth of each candidate.
`KeptResolution` says a dependency whose copy stays means the same copy; its hard
half needs that a visible copy has a deepest one, which is where well-foundedness
of the natural numbers comes in (`LeastNumber`). `HostsAreReached` uses leastness:
the entries whose enclosing packages were reached form a closed set. `PruneOnce`
needs the last conjunct of `IInv`, that a pruned lockfile is its own least closed
set, which `KeptEdges` carries over a prune.

`ImplementsServerHolds` is the refinement: if nothing is executed before `init()`,
every step of the pool is a step of `TaskServer` or a stutter. The server's waiting
line is the pool's queue, what it is running are the `current` jobs of the pool's
workers, and it is open while the pool has workers and is not terminated. A handler
maps to the settling of a job together with the start its `_dispatch` makes; that no
place stays empty while a task waits needs `WorkConserving`, which is part of `IInv`,
hence the assumption that nothing is executed before `init()`.

`RegistryRequestProofs` holds for every `.npmrc`, path, cap and pair of time limits
(`RequestAssumption`: they are positive and the idle limit is the shorter; a path is a
sequence of strings). The invariant adds to the three properties which request is the
*last*: a call that is pending has its last request at work (`Pending`), within its
own deadline, which starts where the first ended. A stale event of the first request
(its drained body, its timers) changes nothing but its own fields; that is why the
invariant says where the first connection is once it has been followed.
`AnsweredByLast` says that `null` stands for a 404 of the last request, or for its body
received whole. `CredentialInScope` rests on lemmas about `AuthFor`: what it returns was
granted to a prefix of the path by the entry in force there (`FieldIsGranted`,
`HeaderIsField`), and no longer one has a token, since a token that is
set gives a header (`GrantedIsSet`, `TokenGivesHeader`, `AuthIsGranted`).

For the call, `WorkerPoolProofs` reuses the invariant of the pool: every step of the
call is a step of its pool or leaves it alone (`PoolStep`). What it adds is `EventEffect` (an event
settles at most the job its worker held) and `RunInv`, which says who may still be
alive in each phase, which continuations are ready, and what the call is about to
return. `AllOrNothing` needs `Ready`: while the call terminates, a chunk that was
answered and not yet counted keeps some thread from being gone, so nothing that
counts can come too late. `ChunkAssumption` says that tasks are the numbers from 1.

`BackupStoreProofs` has two invariants. `GeneralInv` holds in every setting, for any
number of processes (a finite one) on any clock: what may be left of a command's plan
(`Ordered`, and the shape of each command), that an empty backup is filled by one
process only (`Filling`), and that a lone cleaner spares `Keep` names (`Spares`).
`BackupsImmutable` and the floor of `CleanKeepsNewest` follow from it. `OrderlyInv`
holds one command at a time on a fine clock: before a command truncates a file, the
newest backup holds what the file holds (`Saving`); `pin` and `restore` know what
they read (`Pinning`, `Restoring`); a cleaner's list leaves `Keep` newer backups for
each one it removes (`Tidying`); a torn file is in the newest backup (`TornSaved`).
Since an editor may come between any two calls, each of these says of a content that it
is in the newest backup or was put there by such an edit (`Safe`), and that a file is as
the command read it or has been edited since (`AsRead`); a backup that is read makes the
file safe again, and no other call takes safety away (`SafeKept`).
The listing is a stable sort: that its head is the newest, and that each place has
one backup, comes from `RankedElement`, a count instead of an
induction over sequences.

`RegistryScanProofs` proves the four properties of the scans for every lockfile,
answer, batch size and number of lanes. `IInv` says that the units share the
candidates out (`Parted`; established by `UnitsShareOut` for each of the three ways
of forming units), that each unit taken has one lane (`Shared`), and that the
results are the tally of the outcomes of the candidates recorded so far
(`Counted`, by `Tally`). A lane that records its unit adds the tally of a set
disjoint from the recorded ones (`TallyMore`, `RecordStep`); a lane that throws keeps
its unit for good, which is why an incomplete tally is never returned. The properties
then compare one candidate's outcome with the one answer given to its unit;
`SeveralVersions` settles when the server's filter may be trusted.

`LockfileCommandsProofs` proves its four properties for every project npm may have
installed. `ProjectsAssumption` says what that means: a nested package is in an
installed one, only a link to a directory has no version, what is bundled has no
source of its own, a loose range is not a git dependency's, and an exact range is
installed; TLC evaluates it for the projects of the runs. `IInv` says that each form
of the lockfile still stands for what was installed (`MapFits`, `TreeFits`), that
where both are there the tree has what the map has, with its version and its true
hash (`Agree`: without it, going down to version 1 could lose a hash that only the
map had), and that the root entry declares what pruning has to keep (`Declares`).
Every command is a composition of the four conversions and of changes of hashes;
each of these has a lemma that it fits and `Keeps` what was locked, and `Keeps` is
transitive. That no conversion makes up a node to hold others rests on nesting,
which `prune` must keep: `NestedIsKept` shows that the entries of the least
self-sufficient set whose hosts are also in it are self-sufficient, so all of it.

`RemediationProofs` first compares versions: `SemverOrder` says that the sign of the
code's comparison is the published order, for any two versions with any pre-releases,
`SemverTotal` that this is a strict total order, `RangesMatchOrder` that a range admits
what the order puts inside it. It then proves the four properties of the three commands
for every run of the shape `RunsAssumption` gives: finite sets of findings, a version
that is parsed where an advisory is matched, exceptions with a package wherever they
have a version, a severity of the ladder or none, an advisory with an id of its own or
none, and a package.json where `remediate` is at work. The code makes each of these
sure before the stages start, or the registry does; TLC evaluates them for every run.
`Inv` says what the stages that have passed keep of their findings: `NothingVanishes`
speaks of the end only, so it is not inductive: what a stage found must survive every later
one, or be taken out only by an exception that was applied (`RuleTaken`, `Kept`), and, for
the remote rules, stand behind a finding that is no milder (`dedupe` is the one stage
that removes findings without an exception). `ExitIsEarned` needs that and that the
exit code counts what is shown. The plan and the files are followed by `PlanInv` and
`DiskInv`. Two assumptions came out of failed attempts: that the declared ranges have an
operator and a version only, and that a key of `packages`, which is a directory, is
never one of the files that rules judge (`JudgedFiles`).

`FactsProofs` proves the three properties of the facts for every tree of the shape
`TreesAssumption` gives: finitely many files, each a sequence of imports; sources
outside `node_modules`, where the search for them does not go; lockfiles that are
sequences of entries. TLC evaluates it for the trees of the runs.

* `WalkInv` says that each source is to be read, read or told (`SourcesKept`), that each
  file of the walk was parsed, is told unread or past the budget (`VisitedKnown`), and that
  each import of a file that was parsed has left its trace (`Followed`) unless it is one
  that the file's item in the queue has still to follow (`Pending`). Traces only grow
  (`Grows`), which is why nothing followed is ever lost. When the queue is empty this
  gives `Accounted` for every file read, and, along the closure that `LoadedUntold`
  computes, for every file that is loaded (`UntoldAccounted`).
* It rests on what the resolver returns (`ResolveSound`: the file is there, in the
  package it is said to be in) and on what the pass over `.svelte` markup copies
  (`NoScriptLost`, when no tag is left unaccounted for): the pass jumps forward from token to token, so what it copies and
  what it skips over is what lies at the tokens its jumps come to (`OrbitUnion`). Two passes
  that differ in what they take for a comment are compared through these.
* `UseCredited` needs what the scan makes of each way to take a part: at the import itself
  (`AtOnceCovered`) or by an occurrence of a name, which the code looks up without regard
  to blocks and the reference with it (`UseCovered`).
* `MergeInv` says that each record is what the lockfiles read so far say of it (`Fair`),
  a package with a contested hash having none. It needs the conflicts to outlive each
  lockfile: an npm lockfile met after a conflict starts its own record with a hash again,
  and only the merge with what was known takes it away (`FairAdds`).

The prover cannot instantiate an induction over an operator. A recursive definition of the model is
a function on an interval of numbers: `Recursion` shows that it exists, and
`Upward` what holds at its end, a least counterexample taking the place of the induction.

Only model-checked:

* liveness (`EveryTaskSettles`, `CallSettles`, `SocketsReleased`, `Terminates`) and
  `ENABLED`, which the prover does not handle, and absence of deadlock;
* that the inputs of the runs meet the named assumptions, and the three violations of §3.4,
  which are counterexamples.

## 5. Not modelled, and why

* *Progress reporter, streaming parser*: a bar on a terminal, and a file read in
  pieces before `JSON.parse`; nothing else depends on their state.
* *pnpm format*, and the grammars of JSON, YAML, semver ranges and globs: format
  details dominate.
* *Validators* of single fields: no state, no order; unit tests reach them. What the
  lockfile validator requires of the two forms together is `Valid`.
* *SPDX expressions*: an input of the licence stage ("approved", "rejected",
  "unknown"); the evaluation itself is recursive over text.
* *Rendering*, wording, and the conversion of findings to the shared schema.
* *Command line*: flag parsing and printing.
* *Registry requests*: URL builders, the caches of `integrity.js`, hashing.
* *Within what is modelled*: of `.svelte` markup, open tags with an unclosed quote;
  in the facts document, `nodeModulesMissing` and the counter of unresolved imports;
  of lockfile records, licence and address (the first one seen is kept); an
  `imports` map whose target is another `#` key.

Integer widths do not matter here (counts are far below 2^53).

## 6. Plan

Done: the pool, the parallel run, backups, scans, requests, the pruner; the commands
on a lockfile in any order; audit, report and remediation; the facts.

Every safety property and action property that a run checks is also a theorem. What
could come next is more of the code: the caches of `integrity.js` and its URL builders;
the validators of single fields; the licence expressions as trees; and, in the facts,
`nodeModulesMissing` and `imports` maps that lead to one another.
