# A TLA+ verification of fault-affinity

fault-affinity runs a trusted workload many times under controlled CPU
placements and keeps a durable record of what happened, on hosts that are
expected to hang or reset in the middle. This directory models the parts of it
that have to stay right through crashes, cancellations, restarts and several
processes working on one record: the resumable schema-3 bundle with its lease,
files and attempts; the schema-2 bundle of `diagnose.sh` with its redo
transactions, pinned protocols and telemetry; the two commands that run as root;
and the guided screen of the reference kit. The modules are checked with TLC on
small instances; what most of them promise is also proved with TLAPS, for every instance.

Line numbers refer to the repository, paths are below its root.

## 1. Inventory

| Component | State it keeps | Operations | Interacts with |
|---|---|---|---|
| Bundle owner (`diagnose-lib/schema3-bundle.mjs`) | manifest, one store per phase, `attempt-armed.json` | initialize, read, run one unit of a phase | lease, stores, attempt runner |
| Lease (`bundle-execution-lease.mjs`) | flock on the bundle directory's open description | acquire (through a `flock` child), assert, retain for a supervisor, release | owner, supervisor (fd 4) |
| Phase stores (`*-phase-store.mjs`) | one file per committed unit | initialize, read, commit next | state files |
| State files (`pinned-protocol.mjs`) | records and temporaries of a private directory | list with recovery, read, commit, remove | every store |
| Attempt runner (`attempt-runner.mjs`) | terminal choice, protocol state, cleanup actions | launch, deadline, abort, cleanup, result | supervisor over IPC |
| Supervisor (`attempt-supervisor.mjs`) | the workload it spawned, emergency timers | ready, launch, shutdown, emergency cleanup | runner, process group |
| Waves (`baseline-phase.mjs`, `group-phase.mjs`, `pinned-concurrent-phase.mjs`) | results of the lanes | run all lanes, cancel peers | attempt runner |
| Controlled load (`controlled-load-session.mjs`, `controlled-load-workers.mjs`) | worker set state, boundary snapshots | start, verify, stop, run an A-B-A session | managed runner |
| Pinned orchestration (`src/fault-affinity/cli.mjs`, `pinned-wave-client.mjs`, `pinned-wave-owner.mjs`) | the command's view, one owner process per wave, a record on a pipe | read, spawn, judge, forward signals | bundle owner, waves |
| Debugger phase (`debugger-*.mjs`) | three files per attempt, capture count | run, commit, discard orphans | state files, attempt runner |
| CLI and report store (`src/fault-affinity/cli.mjs`, `campaign-report-store.mjs`) | the view of the last read, three report artifacts | phase loops, campaign, publication | bundle owner, state files |
| Schema-2 bundle (`diagnose.sh`) | `meta.env`, phase markers, evidence, redo transaction, manifest | open, resume, redo, run a phase, finalize | everything below `diagnose-lib` |
| Pinned protocol executor (`diagnose.sh`, `pinned-runner.mjs`, `pinned-launch-worker.mjs`, the supervising shell library) | one process group, its lease pipe and watchdog | start a unit, gate lanes, commit, drain, retry | protocol phase |
| Pinned protocol phases (`diagnose.sh`, `pinned-protocol.mjs`) | observations, sidecars, terminal metadata, finalization stage | create, run units, publish, resume, declare unavailable | executor, telemetry, marker |
| Telemetry (`telemetry-*.mjs`, `diagnose.sh`) | segments of a phase, a published pair | sample, bound, recover, judge | protocol phase |
| Frequency experiment (`frequency-ab.sh` and its library) | system settings, restore ledger, guard lock, stage | restore, set, measure, hand over | frequency publication |
| Frequency publication (`publish-frequency-transaction.sh`) | fence, journal, candidates | prepare, install, commit, clean up, adopt | schema-2 bundle |
| Root checks (`root-checks.sh`, `publish-root-checks-output.sh`) | a stage at a fixed path, a marker | collect, recover, hand over, publish | schema-2 bundle |
| Reference kit discovery (`src/reference-kit/discovery-*.mjs`) | plan, history, children, report | create, resume, run a session, publish, authorize | session owners, leases |
| Reference runs and archives (`controller.mjs`, `confirmation-cli.mjs`, `prepare-results.mjs`) | journal, status, active marker; archive and checksum | run, confirm, prepare | discovery, attempt runner |

What is hard here: owners that crash between any two steps and resume on stale
views; a supervisor that outlives its owner; a commit that is four system calls;
PIDs that come back; exit messages that race a deadline, a cancellation and a
supervisor's own cleanup; workloads that ignore TERM; lanes and workers that fail
while their peers run; publications of several files that a kill or a power loss
cuts in two, while an older marker still speaks; system settings that have to
come back whatever happens; a restart that begins the monotonic clock again.
`PROJECT.json` lists each hazard at the line where it bites, with the property
that covers it.

What makes each component correct:

- owner and stores: each store is a prefix of its schedule, grown only by the
  unit that has just run under the lease; no unit of one bundle runs beside
  another; a breadcrumb found after a reset says which unit was entered;
- lease: exclusive over owners and supervisors, and free again in the end;
- state files: nothing torn, nothing replaced, and whatever a dead writer left
  can be settled;
- attempts: a natural exit is one, a survived window was survived, a complete
  cleanup left nothing behind, and both return and reaping always happen;
- waves: published whole or not at all, and the failure they report is the cause;
- controlled load: the load is complete during all of B and absent during A1 and
  A2, and every worker is accounted for before the session returns;
- debugger store: always readable, a log of whole attempts up to either limit;
- pinned orchestration: each wave on the controller CPU the schedule names, no two
  waves together, and no commit reported that is not durable;
- schema-2 bundle: a marked phase is whole and measured with the settings on
  record (but for what `DiagnoseRelabel` reports), what is redone is redone with everything derived from it, and nothing
  that was moved aside is lost;
- protocol executor: nothing of a group is alive when it counts as drained, and a
  committed unit ran as planned, alone;
- protocol phases: terminal metadata speaks only for durable rows, a phase has one
  outcome, and resuming it often enough ends it;
- telemetry: "complete" means that every observation was sampled, and damaged
  telemetry never keeps the workload's evidence from being completed;
- frequency: the original settings are on record before anything is changed and come
  back, a leg runs under one setting, and a publication is a transaction;
- root checks: a marker names one collection; an orphaned stage is recoverable;
- reference kit: sessions exclude each other, published reports and archives are
  final, and what returned can be exported.

## 2. Modules

Schema 3:

- `SchemaBundle.tla` is the bundle owner as the CLI drives it. An owner is one
  CLI process; `pc` walks through *open - read - lock - read - arm - run -
  commit - clear - re-read*. `committed` is the phase stores, `armed` the
  breadcrumb, `attempt` the units that live supervisors work on, `published` the
  report artifacts, `litter` a temporary left in the root that recovery does not
  know. The lease has no variable: flock stays locked while any process has the
  description open, so `LeaseHolders` is derived from the owners inside their
  critical section and the supervisors that were handed the descriptor
  (`Retaining` is the set of phases whose runner does that). A wave or a session
  is one unit. Inputs of the model are the jobs an owner may start with.
- `BundleLedger.tla` is the abstract promise: units are entered one at a time,
  each the next of its phase, and completed or abandoned. `SchemaBundle`
  implements it under `ledger <- committed` and `entered <- ` the breadcrumb
  while its unit is not committed (property `LedgerSpec`).
- `StateFiles.tla` is `createFileStateAdapter` by system call. Temporaries carry
  writer PID, stage and content; `final` maps names to published content.
  `Unleased` names are committed outside a lease session (report artifacts),
  `Collection` names are those whose ready temporaries recovery publishes,
  `Verified` names are committed by `commitOrVerify` whether published or not.
- `AttemptLifecycle.tla` is one attempt: the runner, the supervisor, the process
  group and both directions of the IPC channel. Time is one event, the deadline;
  grace periods may end at any moment. `managed` is the runner that insists on a
  live start; something outside may kill the supervisor.
- `ConcurrentWave.tla` is one wave: the owner, a lane per attempt, the shared
  `AbortController` (`Cancelled`: the listener of each runner chooses at once and a
  chosen cause is final), and the supervisors, which hold the lease. The three
  phases with waves have the same control, so there is one module. A lane is an
  attempt reduced to what its peers and the next wave see of it: its launch, the
  cause it chose, and its two cleanups, each in the steps of `AttemptLifecycle`. The
  runner kills the group, or asks for an orderly exit when nothing is there and no
  launch is on its way, and returns some time later; a supervisor that has lost its
  channel sends TERM, waits, and kills the group with itself in it. A killed process
  dies later, the owner may crash and a supervisor be killed from outside at any time.
- `ControlledLoad.tla` is an A-B-A session and its worker set. `stage` is where
  `runControlledLoadSession` waits, `set` and `failure` are `state` and
  `failureCode` of the set. Each worker has its managed runner, its processes
  (a supervisor and a workload, or an orphaned workload), the cause its runner
  chose, its readiness and whether its cleanup was complete. Processes die at any
  time; the set learns of it later. `lapsed` is a history variable.
- `DebuggerStore.tla` is the store of debugger attempts: `part` is what is
  published of each run, a content is the nonce of the attempt it is of. Owners
  follow each other, as the lease has it. It implements `AttemptLog.tla`, a log of
  whole attempts that ends at either limit (property `LogSpec`). A run counts
  there as the attempt all three of its files are of; with a file missing, or of
  another attempt, it counts as none, which the log does not admit. So an
  envelope committed before its parts, or over parts a dead attempt left,
  breaks the property, as does a limit that is overlooked.
- `PinnedOrchestration.tla` is the pinned phase as the command runs it: `cli`,
  `view`, `aborted` and `exit` are the command, `own`, `cpu`, `answer` and `record`
  its owner process, `left` the supervisors an owner has left behind. Reads of the
  command hold the lease too, and nobody waits for it: a busy lease ends a command
  or makes an owner decline. A wave is one step here.

Schema 2:

- `DiagnoseBundle.tla` is the evidence directory over the sessions of `diagnose.sh`:
  a session opens, takes up a pending redo or begins one, configures, runs or skips
  each phase, finalizes and writes the manifest; an interrupt runs the traps, a kill
  does not. An artifact carries the setting it was measured with and an identity, so
  that a moved, a repeated and a lost artifact differ. The phases are a sample with
  the shape of the real dependencies: one that continues an incomplete attempt, two
  that start again, one derived from another (`Source`, `Closure`). It implements
  `EvidenceHistory.tla`: a phase is complete with a generation that is in force once
  and never returns after it was given up (property `HistorySpec`).
- `ProtocolExecutor.tla` is one unit of the v6 protocol at a time: the shell, the
  executor that leads the process group, the launch worker and the gated workload of
  each lane, the watchdog at the end of the lease pipe. `passed` says whether a
  protocol hands its lease on. Shell and executor may crash, a signal arrives at any
  time, a drain may time out.
- `ProtocolPhase.tla` is the phase on disk, in three variants (`kind`): isolated
  attempts, waves, and the legacy form. `view` and `disk` are the files as processes
  and as a power loss see them; a file is absent, empty, a header, rows, torn or odd,
  which is what the classifiers in `diagnose.sh` and the evidence readers tell apart.
- `Telemetry.tla` is the telemetry of such a phase: the sampler and its log, the
  start and the end that the session records around it, the envelope that judges
  them, the shell's marker; `clock` and `boot` make the monotonic clock start again.

Privileged commands:

- `FrequencyExperiment.tla` is `frequency-ab.sh`, as invocations that may overlap
  once one of them was killed: the ledger, the guard lock that
  live groups keep, settings, legs, the staged evidence with its record.
- `FrequencyPublish.tla` is the publication of a stage into the bundle by file:
  preflight, fence, binding, journal, candidates, renames, commit, cleanup,
  adoption; several stages wait for one bundle, and `diagnose.sh` may read and
  finalize in between.
- `RootChecks.tla` is `root-checks.sh` with its publisher. Nothing locks the stage,
  so invocations interleave there at every step; the publication has the bundle lock.

Reference kit:

- `Discovery.tla` is the guided screen: controllers, one session owner per target
  CPU, the history with a start and an end of each session, the children, the three
  published files, the leases of the coordinator and of each child, cancellation,
  deadlines, kills, a restart. Confirmation and preservation read its result.
- `ReferenceRun.tla` is a profile run or a confirmation, by the files it leaves
  (journal, events, status, active marker), and the processes that archive it. What the
  code does not synchronise is remembered (`unsynced` of a run; `archiveWas`,
  `checksumWas` of an archive's name) until a power cut chooses what is left.

`MC*.tla` give the instances and compose components that share no state; the modules
named `*Proofs` hold the theorems.

How they fit: `AttemptLifecycle` justifies the attempts of `ConcurrentWave` and
`ControlledLoad`, these the units of `SchemaBundle` and the waves of
`PinnedOrchestration`; `StateFiles` justifies the commits that are one step
elsewhere. `ProtocolExecutor` justifies the units of `ProtocolPhase` and the
observations of `Telemetry`, and these two the phases of `DiagnoseBundle`.
`FrequencyPublish` is the publication step of `FrequencyExperiment`.

Operators whose comment starts with "Mutant" are deliberate faults. They are used
by no specification; they document what each property would catch.

## 3. Runs

Modules that share no state are checked together. An MC module then EXTENDS one of
them and takes the others by INSTANCE under their own variables; a variable `side`
is chosen initially, the wrappers `InX(A)` let only the actions of that side
happen, and the other sides stay in one initial state. The graph is the disjoint
union of the graphs of the parts, so a property of one part is checked exactly as
it would be alone, and a liveness property is stated for its side.

| Run | Question | Bounds | Distinct states |
|---|---|---|---|
| `BundleCampaign` | Do owners that crash, resume and use stale views keep the bundle right, and does every command end? | 2 owners, 2 phases, 2+1 units, a campaign job and a single-phase job | 10 k |
| `StateStores` | Is a commit atomic, final and recoverable? Do crashes between the commits of a debugger attempt leave a log of whole attempts? | 2 PIDs, reused without limit, 3 kinds of name, 2 contents; 3 runs, 2 captures, 4 nonces | 615 k |
| `LoadedAttempts` | Is the load there in B, and only in B? Are terminal cause and cleanup of an attempt right in every interleaving, and do sessions end and groups get reaped? | 2 workers, 2 attempts per leg; one attempt of either runner, one helper, one deadline | 217 k |
| `PinnedPhases` | Is a wave whole and quiet when its lease is free; does a protocol unit run alone; does a phase on disk survive kills and power loss, end, and not depend on its telemetry? | 2 lanes; 2 lanes, 2 units, 2 faults; 3 units, 4 stops; 2 observations, 3 segments, 2 faults | 771 k |
| `PinnedOrchestration` | Placed, never two waves, and does a command end whose owner is signalled or lost? | 2 commands, 3 waves, 2 controller CPUs | 330 k |
| `DiagnoseEvidence` | Does a bundle under redo, interrupts and kills implement the history of its phases? Are the settings restored, is the publication a transaction, does a marker name one collection? | 3 phases of 2 artifacts, 1 redo, 2 stops; 2 invocations, 2 experiments, 3 troubles; 2 stages, 2 artifacts, 2 faults; 2 invocations, 2 payloads, 1 kill | 766 k |
| `ReferenceKit` | Do the sessions of a screen exclude each other, is what is published final, can what returned be exported? | 2 controllers, 2 sessions, 2 faults; 2 results, 2 preparers, 2 attempts, 2 faults | 1.2 M |

Five runs end in a counterexample, each against a sentence of the repository's own
documents or comments, quoted in `PROJECT.json`:

- `BundleResumable`: a crash inside the commit of the breadcrumb, or of a report
  artifact, leaves a temporary that recovery does not know and that
  the root inventory rejects. The bundle cannot be resumed any more.
- `BundleDebuggerOverlap`: the debugger runner is not given the lease's
  descriptor, so a replacement owner overlaps a live attempt.
- `DiagnoseRelabel`: a preset repeated on a resume resets the settings of phases that
  are complete; only the mode is compared with the bundle.
  The same comparison can leave a bundle stuck, which `PendingRecoverable` states as its one
  exception: a bundle made with `--quick --individual-runs 50` accepts
  `--resume D --quick --redo gdb`, which publishes `redo.pending` with the preset's runs as its
  target (`diagnose.sh:2238`). The transaction's own check refuses that target at 2132,
  and every later resume refuses it at 2029 until the marker is removed by hand.
  Nothing has been moved then, which the run checks and `RedosRecoverable` proves.
- `FrequencySignal`: a signal in a leg whose sampler has ended early makes the
  cleanup believe that a group is still running. It exits without restoring.
- `RootChecksStage`: a kill while the stage is removed file by file leaves a stage
  that no later run accepts.

The directory holds further instances of the same modules, to be run with
`tlc -config <name>.cfg <module>`. Properties that hold:

| Instance | Module | Properties |
|---|---|---|
| `StateStoresMore` | `MCStateStores` | readable once listed, nothing replaced, collections survive; the debugger store always readable, nothing in the next attempt's way |
| `PinnedPhasesMore` | `MCPinnedPhases` | waves whole, a failure ends a wave, a crash frees the lease; shell and disk agree on the frontier, an orphaned group is taken down; a resume refuses for a cause; a published envelope reads back |
| `DiagnoseEvidenceMore` | `MCDiagnoseEvidence` | nothing lost, an exact manifest, a redo finishes unless it is refused; commands recorded once, the fence excludes, stages finish; evidence kept, settings restored before publication; the manifest current after root checks |
| `DiscoveryFinishes` | `MCDiscovery` | a screen that is started and resumed publishes its report, unless the machine is restarted |

`LeaseComesFree` (a dead owner's lease comes free) and `AttemptReturns` (an attempt
returns, whatever its workload and supervisor do) hold in `BundleCampaign` and
`LoadedAttempts` when they are added to the properties of these. The remaining safety
invariants of the bundle, of an attempt and of a session are theorems of section 5.

And properties that do not hold, all found by the same reading of a comment or a
document against the code:

- `BundlePublish` (`MCSchemaBundle`, `PublishesUnderLease`): the campaign publishes its
  report after the lease was returned (`cli.mjs:1841`), while docs/decisions/0010:38
  says "Every operation that may reconcile or publish state holds an exclusive lease".
  The holder of the lease can meet the temporaries.
- `StateFilesRepublished` (`StateFiles`, `RecoveryNeverStuck`): `commitOrVerify`
  (`loaded-discovery-store.mjs:77`) writes a temporary for a report that is already
  published; a crash before its `link` fails leaves a pair that recovery refuses.
- `DiagnoseResumable` (`MCDiagnoseBundle`, `AlwaysResumable`): a signal after the traps
  are set (`diagnose.sh:6506`) and before `meta.env` is complete (6514 and following),
  or a kill while a marker still has mode 000 (857-884), leaves a bundle that no
  command accepts. docs/guides/run-diagnostics.md:210 promises to "Resume an
  interrupted run without discarding validated completed work".
- `ProtocolStage` (`ProtocolPhase`, `RetryDiscardsStage`): a file of the stage is itself
  written through a temporary (`pinned-protocol.mjs:2033`). A kill leaves it, and
  the next `protocol_finalize_stage_prepare` refuses the name (`diagnose.sh:2986`), against
  the comment at `diagnose.sh:2966`: "so SIGKILL cannot strand untracked wildcard
  directories".
- `FrequencyRestart` (`FrequencyPublish`, `OwnFencePasses`): a kill while the binding of
  the fence is written (`publish-frequency-transaction.sh:222`) leaves a torn one, which
  the retry of the same transaction refuses; line 2 calls the publication
  "restart-safe".
- `DiscoveryReboot` (`MCDiscovery`, `Preservable`): after a restart the drive may have
  another device number, and `discovery-store.mjs:190` compares device and inode with
  the stored binding. The comment at `discovery-controller.mjs:752` says "Evidence
  inspection must continue to work after a reboot".

Smaller observations of the same reading, which no run states: a frequency fence whose
stage was lost with `/tmp` stays until someone removes it; a discovery report that was
published in part blocks `--report` and the preview of a resume until a resume with
`--yes` completes it; two root checks of one bundle share the stage without a lock
(`root-checks.sh:431`) and may refuse each other, although no marker is ever wrong; a
legacy `phase_individual` records whatever status its child ended with, and a row that
is not of the plan makes every later resume refuse.

Why the bounds are enough. Two owners show every race on the lease, and the
theorems of section 5 are about any number; two phases tell "before" from "after"
in a campaign, two units of a phase tell "next" from "last". Owners run once, so
a resumed command is another owner. Two PIDs are a writer and a recovery; since
a PID may be started again after it exits, the number of processes is unbounded.
The attempt has no bounded data: one helper stands for all descendants because
cleanup treats members alike. Two lanes are one that fails and one that it
cancels, which is all a lane sees of its peers (three, checked once, are 16 million
states, and the theorems are about any number); two workers are one that fails and one that does
not; two attempts per leg put the signal before, between or after them. The first
and the last of three waves share their controller CPU, so a stale view may be
right by accident. Four nonces are one more than the runs, for an attempt that
died. Two faults are a session that dies and another that is disturbed while it
recovers; the four stops of a phase allow two retries of its finalization; the
three troubles of an experiment are a kill, a failure of what would repair it, and
a restart. One redo and two stops cover a redo that is interrupted, taken up
and interrupted again; the preset a command may name is one of
the two settings, so that naming it again may or may not change a key. The lists a command may redo
differ between `DiagnoseEvidence` and `DiagnoseEvidenceMore`, which takes the longest one. The two target CPUs of a screen are not in
ascending order, so a tie broken by number differs from one broken by position. The
header of each MC module names its bounds.

`CHECK_DEADLOCK FALSE` is set where the system really stops: commands, attempts and
phases that have ended, or whose bounded faults are used up.

## 4. Fairness

Only steps that the operating system or an event loop has to take are fair;
crashes, kills, signals and failures never are, and neither is a first start.

- `SchemaBundle!FairSpec`: each owner's own steps and the exit of a supervisor
  whose owner has gone. The bounded waits of every attempt (`AttemptReturns`) and the
  emergency timers of the supervisor (`GroupIsReaped`) justify it.
- `AttemptLifecycle` (`LoadedFairness`): the supervisor's and the runner's event loops,
  time, and the death of a process that got KILL. The workload owes nothing.
- `ControlledLoad` (`LoadedFairness`): the session's event loop, launches, the delivery
  of started and exit messages, and the return of a runner that has chosen. A worker
  may run for ever if nobody cancels it.
- `ConcurrentWave` (`PinnedMoreSpec`): the runner of a lane whose cause is chosen goes
  on with its cleanup and returns, a supervisor's timers fire and a killed one dies, the
  owner goes on. That an attempt ends by itself is not assumed, although its window
  would end it.
- `PinnedOrchestration!FairSpec`: the steps of a command, of an owner outside its wave,
  and the end of a wave that was told to stop.
- `ProtocolExecutor`: the watchdog, a process of its own that nothing stops.
- `ProtocolPhase` and `Telemetry` (`PinnedFairness`): the operator resumes, a session
  that is not stopped goes on, the sampler is scheduled, and a group without its
  shell is taken down.
- `DiagnoseBundle` (`EvidenceMoreSpec`): a session runs on, a workload group ends, and a
  bundle with a pending redo is resumed, as the message of the interrupted session asks.
  `RedoFinishes` leaves out the redo whose target every resume refuses (section 3).
- `FrequencyExperiment`: the experiment is invoked again, and what was started goes on
  (one weak fairness over all invocations: nothing says which of two goes first).
- `FrequencyPublish`: strong fairness of each transaction, since they alternate on the
  bundle lock and each is retried until its stage is gone.
- `Discovery`: processes run on; the operator starts the screen and resumes it.

## 5. Proofs

`SchemaBundleProofs.tla` proves, for any owners, phases, schedules and jobs, what
the bundle runs check on small ones: `TypeCorrect`, `StoresContiguous`,
`LeaseIsExclusive`, `AttemptsNeverOverlap`, `BreadcrumbAlwaysClassifiable`,
`BreadcrumbNamesWhatRuns`, `CommitsOnlyWhatItRan`, `ReportsAreComplete`,
`CampaignsKeepOrder` and `ImplementsLedger`. The assumptions are those of the
module (`Total` maps phases to naturals, jobs are sequences of phases); the
absence of overlap also assumes that every phase passes the descriptor on, which
the debugger phase does not.

The argument has three layers. The first, `Inv1`, types the state and says that an
owner past its first read has a phase, that one past arming has a unit, and that
stores are contiguous; contiguity is inductive because a commit accepts only
`Due`, and `Due` is the frontier plus one. The second is `LeaseExclusive`: a
step that adds a holder requires that there is none. The third, `Inv3`, is what
the first two are needed for. `Knowledge` says that an owner between its read and
its clear knows the true frontier of its phase and the true breadcrumb, because
nobody else can change either; `Classified` says that a breadcrumb is current or
reconciled. The breadcrumb and commit theorems and the refinement follow from it.
`Inv4` adds `Finished`: phases an owner saw complete stay complete, from which the
report and the campaign order follow.

`StateFilesProofs.tla` proves `FilesTyped`, `NothingTornEver`, `RecoveryIsNeverStuck`
and `ReadableAfterListing` for any processes, names and contents; it assumes only that
the marks for "no content", "torn" and "nobody" are none of the names, contents or
processes, and for recovery that `Verified` names are committed outside the lease
(`StateFilesRepublished` shows what happens otherwise). `Holds` says who has the lease;
since a session lists before it commits, and a listing leaves nothing over
(`Listed`), there is at most one leftover of a leased name (`Sole`), and it belongs to
the commit under way if there is one (`OwnTemp`). `InStep` ties its stage to the
commit's step, hence a leftover that looks ready is whole (`ReadyIsWhole`) and what
is linked from it is too. `Settled` says that the leftover is linked exactly if the
name is published, which is what recovery asks before it settles one.

`PinnedPhasesProofs.tla` has four parts, one per component of `MCPinnedPhases`; each
theorem is about the specification of its own component (`Spec`, `E!Spec`, `P!Spec`,
`T!Spec`) and does not depend on the composition, which only lets TLC check them side by side.

- Waves: `WavesAreWhole`, `RootCauses`, `LanesEndFirst` and `LeaseCoversLanes` for any
  set of lanes. The invariant adds what a valid lane has behind it (its own end, a
  complete cleanup) and that, until somebody fails or aborts, nobody is cancelled.
  `SupervisorsLast` says that a group whose supervisor is killed, or has gone by
  itself, has nothing left that was not killed too; it is why `LeaseCoversLanes`
  holds although a cleanup is many steps and two processes work at it. A supervisor
  killed from outside is the exception it names.
- Executor: `UnitsStartClean`, `ObservationsRanAlone` and `CountsAgree` for any lanes,
  units and faults, from `ExecInv`. What is committed is decided far from where a
  workload dies, so `LanesHonest` carries the truth along: a worker that was told
  nothing and whose load is gone, a result that is not a cancelled one and a valid
  answer each mean that the load ended by itself. `EmptyBetween` says that no group is left between two units,
  but for one that a session of another time left and that the lock does not cover;
  `CountFollows` ties the shell's count and the disk to the state of the leader, the
  window between a durable commit and its report included.
- Phases on disk: `TerminalMetadata` and `DecisionExcludesWork` for any number of units,
  from `PhaseInv`. The invariant speaks of what processes see and of what a power loss
  would leave (`DiskBehind`). `CompleteIsWhole` is `TerminalAuthority` made inductive: where
  either says complete, both have the same synchronized sidecars. `StepsTaken` says
  what a session has behind it at each of its steps, `MarkerIsLast` and `DecisionIsAlone`
  that a marker and a decision are the only thing still to happen to a phase.
- Telemetry: `CompleteIsCovered` and `EnvelopesReadBack` for any observations, segments
  and faults, from `TelemetryInv`; segments are numbered from one, and nothing else is
  assumed. An envelope is judged long after an observation ran unseen, perhaps by
  another session, so the invariant says what such an observation leaves behind:
  telemetry is then `Doomed`. Either no session takes its files up again (`Unusable`, a
  torn generation), or a segment is `Uncoverable`: its log ended before its boundary, or
  will have. `DoomedStays` is the lemma that nothing undoes this; that a boundary
  recovered after a reboot is later than the end of its log on the wall clock is
  what `assessTelemetryBoundaryCoverage` compares beside the monotonic clock.
  `EnvelopeStands` holds because the sampler keeps the bundle's lock: what an envelope was
  built from has no writer left.

`LoadedAttemptsProofs.tla` proves about a session `LoadHeld`, `BaselinesAreQuiet`, `SignalIsHeeded`,
`RunnersEndFirst` and `PeersAreCancelled`, for any workers and any leg length, which
only has to be positive. The conjunct that does the work is `LapseIsVisible`: a
worker lost during B stays lost, so the second boundary sees what a look at the
set's state might not. `CleanIsGone` carries the quiet of A2 from the valid stop,
`Accounted` the return of the runners, and `AbortStopsLegs` holds because no leg
can be finished after a signal unless its last attempt was under way.

About an attempt it proves `AttemptTyped`, `NaturalExitsAreNatural`,
`WindowsAreSurvived`, `CompleteCleanups`, `OrderlyExits` and `LeaseCoversGroups` for any
helpers and either runner, over every content of the two channels. A natural exit is
claimed from a message that may have been on its way while the deadline passed and the
supervisor began to kill, so the invariant is about the queue: `ExitIsTrue` says that an
exit message of a workload that did not die by itself has an announcement of the signal
ahead of it, unless the runner has chosen already; `SignalIsAnnounced` says that nobody signals
unheard. `ShutdownIsSafe` says that an orderly exit is asked for when the group is empty
and nothing can join it any more, `EmptyBeforeLaunch`, `AskedFirst` and `LaunchIsPast` that
nothing joins it unasked, and from these `CompleteMeansGone` is inductive.

`PinnedOrchestrationProofs.tla` proves `WavesArePlaced`, `ReportsAreDurable` and
`WavesExclude` for any commands, CPUs and waves. `LeaseExclusive` says that a
reading command, an owner or the supervisors of a lost one have the lease alone;
so nobody moves the prefix under a wave (`WavePlaced`), and the CPU that was
checked when the wave began is the one its envelope names.

`DiagnoseEvidenceProofs.tla` is about the privileged commands, again each by itself:

- Publication (`F!Spec`): `MixturesAreFenced` and the action property `FencesExclude`, for
  any stages, artifacts and faults. `PublicationInv` orders the transaction: what would
  vouch for the evidence is withdrawn before the fence is bound (`Withdrawn`), a plan is
  fixed once it is journalled (`PlanFixed`), what is done of it grows with the step
  (`Progress`), and outside a bound fence the evidence is that of the last commit
  (`EvidenceFollows`). `FenceSettled` isolates the one thing a power loss may take from a
  fence, a binding under way. `PublishAssumption`: no publication is named like "none",
  and the optional artifact is one of the artifacts.
- Experiment (`X!Spec`): `ChangedSettingsAreSaved`, `StagedEvidenceIsKept`, and the action
  properties `LegsSeeOneSetting` and `RestoresComeFirst`. Invocations exclude each other and each
  other's orphans (`Solo`), and what one has restored stays so until it changes it again
  (`RestoredSince`), so that evidence leaves the stage with every setting restored.
  `SettingsAssumption`: turbo and at most one frequency cap, as in the script.
- Root checks (`R!Spec`): `MarkedCollections` and `ManifestsAreCurrent` for any invocations
  and payloads. The stage is not locked, so nothing can be said of it; the theorems hold
  because a publication has the bundle's lock and copies with the marker withdrawn
  (`PublishersHold`). `RootAssumption`: a free lock is no invocation's.

`DiagnoseBundleProofs.tla` is about the bundle of `diagnose.sh` and its redo transactions, for
any phases, artifacts, settings and command lines, and any number of crashes. Its
invariant has three layers:

- `BundleInv` says where evidence is: every generation has a place (`HasPlace`) and was
  moved at most once (`MovedOnce`), nothing else is done while a redo is pending
  (`PendingAlone`), a redo that only has its marker left has moved everything (`ClearIsLast`), and what a
  manifest was written over is settled (`ManifestSettled`). `EvidenceIsKept` and `ManifestsAreExact`
  follow for every command line.
- `RedoInv` says what a marker and a pending redo may rely on. A redo withdraws the
  markers of its closure before the first move, and a closed set contains everything that was
  derived from one of its phases (`ClosedHasDerived`), so what stays complete has its source in place
  (`EvidenceStands`); a setting changes only under phases that are redone (`ChangesPlanned`); the
  evidence under a marker in the making was validated before (`MarkedIsChecked`). The theorems
  are `MarkersStandOverEvidence` and `RedosRecoverable`, for whatever presets commands name. A
  preset that is named again is the one way to change a setting over completed evidence, and both
  say what it can do: the key of a marked phase is the one its evidence was made with or
  the stored preset's (`Stands`, `Keeps`), and a redo that no resume takes up repeats the preset that
  is stored and has moved nothing (`RepeatsPreset`, `Untouched`). The stronger `MarkedAsConfigured` is what
  `diagnose_relabel` refutes.
- `HistoryInv` says which artifacts belong together: those of one phase are of one
  generation and of no other phase's (`GenerationsApart`), a pending redo has recorded all there
  was of its phases (`RecordsComplete`), and what was moved away is in place nowhere else
  (`MovedAreGone`). With it `ImplementsHistory` proves the refinement of `EvidenceHistory`. A redo gives its phases up when its marker is renamed into place, while the
  markers and the artifacts are removed one by one afterwards, and a phase is complete
  when its marker can no longer be rolled back; every other step is a stutter (`HistoryStep`).

`OrderAssumption`, which the model's instances satisfy, says that phases run after the phase their
CPUs are chosen from, as in `main`, and that no phase has the derived report for an artifact.

`ReferenceKitProofs.tla` proves about the guided screen, for any controllers and any
sequence of CPUs, through kills and restarts:

- `SessionsOneAtATime` and `OneHolder`. A workload outlives its owner and an owner its
  controller, so no single lock excludes two workloads; the invariant follows the chain.
  One controller holds the coordinator (`OneController`), one owner has inherited it and is
  awaited by that controller if by any (`OneOwner`, `OwnerIsAwaited`), and what a
  controller has passed on its way through the children (`Passed`, `SeenFree`,
  `OnlyItsOwn`) says that no workload of a dead owner is left when it starts the next.
- `OneAnswer` and `CandidatesUndisturbed`, from `StoryInv`. A published report is final because
  it was made when everything was over (`AnswersWhenOver`): every session has an end, none
  is open, and whoever is alive works on the one that is open (`AliveIsOpen`,
  `WaitingIsOpen`). A disturbance may be recorded long after it happened; `DisturbedFails`
  says that until then the session can end in no other way than as failed. An owner is
  disturbed by a SIGTERM when its handler runs (`OwnerNotices`): its exit code follows
  (`discovery-session-owner.mjs:194`). A signal that comes after the last turn of its event
  loop is seen by nobody, the record says committed, the code is 0, and the client
  (`discovery-session-client.mjs:178`) lets the session count, although it had given up
  waiting for it. The measurement was over by then, so the model accepts it as the code does.
- Runs and archives (`R!Spec`): `ArchivesAreFinal`, `ReturnsAreExportable` and
  `ConfirmationsRunAlone`, for any runs, stamps and preparers. `Sealed` says of which runs
  nothing changes any more, a power cut included; preparers work on those only
  (`PreparersSeal`), one at a time creates under a name (`CreatorsAlone`), and a
  checksum is of what its creator has linked (`CreatedStands`). The preparer synchronises
  neither archive, checksum nor directory (`prepare-results.mjs:1077-1098`), so a power cut
  may keep a whole checksum and lose, tear or exchange its archive, or bring back what was
  removed; a checksum is not a commit across power cuts, whatever the publication mode
  `exclusive-copy-checksum-commit-v1` is called. What stands is what a reader can verify: an
  archive that matches its checksum is the final result of its run, because every checksum,
  on the disk or not yet, is of a sealed run (`ChecksumsSealed`). That a whole checksum has
  its archive is claimed for kills and failures only (`VouchedStands`, outside `cut`). `EndIsTold` follows
  the end of a session through the events, the journal and the status, which is what
  the inspection compares.

Each of these proofs has one step per action and one sub-step per conjunct of the
invariant that the action can disturb. Each inductive invariant was an invariant of a
TLC run before it was proved. Types are the first conjunct of each and no run of the
table repeats them.

Only model-checked:

- liveness, `Recovers`, `PhaseFinishes`, `TelemetryYields`, `NoCommandHangs`, `SessionReturns`,
  `GroupIsReaped`, `OwnersStop` and their like: fairness and ENABLED are beyond the prover;
- `DebuggerStore` with its refinement, `CommandsOnce`
  (a count over a log) and `RefusedForCause`: not attempted yet.

## 6. Abstractions and what is not modelled

- Envelope contents, digests, permissions and sizes: data the properties do not
  tell apart. An attempt's evidence is valid or not; rows of a file are the units
  they are of, or torn, or odd.
- The scan of `/proc` for group members is one step (`attempt-runner.mjs:215` reads
  them one by one), and workloads stay in their process group (docs/decisions/0002
  makes that the workload's contract). If the supervisor is killed from outside and
  the runner then dies, nobody is left to reap the group; `LeaseCoversGroup` and
  `GroupIsReaped` say so.
- Schema-3 directory operations take effect in program order, and power loss is a
  crash at a prefix of them. In `ProtocolPhase`, `FrequencyPublish` and `ReferenceRun`
  a power loss also takes back what was not synchronized, archives and checksums of the
  preparer included; those of a guided screen's archive are not followed.
- `flock` acquisition is one step; an abandoned `flock` child
  (`bundle-execution-lease.mjs:167`) may take the lease for a moment while it dies.
- A boundary of a worker set also checks CPU affinities; workers keep theirs in the
  model, so a boundary fails for a lost process only.
- The debugger's control protocol and channel buffers: an attempt is complete, with
  or without a capture, or it is not.
- `DiagnoseBundle` has two settings and three phases in place of all; option parsing
  is reduced to a preset and single settings, and the bundle's lock to one session at
  a time (a killed session may leave a workload group behind, which blocks the next).
- Not modelled at all: the initialization of a schema-3 bundle, evidence validators,
  report rendering, JSON documents, schedules and statistics, command lines, packaging,
  the site. `PROJECT.json` gives the reason for each.

## 7. Plan

1. `BundleInit`: restart after a crash between the manifest and the stores;
   `BundleLease`: the flock child, its timeout and the retry.
2. `CampaignReport`: the reader of a published report.
3. `DebuggerControl`: the control protocol of a debugger attempt and its deadline.
4. Proofs: `AlwaysReadable` and the refinement of
   `DebuggerStore`; then the new modules.
