--------------------------- MODULE MCPinnedPhases ---------------------------
(* Pinned phases of both bundles: the wave of the schema-3 bundle, and for   *)
(* diagnose.sh the group that executes a unit, the files of the phase, and   *)
(* the telemetry beside it.  The four modules share no state; `side` says    *)
(* which of them a behaviour is about, the others rest in an initial state.  *)
(*                                                                           *)
(* Wave: two lanes, so that one is cancelled by the other, each with the     *)
(* cleanups of its runner and its supervisor.  Executor: two lanes, two      *)
(* units and two faults, so that one session can die and the next be         *)
(* disturbed.  Phase: three units and four stops, enough for two retries of  *)
(* the finalization.  Telemetry: two observations, the second of them after  *)
(* a fault, and a segment for each resume.                                   *)
EXTENDS Naturals, ConcurrentWave

CONSTANTS PlanLanes, PlanUnits, ExecFaults, None,
          PhaseUnits, MaxStops,
          Observations, Segments, MaxSweeps, Gaps, MaxFaults

\* A plan has lanes, and None is no answer of a lane.
ASSUME ExecutorAssumption ==
  PlanUnits \in Nat /\ ExecFaults \in Nat /\ PlanLanes # {} /\ None \notin {"own", "valid"}

\* A phase has at least one unit.
ASSUME PhaseAssumption == PhaseUnits \in Nat \ {0}

\* Segments are numbered from one, and time passes while a machine is down.
ASSUME TelemetryAssumption == Segments \subseteq Nat \ {0} /\ Gaps \subseteq Nat

VARIABLES
  side,
  \* the executor
  protocol, passed, shell, fresh, seen, committed, leader, rc, guard, orphan, place,
  stray, tainted, struck,
  \* the files of the phase
  kind, view, disk, stage, obs, contexts, session, stops,
  \* the telemetry
  generation, log, start, boundary, index, meta, envelope, units, final, marked, sampling,
  listed, available, active, began, dying, up, watched, unseen, clock, boot, faults

E == INSTANCE ProtocolExecutor
       WITH Lanes <- PlanLanes, MaxUnits <- PlanUnits, MaxFaults <- ExecFaults,
            kind <- protocol, owner <- shell, lane <- place, faults <- struck
P == INSTANCE ProtocolPhase WITH Units <- PhaseUnits, pc <- session
T == INSTANCE Telemetry WITH Units <- Observations, done <- marked, pc <- sampling

executor  == <<protocol, passed, shell, fresh, seen, committed, leader, rc, guard, orphan,
               place, stray, tainted, struck>>
phase     == <<kind, view, disk, stage, obs, contexts, session, stops>>
telemetry == <<generation, log, start, boundary, index, meta, envelope, units, final,
               marked, sampling, listed, available, active, began, dying, up, watched,
               unseen, clock, boot, faults>>

NoLeftovers          == E!NoLeftovers
CommittedRanAlone    == E!CommittedRanAlone
TerminalAuthority    == P!TerminalAuthority
OneOutcome           == P!OneOutcome
CompleteMeansCovered == T!CompleteMeansCovered

\* Further properties (PinnedPhasesMore.cfg).
FrontierAgrees    == E!FrontierAgrees
GroupIsTakenDown  == E!GroupIsTakenDown
RefusedForCause   == P!RefusedForCause
EnvelopeReadsBack == T!EnvelopeReadsBack

\* A phase that is resumed often enough ends (ProtocolPhase, Finishes).
PhaseFinishes == side = "phase" => P!Finishes

\* Telemetry never keeps a phase from its marker (Telemetry, Finishes).
TelemetryYields == side = "telemetry" => T!Finishes

-----------------------------------------------------------------------------
InWave(A)      == side = "wave" /\ A /\ UNCHANGED <<side, executor, phase, telemetry>>
InExecutor(A)  == side = "executor" /\ A /\ UNCHANGED <<side, vars, phase, telemetry>>
InPhase(A)     == side = "phase" /\ A /\ UNCHANGED <<side, vars, executor, telemetry>>
InTelemetry(A) == side = "telemetry" /\ A /\ UNCHANGED <<side, vars, executor, phase>>

PinnedInit ==
  /\ side \in {"wave", "executor", "phase", "telemetry"}
  /\ Init /\ E!Init /\ P!Init /\ T!Init
  /\ side # "executor" => protocol = "isolated" /\ passed
  /\ side # "phase" => kind = "isolated"

WaveNext ==
  \/ InWave(Abort) \/ InWave(Finish) \/ InWave(Crash)
  \/ \E l \in Lane :
       \/ InWave(SendLaunch(l)) \/ InWave(Ends(l)) \/ InWave(Kill(l)) \/ InWave(AskExit(l))
       \/ InWave(ReturnValid(l)) \/ InWave(ReturnInvalid(l)) \/ InWave(Launch(l))
       \/ InWave(Die(l)) \/ InWave(Leave(l)) \/ InWave(Emergency(l)) \/ InWave(Fatal(l))
       \/ InWave(Escalate(l)) \/ InWave(SupDies(l)) \/ InWave(SupCrash(l))

ExecutorNext ==
  \/ InExecutor(E!OpenSession) \/ InExecutor(E!StartUnit) \/ InExecutor(E!PhaseEnds)
  \/ InExecutor(E!WaitReturns) \/ InExecutor(E!Drained) \/ InExecutor(E!DrainTimesOut)
  \/ InExecutor(E!ShellExits) \/ InExecutor(E!GuardArms) \/ InExecutor(E!Exec)
  \/ InExecutor(E!GuardSees) \/ InExecutor(E!GuardEnds) \/ InExecutor(E!Launch)
  \/ InExecutor(E!Commit) \/ InExecutor(E!ExecutorExits) \/ InExecutor(E!Interrupt)
  \/ InExecutor(E!StopEscalates) \/ InExecutor(E!Stopped) \/ InExecutor(E!ShellCrashes)
  \/ InExecutor(E!ExecutorCrashes)
  \/ \E l \in PlanLanes :
       \/ InExecutor(E!Close(l)) \/ InExecutor(E!RunnerKill(l)) \/ InExecutor(E!WorkerRefuses(l))
       \/ InExecutor(E!WorkerSpawns(l)) \/ InExecutor(E!WorkerReady(l))
       \/ InExecutor(E!GateOpens(l)) \/ InExecutor(E!GateFails(l)) \/ InExecutor(E!LoadEnds(l))
       \/ InExecutor(E!LoadStops(l)) \/ InExecutor(E!Report(l))

PhaseNext ==
  \/ InPhase(P!Resume) \/ InPhase(P!CreateSidecars) \/ InPhase(P!PublishPlan)
  \/ InPhase(P!WriteHeader) \/ InPhase(P!CreateMeta) \/ InPhase(P!FillMeta)
  \/ InPhase(P!RenameMeta) \/ InPhase(P!SyncMeta) \/ InPhase(P!Commit) \/ InPhase(P!UnitsEnd)
  \/ InPhase(P!PrepareStage) \/ InPhase(P!StageFile) \/ InPhase(P!StageMeta)
  \/ InPhase(P!MoveTsv) \/ InPhase(P!MoveBounds) \/ InPhase(P!SyncSidecars)
  \/ InPhase(P!MoveMeta) \/ InPhase(P!SyncTerminal) \/ InPhase(P!CloseStage)
  \/ InPhase(P!CloseStranded) \/ InPhase(P!Mark) \/ InPhase(P!DecideCreate)
  \/ InPhase(P!DecideFill) \/ InPhase(P!DecideSync) \/ InPhase(P!DecideMark)
  \/ InPhase(P!OddOutcome) \/ InPhase(P!Die) \/ InPhase(P!PowerLoss)
  \/ InPhase(P!TopologyChanges) \/ InPhase(P!Revisit)

TelemetryNext ==
  \/ InTelemetry(T!Resume) \/ InTelemetry(T!Mint) \/ InTelemetry(T!Prepare)
  \/ InTelemetry(T!Recover) \/ InTelemetry(T!SamplerStart) \/ InTelemetry(T!FirstSample)
  \/ InTelemetry(T!GiveUp) \/ InTelemetry(T!BoundaryStart) \/ InTelemetry(T!Launch)
  \/ InTelemetry(T!Commit) \/ InTelemetry(T!Complete) \/ InTelemetry(T!Finish)
  \/ InTelemetry(T!GroupStop) \/ InTelemetry(T!Stopped) \/ InTelemetry(T!Finalize)
  \/ InTelemetry(T!Publish) \/ InTelemetry(T!PublishPair) \/ InTelemetry(T!Mark)
  \/ InTelemetry(T!SamplerOpens) \/ InTelemetry(T!Sweep) \/ InTelemetry(T!SamplerFails)
  \/ InTelemetry(T!Reap) \/ InTelemetry(T!Die) \/ InTelemetry(T!Kill)
  \/ InTelemetry(T!Reboot)

PinnedNext == WaveNext \/ ExecutorNext \/ PhaseNext \/ TelemetryNext

\* The fairness of the two modules whose liveness is checked, on their side.
PinnedFairness ==
  /\ WF_phase(side = "phase" /\ P!Resume)
  /\ WF_phase(side = "phase" /\ P!Step)
  /\ WF_telemetry(side = "telemetry" /\ T!Shell)
  /\ WF_telemetry(side = "telemetry" /\ T!SamplerOpens)
  /\ WF_telemetry(side = "telemetry" /\ T!Sweep)
  /\ WF_telemetry(side = "telemetry" /\ T!Reap)

PinnedSpec == /\ PinnedInit
              /\ [][PinnedNext]_<<side, vars, executor, phase, telemetry>>
              /\ PinnedFairness

\* The same behaviours with the fairness of the wave and of the executor.
PinnedMoreSpec ==
  /\ PinnedInit
  /\ [][PinnedNext]_<<side, vars, executor, phase, telemetry>>
  /\ WF_vars(side = "wave" /\ Finish)
  /\ \A l \in Lane : /\ WF_vars(side = "wave" /\ RunnerStep(l))
                     /\ WF_vars(side = "wave" /\ SupStep(l))
  /\ WF_executor(side = "executor" /\ E!Guard)
=============================================================================
