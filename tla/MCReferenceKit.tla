--------------------------- MODULE MCReferenceKit ---------------------------
(* The guided screen of the reference kit, and its runs with the archives    *)
(* that are made of them.  The two modules share no state; `side` says which *)
(* of them a behaviour is about, the other rests in its initial state.       *)
(*                                                                           *)
(* Screen: two controllers, two sessions on CPUs that are not in ascending   *)
(* order, so that a tie is broken by number and not by position, and two     *)
(* faults.  Runs: two result directories, two preparers that want the same   *)
(* second, two attempts and two faults.                                      *)
EXTENDS MCDiscovery

CONSTANTS Runs, Preparers, Stamps, None, Attempts, Failures

VARIABLES
  side,
  kind, controller, cancelled, late, held, working, journal, events, state, active,
  unsynced, pp, job, temp, archive, checksum, archiveWas, checksumWas, cut, final, failures

R == INSTANCE ReferenceRun
       WITH pc <- controller, aborted <- cancelled, load <- working, faults <- failures,
            MaxFaults <- Failures

runs == <<kind, controller, cancelled, late, held, working, journal, events, state, active,
          unsynced, pp, job, temp, archive, checksum, archiveWas, checksumWas, cut, final,
          failures>>

ArchiveIsFinal       == R!ArchiveIsFinal
ReturnedIsExportable == R!ReturnedIsExportable
ConfirmationsAlone   == R!ConfirmationsAlone

-----------------------------------------------------------------------------
InScreen(A) == side = "screen" /\ A /\ UNCHANGED <<side, runs>>
InRuns(A)   == side = "runs" /\ A /\ UNCHANGED <<side, vars>>

KitInit == Init /\ R!Init /\ side \in {"screen", "runs"}

ScreenNext ==
  \/ \E c \in Procs :
       \/ InScreen(Start(c)) \/ InScreen(Resume(c)) \/ InScreen(Authorize(c))
       \/ InScreen(Export(c)) \/ InScreen(Abort(c)) \/ InScreen(Deadline(c))
       \/ InScreen(Crash(c)) \/ InScreen(Ensure(c)) \/ InScreen(Enter(c))
       \/ InScreen(Refused(c)) \/ InScreen(Check(c)) \/ InScreen(InitChild(c))
       \/ InScreen(Reconcile(c)) \/ InScreen(Skip(c)) \/ InScreen(PublishStart(c))
       \/ InScreen(EndLoop(c)) \/ InScreen(Spawn(c)) \/ InScreen(Close(c))
       \/ InScreen(After(c)) \/ InScreen(Derive(c)) \/ InScreen(PutFile(c))
  \/ \E s \in Sessions :
       \/ InScreen(OwnerNotices(s)) \/ InScreen(OwnerRefuses(s)) \/ InScreen(OwnerMeasures(s))
       \/ InScreen(OwnerCommits(s)) \/ InScreen(OwnerGivesUp(s)) \/ InScreen(OwnerExits(s))
       \/ InScreen(OrphanDrains(s)) \/ InScreen(OwnerKilled(s))
  \/ InScreen(Reboot)

RunsNext ==
  \/ \E r \in Runs :
       \/ \E k \in {"fixed", "confirmation"} : InRuns(R!Begin(r, k))
       \/ InRuns(R!Open(r)) \/ InRuns(R!BindManifest(r)) \/ InRuns(R!Settle(r))
       \/ InRuns(R!StartAttempt(r)) \/ InRuns(R!AttemptValid(r)) \/ InRuns(R!SessionCommits(r))
       \/ InRuns(R!RecordEnd(r)) \/ InRuns(R!WriteState(r)) \/ InRuns(R!RemoveActive(r))
       \/ InRuns(R!Return(r)) \/ InRuns(R!SessionStops(r)) \/ InRuns(R!AttemptInvalid(r))
       \/ InRuns(R!AttemptFails(r)) \/ InRuns(R!WorkloadsFail(r)) \/ InRuns(R!OrphanDrains(r))
       \/ InRuns(R!Interrupt(r)) \/ InRuns(R!Deadline(r)) \/ InRuns(R!LoseAuthorization(r))
       \/ InRuns(R!Killed(r))
  \/ \E p \in Preparers :
       \/ \E r \in Runs, n \in Stamps : InRuns(R!Take(p, r, n))
       \/ InRuns(R!Tar(p)) \/ InRuns(R!Link(p)) \/ InRuns(R!CopyBegins(p))
       \/ InRuns(R!CopyEnds(p)) \/ InRuns(R!Vouch(p)) \/ InRuns(R!Vouched(p))
       \/ InRuns(R!PrepareFails(p)) \/ InRuns(R!PreparerKilled(p))
  \/ InRuns(R!PowerCut)

KitNext == ScreenNext \/ RunsNext

KitSpec == KitInit /\ [][KitNext]_<<side, vars, runs>>
=============================================================================
