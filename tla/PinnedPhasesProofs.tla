------------------------- MODULE PinnedPhasesProofs -------------------------
(***************************************************************************)
(* What MCPinnedPhases checks on small instances, for all values of the     *)
(* constants: first the wave, then the executor of a schema-2 unit (E), the *)
(* files of a pinned phase (P), the telemetry beside it (T).  Each part has *)
(* its inductive invariant, one step per action, and the theorems that      *)
(* follow.                                                                  *)
(***************************************************************************)
EXTENDS MCPinnedPhases, Integers, SequenceTheorems, TLAPS

-----------------------------------------------------------------------------
(* The inductive invariant. *)

\* A lane is valid only if it came to its own end and was cleaned up, and its
\* supervisor is then in no state to launch anything.
ValidLanes ==
  \A l \in Lane : lane[l] = "valid" => cause[l] = "own" /\ ~Alive(l) /\ ~SupUp(l)

\* From the moment its supervisor is killed by its runner or by itself, or has
\* gone, a group has nothing that was not killed as well.
SupervisorsLast == \A l \in Lane : sup[l] \in {"doomed", "gone"} => proc[l] # "live"

\* A supervisor that has heard no launch has launched nothing: one that exits
\* before it has announced itself leaves nothing.
LaunchIsHeard == \A l \in Lane : proc[l] # "none" => told[l] = "heard"

\* Somebody cancelled before a lane was cancelled.
CancelsHaveCause ==
  firstFailure = NoLane /\ ~external => \A l \in Lane : cause[l] # "cancel"

\* The wave has returned when its outcome is known, and then all lanes have.
Finished == /\ outcome # "none" => owner = "ended"
            /\ owner = "ended" => AllReturned
            /\ outcome = "committed" => firstFailure = NoLane

IInv == /\ TypeOK /\ ValidLanes /\ SupervisorsLast /\ LaunchIsHeard
        /\ CancelsHaveCause /\ RootCauseReported /\ Finished

-----------------------------------------------------------------------------
LEMMA InitIInv == Init => IInv
BY LaneAssumption
   DEF Init, IInv, TypeOK, ValidLanes, SupervisorsLast, LaunchIsHeard, CancelsHaveCause,
       RootCauseReported, Finished, AllReturned, Returned

LEMMA NextIInv == IInv /\ [Next]_vars => IInv'
<1> SUFFICES ASSUME IInv, [Next]_vars PROVE IInv'
  OBVIOUS
<1> USE LaneAssumption
    DEF IInv, Finished, AllReturned, Returned, Alive, SupUp, LaunchIsHeard, TypeOK, ValidLanes,
        SupervisorsLast, CancelsHaveCause, RootCauseReported
<1>1. CASE Abort
  BY <1>1 DEF Abort, Cancelled
<1>2. CASE Finish
  BY <1>2 DEF Finish, attempts
<1>3. CASE Crash
  BY <1>3 DEF Crash, attempts
<1>4. ASSUME NEW l \in Lane, LaneStep(l) PROVE IInv'
  <2>1. CASE SendLaunch(l)
    BY <2>1 DEF SendLaunch, Running, control
  <2>2. CASE Ends(l)
    BY <2>2 DEF Ends, Running, control
  <2>3. CASE Kill(l)
    BY <2>3 DEF Kill, KillGroup, Running, control
  <2>4. CASE AskExit(l)
    BY <2>4 DEF AskExit, Running, control
  <2>5. CASE ReturnValid(l)
    BY <2>5 DEF ReturnValid, Cleaned, Running, control
  <2>6. CASE ReturnInvalid(l)
    <3> USE <2>6 DEF ReturnInvalid, Running, RecordFailure, Cancelled
    <3>1. TypeOK'
      OBVIOUS
    <3>2. ValidLanes'
      OBVIOUS
    <3>3. SupervisorsLast'
      OBVIOUS
    <3>4. LaunchIsHeard'
      OBVIOUS
    <3>5. CancelsHaveCause'
      OBVIOUS
    <3>6. RootCauseReported'
      OBVIOUS
    <3>7. Finished'
      OBVIOUS
    <3>9. QED
      BY <3>1, <3>2, <3>3, <3>4, <3>5, <3>6, <3>7
  <2>7. CASE Launch(l)
    BY <2>7 DEF Launch, control
  <2>8. CASE Die(l)
    BY <2>8 DEF Die, control
  <2>9. CASE Leave(l)
    BY <2>9 DEF Leave, control
  <2>10. CASE Emergency(l)
    BY <2>10 DEF Emergency, control
  <2>11. CASE Fatal(l)
    BY <2>11 DEF Fatal, control
  <2>12. CASE Escalate(l)
    BY <2>12 DEF Escalate, KillGroup, control
  <2>13. CASE SupDies(l)
    BY <2>13 DEF SupDies, control
  <2>14. CASE SupCrash(l)
    BY <2>14 DEF SupCrash, control
  <2>15. QED
    BY <1>4, <2>1, <2>2, <2>3, <2>4, <2>5, <2>6, <2>7, <2>8, <2>9, <2>10, <2>11, <2>12, <2>13, <2>14 DEF LaneStep, RunnerStep, SupStep
<1>5. CASE UNCHANGED vars
  BY <1>5 DEF vars, control, attempts
<1>6. QED
  BY <1>1, <1>2, <1>3, <1>4, <1>5 DEF Next

THEOREM WaveInvariant == Spec => []IInv
BY InitIInv, NextIInv, PTL DEF Spec

-----------------------------------------------------------------------------
\* A wave is published whole: with every lane valid, none cancelled, and none
\* of its workloads running.
THEOREM WavesAreWhole == Spec => []CommittedWhole
<1>1. IInv => CommittedWhole
  BY DEF IInv, TypeOK, CommittedWhole, ValidLanes, Finished, AllReturned, Returned
<1>2. QED
  BY <1>1, WaveInvariant, PTL

\* The failure a wave reports is never the echo of another lane's failure.
THEOREM RootCauses == Spec => []RootCauseReported
BY WaveInvariant, PTL DEF IInv

\* A wave that has returned has no lane left.
THEOREM LanesEndFirst == Spec => []NoLaneOutlivesWave
<1>1. IInv => NoLaneOutlivesWave
  BY DEF IInv, Finished, NoLaneOutlivesWave
<1>2. QED
  BY <1>1, WaveInvariant, PTL

\* A free lease means that no workload of the wave goes on, however the cleanups of
\* the owner and of its supervisors fell together, but for one whose supervisor was
\* killed from outside.
THEOREM LeaseCoversLanes == Spec => []FreeLeaseMeansQuiet
<1>1. IInv => FreeLeaseMeansQuiet
  BY DEF IInv, FreeLeaseMeansQuiet, LeaseFree, SupervisorsLast
<1>2. QED
  BY <1>1, WaveInvariant, PTL

-----------------------------------------------------------------------------
(* The executor of a unit.                                                   *)
\* What is known of one lane.
LaneRecord == [worker : {"none", "early", "gate", "run", "report", "gone"},
               load : {"none", "gate", "run", "gone"},
               ended : {None, "own", "stopped"}, told : BOOLEAN, asked : BOOLEAN,
               res : {None} \union [launched : BOOLEAN, canceled : BOOLEAN],
               ans : {None, "valid", "invalid"}]

LanesTyped == place \in [PlanLanes -> LaneRecord]

\* A lane counts as ended by itself only if it did.
Honest(r) ==
  /\ r.ended = "own" => r.load = "gone"
  /\ r.worker = "early" => ~r.told /\ (r.load = "gone" => r.ended = "own")
  /\ r.worker = "run" /\ r.load = "gone" /\ ~r.told => r.ended = "own"
  /\ r.res # None /\ r.res.launched /\ ~r.res.canceled => r.ended = "own"
  /\ r.ans = "valid" => r.ended = "own"

LanesHonest == \A l \in PlanLanes : Honest(place[l])

\* The group of a unit is empty before the next one starts; what a killed
\* session left behind is only met if it does not hold the lock.
EmptyBetween ==
  shell = "between" => ~E!LeaderLive /\ (passed \/ ~fresh => E!GroupEmpty)

\* Nothing has happened to the lanes before they are launched.
BlankBefore == leader \in {"wrapper", "exec"} => \A l \in PlanLanes : place[l] = E!Blank

\* How far the executor is tells how the shell's count and the disk differ.
CountFollows ==
  /\ shell = "drain" => leader = "dead"
  /\ shell = "between" => seen = committed
  /\ leader \in {"wrapper", "exec", "lanes"} => committed = seen /\ seen < PlanUnits
  /\ leader = "committed" => committed = seen + 1
  /\ shell \in {"wait", "drain"} /\ leader = "dead" /\ rc = "ok" => committed = seen + 1

ExecInv == /\ E!TypeOK /\ LanesTyped /\ LanesHonest /\ BlankBefore /\ EmptyBetween
        /\ CountFollows /\ E!NoLeftovers /\ E!CommittedRanAlone
-----------------------------------------------------------------------------
(* Preservation.  First what the signals and a lane's own steps do to lanes. *)

\* A lane of which no process is left.
Quiet(r) == r.worker \notin {"early", "gate", "run", "report"} /\ r.load \notin {"gate", "run"}

\* Processes end, and lanes stay honest about how.
Subsides ==
  /\ LanesTyped' /\ LanesHonest'
  /\ \A l \in PlanLanes : Quiet(place[l]) => Quiet(place'[l])
  /\ \/ leader' = leader /\ rc' = rc /\ leader \notin {"wrapper", "exec"}
     \/ leader' = "dead" /\ rc' = "killed"

LEMMA ActiveLanes == E!Active \subseteq PlanLanes
BY ExecutorAssumption DEF E!Active

LEMMA TerminatedKeeps ==
  ASSUME NEW r \in LaneRecord, Honest(r)
  PROVE  /\ E!Terminated(r) \in LaneRecord /\ Honest(E!Terminated(r))
         /\ Quiet(r) => Quiet(E!Terminated(r))
<1>1. CASE r.worker = "early"
  BY <1>1 DEF E!Terminated, LaneRecord, Honest, Quiet
<1>2. CASE r.worker = "gate"
  BY <1>2 DEF E!Terminated, LaneRecord, Honest, Quiet
<1>3. CASE r.worker = "run"
  BY <1>3 DEF E!Terminated, LaneRecord, Honest, Quiet
<1>4. CASE r.worker \notin {"early", "gate", "run"}
  BY <1>4 DEF E!Terminated
<1>5. QED
  BY <1>1, <1>2, <1>3, <1>4

LEMMA AskedKeeps ==
  ASSUME NEW r \in LaneRecord, Honest(r)
  PROVE  LET s == [E!TerminatedTwice(r) EXCEPT !.asked = TRUE]
         IN  s \in LaneRecord /\ Honest(s) /\ (Quiet(r) => Quiet(s))
<1>1. /\ E!TerminatedTwice(r) \in LaneRecord /\ Honest(E!TerminatedTwice(r))
      /\ Quiet(r) => Quiet(E!TerminatedTwice(r))
  <2>1. CASE r.worker \in {"early", "gate", "run"} /\ (r.told \/ r.worker = "early")
    BY <2>1 DEF E!TerminatedTwice, LaneRecord, Honest, Quiet
  <2>2. CASE ~(r.worker \in {"early", "gate", "run"} /\ (r.told \/ r.worker = "early"))
    BY <2>2, TerminatedKeeps DEF E!TerminatedTwice
  <2>3. QED
    BY <2>1, <2>2
<1>2. ASSUME NEW s \in LaneRecord, Honest(s)
      PROVE  /\ [s EXCEPT !.asked = TRUE] \in LaneRecord /\ Honest([s EXCEPT !.asked = TRUE])
             /\ Quiet(s) => Quiet([s EXCEPT !.asked = TRUE])
  <2>1. [s EXCEPT !.asked = TRUE] \in LaneRecord
    BY DEF LaneRecord
  <2>2. Honest([s EXCEPT !.asked = TRUE])
    BY <1>2 DEF LaneRecord, Honest
  <2>3. Quiet(s) => Quiet([s EXCEPT !.asked = TRUE])
    BY DEF LaneRecord, Quiet
  <2>4. QED
    BY <2>1, <2>2, <2>3
<1>3. QED
  BY <1>1, <1>2

LEMMA AbortKeeps ==
  ASSUME NEW f \in [PlanLanes -> LaneRecord], \A l \in PlanLanes : Honest(f[l])
  PROVE  /\ E!Abort(f) \in [PlanLanes -> LaneRecord]
         /\ \A l \in PlanLanes : Honest(E!Abort(f)[l]) /\ (Quiet(f[l]) => Quiet(E!Abort(f)[l]))
<1>1. ASSUME NEW l \in PlanLanes
      PROVE  /\ E!Abort(f)[l] \in LaneRecord /\ Honest(E!Abort(f)[l])
             /\ Quiet(f[l]) => Quiet(E!Abort(f)[l])
  BY AskedKeeps DEF E!Abort
<1>2. QED
  BY <1>1 DEF E!Abort

LEMMA TermSubsides == ASSUME LanesTyped, LanesHonest, E!TermGroup PROVE Subsides
<1> DEFINE once == [l \in PlanLanes |-> E!Terminated(place[l])]
           f(M) == [l \in PlanLanes |-> IF l \in M THEN place[l] ELSE once[l]]
<1>1. /\ once \in [PlanLanes -> LaneRecord]
      /\ \A l \in PlanLanes : Honest(once[l]) /\ (Quiet(place[l]) => Quiet(once[l]))
  BY TerminatedKeeps DEF LanesTyped, LanesHonest
<1>2. /\ \/ leader' = leader /\ rc' = rc /\ leader \notin {"wrapper", "exec"}
         \/ leader' = "dead" /\ rc' = "killed"
      /\ place' = once \/ \E M \in SUBSET PlanLanes : place' = E!Abort(f(M))
  BY DEF E!TermGroup
<1> HIDE DEF once
<1>3. ASSUME NEW M \in SUBSET PlanLanes
      PROVE  /\ f(M) \in [PlanLanes -> LaneRecord]
             /\ \A l \in PlanLanes : Honest(f(M)[l]) /\ (Quiet(place[l]) => Quiet(f(M)[l]))
  BY <1>1 DEF LanesTyped, LanesHonest
<1> HIDE DEF f
<1>4. ASSUME NEW M \in SUBSET PlanLanes
      PROVE  /\ E!Abort(f(M)) \in [PlanLanes -> LaneRecord]
             /\ \A l \in PlanLanes : Honest(E!Abort(f(M))[l]) /\ (Quiet(place[l]) => Quiet(E!Abort(f(M))[l]))
  BY <1>3, AbortKeeps
<1>5. QED
  BY <1>1, <1>2, <1>4 DEF Subsides, LanesTyped, LanesHonest

LEMMA SubsidesEmpty ==
  ASSUME Subsides PROVE (~E!LeaderLive => ~E!LeaderLive') /\ (E!GroupEmpty => E!GroupEmpty')
BY DEF Subsides, E!LeaderLive, E!GroupEmpty, E!Descendants, E!Working, E!Loaded, Quiet

\* A lane of a group that has just started.
LEMMA BlankHonest == E!Blank \in LaneRecord /\ Honest(E!Blank)
BY ExecutorAssumption DEF E!Blank, LaneRecord, Honest

LEMMA KillSubsides == ASSUME LanesTyped, LanesHonest, E!KillGroup PROVE Subsides
<1>1. ASSUME NEW l \in PlanLanes
      PROVE  /\ place'[l] \in LaneRecord /\ Honest(place'[l])
             /\ Quiet(place[l]) => Quiet(place'[l])
  <2>1. /\ place[l] \in LaneRecord /\ Honest(place[l])
        /\ place'[l] = [place[l] EXCEPT !.worker = IF E!Working(l) THEN "gone" ELSE @,
                                      !.load = IF E!Loaded(l) THEN "gone" ELSE @]
    BY DEF LanesTyped, LanesHonest, E!KillGroup
  <2>2. QED
    BY <2>1 DEF LaneRecord, Honest, Quiet, E!Working, E!Loaded
<1>2. QED
  BY <1>1 DEF E!KillGroup, E!LeaderLive, Subsides, LanesTyped, LanesHonest

\* A step of one lane that has a process, and leaves it honest.
LEMMA SetKeeps ==
  ASSUME ExecInv, NEW l \in PlanLanes, NEW r \in LaneRecord, Honest(r), ~Quiet(place[l]), E!Set(l, r)
  PROVE  ExecInv'
<1>1. LanesTyped' /\ LanesHonest'
  BY DEF ExecInv, E!Set, LanesTyped, LanesHonest
<1>2. BlankBefore' /\ EmptyBetween'
  BY DEF ExecInv, E!Set, BlankBefore, E!Blank, EmptyBetween, E!GroupEmpty, E!Descendants, E!Working, E!Loaded, Quiet, E!LeaderLive
<1>3. E!TypeOK' /\ CountFollows' /\ E!NoLeftovers' /\ E!CommittedRanAlone'
  BY DEF ExecInv, E!Set, E!TypeOK, CountFollows, E!NoLeftovers, E!CommittedRanAlone
<1>4. QED
  BY <1>1, <1>2, <1>3 DEF ExecInv

LEMMA LaneStepKeeps ==
  ASSUME ExecInv, NEW l \in PlanLanes,
         E!RunnerKill(l) \/ E!WorkerRefuses(l) \/ E!WorkerSpawns(l) \/ E!WorkerReady(l) \/ E!GateOpens(l)
           \/ E!GateFails(l) \/ E!LoadEnds(l) \/ E!LoadStops(l) \/ E!Report(l)
  PROVE  ExecInv'
<1> DEFINE R == place[l]
<1>1. R \in LaneRecord /\ Honest(R)
  BY DEF ExecInv, LanesTyped, LanesHonest
<1>2. \E r \in LaneRecord : Honest(r) /\ ~Quiet(R) /\ E!Set(l, r)
  <2>1. CASE E!RunnerKill(l)
    <3>1. /\ [R EXCEPT !.worker = "gone"] \in LaneRecord /\ Honest([R EXCEPT !.worker = "gone"])
          /\ ~Quiet(R)
      BY <1>1, <2>1 DEF E!RunnerKill, E!Working, LaneRecord, Honest, Quiet
    <3>2. QED
      BY <2>1, <3>1 DEF E!RunnerKill, E!Set
  <2>2. CASE E!WorkerRefuses(l)
    <3> DEFINE r == [R EXCEPT !.worker = "gone", !.res = E!Outcome(R)]
    <3>1. r \in LaneRecord /\ Honest(r) /\ ~Quiet(R)
      BY <1>1, <2>2 DEF E!WorkerRefuses, E!Outcome, LaneRecord, Honest, Quiet
    <3>2. E!Set(l, r)
      BY <2>2 DEF E!WorkerRefuses
    <3>3. QED
      BY <3>1, <3>2
  <2>3. CASE E!WorkerSpawns(l)
    <3> DEFINE r == [R EXCEPT !.load = IF protocol = "isolated" THEN "run" ELSE "gate"]
    <3>1. r \in LaneRecord /\ Honest(r) /\ ~Quiet(R)
      BY <1>1, <2>3 DEF E!WorkerSpawns, LaneRecord, Honest, Quiet
    <3>2. E!Set(l, r)
      BY <2>3 DEF E!WorkerSpawns
    <3>3. QED
      BY <3>1, <3>2
  <2>4. CASE E!WorkerReady(l)
    <3> DEFINE r == [R EXCEPT !.worker = IF protocol = "isolated" THEN "run" ELSE "gate"]
    <3>1. r \in LaneRecord /\ Honest(r) /\ ~Quiet(R)
      BY <1>1, <2>4 DEF E!WorkerReady, LaneRecord, Honest, Quiet
    <3>2. E!Set(l, r)
      BY <2>4 DEF E!WorkerReady
    <3>3. QED
      BY <3>1, <3>2
  <2>5. CASE E!GateOpens(l)
    <3> DEFINE r == [R EXCEPT !.worker = "run", !.load = "run"]
    <3>1. r \in LaneRecord /\ Honest(r) /\ ~Quiet(R)
      BY <1>1, <2>5 DEF E!GateOpens, LaneRecord, Honest, Quiet
    <3>2. E!Set(l, r)
      BY <2>5 DEF E!GateOpens
    <3>3. QED
      BY <3>1, <3>2
  <2>6. CASE E!GateFails(l)
    <3> DEFINE r == [R EXCEPT !.worker = "report", !.load = "gone"]
    <3>1. r \in LaneRecord /\ Honest(r) /\ ~Quiet(R)
      BY <1>1, <2>6 DEF E!GateFails, LaneRecord, Honest, Quiet
    <3>2. E!Set(l, r)
      BY <2>6 DEF E!GateFails
    <3>3. QED
      BY <3>1, <3>2
  <2>7. CASE E!LoadEnds(l)
    <3> DEFINE r == [R EXCEPT !.load = "gone", !.ended = "own"]
    <3>1. r \in LaneRecord /\ Honest(r) /\ ~Quiet(R)
      BY <1>1, <2>7 DEF E!LoadEnds, LaneRecord, Honest, Quiet
    <3>2. E!Set(l, r)
      BY <2>7 DEF E!LoadEnds
    <3>3. QED
      BY <3>1, <3>2
  <2>8. CASE E!LoadStops(l)
    <3> DEFINE r == [R EXCEPT !.load = "gone", !.ended = "stopped"]
    <3>1. r \in LaneRecord /\ Honest(r) /\ ~Quiet(R)
      BY <1>1, <2>8 DEF E!LoadStops, LaneRecord, Honest, Quiet
    <3>2. E!Set(l, r)
      BY <2>8 DEF E!LoadStops
    <3>3. QED
      BY <3>1, <3>2
  <2>9. CASE E!Report(l)
    <3> DEFINE r == [R EXCEPT !.worker = "gone", !.res = E!Outcome(R)]
    <3>1. r \in LaneRecord /\ Honest(r) /\ ~Quiet(R)
      BY <1>1, <2>9 DEF E!Report, E!Outcome, LaneRecord, Honest, Quiet
    <3>2. E!Set(l, r)
      BY <2>9 DEF E!Report
    <3>3. QED
      BY <3>1, <3>2
  <2>10. QED
    BY <2>1, <2>2, <2>3, <2>4, <2>5, <2>6, <2>7, <2>8, <2>9
<1>3. QED
  BY <1>2, SetKeeps

LEMMA CloseKeeps == ASSUME ExecInv, NEW l \in PlanLanes, E!Close(l) PROVE ExecInv'
<1> DEFINE r == [place[l] EXCEPT !.ans = IF E!Valid(place[l]) THEN "valid" ELSE "invalid"]
           f == [place EXCEPT ![l] = r]
<1>1. place \in [PlanLanes -> LaneRecord] /\ \A k \in PlanLanes : Honest(place[k])
  BY DEF ExecInv, LanesTyped, LanesHonest
<1>2. r \in LaneRecord /\ Honest(r)
  BY <1>1 DEF E!Valid, LaneRecord, Honest
<1>3. place' \in {f, E!Abort(f)}
  BY <1>1 DEF E!Close
<1> HIDE DEF r
<1>4. f \in [PlanLanes -> LaneRecord] /\ \A k \in PlanLanes : Honest(f[k])
  BY <1>1, <1>2
<1> HIDE DEF f
<1>5. LanesTyped' /\ LanesHonest'
  BY <1>3, <1>4, AbortKeeps DEF LanesTyped, LanesHonest
<1>6. BlankBefore' /\ EmptyBetween'
  BY DEF ExecInv, E!Close, BlankBefore, EmptyBetween, E!LeaderLive
<1>7. E!TypeOK' /\ CountFollows' /\ E!NoLeftovers' /\ E!CommittedRanAlone'
  BY DEF ExecInv, E!Close, E!TypeOK, CountFollows, E!NoLeftovers, E!CommittedRanAlone
<1>8. QED
  BY <1>5, <1>6, <1>7 DEF ExecInv

LEMMA InitExec == E!Init => ExecInv
<1> SUFFICES ASSUME E!Init PROVE ExecInv
  OBVIOUS
<1>1. E!TypeOK
  <2>1. seen \in 0..PlanUnits /\ committed \in 0..PlanUnits /\ struck \in 0..ExecFaults
    BY ExecutorAssumption DEF E!Init
  <2>2. QED
    BY <2>1 DEF E!Init, E!TypeOK
<1>2. LanesTyped /\ LanesHonest /\ BlankBefore
  BY BlankHonest DEF E!Init, LanesTyped, LanesHonest, BlankBefore
<1>3. QED
  BY <1>1, <1>2 DEF E!Init, ExecInv, EmptyBetween, CountFollows, E!NoLeftovers, E!CommittedRanAlone

LEMMA NextExec == ExecInv /\ [E!Next]_E!vars => ExecInv'
<1> SUFFICES ASSUME ExecInv, [E!Next]_E!vars PROVE ExecInv'
  OBVIOUS
<1> USE ExecutorAssumption
<1>1. CASE E!OpenSession
  <2>1. E!TypeOK'
    BY <1>1 DEF ExecInv, E!OpenSession, E!LockFree, E!LeaderLive, E!Descendants, E!Working, E!Loaded, E!TypeOK,
         CountFollows
  <2>2. EmptyBetween'
    BY <1>1 DEF ExecInv, E!OpenSession, E!LockFree, E!LeaderLive, E!Descendants, E!Working, E!Loaded,
         EmptyBetween, E!GroupEmpty, LanesTyped, LaneRecord
  <2>3. CountFollows'
    BY <1>1 DEF ExecInv, E!OpenSession, E!LockFree, E!LeaderLive, E!Descendants, E!Working, E!Loaded,
         CountFollows, E!TypeOK, EmptyBetween, E!GroupEmpty
  <2>4. LanesTyped' /\ LanesHonest' /\ BlankBefore' /\ E!NoLeftovers' /\ E!CommittedRanAlone'
    BY <1>1 DEF ExecInv, E!OpenSession, LanesTyped, LaneRecord, LanesHonest, BlankBefore, E!Blank,
         E!NoLeftovers, E!CommittedRanAlone
  <2>5. QED
    BY <2>1, <2>2, <2>3, <2>4 DEF ExecInv
<1>2. CASE E!StartUnit
  <2>1. E!TypeOK'
    BY <1>2 DEF ExecInv, E!StartUnit, E!GroupEmpty, E!LeaderLive, E!Descendants, E!Working, E!Loaded, E!Blank,
         E!TypeOK, CountFollows
  <2>2. LanesTyped'
    BY <1>2, BlankHonest DEF ExecInv, E!StartUnit, LanesTyped
  <2>3. LanesHonest'
    BY <1>2, BlankHonest DEF ExecInv, E!StartUnit, LanesHonest
  <2>4. BlankBefore'
    BY <1>2 DEF ExecInv, E!StartUnit, E!GroupEmpty, E!LeaderLive, E!Descendants, E!Working, E!Loaded, E!Blank,
         BlankBefore, LanesTyped, LaneRecord
  <2>5. EmptyBetween'
    BY <1>2 DEF ExecInv, E!StartUnit, E!GroupEmpty, E!LeaderLive, E!Descendants, E!Working, E!Loaded, E!Blank,
         EmptyBetween, LanesTyped, LaneRecord
  <2>6. CountFollows'
    BY <1>2 DEF ExecInv, E!StartUnit, E!GroupEmpty, E!LeaderLive, E!Descendants, E!Working, E!Loaded, E!Blank,
         CountFollows, E!TypeOK, EmptyBetween
  <2>7. E!NoLeftovers'
    BY <1>2 DEF ExecInv, E!StartUnit, E!GroupEmpty, E!LeaderLive, E!Descendants, E!Working, E!Loaded, E!Blank,
         E!NoLeftovers, EmptyBetween
  <2>8. E!CommittedRanAlone'
    BY <1>2 DEF ExecInv, E!StartUnit, E!CommittedRanAlone
  <2>9. QED
    BY <2>1, <2>2, <2>3, <2>4, <2>5, <2>6, <2>7, <2>8 DEF ExecInv
<1>3. CASE E!PhaseEnds
  <2>1. E!TypeOK'
    BY <1>3 DEF ExecInv, E!PhaseEnds, E!TypeOK, CountFollows
  <2>2. EmptyBetween'
    BY <1>3 DEF ExecInv, E!PhaseEnds, EmptyBetween, E!LeaderLive, E!GroupEmpty, E!Descendants, E!Working,
         E!Loaded, LanesTyped, LaneRecord
  <2>3. CountFollows'
    BY <1>3 DEF ExecInv, E!PhaseEnds, CountFollows, E!TypeOK, EmptyBetween, E!LeaderLive, E!GroupEmpty,
         E!Descendants, E!Working, E!Loaded
  <2>4. LanesTyped' /\ LanesHonest' /\ BlankBefore' /\ E!NoLeftovers' /\ E!CommittedRanAlone'
    BY <1>3 DEF ExecInv, E!PhaseEnds, LanesTyped, LaneRecord, LanesHonest, BlankBefore, E!Blank,
         E!NoLeftovers, E!CommittedRanAlone
  <2>5. QED
    BY <2>1, <2>2, <2>3, <2>4 DEF ExecInv
<1>4. CASE E!WaitReturns
  <2>1. E!TypeOK'
    BY <1>4 DEF ExecInv, E!WaitReturns, E!TypeOK, CountFollows
  <2>2. EmptyBetween'
    BY <1>4 DEF ExecInv, E!WaitReturns, EmptyBetween, E!LeaderLive, E!GroupEmpty, E!Descendants, E!Working,
         E!Loaded, LanesTyped, LaneRecord
  <2>3. CountFollows'
    BY <1>4 DEF ExecInv, E!WaitReturns, CountFollows, E!TypeOK, EmptyBetween, E!LeaderLive, E!GroupEmpty,
         E!Descendants, E!Working, E!Loaded
  <2>4. LanesTyped' /\ LanesHonest' /\ BlankBefore' /\ E!NoLeftovers' /\ E!CommittedRanAlone'
    BY <1>4 DEF ExecInv, E!WaitReturns, LanesTyped, LaneRecord, LanesHonest, BlankBefore, E!Blank,
         E!NoLeftovers, E!CommittedRanAlone
  <2>5. QED
    BY <2>1, <2>2, <2>3, <2>4 DEF ExecInv
<1>5. CASE E!Drained
  <2>1. E!TypeOK'
    BY <1>5 DEF ExecInv, E!Drained, E!GroupEmpty, E!LeaderLive, E!Descendants, E!Working, E!Loaded, E!Retried,
         E!SeenNext, E!TypeOK, CountFollows
  <2>2. EmptyBetween'
    BY <1>5 DEF ExecInv, E!Drained, E!GroupEmpty, E!LeaderLive, E!Descendants, E!Working, E!Loaded, E!Retried,
         E!SeenNext, EmptyBetween, LanesTyped, LaneRecord
  <2>3. CountFollows'
    BY <1>5 DEF ExecInv, E!Drained, E!GroupEmpty, E!LeaderLive, E!Descendants, E!Working, E!Loaded, E!Retried,
         E!SeenNext, CountFollows, E!TypeOK, EmptyBetween
  <2>4. LanesTyped' /\ LanesHonest' /\ BlankBefore' /\ E!NoLeftovers' /\ E!CommittedRanAlone'
    BY <1>5 DEF ExecInv, E!Drained, LanesTyped, LaneRecord, LanesHonest, BlankBefore, E!Blank,
         E!NoLeftovers, E!CommittedRanAlone
  <2>5. QED
    BY <2>1, <2>2, <2>3, <2>4 DEF ExecInv
<1>6. CASE E!DrainTimesOut
  <2>1. E!TypeOK'
    BY <1>6 DEF ExecInv, E!DrainTimesOut, E!GroupEmpty, E!LeaderLive, E!Descendants, E!Working, E!Loaded,
         E!TypeOK, CountFollows
  <2>2. EmptyBetween'
    BY <1>6 DEF ExecInv, E!DrainTimesOut, E!GroupEmpty, E!LeaderLive, E!Descendants, E!Working, E!Loaded,
         EmptyBetween, LanesTyped, LaneRecord
  <2>3. CountFollows'
    BY <1>6 DEF ExecInv, E!DrainTimesOut, E!GroupEmpty, E!LeaderLive, E!Descendants, E!Working, E!Loaded,
         CountFollows, E!TypeOK, EmptyBetween
  <2>4. LanesTyped' /\ LanesHonest' /\ BlankBefore' /\ E!NoLeftovers' /\ E!CommittedRanAlone'
    BY <1>6 DEF ExecInv, E!DrainTimesOut, LanesTyped, LaneRecord, LanesHonest, BlankBefore, E!Blank,
         E!NoLeftovers, E!CommittedRanAlone
  <2>5. QED
    BY <2>1, <2>2, <2>3, <2>4 DEF ExecInv
<1>7. CASE E!ShellExits
  <2>1. E!TypeOK'
    BY <1>7 DEF ExecInv, E!ShellExits, E!TypeOK, CountFollows
  <2>2. EmptyBetween'
    BY <1>7 DEF ExecInv, E!ShellExits, EmptyBetween, E!LeaderLive, E!GroupEmpty, E!Descendants, E!Working,
         E!Loaded, LanesTyped, LaneRecord
  <2>3. CountFollows'
    BY <1>7 DEF ExecInv, E!ShellExits, CountFollows, E!TypeOK, EmptyBetween, E!LeaderLive, E!GroupEmpty,
         E!Descendants, E!Working, E!Loaded
  <2>4. LanesTyped' /\ LanesHonest' /\ BlankBefore' /\ E!NoLeftovers' /\ E!CommittedRanAlone'
    BY <1>7 DEF ExecInv, E!ShellExits, LanesTyped, LaneRecord, LanesHonest, BlankBefore, E!Blank,
         E!NoLeftovers, E!CommittedRanAlone
  <2>5. QED
    BY <2>1, <2>2, <2>3, <2>4 DEF ExecInv
<1>8. CASE E!GuardArms
  <2>1. E!TypeOK'
    BY <1>8 DEF ExecInv, E!GuardArms, E!TypeOK, CountFollows
  <2>2. BlankBefore'
    BY <1>8 DEF ExecInv, E!GuardArms, BlankBefore, E!Blank, LanesTyped, LaneRecord
  <2>3. EmptyBetween'
    BY <1>8 DEF ExecInv, E!GuardArms, EmptyBetween, E!LeaderLive, E!GroupEmpty, E!Descendants, E!Working,
         E!Loaded, LanesTyped, LaneRecord
  <2>4. CountFollows'
    BY <1>8 DEF ExecInv, E!GuardArms, CountFollows, E!TypeOK, EmptyBetween, E!LeaderLive, E!GroupEmpty,
         E!Descendants, E!Working, E!Loaded
  <2>5. LanesTyped' /\ LanesHonest' /\ E!NoLeftovers' /\ E!CommittedRanAlone'
    BY <1>8 DEF ExecInv, E!GuardArms, LanesTyped, LaneRecord, LanesHonest, E!NoLeftovers,
         E!CommittedRanAlone
  <2>6. QED
    BY <2>1, <2>2, <2>3, <2>4, <2>5 DEF ExecInv
<1>9. CASE E!Exec
  <2>1. E!TypeOK'
    BY <1>9 DEF ExecInv, E!Exec, E!TypeOK, CountFollows
  <2>2. BlankBefore'
    BY <1>9 DEF ExecInv, E!Exec, BlankBefore, E!Blank, LanesTyped, LaneRecord
  <2>3. EmptyBetween'
    BY <1>9 DEF ExecInv, E!Exec, EmptyBetween, E!LeaderLive, E!GroupEmpty, E!Descendants, E!Working, E!Loaded,
         LanesTyped, LaneRecord
  <2>4. CountFollows'
    BY <1>9 DEF ExecInv, E!Exec, CountFollows, E!TypeOK, EmptyBetween, E!LeaderLive, E!GroupEmpty,
         E!Descendants, E!Working, E!Loaded
  <2>5. LanesTyped' /\ LanesHonest' /\ E!NoLeftovers' /\ E!CommittedRanAlone'
    BY <1>9 DEF ExecInv, E!Exec, LanesTyped, LaneRecord, LanesHonest, E!NoLeftovers, E!CommittedRanAlone
  <2>6. QED
    BY <2>1, <2>2, <2>3, <2>4, <2>5 DEF ExecInv
<1>10. CASE E!GuardSees
  <2>1. (UNCHANGED <<leader, rc, place>>) \/ Subsides
    BY <1>10, TermSubsides DEF ExecInv, E!GuardSees
  <2>2. E!TypeOK'
    BY <1>10, <2>1 DEF ExecInv, E!GuardSees, E!LeaseOpen, E!LeaderLive, E!Descendants, E!Working, E!Loaded,
         E!TypeOK, CountFollows, Subsides, E!GroupEmpty
  <2>3. LanesTyped'
    BY <1>10, <2>1 DEF ExecInv, E!GuardSees, E!LeaseOpen, E!LeaderLive, E!Descendants, E!Working, E!Loaded,
         LanesTyped, LaneRecord, E!TypeOK, Subsides
  <2>4. LanesHonest'
    BY <1>10, <2>1 DEF ExecInv, E!GuardSees, E!LeaseOpen, E!LeaderLive, E!Descendants, E!Working, E!Loaded,
         LanesHonest, LanesTyped, LaneRecord, Subsides
  <2>5. BlankBefore'
    BY <1>10 DEF ExecInv, E!GuardSees, BlankBefore, E!TermGroup
  <2>6. EmptyBetween'
    BY <1>10, <2>1, SubsidesEmpty DEF ExecInv, E!GuardSees, EmptyBetween, E!Fault, E!LeaderLive, E!GroupEmpty, E!Descendants, E!Working, E!Loaded
  <2>7. CountFollows'
    BY <1>10, <2>1 DEF ExecInv, E!GuardSees, E!LeaseOpen, E!LeaderLive, E!Descendants, E!Working, E!Loaded,
         CountFollows, E!TypeOK, EmptyBetween, E!GroupEmpty, Subsides
  <2>8. E!NoLeftovers' /\ E!CommittedRanAlone'
    BY <1>10 DEF ExecInv, E!GuardSees, E!NoLeftovers, E!CommittedRanAlone
  <2>9. QED
    BY <2>2, <2>3, <2>4, <2>5, <2>6, <2>7, <2>8 DEF ExecInv
<1>11. CASE E!GuardEnds
  <2>1. (UNCHANGED <<leader, rc, place>>) \/ Subsides
    BY <1>11, KillSubsides DEF ExecInv, E!GuardEnds
  <2>2. E!TypeOK'
    BY <1>11, <2>1 DEF ExecInv, E!GuardEnds, E!LeaseOpen, E!LeaderLive, E!Descendants, E!Working, E!Loaded,
         E!TypeOK, CountFollows, Subsides, E!GroupEmpty
  <2>3. LanesTyped'
    BY <1>11, <2>1 DEF ExecInv, E!GuardEnds, E!LeaseOpen, E!LeaderLive, E!Descendants, E!Working, E!Loaded,
         LanesTyped, LaneRecord, E!TypeOK, Subsides
  <2>4. LanesHonest'
    BY <1>11, <2>1 DEF ExecInv, E!GuardEnds, E!LeaseOpen, E!LeaderLive, E!Descendants, E!Working, E!Loaded,
         LanesHonest, LanesTyped, LaneRecord, Subsides
  <2>5. BlankBefore'
    BY <1>11, <2>1 DEF ExecInv, E!GuardEnds, BlankBefore, Subsides, E!LeaderLive
  <2>6. EmptyBetween'
    BY <1>11, <2>1, SubsidesEmpty DEF ExecInv, E!GuardEnds, EmptyBetween, E!Fault, E!LeaderLive, E!GroupEmpty, E!Descendants, E!Working, E!Loaded
  <2>7. CountFollows'
    BY <1>11, <2>1 DEF ExecInv, E!GuardEnds, E!LeaseOpen, E!LeaderLive, E!Descendants, E!Working, E!Loaded,
         CountFollows, E!TypeOK, EmptyBetween, E!GroupEmpty, Subsides
  <2>8. E!NoLeftovers' /\ E!CommittedRanAlone'
    BY <1>11 DEF ExecInv, E!GuardEnds, E!NoLeftovers, E!CommittedRanAlone
  <2>9. QED
    BY <2>2, <2>3, <2>4, <2>5, <2>6, <2>7, <2>8 DEF ExecInv
<1>12. CASE E!Launch
  <2>1. E!Active \subseteq PlanLanes
    BY ActiveLanes
  <2>2. E!TypeOK'
    BY <1>12, <2>1 DEF ExecInv, E!Launch, E!TypeOK, CountFollows
  <2>3. LanesTyped'
    BY <1>12 DEF ExecInv, E!Launch, LanesTyped, LaneRecord
  <2>4. LanesHonest'
    BY <1>12 DEF ExecInv, E!Launch, LanesHonest, LanesTyped, Honest, LaneRecord, BlankBefore, E!Blank
  <2>5. BlankBefore'
    BY <1>12, <2>1 DEF ExecInv, E!Launch, BlankBefore, E!Blank, LanesTyped, LaneRecord
  <2>6. EmptyBetween'
    BY <1>12, <2>1 DEF ExecInv, E!Launch, EmptyBetween, E!LeaderLive, E!GroupEmpty, E!Descendants, E!Working,
         E!Loaded, LanesTyped, LaneRecord
  <2>7. CountFollows'
    BY <1>12, <2>1 DEF ExecInv, E!Launch, CountFollows, E!TypeOK, EmptyBetween, E!LeaderLive, E!GroupEmpty,
         E!Descendants, E!Working, E!Loaded
  <2>8. E!NoLeftovers' /\ E!CommittedRanAlone'
    BY <1>12 DEF ExecInv, E!Launch, E!NoLeftovers, E!CommittedRanAlone
  <2>9. QED
    BY <2>2, <2>3, <2>4, <2>5, <2>6, <2>7, <2>8 DEF ExecInv
<1>13. CASE E!Commit
  <2>1. E!Active \subseteq PlanLanes
    BY ActiveLanes
  <2>2. E!TypeOK'
    BY <1>13, <2>1 DEF ExecInv, E!Commit, E!Answered, E!TypeOK, CountFollows
  <2>3. BlankBefore'
    BY <1>13, <2>1 DEF ExecInv, E!Commit, E!Answered, BlankBefore, E!Blank, LanesTyped, LaneRecord
  <2>4. EmptyBetween'
    BY <1>13, <2>1 DEF ExecInv, E!Commit, E!Answered, EmptyBetween, E!LeaderLive, E!GroupEmpty,
         E!Descendants, E!Working, E!Loaded, LanesTyped, LaneRecord
  <2>5. CountFollows'
    BY <1>13, <2>1 DEF ExecInv, E!Commit, E!Answered, CountFollows, E!TypeOK, EmptyBetween, E!LeaderLive,
         E!GroupEmpty, E!Descendants, E!Working, E!Loaded
  <2>6. E!CommittedRanAlone'
    BY <1>13, <2>1 DEF ExecInv, E!Commit, E!Answered, E!CommittedRanAlone, LanesHonest, Honest
  <2>7. LanesTyped' /\ LanesHonest' /\ E!NoLeftovers'
    BY <1>13 DEF ExecInv, E!Commit, LanesTyped, LaneRecord, LanesHonest, E!NoLeftovers
  <2>8. QED
    BY <2>2, <2>3, <2>4, <2>5, <2>6, <2>7 DEF ExecInv
<1>14. CASE E!ExecutorExits
  <2>1. E!TypeOK'
    BY <1>14 DEF ExecInv, E!ExecutorExits, E!Answered, E!TypeOK, CountFollows
  <2>2. BlankBefore'
    BY <1>14 DEF ExecInv, E!ExecutorExits, E!Answered, BlankBefore, E!Blank, LanesTyped, LaneRecord
  <2>3. EmptyBetween'
    BY <1>14 DEF ExecInv, E!ExecutorExits, E!Answered, EmptyBetween, E!LeaderLive, E!GroupEmpty,
         E!Descendants, E!Working, E!Loaded, LanesTyped, LaneRecord
  <2>4. CountFollows'
    BY <1>14 DEF ExecInv, E!ExecutorExits, E!Answered, CountFollows, E!TypeOK, EmptyBetween, E!LeaderLive,
         E!GroupEmpty, E!Descendants, E!Working, E!Loaded
  <2>5. LanesTyped' /\ LanesHonest' /\ E!NoLeftovers' /\ E!CommittedRanAlone'
    BY <1>14 DEF ExecInv, E!ExecutorExits, LanesTyped, LaneRecord, LanesHonest, E!NoLeftovers,
         E!CommittedRanAlone
  <2>6. QED
    BY <2>1, <2>2, <2>3, <2>4, <2>5 DEF ExecInv
<1>15. CASE E!Interrupt
  <2>1. (UNCHANGED <<leader, rc, place>>) \/ Subsides
    BY <1>15, TermSubsides DEF ExecInv, E!Interrupt
  <2>2. E!TypeOK'
    BY <1>15, <2>1 DEF ExecInv, E!Interrupt, E!Fault, E!LeaderLive, E!TypeOK, CountFollows, Subsides,
         E!GroupEmpty, E!Descendants, E!Working, E!Loaded
  <2>3. LanesTyped'
    BY <1>15, <2>1 DEF ExecInv, E!Interrupt, E!Fault, E!LeaderLive, LanesTyped, LaneRecord, E!TypeOK,
         Subsides
  <2>4. LanesHonest'
    BY <1>15, <2>1 DEF ExecInv, E!Interrupt, E!Fault, E!LeaderLive, LanesHonest, LanesTyped, LaneRecord,
         Subsides
  <2>5. BlankBefore'
    BY <1>15, <2>1 DEF ExecInv, E!Interrupt, BlankBefore, Subsides, E!LeaderLive
  <2>6. EmptyBetween'
    BY <1>15, <2>1, SubsidesEmpty DEF ExecInv, E!Interrupt, EmptyBetween, E!Fault, E!LeaderLive, E!GroupEmpty, E!Descendants, E!Working, E!Loaded
  <2>7. CountFollows'
    BY <1>15, <2>1 DEF ExecInv, E!Interrupt, E!Fault, E!LeaderLive, CountFollows, E!TypeOK, EmptyBetween,
         E!GroupEmpty, E!Descendants, E!Working, E!Loaded, Subsides
  <2>8. E!NoLeftovers' /\ E!CommittedRanAlone'
    BY <1>15 DEF ExecInv, E!Interrupt, E!NoLeftovers, E!CommittedRanAlone
  <2>9. QED
    BY <2>2, <2>3, <2>4, <2>5, <2>6, <2>7, <2>8 DEF ExecInv
<1>16. CASE E!StopEscalates
  <2>1. (UNCHANGED <<leader, rc, place>>) \/ Subsides
    BY <1>16, KillSubsides DEF ExecInv, E!StopEscalates
  <2>2. E!TypeOK'
    BY <1>16, <2>1 DEF ExecInv, E!StopEscalates, E!LeaderLive, E!TypeOK, CountFollows, Subsides,
         E!GroupEmpty, E!Descendants, E!Working, E!Loaded
  <2>3. LanesTyped'
    BY <1>16, <2>1 DEF ExecInv, E!StopEscalates, E!LeaderLive, LanesTyped, LaneRecord, E!TypeOK, Subsides
  <2>4. LanesHonest'
    BY <1>16, <2>1 DEF ExecInv, E!StopEscalates, E!LeaderLive, LanesHonest, LanesTyped, LaneRecord,
         Subsides
  <2>5. BlankBefore'
    BY <1>16, <2>1 DEF ExecInv, E!StopEscalates, BlankBefore, Subsides, E!LeaderLive
  <2>6. EmptyBetween'
    BY <1>16, <2>1, SubsidesEmpty DEF ExecInv, E!StopEscalates, EmptyBetween, E!Fault, E!LeaderLive, E!GroupEmpty, E!Descendants, E!Working, E!Loaded
  <2>7. CountFollows'
    BY <1>16, <2>1 DEF ExecInv, E!StopEscalates, E!LeaderLive, CountFollows, E!TypeOK, EmptyBetween,
         E!GroupEmpty, E!Descendants, E!Working, E!Loaded, Subsides
  <2>8. E!NoLeftovers' /\ E!CommittedRanAlone'
    BY <1>16 DEF ExecInv, E!StopEscalates, E!NoLeftovers, E!CommittedRanAlone
  <2>9. QED
    BY <2>2, <2>3, <2>4, <2>5, <2>6, <2>7, <2>8 DEF ExecInv
<1>17. CASE E!Stopped
  <2>1. E!TypeOK'
    BY <1>17 DEF ExecInv, E!Stopped, E!LeaderLive, E!TypeOK, CountFollows
  <2>2. EmptyBetween'
    BY <1>17 DEF ExecInv, E!Stopped, E!LeaderLive, EmptyBetween, E!GroupEmpty, E!Descendants, E!Working,
         E!Loaded, LanesTyped, LaneRecord
  <2>3. CountFollows'
    BY <1>17 DEF ExecInv, E!Stopped, E!LeaderLive, CountFollows, E!TypeOK, EmptyBetween, E!GroupEmpty,
         E!Descendants, E!Working, E!Loaded
  <2>4. LanesTyped' /\ LanesHonest' /\ BlankBefore' /\ E!NoLeftovers' /\ E!CommittedRanAlone'
    BY <1>17 DEF ExecInv, E!Stopped, LanesTyped, LaneRecord, LanesHonest, BlankBefore, E!Blank,
         E!NoLeftovers, E!CommittedRanAlone
  <2>5. QED
    BY <2>1, <2>2, <2>3, <2>4 DEF ExecInv
<1>18. CASE E!ShellCrashes
  <2>1. E!TypeOK'
    BY <1>18 DEF ExecInv, E!ShellCrashes, E!Fault, E!TypeOK, CountFollows
  <2>2. EmptyBetween'
    BY <1>18 DEF ExecInv, E!ShellCrashes, E!Fault, EmptyBetween, E!LeaderLive, E!GroupEmpty, E!Descendants,
         E!Working, E!Loaded, LanesTyped, LaneRecord
  <2>3. CountFollows'
    BY <1>18 DEF ExecInv, E!ShellCrashes, E!Fault, CountFollows, E!TypeOK, EmptyBetween, E!LeaderLive,
         E!GroupEmpty, E!Descendants, E!Working, E!Loaded
  <2>4. LanesTyped' /\ LanesHonest' /\ BlankBefore' /\ E!NoLeftovers' /\ E!CommittedRanAlone'
    BY <1>18 DEF ExecInv, E!ShellCrashes, LanesTyped, LaneRecord, LanesHonest, BlankBefore, E!Blank,
         E!NoLeftovers, E!CommittedRanAlone
  <2>5. QED
    BY <2>1, <2>2, <2>3, <2>4 DEF ExecInv
<1>19. CASE E!ExecutorCrashes
  <2>1. E!TypeOK'
    BY <1>19 DEF ExecInv, E!ExecutorCrashes, E!Fault, E!TypeOK, CountFollows
  <2>2. BlankBefore'
    BY <1>19 DEF ExecInv, E!ExecutorCrashes, E!Fault, BlankBefore, E!Blank, LanesTyped, LaneRecord
  <2>3. EmptyBetween'
    BY <1>19 DEF ExecInv, E!ExecutorCrashes, E!Fault, EmptyBetween, E!LeaderLive, E!GroupEmpty,
         E!Descendants, E!Working, E!Loaded, LanesTyped, LaneRecord
  <2>4. CountFollows'
    BY <1>19 DEF ExecInv, E!ExecutorCrashes, E!Fault, CountFollows, E!TypeOK, EmptyBetween, E!LeaderLive,
         E!GroupEmpty, E!Descendants, E!Working, E!Loaded
  <2>5. LanesTyped' /\ LanesHonest' /\ E!NoLeftovers' /\ E!CommittedRanAlone'
    BY <1>19 DEF ExecInv, E!ExecutorCrashes, LanesTyped, LaneRecord, LanesHonest, E!NoLeftovers,
         E!CommittedRanAlone
  <2>6. QED
    BY <2>1, <2>2, <2>3, <2>4, <2>5 DEF ExecInv
<1>20. ASSUME NEW l \in PlanLanes, E!Close(l) PROVE ExecInv'
  BY <1>20, CloseKeeps
<1>21. ASSUME NEW l \in PlanLanes,
              E!RunnerKill(l) \/ E!WorkerRefuses(l) \/ E!WorkerSpawns(l) \/ E!WorkerReady(l) \/ E!GateOpens(l)
                \/ E!GateFails(l) \/ E!LoadEnds(l) \/ E!LoadStops(l) \/ E!Report(l)
       PROVE  ExecInv'
  BY <1>21, LaneStepKeeps
<1>22. CASE UNCHANGED E!vars
  BY <1>22 DEF E!vars, ExecInv, E!TypeOK, LanesTyped, LanesHonest, BlankBefore, EmptyBetween, E!LeaderLive, E!GroupEmpty,
       E!Descendants, E!Working, E!Loaded, CountFollows, E!NoLeftovers, E!CommittedRanAlone
<1>23. QED
  BY <1>1, <1>2, <1>3, <1>4, <1>5, <1>6, <1>7, <1>8, <1>9, <1>10, <1>11, <1>12, <1>13, <1>14,
     <1>15, <1>16, <1>17, <1>18, <1>19, <1>20, <1>21, <1>22 DEF E!Next, E!Guard

(* Beside its types the executor keeps what the numbered parts of ExecInv    *)
(* say of lanes, groups and counts: all reachable states are of this kind.   *)
THEOREM ExecutorInvariant == E!Spec => []ExecInv
BY InitExec, NextExec, PTL DEF E!Spec

(* No unit starts beside a live member of an earlier group of its session,   *)
(* and none at all while lease and lock reach the lanes.                     *)
THEOREM UnitsStartClean == E!Spec => []NoLeftovers
<1>1. ExecInv => NoLeftovers
  BY DEF ExecInv, NoLeftovers
<1>2. QED
  BY <1>1, ExecutorInvariant, PTL

(* Every committed observation is of a workload that passed the gate and     *)
(* ended by itself, however signals, timers and crashes fall.                *)
THEOREM ObservationsRanAlone == E!Spec => []CommittedRanAlone
<1>1. ExecInv => CommittedRanAlone
  BY DEF ExecInv, CommittedRanAlone
<1>2. QED
  BY <1>1, ExecutorInvariant, PTL

(* Between two units the shell's count is the durable frontier, also after   *)
(* an executor that died behind its commit.                                  *)
THEOREM CountsAgree == E!Spec => []FrontierAgrees
<1>1. ExecInv => FrontierAgrees
  BY DEF ExecInv, CountFollows, FrontierAgrees, E!FrontierAgrees
<1>2. QED
  BY <1>1, ExecutorInvariant, PTL

-----------------------------------------------------------------------------
(* The files of a phase.                                                     *)
Form  == [form : {"none", "empty", "header", "rows", "torn", "odd"}, rows : Seq(1..2)]
Files == [plan : BOOLEAN, tsv : Form, bounds : Form,
          meta : {"none", "partial", "incomplete", "complete"}, marker : BOOLEAN,
          dec : {"none", "empty", "exact"}, decMark : BOOLEAN]

Setup     == {"sidecars", "plan", "header", "metaCreate", "metaFill", "metaBegin"}
Finishing == {"prepare", "results", "boundaries", "stageMeta", "moveTsv", "moveBounds",
              "sidecarSync", "moveMeta", "terminalSync", "close"}
Deciding  == {"decide", "decFill", "decSync", "decMark"}
Resting   == {"idle", "done", "refused"}

Complete   == view.meta = "complete" \/ disk.meta = "complete"
Projected  == view.tsv = P!Final /\ view.bounds = P!Final /\ view.plan
Untouched(f) == ~f.plan /\ f.tsv = P!Absent /\ f.bounds = P!Absent /\ f.meta = "none"

-----------------------------------------------------------------------------
FilesTyped == view \in Files /\ disk \in Files /\ obs \in Seq(1..2) /\ Len(obs) <= PhaseUnits

ControlTyped ==
  /\ kind \in {"isolated", "waves", "legacy"} /\ stage \in {"none", "known", "temp"}
  /\ session \in Resting \union Deciding \union Setup \union Finishing
              \union {"metaSync", "run", "metaEnd", "metaDone", "ready", "reclose"}

\* What a power loss leaves is older than what the processes see.
DiskBehind ==
  /\ view.plan = disk.plan /\ view.marker = disk.marker /\ view.decMark = disk.decMark
  /\ view.tsv = P!Absent => disk.tsv = P!Absent
  /\ view.bounds = P!Absent => disk.bounds = P!Absent
  /\ view.meta = "none" => disk.meta = "none"
  /\ view.dec = "none" => disk.dec = "none"
  /\ kind # "legacy" /\ disk.meta = "complete" => view.meta = "complete"

\* Complete metadata, synchronized or not, finds every unit committed and its
\* sidecars synchronized.
CompleteIsWhole ==
  Complete => /\ view.tsv = disk.tsv /\ view.bounds = disk.bounds /\ P!Whole
              /\ kind # "legacy" => Projected

\* What a session has done when it stands at a step.
StepsTaken ==
  /\ session \in Setup /\ kind # "legacy" => view.meta # "complete"
  /\ session \in {"header", "metaCreate", "metaFill", "metaBegin", "metaSync", "run"}
       /\ kind # "legacy" => view.plan
  /\ session \in Finishing => kind # "legacy" /\ P!Whole /\ view.plan
  /\ session \in {"sidecars", "plan", "header", "metaCreate", "metaFill"} => kind # "legacy"
  /\ session \in {"stageMeta", "sidecarSync", "moveMeta", "terminalSync"} => kind = "waves"
  /\ session \in {"moveBounds", "sidecarSync", "moveMeta", "terminalSync", "close"} => view.tsv = P!Final
  /\ session \in {"sidecarSync", "moveMeta", "terminalSync", "close"} => view.bounds = P!Final
  /\ session = "moveMeta" => disk.tsv = P!Final /\ disk.bounds = P!Final
  /\ session = "metaEnd" => P!Whole /\ (kind # "legacy" => Projected)
  /\ session \in {"metaDone", "ready", "reclose", "terminalSync"} \/ (session = "close" /\ kind = "waves")
       => view.meta = "complete"

\* The marker is the last thing that is written.
MarkerIsLast ==
  view.marker => view = disk /\ view.meta = "complete" /\ session \in Resting

\* A decision is about a phase that has left nothing.
DecisionIsAlone ==
  P!Decided \/ session \in Deciding =>
    /\ Untouched(view) /\ Untouched(disk) /\ obs = << >> /\ stage = "none"
    /\ ~view.marker /\ session \in Resting \union Deciding

PhaseInv == /\ FilesTyped /\ ControlTyped /\ DiskBehind /\ CompleteIsWhole
        /\ StepsTaken /\ MarkerIsLast /\ DecisionIsAlone
-----------------------------------------------------------------------------
(* Preservation. *)

\* The forms of a file, and how they differ.
LEMMA FormsTyped == {P!Absent, P!Zero, P!Header, P!Torn, P!Odd} \subseteq Form
BY DEF Form, P!Absent, P!Zero, P!Header, P!Torn, P!Odd

LEMMA FormsDiffer ==
  /\ P!Absent \notin {P!Zero, P!Header, P!Torn, P!Odd} /\ P!Absent.form = "none" /\ Len(P!Absent.rows) = 0
  /\ \A s : P!Rows(s) # P!Absent
BY DEF P!Absent, P!Zero, P!Header, P!Torn, P!Odd, P!Rows

LEMMA RowsForm == ASSUME NEW s \in Seq(1..2) PROVE P!Rows(s) \in Form
BY DEF Form, P!Rows

LEMMA RowsTyped == FilesTyped => P!RowsLeft \subseteq Form
<1> SUFFICES ASSUME FilesTyped PROVE P!RowsLeft \subseteq Form
  OBVIOUS
<1>1. /\ view.tsv \in Form /\ disk.tsv \in Form
      /\ view.tsv.rows \in Seq(1..2) /\ disk.tsv.rows \in Seq(1..2)
  BY DEF FilesTyped, Files, Form
<1>2. ASSUME NEW n \in Len(disk.tsv.rows)..Len(view.tsv.rows), n # 0
      PROVE  P!Rows(SubSeq(view.tsv.rows, 1, n)) \in Form
  <2>1. Len(disk.tsv.rows) \in Nat
    BY <1>1
  <2>2. n \in 1..Len(view.tsv.rows)
    BY <1>1, <1>2, <2>1
  <2>3. SubSeq(view.tsv.rows, 1, n) \in Seq(1..2)
    BY <1>1, <2>2
  <2>4. QED
    BY <2>3, RowsForm
<1>3. QED
  BY <1>1, <1>2, FormsTyped DEF P!RowsLeft

LEMMA InitPhase == P!Init => PhaseInv
<1> SUFFICES ASSUME P!Init PROVE PhaseInv
  OBVIOUS
<1> DEFINE begun == [P!NoFiles EXCEPT !.plan = TRUE, !.tsv = P!Header, !.meta = "incomplete"]
<1>1. P!NoFiles \in Files /\ begun \in Files
  BY FormsTyped DEF P!NoFiles, Files
<1>2. obs \in Seq(1..2) /\ Len(obs) <= PhaseUnits
  <2>1. << >> \in Seq(1..2) /\ Len(<< >>) <= PhaseUnits
    BY PhaseAssumption
  <2>2. ASSUME NEW n \in 1..PhaseUnits
        PROVE  [i \in 1..n |-> 1] \in Seq(1..2) /\ Len([i \in 1..n |-> 1]) <= PhaseUnits
    BY PhaseAssumption
  <2>3. QED
    BY <2>1, <2>2 DEF P!Init
<1>3. FilesTyped
  BY <1>1, <1>2 DEF P!Init, FilesTyped
<1>4. /\ kind \in {"isolated", "waves", "legacy"} /\ stage = "none" /\ session = "idle" /\ disk = view
      /\ ~view.marker /\ view.meta \in {"none", "incomplete"} /\ view.dec = "none" /\ ~view.decMark
  <2>1. /\ ~P!NoFiles.marker /\ P!NoFiles.meta = "none" /\ P!NoFiles.dec = "none" /\ ~P!NoFiles.decMark
        /\ ~begun.marker /\ begun.meta = "incomplete" /\ begun.dec = "none" /\ ~begun.decMark
    BY DEF P!NoFiles
  <2>2. view \in {P!NoFiles, begun}
    BY DEF P!Init
  <2>3. QED
    BY <2>1, <2>2 DEF P!Init
<1>5. ControlTyped /\ DiskBehind /\ StepsTaken /\ MarkerIsLast
  BY <1>4 DEF ControlTyped, DiskBehind, StepsTaken, MarkerIsLast, Resting, Deciding, Setup, Finishing
<1>6. CompleteIsWhole /\ DecisionIsAlone
  BY <1>4 DEF CompleteIsWhole, Complete, DecisionIsAlone, P!Decided, Deciding
<1>7. QED
  BY <1>3, <1>5, <1>6 DEF PhaseInv

LEMMA NextPhase == PhaseInv /\ [P!Next]_P!vars => PhaseInv'
<1> SUFFICES ASSUME PhaseInv, [P!Next]_P!vars PROVE PhaseInv'
  OBVIOUS
<1>form. P!Rows(obs) \in Form /\ P!Rows(obs) # P!Absent
  BY RowsForm, FormsDiffer DEF PhaseInv, FilesTyped
<1>1. CASE P!ResumeDone
  <2>1. FilesTyped'
    BY <1>1 DEF PhaseInv, P!ResumeDone, P!Same, P!Keep, FilesTyped
  <2>2. ControlTyped'
    BY <1>1 DEF PhaseInv, P!ResumeDone, P!Goto, P!Whole, P!Ready, P!Final, P!Decided, P!Same, P!Keep, ControlTyped,
         Resting, Deciding, Setup, Finishing
  <2>3. StepsTaken'
    BY <1>1, FormsDiffer DEF PhaseInv, P!ResumeDone, P!Goto, P!Whole, P!Ready, P!Final, P!Decided, P!Same, P!Keep,
         StepsTaken, Setup, Finishing, Projected, FilesTyped, Files, ControlTyped, Resting,
         Deciding, DiskBehind, CompleteIsWhole, Complete
  <2>4. MarkerIsLast'
    BY <1>1, FormsDiffer DEF PhaseInv, P!ResumeDone, P!Goto, P!Whole, P!Ready, P!Final, P!Decided, P!Same, P!Keep,
         MarkerIsLast, Resting, FilesTyped, Files, ControlTyped, Deciding, Setup, Finishing,
         DiskBehind, StepsTaken, Projected
  <2>5. DecisionIsAlone'
    BY <1>1, FormsDiffer DEF PhaseInv, P!ResumeDone, P!Goto, P!Whole, P!Ready, P!Final, P!Decided, P!Same, P!Keep,
         DecisionIsAlone, Deciding, Untouched, Resting, FilesTyped, Files, ControlTyped, Setup,
         Finishing, DiskBehind
  <2>6. DiskBehind' /\ CompleteIsWhole'
    BY <1>1 DEF PhaseInv, P!ResumeDone, P!Same, P!Keep, DiskBehind, CompleteIsWhole, Complete, P!Whole,
         Projected, P!Final
  <2>7. QED
    BY <2>1, <2>2, <2>3, <2>4, <2>5, <2>6 DEF PhaseInv
<1>2. CASE P!ResumeDecided
  <2>1. ControlTyped'
    BY <1>2 DEF PhaseInv, P!ResumeDecided, P!Decided, P!Goto, P!Worked, P!Same, P!Keep, ControlTyped, Resting,
         Deciding, Setup, Finishing
  <2>2. StepsTaken'
    BY <1>2, FormsDiffer DEF PhaseInv, P!ResumeDecided, P!Decided, P!Goto, P!Worked, P!Same, P!Keep, StepsTaken,
         Setup, Finishing, P!Whole, P!Final, Projected, FilesTyped, Files, ControlTyped, Resting,
         Deciding, DiskBehind, CompleteIsWhole, Complete
  <2>3. MarkerIsLast'
    BY <1>2, FormsDiffer DEF PhaseInv, P!ResumeDecided, P!Decided, P!Goto, P!Worked, P!Same, P!Keep,
         MarkerIsLast, Resting, FilesTyped, Files, ControlTyped, Deciding, Setup, Finishing,
         DiskBehind, StepsTaken, P!Whole, P!Final, Projected
  <2>4. DecisionIsAlone'
    BY <1>2, FormsDiffer DEF PhaseInv, P!ResumeDecided, P!Decided, P!Goto, P!Worked, P!Same, P!Keep,
         DecisionIsAlone, Deciding, Untouched, Resting, FilesTyped, Files, ControlTyped, Setup,
         Finishing, DiskBehind
  <2>5. FilesTyped' /\ DiskBehind' /\ CompleteIsWhole'
    BY <1>2 DEF PhaseInv, P!ResumeDecided, P!Same, P!Keep, FilesTyped, Files, DiskBehind, CompleteIsWhole,
         Complete, P!Whole, Projected, P!Final
  <2>6. QED
    BY <2>1, <2>2, <2>3, <2>4, <2>5 DEF PhaseInv
<1>3. CASE P!ResumeUnavailable
  <2>1. ControlTyped'
    BY <1>3 DEF PhaseInv, P!ResumeUnavailable, P!Decided, P!Goto, P!Worked, P!Same, P!Keep, ControlTyped,
         Resting, Deciding, Setup, Finishing
  <2>2. StepsTaken'
    BY <1>3, FormsDiffer DEF PhaseInv, P!ResumeUnavailable, P!Decided, P!Goto, P!Worked, P!Same, P!Keep,
         StepsTaken, Setup, Finishing, P!Whole, P!Final, Projected, FilesTyped, Files, ControlTyped,
         Resting, Deciding, DiskBehind, CompleteIsWhole, Complete
  <2>3. MarkerIsLast'
    BY <1>3, FormsDiffer DEF PhaseInv, P!ResumeUnavailable, P!Decided, P!Goto, P!Worked, P!Same, P!Keep,
         MarkerIsLast, Resting, FilesTyped, Files, ControlTyped, Deciding, Setup, Finishing,
         DiskBehind, StepsTaken, P!Whole, P!Final, Projected
  <2>4. DecisionIsAlone'
    BY <1>3, FormsDiffer DEF PhaseInv, P!ResumeUnavailable, P!Decided, P!Goto, P!Worked, P!Same, P!Keep,
         DecisionIsAlone, Deciding, Untouched, Resting, FilesTyped, Files, ControlTyped, Setup,
         Finishing, DiskBehind
  <2>5. FilesTyped' /\ DiskBehind' /\ CompleteIsWhole'
    BY <1>3 DEF PhaseInv, P!ResumeUnavailable, P!Same, P!Keep, FilesTyped, Files, DiskBehind,
         CompleteIsWhole, Complete, P!Whole, Projected, P!Final
  <2>6. QED
    BY <2>1, <2>2, <2>3, <2>4, <2>5 DEF PhaseInv
<1>4. CASE P!ResumeFresh
  <2>1. ControlTyped'
    BY <1>4 DEF PhaseInv, P!ResumeFresh, P!Resuming, P!Decided, P!Goto, P!Worked, P!Same, P!Keep, ControlTyped,
         Resting, Deciding, Setup, Finishing
  <2>2. StepsTaken'
    BY <1>4, FormsDiffer DEF PhaseInv, P!ResumeFresh, P!Resuming, P!Decided, P!Goto, P!Worked, P!Same, P!Keep,
         StepsTaken, Setup, Finishing, P!Whole, P!Final, Projected, FilesTyped, Files, ControlTyped,
         Resting, Deciding, DiskBehind, CompleteIsWhole, Complete
  <2>3. MarkerIsLast'
    BY <1>4, FormsDiffer DEF PhaseInv, P!ResumeFresh, P!Resuming, P!Decided, P!Goto, P!Worked, P!Same, P!Keep,
         MarkerIsLast, Resting, FilesTyped, Files, ControlTyped, Deciding, Setup, Finishing,
         DiskBehind, StepsTaken, P!Whole, P!Final, Projected
  <2>4. DecisionIsAlone'
    BY <1>4, FormsDiffer DEF PhaseInv, P!ResumeFresh, P!Resuming, P!Decided, P!Goto, P!Worked, P!Same, P!Keep,
         DecisionIsAlone, Deciding, Untouched, Resting, FilesTyped, Files, ControlTyped, Setup,
         Finishing, DiskBehind
  <2>5. FilesTyped' /\ DiskBehind' /\ CompleteIsWhole'
    BY <1>4 DEF PhaseInv, P!ResumeFresh, P!Same, P!Keep, FilesTyped, Files, DiskBehind, CompleteIsWhole,
         Complete, P!Whole, Projected, P!Final
  <2>6. QED
    BY <2>1, <2>2, <2>3, <2>4, <2>5 DEF PhaseInv
<1>5. CASE P!ResumeIsolated
  <2>1. ControlTyped'
    BY <1>5 DEF PhaseInv, P!ResumeIsolated, P!Resuming, P!Decided, P!Goto, P!Ready, P!Final, P!BoundPrefix, P!Same,
         P!Keep, ControlTyped, Resting, Deciding, Setup, Finishing
  <2>2. StepsTaken'
    BY <1>5, FormsDiffer DEF PhaseInv, P!ResumeIsolated, P!Resuming, P!Decided, P!Goto, P!Ready, P!Final,
         P!BoundPrefix, P!Same, P!Keep, StepsTaken, Setup, Finishing, P!Whole, Projected, FilesTyped,
         Files, ControlTyped, Resting, Deciding, DiskBehind, CompleteIsWhole, Complete
  <2>3. MarkerIsLast'
    BY <1>5, FormsDiffer DEF PhaseInv, P!ResumeIsolated, P!Resuming, P!Decided, P!Goto, P!Ready, P!Final,
         P!BoundPrefix, P!Same, P!Keep, MarkerIsLast, Resting, FilesTyped, Files, ControlTyped,
         Deciding, Setup, Finishing, DiskBehind, StepsTaken, P!Whole, Projected
  <2>4. DecisionIsAlone'
    BY <1>5, FormsDiffer DEF PhaseInv, P!ResumeIsolated, P!Resuming, P!Decided, P!Goto, P!Ready, P!Final,
         P!BoundPrefix, P!Same, P!Keep, DecisionIsAlone, Deciding, Untouched, Resting, FilesTyped,
         Files, ControlTyped, Setup, Finishing, DiskBehind
  <2>5. FilesTyped' /\ DiskBehind' /\ CompleteIsWhole'
    BY <1>5 DEF PhaseInv, P!ResumeIsolated, P!Same, P!Keep, FilesTyped, Files, DiskBehind,
         CompleteIsWhole, Complete, P!Whole, Projected, P!Final
  <2>6. QED
    BY <2>1, <2>2, <2>3, <2>4, <2>5 DEF PhaseInv
<1>6. CASE P!ResumeWaves
  <2>1. ControlTyped'
    BY <1>6 DEF PhaseInv, P!ResumeWaves, P!Resuming, P!Decided, P!Goto, P!Ready, P!Final, P!Refuses, P!ValidBefore,
         P!Whole, P!Same, P!Keep, ControlTyped, Resting, Deciding, Setup, Finishing
  <2>2. StepsTaken'
    BY <1>6, FormsDiffer DEF PhaseInv, P!ResumeWaves, P!Resuming, P!Decided, P!Goto, P!Ready, P!Final, P!Refuses,
         P!ValidBefore, P!Whole, P!Same, P!Keep, StepsTaken, Setup, Finishing, Projected, FilesTyped,
         Files, ControlTyped, Resting, Deciding, DiskBehind, CompleteIsWhole, Complete
  <2>3. MarkerIsLast'
    BY <1>6, FormsDiffer DEF PhaseInv, P!ResumeWaves, P!Resuming, P!Decided, P!Goto, P!Ready, P!Final, P!Refuses,
         P!ValidBefore, P!Whole, P!Same, P!Keep, MarkerIsLast, Resting, FilesTyped, Files, ControlTyped,
         Deciding, Setup, Finishing, DiskBehind, StepsTaken, Projected
  <2>4. DecisionIsAlone'
    BY <1>6, FormsDiffer DEF PhaseInv, P!ResumeWaves, P!Resuming, P!Decided, P!Goto, P!Ready, P!Final, P!Refuses,
         P!ValidBefore, P!Whole, P!Same, P!Keep, DecisionIsAlone, Deciding, Untouched, Resting,
         FilesTyped, Files, ControlTyped, Setup, Finishing, DiskBehind
  <2>5. FilesTyped' /\ DiskBehind' /\ CompleteIsWhole'
    BY <1>6 DEF PhaseInv, P!ResumeWaves, P!Same, P!Keep, FilesTyped, Files, DiskBehind, CompleteIsWhole,
         Complete, P!Whole, Projected, P!Final
  <2>6. QED
    BY <2>1, <2>2, <2>3, <2>4, <2>5 DEF PhaseInv
<1>7. CASE P!ResumeLegacy
  <2>1. FilesTyped'
    BY <1>7, FormsTyped, <1>form DEF PhaseInv, P!ResumeLegacy, P!Resuming, P!Decided, P!Goto, P!Write, P!Keep,
         FilesTyped, Files
  <2>2. ControlTyped'
    BY <1>7 DEF PhaseInv, P!ResumeLegacy, P!Resuming, P!Decided, P!Goto, P!Write, P!Keep, ControlTyped, Resting,
         Deciding, Setup, Finishing
  <2>3. DiskBehind'
    BY <1>7, FormsDiffer, <1>form DEF PhaseInv, P!ResumeLegacy, P!Resuming, P!Decided, P!Goto, P!Write, P!Keep,
         DiskBehind, FilesTyped, Files, ControlTyped, Resting, Deciding, Setup, Finishing,
         StepsTaken, P!Whole, P!Final, Projected
  <2>4. CompleteIsWhole'
    BY <1>7, FormsDiffer, PhaseAssumption DEF PhaseInv, P!ResumeLegacy, P!Resuming, P!Decided, P!Goto,
         P!Write, P!Keep, CompleteIsWhole, Complete, P!Whole, Projected, P!Final, FilesTyped, Files,
         ControlTyped, Resting, Deciding, Setup, Finishing, StepsTaken, DiskBehind
  <2>5. StepsTaken'
    BY <1>7, FormsDiffer DEF PhaseInv, P!ResumeLegacy, P!Resuming, P!Decided, P!Goto, P!Write, P!Keep,
         StepsTaken, Setup, Finishing, P!Whole, P!Final, Projected, FilesTyped, Files, ControlTyped,
         Resting, Deciding, DiskBehind, CompleteIsWhole, Complete
  <2>6. MarkerIsLast'
    BY <1>7, FormsDiffer DEF PhaseInv, P!ResumeLegacy, P!Resuming, P!Decided, P!Goto, P!Write, P!Keep,
         MarkerIsLast, Resting, FilesTyped, Files, ControlTyped, Deciding, Setup, Finishing,
         DiskBehind, StepsTaken, P!Whole, P!Final, Projected
  <2>7. DecisionIsAlone'
    BY <1>7, FormsDiffer DEF PhaseInv, P!ResumeLegacy, P!Resuming, P!Decided, P!Goto, P!Write, P!Keep,
         DecisionIsAlone, Deciding, Untouched, Resting, FilesTyped, Files, ControlTyped, Setup,
         Finishing, DiskBehind
  <2>8. QED
    BY <2>1, <2>2, <2>3, <2>4, <2>5, <2>6, <2>7 DEF PhaseInv
<1>8. CASE P!Again
  <2>1. ControlTyped'
    BY <1>8 DEF PhaseInv, P!Again, P!Goto, P!Same, P!Keep, ControlTyped, Resting, Deciding, Setup, Finishing
  <2>2. StepsTaken'
    BY <1>8, FormsDiffer DEF PhaseInv, P!Again, P!Goto, P!Same, P!Keep, StepsTaken, Setup, Finishing, P!Whole,
         P!Final, Projected, FilesTyped, Files, ControlTyped, Resting, Deciding, DiskBehind,
         CompleteIsWhole, Complete
  <2>3. MarkerIsLast'
    BY <1>8, FormsDiffer DEF PhaseInv, P!Again, P!Goto, P!Same, P!Keep, MarkerIsLast, Resting, FilesTyped,
         Files, ControlTyped, Deciding, Setup, Finishing, DiskBehind, StepsTaken, P!Whole, P!Final,
         Projected
  <2>4. DecisionIsAlone'
    BY <1>8, FormsDiffer DEF PhaseInv, P!Again, P!Goto, P!Same, P!Keep, DecisionIsAlone, P!Decided, Deciding,
         Untouched, Resting, FilesTyped, Files, ControlTyped, Setup, Finishing, DiskBehind
  <2>5. FilesTyped' /\ DiskBehind' /\ CompleteIsWhole'
    BY <1>8 DEF PhaseInv, P!Again, P!Same, P!Keep, FilesTyped, Files, DiskBehind, CompleteIsWhole,
         Complete, P!Whole, Projected, P!Final
  <2>6. QED
    BY <2>1, <2>2, <2>3, <2>4, <2>5 DEF PhaseInv
<1>9. CASE P!CreateSidecars
  <2>1. FilesTyped'
    BY <1>9, FormsTyped, <1>form DEF PhaseInv, P!CreateSidecars, P!Goto, P!Sync, P!Write, P!Keep, FilesTyped,
         Files
  <2>2. ControlTyped'
    BY <1>9 DEF PhaseInv, P!CreateSidecars, P!Goto, P!Sync, P!Write, P!Keep, ControlTyped, Resting, Deciding,
         Setup, Finishing
  <2>3. DiskBehind'
    BY <1>9, FormsDiffer, <1>form DEF PhaseInv, P!CreateSidecars, P!Goto, P!Sync, P!Write, P!Keep, DiskBehind,
         FilesTyped, Files, ControlTyped, Resting, Deciding, Setup, Finishing, StepsTaken,
         P!Whole, P!Final, Projected
  <2>4. CompleteIsWhole'
    BY <1>9, FormsDiffer, PhaseAssumption DEF PhaseInv, P!CreateSidecars, P!Goto, P!Sync, P!Write, P!Keep,
         CompleteIsWhole, Complete, P!Whole, Projected, P!Final, FilesTyped, Files, ControlTyped,
         Resting, Deciding, Setup, Finishing, StepsTaken, DiskBehind
  <2>5. StepsTaken'
    BY <1>9, FormsDiffer DEF PhaseInv, P!CreateSidecars, P!Goto, P!Sync, P!Write, P!Keep, StepsTaken, Setup,
         Finishing, P!Whole, P!Final, Projected, FilesTyped, Files, ControlTyped, Resting, Deciding,
         DiskBehind, CompleteIsWhole, Complete
  <2>6. MarkerIsLast'
    BY <1>9, FormsDiffer DEF PhaseInv, P!CreateSidecars, P!Goto, P!Sync, P!Write, P!Keep, MarkerIsLast,
         Resting, FilesTyped, Files, ControlTyped, Deciding, Setup, Finishing, DiskBehind,
         StepsTaken, P!Whole, P!Final, Projected
  <2>7. DecisionIsAlone'
    BY <1>9, FormsDiffer DEF PhaseInv, P!CreateSidecars, P!Goto, P!Sync, P!Write, P!Keep, DecisionIsAlone,
         P!Decided, Deciding, Untouched, Resting, FilesTyped, Files, ControlTyped, Setup,
         Finishing, DiskBehind
  <2>8. QED
    BY <2>1, <2>2, <2>3, <2>4, <2>5, <2>6, <2>7 DEF PhaseInv
<1>10. CASE P!PublishPlan
  <2>1. FilesTyped'
    BY <1>10, FormsTyped, <1>form DEF PhaseInv, P!PublishPlan, P!Goto, P!Keep, FilesTyped, Files
  <2>2. ControlTyped'
    BY <1>10 DEF PhaseInv, P!PublishPlan, P!Goto, P!Keep, ControlTyped, Resting, Deciding, Setup,
         Finishing
  <2>3. DiskBehind'
    BY <1>10, FormsDiffer, <1>form DEF PhaseInv, P!PublishPlan, P!Goto, P!Keep, DiskBehind, FilesTyped,
         Files, ControlTyped, Resting, Deciding, Setup, Finishing, StepsTaken, P!Whole, P!Final,
         Projected
  <2>4. CompleteIsWhole'
    BY <1>10, FormsDiffer, PhaseAssumption DEF PhaseInv, P!PublishPlan, P!Goto, P!Keep, CompleteIsWhole,
         Complete, P!Whole, Projected, P!Final, FilesTyped, Files, ControlTyped, Resting, Deciding,
         Setup, Finishing, StepsTaken, DiskBehind
  <2>5. StepsTaken'
    BY <1>10, FormsDiffer DEF PhaseInv, P!PublishPlan, P!Goto, P!Keep, StepsTaken, Setup, Finishing,
         P!Whole, P!Final, Projected, FilesTyped, Files, ControlTyped, Resting, Deciding,
         DiskBehind, CompleteIsWhole, Complete
  <2>6. MarkerIsLast'
    BY <1>10, FormsDiffer DEF PhaseInv, P!PublishPlan, P!Goto, P!Keep, MarkerIsLast, Resting, FilesTyped,
         Files, ControlTyped, Deciding, Setup, Finishing, DiskBehind, StepsTaken, P!Whole, P!Final,
         Projected
  <2>7. DecisionIsAlone'
    BY <1>10, FormsDiffer DEF PhaseInv, P!PublishPlan, P!Goto, P!Keep, DecisionIsAlone, P!Decided, Deciding,
         Untouched, Resting, FilesTyped, Files, ControlTyped, Setup, Finishing, DiskBehind
  <2>8. QED
    BY <2>1, <2>2, <2>3, <2>4, <2>5, <2>6, <2>7 DEF PhaseInv
<1>11. CASE P!WriteHeader
  <2>1. FilesTyped'
    BY <1>11, FormsTyped, <1>form DEF PhaseInv, P!WriteHeader, P!Sync, P!Goto, P!Keep, FilesTyped, Files
  <2>2. ControlTyped'
    BY <1>11 DEF PhaseInv, P!WriteHeader, P!Sync, P!Goto, P!Keep, ControlTyped, Resting, Deciding, Setup,
         Finishing
  <2>3. DiskBehind'
    BY <1>11, FormsDiffer, <1>form DEF PhaseInv, P!WriteHeader, P!Sync, P!Goto, P!Keep, DiskBehind,
         FilesTyped, Files, ControlTyped, Resting, Deciding, Setup, Finishing, StepsTaken,
         P!Whole, P!Final, Projected
  <2>4. CompleteIsWhole'
    BY <1>11, FormsDiffer, PhaseAssumption DEF PhaseInv, P!WriteHeader, P!Sync, P!Goto, P!Keep,
         CompleteIsWhole, Complete, P!Whole, Projected, P!Final, FilesTyped, Files, ControlTyped,
         Resting, Deciding, Setup, Finishing, StepsTaken, DiskBehind
  <2>5. StepsTaken'
    BY <1>11, FormsDiffer DEF PhaseInv, P!WriteHeader, P!Sync, P!Goto, P!Keep, StepsTaken, Setup, Finishing,
         P!Whole, P!Final, Projected, FilesTyped, Files, ControlTyped, Resting, Deciding,
         DiskBehind, CompleteIsWhole, Complete
  <2>6. MarkerIsLast'
    BY <1>11, FormsDiffer DEF PhaseInv, P!WriteHeader, P!Sync, P!Goto, P!Keep, MarkerIsLast, Resting,
         FilesTyped, Files, ControlTyped, Deciding, Setup, Finishing, DiskBehind, StepsTaken,
         P!Whole, P!Final, Projected
  <2>7. DecisionIsAlone'
    BY <1>11, FormsDiffer DEF PhaseInv, P!WriteHeader, P!Sync, P!Goto, P!Keep, DecisionIsAlone, P!Decided,
         Deciding, Untouched, Resting, FilesTyped, Files, ControlTyped, Setup, Finishing,
         DiskBehind
  <2>8. QED
    BY <2>1, <2>2, <2>3, <2>4, <2>5, <2>6, <2>7 DEF PhaseInv
<1>12. CASE P!CreateMeta
  <2>1. FilesTyped'
    BY <1>12, FormsTyped, <1>form DEF PhaseInv, P!CreateMeta, P!Write, P!Goto, P!Keep, FilesTyped, Files
  <2>2. ControlTyped'
    BY <1>12 DEF PhaseInv, P!CreateMeta, P!Write, P!Goto, P!Keep, ControlTyped, Resting, Deciding, Setup,
         Finishing
  <2>3. DiskBehind'
    BY <1>12, FormsDiffer, <1>form DEF PhaseInv, P!CreateMeta, P!Write, P!Goto, P!Keep, DiskBehind,
         FilesTyped, Files, ControlTyped, Resting, Deciding, Setup, Finishing, StepsTaken,
         P!Whole, P!Final, Projected
  <2>4. CompleteIsWhole'
    BY <1>12, FormsDiffer, PhaseAssumption DEF PhaseInv, P!CreateMeta, P!Write, P!Goto, P!Keep,
         CompleteIsWhole, Complete, P!Whole, Projected, P!Final, FilesTyped, Files, ControlTyped,
         Resting, Deciding, Setup, Finishing, StepsTaken, DiskBehind
  <2>5. StepsTaken'
    BY <1>12, FormsDiffer DEF PhaseInv, P!CreateMeta, P!Write, P!Goto, P!Keep, StepsTaken, Setup, Finishing,
         P!Whole, P!Final, Projected, FilesTyped, Files, ControlTyped, Resting, Deciding,
         DiskBehind, CompleteIsWhole, Complete
  <2>6. MarkerIsLast'
    BY <1>12, FormsDiffer DEF PhaseInv, P!CreateMeta, P!Write, P!Goto, P!Keep, MarkerIsLast, Resting,
         FilesTyped, Files, ControlTyped, Deciding, Setup, Finishing, DiskBehind, StepsTaken,
         P!Whole, P!Final, Projected
  <2>7. DecisionIsAlone'
    BY <1>12, FormsDiffer DEF PhaseInv, P!CreateMeta, P!Write, P!Goto, P!Keep, DecisionIsAlone, P!Decided,
         Deciding, Untouched, Resting, FilesTyped, Files, ControlTyped, Setup, Finishing,
         DiskBehind
  <2>8. QED
    BY <2>1, <2>2, <2>3, <2>4, <2>5, <2>6, <2>7 DEF PhaseInv
<1>13. CASE P!FillMeta
  <2>1. FilesTyped'
    BY <1>13, FormsTyped, <1>form DEF PhaseInv, P!FillMeta, P!Write, P!Goto, P!Keep, FilesTyped, Files
  <2>2. ControlTyped'
    BY <1>13 DEF PhaseInv, P!FillMeta, P!Write, P!Goto, P!Keep, ControlTyped, Resting, Deciding, Setup,
         Finishing
  <2>3. DiskBehind'
    BY <1>13, FormsDiffer, <1>form DEF PhaseInv, P!FillMeta, P!Write, P!Goto, P!Keep, DiskBehind,
         FilesTyped, Files, ControlTyped, Resting, Deciding, Setup, Finishing, StepsTaken,
         P!Whole, P!Final, Projected
  <2>4. CompleteIsWhole'
    BY <1>13, FormsDiffer, PhaseAssumption DEF PhaseInv, P!FillMeta, P!Write, P!Goto, P!Keep,
         CompleteIsWhole, Complete, P!Whole, Projected, P!Final, FilesTyped, Files, ControlTyped,
         Resting, Deciding, Setup, Finishing, StepsTaken, DiskBehind
  <2>5. StepsTaken'
    BY <1>13, FormsDiffer DEF PhaseInv, P!FillMeta, P!Write, P!Goto, P!Keep, StepsTaken, Setup, Finishing,
         P!Whole, P!Final, Projected, FilesTyped, Files, ControlTyped, Resting, Deciding,
         DiskBehind, CompleteIsWhole, Complete
  <2>6. MarkerIsLast'
    BY <1>13, FormsDiffer DEF PhaseInv, P!FillMeta, P!Write, P!Goto, P!Keep, MarkerIsLast, Resting,
         FilesTyped, Files, ControlTyped, Deciding, Setup, Finishing, DiskBehind, StepsTaken,
         P!Whole, P!Final, Projected
  <2>7. DecisionIsAlone'
    BY <1>13, FormsDiffer DEF PhaseInv, P!FillMeta, P!Write, P!Goto, P!Keep, DecisionIsAlone, P!Decided,
         Deciding, Untouched, Resting, FilesTyped, Files, ControlTyped, Setup, Finishing,
         DiskBehind
  <2>8. QED
    BY <2>1, <2>2, <2>3, <2>4, <2>5, <2>6, <2>7 DEF PhaseInv
<1>14. CASE P!RenameMeta
  <2>1. FilesTyped'
    BY <1>14, FormsTyped, <1>form DEF PhaseInv, P!RenameMeta, P!Goto, P!Keep, FilesTyped, Files
  <2>2. ControlTyped'
    BY <1>14 DEF PhaseInv, P!RenameMeta, P!Goto, P!Keep, ControlTyped, Resting, Deciding, Setup, Finishing
  <2>3. DiskBehind'
    BY <1>14, FormsDiffer, <1>form DEF PhaseInv, P!RenameMeta, P!Goto, P!Keep, DiskBehind, FilesTyped,
         Files, ControlTyped, Resting, Deciding, Setup, Finishing, StepsTaken, P!Whole, P!Final,
         Projected
  <2>4. CompleteIsWhole'
    BY <1>14, FormsDiffer, PhaseAssumption DEF PhaseInv, P!RenameMeta, P!Goto, P!Keep, CompleteIsWhole,
         Complete, P!Whole, Projected, P!Final, FilesTyped, Files, ControlTyped, Resting, Deciding,
         Setup, Finishing, StepsTaken, DiskBehind
  <2>5. StepsTaken'
    BY <1>14, FormsDiffer DEF PhaseInv, P!RenameMeta, P!Goto, P!Keep, StepsTaken, Setup, Finishing, P!Whole,
         P!Final, Projected, FilesTyped, Files, ControlTyped, Resting, Deciding, DiskBehind,
         CompleteIsWhole, Complete
  <2>6. MarkerIsLast'
    BY <1>14, FormsDiffer DEF PhaseInv, P!RenameMeta, P!Goto, P!Keep, MarkerIsLast, Resting, FilesTyped,
         Files, ControlTyped, Deciding, Setup, Finishing, DiskBehind, StepsTaken, P!Whole, P!Final,
         Projected
  <2>7. DecisionIsAlone'
    BY <1>14, FormsDiffer DEF PhaseInv, P!RenameMeta, P!Goto, P!Keep, DecisionIsAlone, P!Decided, Deciding,
         Untouched, Resting, FilesTyped, Files, ControlTyped, Setup, Finishing, DiskBehind
  <2>8. QED
    BY <2>1, <2>2, <2>3, <2>4, <2>5, <2>6, <2>7 DEF PhaseInv
<1>15. CASE P!SyncMeta
  <2>1. FilesTyped'
    BY <1>15, FormsTyped, <1>form DEF PhaseInv, P!SyncMeta, P!Sync, P!Goto, P!Keep, FilesTyped, Files
  <2>2. ControlTyped'
    BY <1>15 DEF PhaseInv, P!SyncMeta, P!Sync, P!Goto, P!Keep, ControlTyped, Resting, Deciding, Setup,
         Finishing
  <2>3. DiskBehind'
    BY <1>15, FormsDiffer, <1>form DEF PhaseInv, P!SyncMeta, P!Sync, P!Goto, P!Keep, DiskBehind, FilesTyped,
         Files, ControlTyped, Resting, Deciding, Setup, Finishing, StepsTaken, P!Whole, P!Final,
         Projected
  <2>4. CompleteIsWhole'
    BY <1>15, FormsDiffer, PhaseAssumption DEF PhaseInv, P!SyncMeta, P!Sync, P!Goto, P!Keep,
         CompleteIsWhole, Complete, P!Whole, Projected, P!Final, FilesTyped, Files, ControlTyped,
         Resting, Deciding, Setup, Finishing, StepsTaken, DiskBehind
  <2>5. StepsTaken'
    BY <1>15, FormsDiffer DEF PhaseInv, P!SyncMeta, P!Sync, P!Goto, P!Keep, StepsTaken, Setup, Finishing,
         P!Whole, P!Final, Projected, FilesTyped, Files, ControlTyped, Resting, Deciding,
         DiskBehind, CompleteIsWhole, Complete
  <2>6. MarkerIsLast'
    BY <1>15, FormsDiffer DEF PhaseInv, P!SyncMeta, P!Sync, P!Goto, P!Keep, MarkerIsLast, Resting,
         FilesTyped, Files, ControlTyped, Deciding, Setup, Finishing, DiskBehind, StepsTaken,
         P!Whole, P!Final, Projected
  <2>7. DecisionIsAlone'
    BY <1>15, FormsDiffer DEF PhaseInv, P!SyncMeta, P!Sync, P!Goto, P!Keep, DecisionIsAlone, P!Decided,
         Deciding, Untouched, Resting, FilesTyped, Files, ControlTyped, Setup, Finishing,
         DiskBehind
  <2>8. QED
    BY <2>1, <2>2, <2>3, <2>4, <2>5, <2>6, <2>7 DEF PhaseInv
<1>16. CASE P!Commit
  <2>1. FilesTyped'
    <3>1. Append(obs, 2) \in Seq(1..2) /\ (~P!Whole /\ kind # "legacy" => Len(Append(obs, 2)) <= PhaseUnits)
      BY PhaseAssumption DEF PhaseInv, FilesTyped, P!Whole
    <3>2. Append(view.tsv.rows, 2) \in Seq(1..2)
      BY DEF PhaseInv, FilesTyped, Files, Form
    <3>3. P!Rows(Append(view.tsv.rows, 2)) \in Form
      BY <3>2, RowsForm
    <3>4. QED
      BY <1>16, <3>1, <3>3 DEF PhaseInv, P!Commit, P!Write, FilesTyped, Files
  <2>2. DiskBehind'
    BY <1>16, FormsDiffer, <1>form DEF PhaseInv, P!Commit, P!Whole, P!Write, DiskBehind, FilesTyped,
         Files, ControlTyped, Resting, Deciding, Setup, Finishing, StepsTaken, P!Final, Projected
  <2>3. CompleteIsWhole'
    BY <1>16, FormsDiffer, PhaseAssumption DEF PhaseInv, P!Commit, P!Whole, P!Write, CompleteIsWhole,
         Complete, Projected, P!Final, FilesTyped, Files, ControlTyped, Resting, Deciding, Setup,
         Finishing, StepsTaken, DiskBehind
  <2>4. StepsTaken'
    BY <1>16, FormsDiffer DEF PhaseInv, P!Commit, P!Whole, P!Write, StepsTaken, Setup, Finishing, P!Final,
         Projected, FilesTyped, Files, ControlTyped, Resting, Deciding, DiskBehind,
         CompleteIsWhole, Complete
  <2>5. MarkerIsLast'
    BY <1>16, FormsDiffer DEF PhaseInv, P!Commit, P!Whole, P!Write, MarkerIsLast, Resting, FilesTyped,
         Files, ControlTyped, Deciding, Setup, Finishing, DiskBehind, StepsTaken, P!Final,
         Projected
  <2>6. DecisionIsAlone'
    BY <1>16, FormsDiffer DEF PhaseInv, P!Commit, P!Whole, P!Write, DecisionIsAlone, P!Decided, Deciding,
         Untouched, Resting, FilesTyped, Files, ControlTyped, Setup, Finishing, DiskBehind
  <2>7. ControlTyped'
    BY <1>16 DEF PhaseInv, P!Commit, ControlTyped, Resting, Deciding, Setup, Finishing
  <2>8. QED
    BY <2>1, <2>2, <2>3, <2>4, <2>5, <2>6, <2>7 DEF PhaseInv
<1>17. CASE P!UnitsEnd
  <2>1. ControlTyped'
    BY <1>17 DEF PhaseInv, P!UnitsEnd, P!Whole, P!Goto, P!Same, P!Keep, ControlTyped, Resting, Deciding,
         Setup, Finishing
  <2>2. StepsTaken'
    BY <1>17, FormsDiffer DEF PhaseInv, P!UnitsEnd, P!Whole, P!Goto, P!Same, P!Keep, StepsTaken, Setup,
         Finishing, P!Final, Projected, FilesTyped, Files, ControlTyped, Resting, Deciding,
         DiskBehind, CompleteIsWhole, Complete
  <2>3. MarkerIsLast'
    BY <1>17, FormsDiffer DEF PhaseInv, P!UnitsEnd, P!Whole, P!Goto, P!Same, P!Keep, MarkerIsLast, Resting,
         FilesTyped, Files, ControlTyped, Deciding, Setup, Finishing, DiskBehind, StepsTaken,
         P!Final, Projected
  <2>4. DecisionIsAlone'
    BY <1>17, FormsDiffer DEF PhaseInv, P!UnitsEnd, P!Whole, P!Goto, P!Same, P!Keep, DecisionIsAlone, P!Decided,
         Deciding, Untouched, Resting, FilesTyped, Files, ControlTyped, Setup, Finishing,
         DiskBehind
  <2>5. FilesTyped' /\ DiskBehind' /\ CompleteIsWhole'
    BY <1>17 DEF PhaseInv, P!UnitsEnd, P!Same, P!Keep, FilesTyped, Files, DiskBehind, CompleteIsWhole,
         Complete, P!Whole, Projected, P!Final
  <2>6. QED
    BY <2>1, <2>2, <2>3, <2>4, <2>5 DEF PhaseInv
<1>18. CASE P!PrepareStage
  <2>1. FilesTyped'
    BY <1>18, FormsTyped, <1>form DEF PhaseInv, P!PrepareStage, P!StageUsable, P!Sync, P!Goto, P!Keep,
         FilesTyped, Files
  <2>2. ControlTyped'
    BY <1>18 DEF PhaseInv, P!PrepareStage, P!StageUsable, P!Sync, P!Goto, P!Keep, ControlTyped, Resting,
         Deciding, Setup, Finishing
  <2>3. DiskBehind'
    BY <1>18, FormsDiffer, <1>form DEF PhaseInv, P!PrepareStage, P!StageUsable, P!Sync, P!Goto, P!Keep,
         DiskBehind, FilesTyped, Files, ControlTyped, Resting, Deciding, Setup, Finishing,
         StepsTaken, P!Whole, P!Final, Projected
  <2>4. CompleteIsWhole'
    BY <1>18, FormsDiffer, PhaseAssumption DEF PhaseInv, P!PrepareStage, P!StageUsable, P!Sync, P!Goto,
         P!Keep, CompleteIsWhole, Complete, P!Whole, Projected, P!Final, FilesTyped, Files,
         ControlTyped, Resting, Deciding, Setup, Finishing, StepsTaken, DiskBehind
  <2>5. StepsTaken'
    BY <1>18, FormsDiffer DEF PhaseInv, P!PrepareStage, P!StageUsable, P!Sync, P!Goto, P!Keep, StepsTaken,
         Setup, Finishing, P!Whole, P!Final, Projected, FilesTyped, Files, ControlTyped, Resting,
         Deciding, DiskBehind, CompleteIsWhole, Complete
  <2>6. MarkerIsLast'
    BY <1>18, FormsDiffer DEF PhaseInv, P!PrepareStage, P!StageUsable, P!Sync, P!Goto, P!Keep, MarkerIsLast,
         Resting, FilesTyped, Files, ControlTyped, Deciding, Setup, Finishing, DiskBehind,
         StepsTaken, P!Whole, P!Final, Projected
  <2>7. DecisionIsAlone'
    BY <1>18, FormsDiffer DEF PhaseInv, P!PrepareStage, P!StageUsable, P!Sync, P!Goto, P!Keep,
         DecisionIsAlone, P!Decided, Deciding, Untouched, Resting, FilesTyped, Files,
         ControlTyped, Setup, Finishing, DiskBehind
  <2>8. QED
    BY <2>1, <2>2, <2>3, <2>4, <2>5, <2>6, <2>7 DEF PhaseInv
<1>19. CASE P!StageFile
  <2>1. ControlTyped'
    BY <1>19 DEF PhaseInv, P!StageFile, P!Goto, P!Keep, ControlTyped, Resting, Deciding, Setup, Finishing
  <2>2. StepsTaken'
    BY <1>19, FormsDiffer DEF PhaseInv, P!StageFile, P!Goto, P!Keep, StepsTaken, Setup, Finishing, P!Whole,
         P!Final, Projected, FilesTyped, Files, ControlTyped, Resting, Deciding, DiskBehind,
         CompleteIsWhole, Complete
  <2>3. MarkerIsLast'
    BY <1>19, FormsDiffer DEF PhaseInv, P!StageFile, P!Goto, P!Keep, MarkerIsLast, Resting, FilesTyped,
         Files, ControlTyped, Deciding, Setup, Finishing, DiskBehind, StepsTaken, P!Whole, P!Final,
         Projected
  <2>4. DecisionIsAlone'
    BY <1>19, FormsDiffer DEF PhaseInv, P!StageFile, P!Goto, P!Keep, DecisionIsAlone, P!Decided, Deciding,
         Untouched, Resting, FilesTyped, Files, ControlTyped, Setup, Finishing, DiskBehind
  <2>5. FilesTyped' /\ DiskBehind' /\ CompleteIsWhole'
    BY <1>19 DEF PhaseInv, P!StageFile, P!Keep, FilesTyped, Files, DiskBehind, CompleteIsWhole,
         Complete, P!Whole, Projected, P!Final
  <2>6. QED
    BY <2>1, <2>2, <2>3, <2>4, <2>5 DEF PhaseInv
<1>20. CASE P!StageMeta
  <2>1. FilesTyped'
    BY <1>20, FormsTyped, <1>form DEF PhaseInv, P!StageMeta, P!Recoverable, P!Final, P!Sync, P!Goto, P!Keep,
         FilesTyped, Files
  <2>2. ControlTyped'
    BY <1>20 DEF PhaseInv, P!StageMeta, P!Recoverable, P!Final, P!Sync, P!Goto, P!Keep, ControlTyped, Resting,
         Deciding, Setup, Finishing
  <2>3. DiskBehind'
    BY <1>20, FormsDiffer, <1>form DEF PhaseInv, P!StageMeta, P!Recoverable, P!Final, P!Sync, P!Goto, P!Keep,
         DiskBehind, FilesTyped, Files, ControlTyped, Resting, Deciding, Setup, Finishing,
         StepsTaken, P!Whole, Projected
  <2>4. CompleteIsWhole'
    BY <1>20, FormsDiffer, PhaseAssumption DEF PhaseInv, P!StageMeta, P!Recoverable, P!Final, P!Sync, P!Goto,
         P!Keep, CompleteIsWhole, Complete, P!Whole, Projected, FilesTyped, Files, ControlTyped,
         Resting, Deciding, Setup, Finishing, StepsTaken, DiskBehind
  <2>5. StepsTaken'
    BY <1>20, FormsDiffer DEF PhaseInv, P!StageMeta, P!Recoverable, P!Final, P!Sync, P!Goto, P!Keep, StepsTaken,
         Setup, Finishing, P!Whole, Projected, FilesTyped, Files, ControlTyped, Resting, Deciding,
         DiskBehind, CompleteIsWhole, Complete
  <2>6. MarkerIsLast'
    BY <1>20, FormsDiffer DEF PhaseInv, P!StageMeta, P!Recoverable, P!Final, P!Sync, P!Goto, P!Keep,
         MarkerIsLast, Resting, FilesTyped, Files, ControlTyped, Deciding, Setup, Finishing,
         DiskBehind, StepsTaken, P!Whole, Projected
  <2>7. DecisionIsAlone'
    BY <1>20, FormsDiffer DEF PhaseInv, P!StageMeta, P!Recoverable, P!Final, P!Sync, P!Goto, P!Keep,
         DecisionIsAlone, P!Decided, Deciding, Untouched, Resting, FilesTyped, Files,
         ControlTyped, Setup, Finishing, DiskBehind
  <2>8. QED
    BY <2>1, <2>2, <2>3, <2>4, <2>5, <2>6, <2>7 DEF PhaseInv
<1>21. CASE P!MoveTsv
  <2>1. FilesTyped'
    BY <1>21, FormsTyped, <1>form DEF PhaseInv, P!MoveTsv, P!Write, P!Final, P!Goto, P!Keep, FilesTyped, Files
  <2>2. ControlTyped'
    BY <1>21 DEF PhaseInv, P!MoveTsv, P!Write, P!Final, P!Goto, P!Keep, ControlTyped, Resting, Deciding,
         Setup, Finishing
  <2>3. DiskBehind'
    BY <1>21, FormsDiffer, <1>form DEF PhaseInv, P!MoveTsv, P!Write, P!Final, P!Goto, P!Keep, DiskBehind,
         FilesTyped, Files, ControlTyped, Resting, Deciding, Setup, Finishing, StepsTaken,
         P!Whole, Projected
  <2>4. CompleteIsWhole'
    BY <1>21, FormsDiffer, PhaseAssumption DEF PhaseInv, P!MoveTsv, P!Write, P!Final, P!Goto, P!Keep,
         CompleteIsWhole, Complete, P!Whole, Projected, FilesTyped, Files, ControlTyped, Resting,
         Deciding, Setup, Finishing, StepsTaken, DiskBehind
  <2>5. StepsTaken'
    BY <1>21, FormsDiffer DEF PhaseInv, P!MoveTsv, P!Write, P!Final, P!Goto, P!Keep, StepsTaken, Setup,
         Finishing, P!Whole, Projected, FilesTyped, Files, ControlTyped, Resting, Deciding,
         DiskBehind, CompleteIsWhole, Complete
  <2>6. MarkerIsLast'
    BY <1>21, FormsDiffer DEF PhaseInv, P!MoveTsv, P!Write, P!Final, P!Goto, P!Keep, MarkerIsLast, Resting,
         FilesTyped, Files, ControlTyped, Deciding, Setup, Finishing, DiskBehind, StepsTaken,
         P!Whole, Projected
  <2>7. DecisionIsAlone'
    BY <1>21, FormsDiffer DEF PhaseInv, P!MoveTsv, P!Write, P!Final, P!Goto, P!Keep, DecisionIsAlone, P!Decided,
         Deciding, Untouched, Resting, FilesTyped, Files, ControlTyped, Setup, Finishing,
         DiskBehind
  <2>8. QED
    BY <2>1, <2>2, <2>3, <2>4, <2>5, <2>6, <2>7 DEF PhaseInv
<1>22. CASE P!MoveBounds
  <2>1. FilesTyped'
    BY <1>22, FormsTyped, <1>form DEF PhaseInv, P!MoveBounds, P!Write, P!Final, P!Goto, P!Keep, FilesTyped,
         Files
  <2>2. ControlTyped'
    BY <1>22 DEF PhaseInv, P!MoveBounds, P!Write, P!Final, P!Goto, P!Keep, ControlTyped, Resting, Deciding,
         Setup, Finishing
  <2>3. DiskBehind'
    BY <1>22, FormsDiffer, <1>form DEF PhaseInv, P!MoveBounds, P!Write, P!Final, P!Goto, P!Keep, DiskBehind,
         FilesTyped, Files, ControlTyped, Resting, Deciding, Setup, Finishing, StepsTaken,
         P!Whole, Projected
  <2>4. CompleteIsWhole'
    BY <1>22, FormsDiffer, PhaseAssumption DEF PhaseInv, P!MoveBounds, P!Write, P!Final, P!Goto, P!Keep,
         CompleteIsWhole, Complete, P!Whole, Projected, FilesTyped, Files, ControlTyped, Resting,
         Deciding, Setup, Finishing, StepsTaken, DiskBehind
  <2>5. StepsTaken'
    BY <1>22, FormsDiffer DEF PhaseInv, P!MoveBounds, P!Write, P!Final, P!Goto, P!Keep, StepsTaken, Setup,
         Finishing, P!Whole, Projected, FilesTyped, Files, ControlTyped, Resting, Deciding,
         DiskBehind, CompleteIsWhole, Complete
  <2>6. MarkerIsLast'
    BY <1>22, FormsDiffer DEF PhaseInv, P!MoveBounds, P!Write, P!Final, P!Goto, P!Keep, MarkerIsLast, Resting,
         FilesTyped, Files, ControlTyped, Deciding, Setup, Finishing, DiskBehind, StepsTaken,
         P!Whole, Projected
  <2>7. DecisionIsAlone'
    BY <1>22, FormsDiffer DEF PhaseInv, P!MoveBounds, P!Write, P!Final, P!Goto, P!Keep, DecisionIsAlone,
         P!Decided, Deciding, Untouched, Resting, FilesTyped, Files, ControlTyped, Setup,
         Finishing, DiskBehind
  <2>8. QED
    BY <2>1, <2>2, <2>3, <2>4, <2>5, <2>6, <2>7 DEF PhaseInv
<1>23. CASE P!SyncSidecars
  <2>1. FilesTyped'
    BY <1>23, FormsTyped, <1>form DEF PhaseInv, P!SyncSidecars, P!Sync, P!Goto, P!Keep, FilesTyped, Files
  <2>2. ControlTyped'
    BY <1>23 DEF PhaseInv, P!SyncSidecars, P!Sync, P!Goto, P!Keep, ControlTyped, Resting, Deciding, Setup,
         Finishing
  <2>3. DiskBehind'
    BY <1>23, FormsDiffer, <1>form DEF PhaseInv, P!SyncSidecars, P!Sync, P!Goto, P!Keep, DiskBehind,
         FilesTyped, Files, ControlTyped, Resting, Deciding, Setup, Finishing, StepsTaken,
         P!Whole, P!Final, Projected
  <2>4. CompleteIsWhole'
    BY <1>23, FormsDiffer, PhaseAssumption DEF PhaseInv, P!SyncSidecars, P!Sync, P!Goto, P!Keep,
         CompleteIsWhole, Complete, P!Whole, Projected, P!Final, FilesTyped, Files, ControlTyped,
         Resting, Deciding, Setup, Finishing, StepsTaken, DiskBehind
  <2>5. StepsTaken'
    BY <1>23, FormsDiffer DEF PhaseInv, P!SyncSidecars, P!Sync, P!Goto, P!Keep, StepsTaken, Setup,
         Finishing, P!Whole, P!Final, Projected, FilesTyped, Files, ControlTyped, Resting, Deciding,
         DiskBehind, CompleteIsWhole, Complete
  <2>6. MarkerIsLast'
    BY <1>23, FormsDiffer DEF PhaseInv, P!SyncSidecars, P!Sync, P!Goto, P!Keep, MarkerIsLast, Resting,
         FilesTyped, Files, ControlTyped, Deciding, Setup, Finishing, DiskBehind, StepsTaken,
         P!Whole, P!Final, Projected
  <2>7. DecisionIsAlone'
    BY <1>23, FormsDiffer DEF PhaseInv, P!SyncSidecars, P!Sync, P!Goto, P!Keep, DecisionIsAlone, P!Decided,
         Deciding, Untouched, Resting, FilesTyped, Files, ControlTyped, Setup, Finishing,
         DiskBehind
  <2>8. QED
    BY <2>1, <2>2, <2>3, <2>4, <2>5, <2>6, <2>7 DEF PhaseInv
<1>24. CASE P!MoveMeta
  <2>1. FilesTyped'
    BY <1>24, FormsTyped, <1>form DEF PhaseInv, P!MoveMeta, P!Write, P!Goto, P!Keep, FilesTyped, Files
  <2>2. ControlTyped'
    BY <1>24 DEF PhaseInv, P!MoveMeta, P!Write, P!Goto, P!Keep, ControlTyped, Resting, Deciding, Setup,
         Finishing
  <2>3. DiskBehind'
    BY <1>24, FormsDiffer, <1>form DEF PhaseInv, P!MoveMeta, P!Write, P!Goto, P!Keep, DiskBehind,
         FilesTyped, Files, ControlTyped, Resting, Deciding, Setup, Finishing, StepsTaken,
         P!Whole, P!Final, Projected
  <2>4. CompleteIsWhole'
    BY <1>24, FormsDiffer, PhaseAssumption DEF PhaseInv, P!MoveMeta, P!Write, P!Goto, P!Keep,
         CompleteIsWhole, Complete, P!Whole, Projected, P!Final, FilesTyped, Files, ControlTyped,
         Resting, Deciding, Setup, Finishing, StepsTaken, DiskBehind
  <2>5. StepsTaken'
    BY <1>24, FormsDiffer DEF PhaseInv, P!MoveMeta, P!Write, P!Goto, P!Keep, StepsTaken, Setup, Finishing,
         P!Whole, P!Final, Projected, FilesTyped, Files, ControlTyped, Resting, Deciding,
         DiskBehind, CompleteIsWhole, Complete
  <2>6. MarkerIsLast'
    BY <1>24, FormsDiffer DEF PhaseInv, P!MoveMeta, P!Write, P!Goto, P!Keep, MarkerIsLast, Resting,
         FilesTyped, Files, ControlTyped, Deciding, Setup, Finishing, DiskBehind, StepsTaken,
         P!Whole, P!Final, Projected
  <2>7. DecisionIsAlone'
    BY <1>24, FormsDiffer DEF PhaseInv, P!MoveMeta, P!Write, P!Goto, P!Keep, DecisionIsAlone, P!Decided,
         Deciding, Untouched, Resting, FilesTyped, Files, ControlTyped, Setup, Finishing,
         DiskBehind
  <2>8. QED
    BY <2>1, <2>2, <2>3, <2>4, <2>5, <2>6, <2>7 DEF PhaseInv
<1>25. CASE P!SyncTerminal
  <2>1. FilesTyped'
    BY <1>25, FormsTyped, <1>form DEF PhaseInv, P!SyncTerminal, P!Sync, P!Goto, P!Keep, FilesTyped, Files
  <2>2. ControlTyped'
    BY <1>25 DEF PhaseInv, P!SyncTerminal, P!Sync, P!Goto, P!Keep, ControlTyped, Resting, Deciding, Setup,
         Finishing
  <2>3. DiskBehind'
    BY <1>25, FormsDiffer, <1>form DEF PhaseInv, P!SyncTerminal, P!Sync, P!Goto, P!Keep, DiskBehind,
         FilesTyped, Files, ControlTyped, Resting, Deciding, Setup, Finishing, StepsTaken,
         P!Whole, P!Final, Projected
  <2>4. CompleteIsWhole'
    BY <1>25, FormsDiffer, PhaseAssumption DEF PhaseInv, P!SyncTerminal, P!Sync, P!Goto, P!Keep,
         CompleteIsWhole, Complete, P!Whole, Projected, P!Final, FilesTyped, Files, ControlTyped,
         Resting, Deciding, Setup, Finishing, StepsTaken, DiskBehind
  <2>5. StepsTaken'
    BY <1>25, FormsDiffer DEF PhaseInv, P!SyncTerminal, P!Sync, P!Goto, P!Keep, StepsTaken, Setup,
         Finishing, P!Whole, P!Final, Projected, FilesTyped, Files, ControlTyped, Resting, Deciding,
         DiskBehind, CompleteIsWhole, Complete
  <2>6. MarkerIsLast'
    BY <1>25, FormsDiffer DEF PhaseInv, P!SyncTerminal, P!Sync, P!Goto, P!Keep, MarkerIsLast, Resting,
         FilesTyped, Files, ControlTyped, Deciding, Setup, Finishing, DiskBehind, StepsTaken,
         P!Whole, P!Final, Projected
  <2>7. DecisionIsAlone'
    BY <1>25, FormsDiffer DEF PhaseInv, P!SyncTerminal, P!Sync, P!Goto, P!Keep, DecisionIsAlone, P!Decided,
         Deciding, Untouched, Resting, FilesTyped, Files, ControlTyped, Setup, Finishing,
         DiskBehind
  <2>8. QED
    BY <2>1, <2>2, <2>3, <2>4, <2>5, <2>6, <2>7 DEF PhaseInv
<1>26. CASE P!CloseStage
  <2>1. FilesTyped'
    BY <1>26, FormsTyped, <1>form DEF PhaseInv, P!CloseStage, P!Sync, P!Goto, P!Keep, FilesTyped, Files
  <2>2. ControlTyped'
    BY <1>26 DEF PhaseInv, P!CloseStage, P!Sync, P!Goto, P!Keep, ControlTyped, Resting, Deciding, Setup,
         Finishing
  <2>3. DiskBehind'
    BY <1>26, FormsDiffer, <1>form DEF PhaseInv, P!CloseStage, P!Sync, P!Goto, P!Keep, DiskBehind,
         FilesTyped, Files, ControlTyped, Resting, Deciding, Setup, Finishing, StepsTaken,
         P!Whole, P!Final, Projected
  <2>4. CompleteIsWhole'
    BY <1>26, FormsDiffer, PhaseAssumption DEF PhaseInv, P!CloseStage, P!Sync, P!Goto, P!Keep,
         CompleteIsWhole, Complete, P!Whole, Projected, P!Final, FilesTyped, Files, ControlTyped,
         Resting, Deciding, Setup, Finishing, StepsTaken, DiskBehind
  <2>5. StepsTaken'
    BY <1>26, FormsDiffer DEF PhaseInv, P!CloseStage, P!Sync, P!Goto, P!Keep, StepsTaken, Setup, Finishing,
         P!Whole, P!Final, Projected, FilesTyped, Files, ControlTyped, Resting, Deciding,
         DiskBehind, CompleteIsWhole, Complete
  <2>6. MarkerIsLast'
    BY <1>26, FormsDiffer DEF PhaseInv, P!CloseStage, P!Sync, P!Goto, P!Keep, MarkerIsLast, Resting,
         FilesTyped, Files, ControlTyped, Deciding, Setup, Finishing, DiskBehind, StepsTaken,
         P!Whole, P!Final, Projected
  <2>7. DecisionIsAlone'
    BY <1>26, FormsDiffer DEF PhaseInv, P!CloseStage, P!Sync, P!Goto, P!Keep, DecisionIsAlone, P!Decided,
         Deciding, Untouched, Resting, FilesTyped, Files, ControlTyped, Setup, Finishing,
         DiskBehind
  <2>8. QED
    BY <2>1, <2>2, <2>3, <2>4, <2>5, <2>6, <2>7 DEF PhaseInv
<1>27. CASE P!CloseStranded
  <2>1. FilesTyped'
    BY <1>27, FormsTyped, <1>form DEF PhaseInv, P!CloseStranded, P!StageUsable, P!Sync, P!Goto, P!Keep,
         FilesTyped, Files
  <2>2. ControlTyped'
    BY <1>27 DEF PhaseInv, P!CloseStranded, P!StageUsable, P!Sync, P!Goto, P!Keep, ControlTyped, Resting,
         Deciding, Setup, Finishing
  <2>3. DiskBehind'
    BY <1>27, FormsDiffer, <1>form DEF PhaseInv, P!CloseStranded, P!StageUsable, P!Sync, P!Goto, P!Keep,
         DiskBehind, FilesTyped, Files, ControlTyped, Resting, Deciding, Setup, Finishing,
         StepsTaken, P!Whole, P!Final, Projected
  <2>4. CompleteIsWhole'
    BY <1>27, FormsDiffer, PhaseAssumption DEF PhaseInv, P!CloseStranded, P!StageUsable, P!Sync, P!Goto,
         P!Keep, CompleteIsWhole, Complete, P!Whole, Projected, P!Final, FilesTyped, Files,
         ControlTyped, Resting, Deciding, Setup, Finishing, StepsTaken, DiskBehind
  <2>5. StepsTaken'
    BY <1>27, FormsDiffer DEF PhaseInv, P!CloseStranded, P!StageUsable, P!Sync, P!Goto, P!Keep, StepsTaken,
         Setup, Finishing, P!Whole, P!Final, Projected, FilesTyped, Files, ControlTyped, Resting,
         Deciding, DiskBehind, CompleteIsWhole, Complete
  <2>6. MarkerIsLast'
    BY <1>27, FormsDiffer DEF PhaseInv, P!CloseStranded, P!StageUsable, P!Sync, P!Goto, P!Keep, MarkerIsLast,
         Resting, FilesTyped, Files, ControlTyped, Deciding, Setup, Finishing, DiskBehind,
         StepsTaken, P!Whole, P!Final, Projected
  <2>7. DecisionIsAlone'
    BY <1>27, FormsDiffer DEF PhaseInv, P!CloseStranded, P!StageUsable, P!Sync, P!Goto, P!Keep,
         DecisionIsAlone, P!Decided, Deciding, Untouched, Resting, FilesTyped, Files,
         ControlTyped, Setup, Finishing, DiskBehind
  <2>8. QED
    BY <2>1, <2>2, <2>3, <2>4, <2>5, <2>6, <2>7 DEF PhaseInv
<1>28. CASE P!Mark
  <2>1. FilesTyped'
    BY <1>28, FormsTyped, <1>form DEF PhaseInv, P!Mark, P!Ready, P!Final, P!Sync, P!Goto, P!Keep, FilesTyped,
         Files
  <2>2. ControlTyped'
    BY <1>28 DEF PhaseInv, P!Mark, P!Ready, P!Final, P!Sync, P!Goto, P!Keep, ControlTyped, Resting, Deciding,
         Setup, Finishing
  <2>3. DiskBehind'
    BY ZenonT(60), <1>28, FormsDiffer, <1>form DEF PhaseInv, P!Mark, P!Ready, P!Final, P!Sync, P!Goto, P!Keep, DiskBehind,
         FilesTyped, Files, ControlTyped, Resting, Deciding, Setup, Finishing, StepsTaken,
         P!Whole, Projected
  <2>4. CompleteIsWhole'
    BY <1>28, FormsDiffer, PhaseAssumption DEF PhaseInv, P!Mark, P!Ready, P!Final, P!Sync, P!Goto, P!Keep,
         CompleteIsWhole, Complete, P!Whole, Projected, FilesTyped, Files, ControlTyped, Resting,
         Deciding, Setup, Finishing, StepsTaken, DiskBehind
  <2>5. StepsTaken'
    BY <1>28, FormsDiffer DEF PhaseInv, P!Mark, P!Ready, P!Final, P!Sync, P!Goto, P!Keep, StepsTaken, Setup,
         Finishing, P!Whole, Projected, FilesTyped, Files, ControlTyped, Resting, Deciding,
         DiskBehind, CompleteIsWhole, Complete
  <2>6. MarkerIsLast'
    BY <1>28, FormsDiffer DEF PhaseInv, P!Mark, P!Ready, P!Final, P!Sync, P!Goto, P!Keep, MarkerIsLast, Resting,
         FilesTyped, Files, ControlTyped, Deciding, Setup, Finishing, DiskBehind, StepsTaken,
         P!Whole, Projected
  <2>7. DecisionIsAlone'
    BY <1>28, FormsDiffer DEF PhaseInv, P!Mark, P!Ready, P!Final, P!Sync, P!Goto, P!Keep, DecisionIsAlone,
         P!Decided, Deciding, Untouched, Resting, FilesTyped, Files, ControlTyped, Setup,
         Finishing, DiskBehind
  <2>8. QED
    BY <2>1, <2>2, <2>3, <2>4, <2>5, <2>6, <2>7 DEF PhaseInv
<1>29. CASE P!DecideCreate
  <2>1. FilesTyped'
    BY <1>29, FormsTyped, <1>form DEF PhaseInv, P!DecideCreate, P!Write, P!Goto, P!Keep, FilesTyped, Files
  <2>2. ControlTyped'
    BY <1>29 DEF PhaseInv, P!DecideCreate, P!Write, P!Goto, P!Keep, ControlTyped, Resting, Deciding, Setup,
         Finishing
  <2>3. DiskBehind'
    BY <1>29, FormsDiffer, <1>form DEF PhaseInv, P!DecideCreate, P!Write, P!Goto, P!Keep, DiskBehind,
         FilesTyped, Files, ControlTyped, Resting, Deciding, Setup, Finishing, StepsTaken,
         P!Whole, P!Final, Projected
  <2>4. CompleteIsWhole'
    BY <1>29, FormsDiffer, PhaseAssumption DEF PhaseInv, P!DecideCreate, P!Write, P!Goto, P!Keep,
         CompleteIsWhole, Complete, P!Whole, Projected, P!Final, FilesTyped, Files, ControlTyped,
         Resting, Deciding, Setup, Finishing, StepsTaken, DiskBehind
  <2>5. StepsTaken'
    BY <1>29, FormsDiffer DEF PhaseInv, P!DecideCreate, P!Write, P!Goto, P!Keep, StepsTaken, Setup,
         Finishing, P!Whole, P!Final, Projected, FilesTyped, Files, ControlTyped, Resting, Deciding,
         DiskBehind, CompleteIsWhole, Complete
  <2>6. MarkerIsLast'
    BY <1>29, FormsDiffer DEF PhaseInv, P!DecideCreate, P!Write, P!Goto, P!Keep, MarkerIsLast, Resting,
         FilesTyped, Files, ControlTyped, Deciding, Setup, Finishing, DiskBehind, StepsTaken,
         P!Whole, P!Final, Projected
  <2>7. DecisionIsAlone'
    BY <1>29, FormsDiffer DEF PhaseInv, P!DecideCreate, P!Write, P!Goto, P!Keep, DecisionIsAlone, P!Decided,
         Deciding, Untouched, Resting, FilesTyped, Files, ControlTyped, Setup, Finishing,
         DiskBehind
  <2>8. QED
    BY <2>1, <2>2, <2>3, <2>4, <2>5, <2>6, <2>7 DEF PhaseInv
<1>30. CASE P!DecideFill
  <2>1. FilesTyped'
    BY <1>30, FormsTyped, <1>form DEF PhaseInv, P!DecideFill, P!Write, P!Goto, P!Keep, FilesTyped, Files
  <2>2. ControlTyped'
    BY <1>30 DEF PhaseInv, P!DecideFill, P!Write, P!Goto, P!Keep, ControlTyped, Resting, Deciding, Setup,
         Finishing
  <2>3. DiskBehind'
    BY <1>30, FormsDiffer, <1>form DEF PhaseInv, P!DecideFill, P!Write, P!Goto, P!Keep, DiskBehind,
         FilesTyped, Files, ControlTyped, Resting, Deciding, Setup, Finishing, StepsTaken,
         P!Whole, P!Final, Projected
  <2>4. CompleteIsWhole'
    BY <1>30, FormsDiffer, PhaseAssumption DEF PhaseInv, P!DecideFill, P!Write, P!Goto, P!Keep,
         CompleteIsWhole, Complete, P!Whole, Projected, P!Final, FilesTyped, Files, ControlTyped,
         Resting, Deciding, Setup, Finishing, StepsTaken, DiskBehind
  <2>5. StepsTaken'
    BY <1>30, FormsDiffer DEF PhaseInv, P!DecideFill, P!Write, P!Goto, P!Keep, StepsTaken, Setup, Finishing,
         P!Whole, P!Final, Projected, FilesTyped, Files, ControlTyped, Resting, Deciding,
         DiskBehind, CompleteIsWhole, Complete
  <2>6. MarkerIsLast'
    BY <1>30, FormsDiffer DEF PhaseInv, P!DecideFill, P!Write, P!Goto, P!Keep, MarkerIsLast, Resting,
         FilesTyped, Files, ControlTyped, Deciding, Setup, Finishing, DiskBehind, StepsTaken,
         P!Whole, P!Final, Projected
  <2>7. DecisionIsAlone'
    BY <1>30, FormsDiffer DEF PhaseInv, P!DecideFill, P!Write, P!Goto, P!Keep, DecisionIsAlone, P!Decided,
         Deciding, Untouched, Resting, FilesTyped, Files, ControlTyped, Setup, Finishing,
         DiskBehind
  <2>8. QED
    BY <2>1, <2>2, <2>3, <2>4, <2>5, <2>6, <2>7 DEF PhaseInv
<1>31. CASE P!DecideSync
  <2>1. FilesTyped'
    BY <1>31, FormsTyped, <1>form DEF PhaseInv, P!DecideSync, P!Sync, P!Goto, P!Keep, FilesTyped, Files
  <2>2. ControlTyped'
    BY <1>31 DEF PhaseInv, P!DecideSync, P!Sync, P!Goto, P!Keep, ControlTyped, Resting, Deciding, Setup,
         Finishing
  <2>3. DiskBehind'
    BY <1>31, FormsDiffer, <1>form DEF PhaseInv, P!DecideSync, P!Sync, P!Goto, P!Keep, DiskBehind,
         FilesTyped, Files, ControlTyped, Resting, Deciding, Setup, Finishing, StepsTaken,
         P!Whole, P!Final, Projected
  <2>4. CompleteIsWhole'
    BY <1>31, FormsDiffer, PhaseAssumption DEF PhaseInv, P!DecideSync, P!Sync, P!Goto, P!Keep,
         CompleteIsWhole, Complete, P!Whole, Projected, P!Final, FilesTyped, Files, ControlTyped,
         Resting, Deciding, Setup, Finishing, StepsTaken, DiskBehind
  <2>5. StepsTaken'
    BY <1>31, FormsDiffer DEF PhaseInv, P!DecideSync, P!Sync, P!Goto, P!Keep, StepsTaken, Setup, Finishing,
         P!Whole, P!Final, Projected, FilesTyped, Files, ControlTyped, Resting, Deciding,
         DiskBehind, CompleteIsWhole, Complete
  <2>6. MarkerIsLast'
    BY <1>31, FormsDiffer DEF PhaseInv, P!DecideSync, P!Sync, P!Goto, P!Keep, MarkerIsLast, Resting,
         FilesTyped, Files, ControlTyped, Deciding, Setup, Finishing, DiskBehind, StepsTaken,
         P!Whole, P!Final, Projected
  <2>7. DecisionIsAlone'
    BY <1>31, FormsDiffer DEF PhaseInv, P!DecideSync, P!Sync, P!Goto, P!Keep, DecisionIsAlone, P!Decided,
         Deciding, Untouched, Resting, FilesTyped, Files, ControlTyped, Setup, Finishing,
         DiskBehind
  <2>8. QED
    BY <2>1, <2>2, <2>3, <2>4, <2>5, <2>6, <2>7 DEF PhaseInv
<1>32. CASE P!DecideMark
  <2>1. FilesTyped'
    BY <1>32, FormsTyped, <1>form DEF PhaseInv, P!DecideMark, P!Sync, P!Goto, P!Keep, FilesTyped, Files
  <2>2. ControlTyped'
    BY <1>32 DEF PhaseInv, P!DecideMark, P!Sync, P!Goto, P!Keep, ControlTyped, Resting, Deciding, Setup,
         Finishing
  <2>3. DiskBehind'
    BY <1>32, FormsDiffer, <1>form DEF PhaseInv, P!DecideMark, P!Sync, P!Goto, P!Keep, DiskBehind,
         FilesTyped, Files, ControlTyped, Resting, Deciding, Setup, Finishing, StepsTaken,
         P!Whole, P!Final, Projected
  <2>4. CompleteIsWhole'
    BY <1>32, FormsDiffer, PhaseAssumption DEF PhaseInv, P!DecideMark, P!Sync, P!Goto, P!Keep,
         CompleteIsWhole, Complete, P!Whole, Projected, P!Final, FilesTyped, Files, ControlTyped,
         Resting, Deciding, Setup, Finishing, StepsTaken, DiskBehind
  <2>5. StepsTaken'
    BY <1>32, FormsDiffer DEF PhaseInv, P!DecideMark, P!Sync, P!Goto, P!Keep, StepsTaken, Setup, Finishing,
         P!Whole, P!Final, Projected, FilesTyped, Files, ControlTyped, Resting, Deciding,
         DiskBehind, CompleteIsWhole, Complete
  <2>6. MarkerIsLast'
    BY <1>32, FormsDiffer DEF PhaseInv, P!DecideMark, P!Sync, P!Goto, P!Keep, MarkerIsLast, Resting,
         FilesTyped, Files, ControlTyped, Deciding, Setup, Finishing, DiskBehind, StepsTaken,
         P!Whole, P!Final, Projected
  <2>7. DecisionIsAlone'
    BY <1>32, FormsDiffer DEF PhaseInv, P!DecideMark, P!Sync, P!Goto, P!Keep, DecisionIsAlone, P!Decided,
         Deciding, Untouched, Resting, FilesTyped, Files, ControlTyped, Setup, Finishing,
         DiskBehind
  <2>8. QED
    BY <2>1, <2>2, <2>3, <2>4, <2>5, <2>6, <2>7 DEF PhaseInv
<1>33. CASE P!OddOutcome
  <2>1. FilesTyped'
    BY <1>33, FormsTyped, <1>form DEF PhaseInv, P!OddOutcome, P!Whole, P!Write, P!Goto, FilesTyped, Files
  <2>2. ControlTyped'
    BY <1>33 DEF PhaseInv, P!OddOutcome, P!Whole, P!Write, P!Goto, ControlTyped, Resting, Deciding, Setup,
         Finishing
  <2>3. DiskBehind'
    BY <1>33, FormsDiffer, <1>form DEF PhaseInv, P!OddOutcome, P!Whole, P!Write, P!Goto, DiskBehind,
         FilesTyped, Files, ControlTyped, Resting, Deciding, Setup, Finishing, StepsTaken,
         P!Final, Projected
  <2>4. CompleteIsWhole'
    BY <1>33, FormsDiffer, PhaseAssumption DEF PhaseInv, P!OddOutcome, P!Whole, P!Write, P!Goto,
         CompleteIsWhole, Complete, Projected, P!Final, FilesTyped, Files, ControlTyped, Resting,
         Deciding, Setup, Finishing, StepsTaken, DiskBehind
  <2>5. StepsTaken'
    BY <1>33, FormsDiffer DEF PhaseInv, P!OddOutcome, P!Whole, P!Write, P!Goto, StepsTaken, Setup,
         Finishing, P!Final, Projected, FilesTyped, Files, ControlTyped, Resting, Deciding,
         DiskBehind, CompleteIsWhole, Complete
  <2>6. MarkerIsLast'
    BY <1>33, FormsDiffer DEF PhaseInv, P!OddOutcome, P!Whole, P!Write, P!Goto, MarkerIsLast, Resting,
         FilesTyped, Files, ControlTyped, Deciding, Setup, Finishing, DiskBehind, StepsTaken,
         P!Final, Projected
  <2>7. DecisionIsAlone'
    BY <1>33, FormsDiffer DEF PhaseInv, P!OddOutcome, P!Whole, P!Write, P!Goto, DecisionIsAlone, P!Decided,
         Deciding, Untouched, Resting, FilesTyped, Files, ControlTyped, Setup, Finishing,
         DiskBehind
  <2>8. QED
    BY <2>1, <2>2, <2>3, <2>4, <2>5, <2>6, <2>7 DEF PhaseInv
<1>34. CASE P!Die
  <2>1. ControlTyped'
    BY <1>34 DEF PhaseInv, P!Die, P!Stop, P!Goto, ControlTyped, Resting, Deciding, Setup, Finishing
  <2>2. StepsTaken'
    BY <1>34, FormsDiffer DEF PhaseInv, P!Die, P!Stop, P!Goto, StepsTaken, Setup, Finishing, P!Whole, P!Final,
         Projected, FilesTyped, Files, ControlTyped, Resting, Deciding, DiskBehind,
         CompleteIsWhole, Complete
  <2>3. MarkerIsLast'
    BY <1>34, FormsDiffer DEF PhaseInv, P!Die, P!Stop, P!Goto, MarkerIsLast, Resting, FilesTyped, Files,
         ControlTyped, Deciding, Setup, Finishing, DiskBehind, StepsTaken, P!Whole, P!Final,
         Projected
  <2>4. DecisionIsAlone'
    BY <1>34, FormsDiffer DEF PhaseInv, P!Die, P!Stop, P!Goto, DecisionIsAlone, P!Decided, Deciding,
         Untouched, Resting, FilesTyped, Files, ControlTyped, Setup, Finishing, DiskBehind
  <2>5. FilesTyped' /\ DiskBehind' /\ CompleteIsWhole'
    BY <1>34 DEF PhaseInv, P!Die, FilesTyped, Files, DiskBehind, CompleteIsWhole, Complete, P!Whole,
         Projected, P!Final
  <2>6. QED
    BY <2>1, <2>2, <2>3, <2>4, <2>5 DEF PhaseInv
<1>35. CASE P!PowerLoss
  <2>1. P!RowsLeft \subseteq Form
    BY RowsTyped DEF PhaseInv
  <2>2. view.tsv = disk.tsv \/ view.tsv = P!Absent => P!RowsLeft \subseteq {view.tsv, disk.tsv}
    BY FormsDiffer DEF P!RowsLeft
  <2>3. FilesTyped'
    <3>1. PICK t \in P!RowsLeft, b \in {view.bounds, disk.bounds}, e \in {view.meta, disk.meta}, d \in {view.dec, disk.dec} :
            P!Sync([view EXCEPT !.tsv = t, !.bounds = b, !.meta = e, !.dec = d])
      BY <1>35 DEF P!PowerLoss
    <3>2. [view EXCEPT !.tsv = t, !.bounds = b, !.meta = e, !.dec = d] \in Files
      BY <2>1 DEF PhaseInv, FilesTyped, Files
    <3>3. QED
      BY <1>35, <3>1, <3>2 DEF PhaseInv, P!PowerLoss, P!Sync, FilesTyped
  <2>4. ControlTyped'
    BY <1>35, <2>1, <2>2 DEF PhaseInv, P!PowerLoss, P!Stop, P!Sync, P!Goto, ControlTyped, Resting, Deciding,
         Setup, Finishing
  <2>5. DiskBehind'
    BY <1>35, <2>1, <2>2, FormsDiffer, <1>form DEF PhaseInv, P!PowerLoss, P!Stop, P!Sync, P!Goto,
         DiskBehind, FilesTyped, Files, ControlTyped, Resting, Deciding, Setup, Finishing,
         StepsTaken, P!Whole, P!Final, Projected
  <2>6. CompleteIsWhole'
    BY <1>35, <2>1, <2>2, FormsDiffer, PhaseAssumption DEF PhaseInv, P!PowerLoss, P!Stop, P!Sync, P!Goto,
         CompleteIsWhole, Complete, P!Whole, Projected, P!Final, FilesTyped, Files, ControlTyped,
         Resting, Deciding, Setup, Finishing, StepsTaken, DiskBehind
  <2>7. StepsTaken'
    BY <1>35, <2>1, <2>2, FormsDiffer DEF PhaseInv, P!PowerLoss, P!Stop, P!Sync, P!Goto, StepsTaken, Setup,
         Finishing, P!Whole, P!Final, Projected, FilesTyped, Files, ControlTyped, Resting, Deciding,
         DiskBehind, CompleteIsWhole, Complete
  <2>8. MarkerIsLast'
    BY <1>35, <2>1, <2>2, FormsDiffer DEF PhaseInv, P!PowerLoss, P!Stop, P!Sync, P!Goto, MarkerIsLast,
         Resting, FilesTyped, Files, ControlTyped, Deciding, Setup, Finishing, DiskBehind,
         StepsTaken, P!Whole, P!Final, Projected
  <2>9. DecisionIsAlone'
    BY <1>35, <2>1, <2>2, FormsDiffer DEF PhaseInv, P!PowerLoss, P!Stop, P!Sync, P!Goto, DecisionIsAlone,
         P!Decided, Deciding, Untouched, Resting, FilesTyped, Files, ControlTyped, Setup,
         Finishing, DiskBehind
  <2>10. QED
    BY <2>3, <2>4, <2>5, <2>6, <2>7, <2>8, <2>9 DEF PhaseInv
<1>36. CASE P!TopologyChanges
  <2>1. FilesTyped' /\ ControlTyped' /\ DiskBehind' /\ CompleteIsWhole' /\ StepsTaken' /\
        MarkerIsLast' /\ DecisionIsAlone'
    BY <1>36 DEF PhaseInv, P!TopologyChanges, FilesTyped, Files, ControlTyped, Resting, Deciding,
         Setup, Finishing, DiskBehind, CompleteIsWhole, Complete, P!Whole, Projected, P!Final,
         StepsTaken, MarkerIsLast, DecisionIsAlone, P!Decided, Untouched
  <2>2. QED
    BY <2>1 DEF PhaseInv
<1>37. CASE P!Revisit
  <2>1. ControlTyped'
    BY <1>37 DEF PhaseInv, P!Revisit, P!Stop, P!Goto, ControlTyped, Resting, Deciding, Setup, Finishing
  <2>2. StepsTaken'
    BY <1>37, FormsDiffer DEF PhaseInv, P!Revisit, P!Stop, P!Goto, StepsTaken, Setup, Finishing, P!Whole,
         P!Final, Projected, FilesTyped, Files, ControlTyped, Resting, Deciding, DiskBehind,
         CompleteIsWhole, Complete
  <2>3. MarkerIsLast'
    BY <1>37, FormsDiffer DEF PhaseInv, P!Revisit, P!Stop, P!Goto, MarkerIsLast, Resting, FilesTyped,
         Files, ControlTyped, Deciding, Setup, Finishing, DiskBehind, StepsTaken, P!Whole, P!Final,
         Projected
  <2>4. DecisionIsAlone'
    BY <1>37, FormsDiffer DEF PhaseInv, P!Revisit, P!Stop, P!Goto, DecisionIsAlone, P!Decided, Deciding,
         Untouched, Resting, FilesTyped, Files, ControlTyped, Setup, Finishing, DiskBehind
  <2>5. FilesTyped' /\ DiskBehind' /\ CompleteIsWhole'
    BY <1>37 DEF PhaseInv, P!Revisit, FilesTyped, Files, DiskBehind, CompleteIsWhole, Complete, P!Whole,
         Projected, P!Final
  <2>6. QED
    BY <2>1, <2>2, <2>3, <2>4, <2>5 DEF PhaseInv
<1>38. CASE UNCHANGED P!vars
  BY <1>38 DEF P!vars, PhaseInv, FilesTyped, Files, ControlTyped, Resting, Deciding, Setup, Finishing,
       DiskBehind, CompleteIsWhole, Complete, P!Whole, Projected, P!Final, StepsTaken, MarkerIsLast,
       DecisionIsAlone, P!Decided, Untouched
<1>39. QED
  BY <1>1, <1>2, <1>3, <1>4, <1>5, <1>6, <1>7, <1>8, <1>9, <1>10, <1>11, <1>12, <1>13, <1>14,
       <1>15, <1>16, <1>17, <1>18, <1>19, <1>20, <1>21, <1>22, <1>23, <1>24, <1>25, <1>26,
       <1>27, <1>28, <1>29, <1>30, <1>31, <1>32, <1>33, <1>34, <1>35, <1>36, <1>37, <1>38 DEF
       P!Next, P!Resume, P!Step

LEMMA PhaseInvariant == P!Spec => []PhaseInv
BY InitPhase, NextPhase, PTL DEF P!Spec

-----------------------------------------------------------------------------
(* Complete metadata, whether a process sees it or a power loss would leave  *)
(* it, stands over the whole projection of the committed units, and a marker *)
(* over complete metadata: the resume decisions of diagnose.sh may trust it. *)
THEOREM TerminalMetadata == P!Spec => []TerminalAuthority
<1>1. PhaseInv => TerminalAuthority
  BY DEF PhaseInv, DiskBehind, CompleteIsWhole, MarkerIsLast, TerminalAuthority, P!TerminalAuthority, Complete, P!Whole,
         Projected
<1>2. QED
  BY <1>1, PhaseInvariant, PTL

(* A decision that the topology is unavailable excludes every trace of the   *)
(* phase's work, across kills, power losses and changes of the topology.     *)
THEOREM DecisionExcludesWork == P!Spec => []OneOutcome
<1>1. PhaseInv => OneOutcome
  BY DEF PhaseInv, DecisionIsAlone, OneOutcome, P!OneOutcome, P!Worked, Untouched
<1>2. QED
  BY <1>1, PhaseInvariant, PTL

-----------------------------------------------------------------------------
(* The telemetry of a phase.  The heart of the invariant is that telemetry   *)
(* is doomed once a workload has run unseen, and that it stays doomed: either *)
(* no later session takes its files up, or a segment is left that cannot be  *)
(* covered.                                                                  *)

\* What a log, and a start or a boundary, are made of.
Readings == [open : Nat, boot : Nat, sweeps : SUBSET Nat, end : Nat, torn : {TRUE, FALSE}]
Points   == [there : {TRUE, FALSE}, whole : {TRUE, FALSE}, unix : Nat, mono : Int]

\* Where the shell has a segment that has not begun, or one it is ending; where it has none;
\* where it may be once the evidence is published.
Beginning == {"first", "boundary", "bounding", "bounded"}
Ending    == {"stop", "ending", "group"}
Apart     == {"mint", "minted", "prepare", "recover", "start", "final", "absent?", "pair", "mark"}
Posterior == {"off", "mint", "minted", "prepare", "recover", "absent?", "pair", "mark"}

\* Types.
LogsTyped   == log \in [Segments -> Readings]
StartsTyped == start \in [Segments -> Points]
BoundsTyped == boundary \in [Segments -> Points]
ClockTyped  == clock \in Nat \ {0} /\ boot \in Nat
ShellTyped  ==
  /\ sampling \in Beginning \union Ending \union Apart \union {"off", "loop", "run"}
  /\ listed \in Nat /\ active \in {0} \union Segments /\ up \in {0} \union Segments
  /\ 1..listed \subseteq Segments
  /\ generation \in {"absent", "torn", "whole"}

\* What is in the files of a segment, and when its log ended.
Follows(s) ==
  /\ log[s].end < clock
  /\ log[s] # T!NoLog => log[s].open # 0
  /\ start[s].there => log[s] # T!NoLog
  /\ ~start[s].there => start[s].unix = 0
  /\ boundary[s].whole => boundary[s].there

\* ... of every segment.
FilesFollow == \A s \in Segments : Follows(s)

\* The phase has a generation but for its first steps.
Generated ==
  /\ sampling = "mint" => generation = "absent"
  /\ sampling = "minted" => generation = "torn"
  /\ generation = "absent" => sampling \in {"off", "mint"}

\* Where the shell stands tells what its sampler and its segment are.
SamplerFollows ==
  /\ sampling # "off" => up \in {0, active}
  /\ active = 0 => began = 0
  /\ active # 0 => active = listed + 1
  /\ sampling \in Apart => active = 0
  /\ sampling \in Beginning \union Ending => active # 0
  /\ sampling = "start" => T!Exact /\ T!Numbered(listed)
  /\ sampling \in Beginning => began = 0 /\ ~boundary[active].there
  /\ sampling \in {"boundary", "bounding", "bounded"} => log[active] # T!NoLog
  /\ sampling \in {"loop", "run"} /\ active # 0 => began = 1
  /\ (sampling \in {"loop", "run"} /\ active # 0) \/ (sampling = "stop" /\ began = 1) =>
       log[active] # T!NoLog /\ ~boundary[active].there
  /\ sampling = "run" /\ active # 0 /\ ~watched => up = 0
  /\ sampling \in {"bounding", "bounded"} => start[active].there
  /\ sampling = "ending" => log[active] # T!NoLog /\ boundary[active].there

\* Once the workload's evidence is published no observation is made any more.
FinalRests == /\ final => sampling \in Posterior
              /\ sampling \in {"absent?", "pair", "mark"} => final

\* A segment that no envelope will find covered: its log ended before its
\* boundary, or will have.
Uncoverable(s) ==
  /\ log[s] # T!NoLog /\ (s = active => began # 0)
  /\ \/ up = s /\ sampling = "off" /\ ~boundary[s].there
     \/ up # s /\ (log[s].end = 0 \/ ~boundary[s].there \/ boundary[s].unix > log[s].end)

\* Files that no session will take up.
Unusable ==
  /\ up = 0 /\ active = 0
  /\ ~(/\ T!Starts = T!Logs /\ T!Bounds \subseteq T!Logs
       /\ \E n \in {0} \union Segments : T!Numbered(n))

\* Telemetry that will never be read as complete.
Doomed == \/ generation = "torn" /\ sampling # "minted"
          \/ Unusable
          \/ \E s \in Segments : Uncoverable(s)

\* A session without telemetry dooms it, and so does an unseen observation.
UnseenIsDoomed ==
  /\ sampling \in {"loop", "run"} /\ active = 0 => Doomed
  /\ unseen => Doomed

\* What an envelope was built from stays as it is.
EnvelopeStands ==
  /\ index # "absent" \/ sampling = "pair" => envelope.status # "none"
  /\ envelope.status \in {"none", "complete", "incomplete"}
  /\ envelope.status # "none" =>
       /\ final /\ up = 0 /\ sampling # "recover" /\ ~T!Altered
       /\ envelope.segments \subseteq Segments
       /\ \A s \in envelope.segments : boundary[s].there
  /\ envelope.status = "complete" => ~unseen

\* The inductive invariant.
TelemetryInv == /\ LogsTyped /\ StartsTyped /\ BoundsTyped /\ ClockTyped /\ ShellTyped
                /\ FilesFollow /\ Generated /\ SamplerFollows /\ FinalRests
                /\ UnseenIsDoomed /\ EnvelopeStands

-----------------------------------------------------------------------------
\* What is not there is typed.
LEMMA NoFiles ==
  /\ T!NoLog \in Readings /\ T!NoLog.open = 0 /\ T!NoLog.end = 0
  /\ T!NoPoint \in Points /\ T!NoPoint.there = FALSE /\ T!NoPoint.whole = FALSE
  /\ T!NoPoint.unix = 0
BY DEF T!NoLog, T!NoPoint, Readings, Points

\* The times in a log, a start and a boundary are numbers.
LEMMA TimesTyped ==
  ASSUME LogsTyped, StartsTyped, BoundsTyped, NEW s \in Segments
  PROVE  /\ log[s].open \in Nat /\ log[s].end \in Nat
         /\ start[s].unix \in Nat /\ boundary[s].unix \in Nat
BY DEF LogsTyped, StartsTyped, BoundsTyped, Readings, Points

\* How each of the writes changes the files.
LEMMA EndsIs ==
  ASSUME LogsTyped, ClockTyped, FilesFollow, NEW s \in Segments, NEW ended \in BOOLEAN,
         NEW torn \in BOOLEAN, T!Ends(s, ended, torn)
  PROVE  /\ log' \in [Segments -> Readings] /\ (log'[s] = T!NoLog <=> log[s] = T!NoLog)
         /\ log'[s].open = log[s].open /\ log'[s].end <= clock
         /\ \A z \in Segments \ {s} : log'[z] = log[z]
<1>1. CASE log[s] = T!NoLog
  BY <1>1, NoFiles DEF T!Ends, LogsTyped, ClockTyped
<1>2. CASE log[s] # T!NoLog
  <2> DEFINE e == IF ended THEN clock ELSE 0
             t == IF ended THEN FALSE ELSE torn
             half == [log[s] EXCEPT !.end = e]
             new  == [half EXCEPT !.torn = t]
  <2>1. e \in Nat /\ e <= clock /\ log[s] \in Readings
    BY DEF ClockTyped, LogsTyped
  <2>1a. t \in {TRUE, FALSE}
    BY Zenon
  <2>2. log' = [log EXCEPT ![s] = new]
    BY <1>2 DEF T!Ends
  <2> HIDE DEF e, t
  <2>3. half \in Readings /\ half.open = log[s].open /\ half.end = e
    BY <2>1 DEF Readings
  <2> HIDE DEF half
  <2>4. new \in Readings /\ new.open = half.open /\ new.end = half.end
    BY <2>1a, <2>3 DEF Readings
  <2> HIDE DEF new
  <2>5. log[s].open # 0
    BY <1>2 DEF FilesFollow, Follows
  <2>6. new # T!NoLog
    BY <2>3, <2>4, <2>5, NoFiles
  <2>7. QED
    BY <1>2, <2>1, <2>2, <2>3, <2>4, <2>6 DEF LogsTyped
<1>3. QED
  BY <1>1, <1>2

\* A sampler that ends, ends its own log.
LEMMA DyingIs ==
  ASSUME TelemetryInv, up # 0, \E ended, torn \in BOOLEAN : T!Ends(up, ended, torn)
  PROVE  /\ log' \in [Segments -> Readings]
         /\ \A z \in Segments : z # up => log'[z] = log[z]
         /\ \A z \in Segments : log'[z] = T!NoLog <=> log[z] = T!NoLog
         /\ \A z \in Segments : /\ log'[z].open = log[z].open
                               /\ log'[z].end \in Nat /\ log'[z].end <= clock
<1>1. PICK s \in Segments, ended \in BOOLEAN, torn \in BOOLEAN : s = up /\ T!Ends(s, ended, torn)
  BY DEF TelemetryInv, ShellTyped
<1>2. /\ log' \in [Segments -> Readings] /\ (log'[s] = T!NoLog <=> log[s] = T!NoLog)
      /\ log'[s].open = log[s].open /\ log'[s].end <= clock
      /\ \A z \in Segments \ {s} : log'[z] = log[z]
  BY <1>1, EndsIs DEF TelemetryInv
<1>3. \A z \in Segments : log'[z].end \in Nat
  BY <1>2 DEF Readings
<1>4. \A z \in Segments : log[z].end \in Nat /\ log[z].end < clock
  BY TimesTyped DEF TelemetryInv, FilesFollow, Follows
<1>5. QED
  BY <1>1, <1>2, <1>3, <1>4 DEF TelemetryInv, ClockTyped

\* A sampler opens the log it is to write.
LEMMA OpensIs ==
  ASSUME TelemetryInv, T!SamplerOpens
  PROVE  /\ up \in Segments /\ log[up] = T!NoLog /\ log' \in [Segments -> Readings]
         /\ log'[up].open = clock /\ log'[up].end = 0 /\ log'[up] # T!NoLog
         /\ \A z \in Segments \ {up} : log'[z] = log[z]
<1> DEFINE half == [log[up] EXCEPT !.open = clock]
           new  == [half EXCEPT !.boot = boot]
<1>1. /\ up \in Segments /\ log[up] = T!NoLog /\ clock \in Nat \ {0} /\ boot \in Nat
      /\ log[up] \in Readings /\ log[up].end = 0
  BY NoFiles DEF TelemetryInv, ShellTyped, ClockTyped, T!SamplerOpens
<1>2. log' = [log EXCEPT ![up] = new]
  BY DEF T!SamplerOpens
<1>3. half \in Readings /\ half.open = clock /\ half.end = 0
  BY <1>1 DEF Readings
<1> HIDE DEF half
<1>4. new \in Readings /\ new.open = clock /\ new.end = 0
  BY <1>1, <1>3 DEF Readings
<1> HIDE DEF new
<1>5. new # T!NoLog
  BY <1>1, <1>4, NoFiles
<1>6. QED
  BY <1>1, <1>2, <1>4, <1>5 DEF TelemetryInv, LogsTyped

\* A sample leaves when a log was opened and how it ended.
LEMMA SweepIs ==
  ASSUME TelemetryInv, T!Sweep
  PROVE  /\ up \in Segments /\ log[up] # T!NoLog /\ log' \in [Segments -> Readings]
         /\ log'[up].open = log[up].open /\ log'[up].end = log[up].end /\ log'[up] # T!NoLog
         /\ \A z \in Segments \ {up} : log'[z] = log[z]
<1> DEFINE new == [log[up] EXCEPT !.sweeps = log[up].sweeps \union {clock}]
<1>1. up \in Segments /\ log[up] # T!NoLog /\ clock \in Nat /\ log[up] \in Readings
  BY DEF TelemetryInv, ShellTyped, LogsTyped, ClockTyped, T!Sweep
<1>2. log' = [log EXCEPT ![up] = new]
  BY DEF T!Sweep
<1>3. new \in Readings /\ new.open = log[up].open /\ new.end = log[up].end
  BY <1>1 DEF Readings
<1> HIDE DEF new
<1>4. new # T!NoLog
  BY <1>1, <1>3, NoFiles DEF TelemetryInv, FilesFollow, Follows
<1>5. QED
  BY <1>1, <1>2, <1>3, <1>4 DEF TelemetryInv, LogsTyped

\* A point is taken of a file that is there.
LEMMA PointIs == ClockTyped => T!Point(FALSE) \in Points /\ T!Point(FALSE).there
BY DEF ClockTyped, T!Point, Points

\* The start of a segment is recorded for a log.
LEMMA BoundaryIs ==
  ASSUME TelemetryInv, T!BoundaryStart
  PROVE  /\ start' \in [Segments -> Points] /\ UNCHANGED <<log, boundary>>
         /\ clock' \in {clock, clock + 1}
         /\ \A z \in Segments : start'[z] = start[z] \/ (start'[z].there /\ log[z] # T!NoLog)
         /\ active \in Segments /\ start'[active].there
<1>1. UNCHANGED <<log, boundary>> /\ clock' \in {clock, clock + 1}
  BY DEF T!BoundaryStart, T!Tick, T!time
<1>2. /\ sampling \in {"boundary", "bounding", "bounded"}
      /\ active \in Segments /\ log[active] # T!NoLog
  BY DEF TelemetryInv, ShellTyped, SamplerFollows, T!BoundaryStart, Beginning
<1>3. CASE sampling = "boundary"
  <2>1. start' = [start EXCEPT ![active] = T!Point(FALSE)]
    BY <1>3 DEF T!BoundaryStart
  <2>2. QED
    BY <1>1, <1>2, <2>1, PointIs DEF TelemetryInv, StartsTyped
<1>4. CASE sampling = "bounding"
  <2> DEFINE new == [start[active] EXCEPT !.whole = TRUE]
  <2>1. start' = [start EXCEPT ![active] = new]
    BY <1>4 DEF T!BoundaryStart
  <2>2. new \in Points /\ new.there = start[active].there
    BY <1>2 DEF TelemetryInv, StartsTyped, Points
  <2>3. start[active].there
    BY <1>4 DEF TelemetryInv, SamplerFollows
  <2> HIDE DEF new
  <2>4. QED
    BY <1>1, <1>2, <2>1, <2>2, <2>3 DEF TelemetryInv, StartsTyped
<1>5. CASE sampling = "bounded"
  BY <1>1, <1>2, <1>5 DEF TelemetryInv, SamplerFollows, StartsTyped, T!BoundaryStart
<1>6. QED
  BY <1>2, <1>3, <1>4, <1>5

\* The boundary of a segment is recorded for it alone.
LEMMA FinishIs ==
  ASSUME TelemetryInv, T!Finish
  PROVE  /\ boundary' \in [Segments -> Points] /\ UNCHANGED <<log, start>>
         /\ clock' \in {clock, clock + 1}
         /\ \A z \in Segments : boundary'[z] = boundary[z] \/ boundary'[z].there
         /\ \A z \in Segments \ {active} : boundary'[z] = boundary[z]
         /\ sampling = "stop" /\ began = 1 => boundary'[active] = T!Point(FALSE)
         /\ sampling = "ending" => /\ boundary'[active].there
                                   /\ boundary'[active].unix = boundary[active].unix
<1>1. UNCHANGED <<log, start>> /\ clock' \in {clock, clock + 1}
  BY DEF T!Finish, T!Tick, T!time
<1>2. sampling \in {"stop", "ending"} /\ active \in Segments
  BY DEF TelemetryInv, ShellTyped, SamplerFollows, T!Finish, Ending
<1>3. CASE sampling = "stop" /\ began = 1
  <2>1. boundary' = [boundary EXCEPT ![active] = T!Point(FALSE)]
    BY <1>3 DEF T!Finish
  <2>2. QED
    BY <1>1, <1>2, <1>3, <2>1, PointIs DEF TelemetryInv, BoundsTyped
<1>4. CASE sampling = "ending"
  <2> DEFINE new == [boundary[active] EXCEPT !.whole = TRUE]
  <2>1. boundary' = [boundary EXCEPT ![active] = new]
    BY <1>4 DEF T!Finish
  <2>2. new \in Points /\ new.there = boundary[active].there /\ new.unix = boundary[active].unix
    BY <1>2 DEF TelemetryInv, BoundsTyped, Points
  <2>3. boundary[active].there
    BY <1>4 DEF TelemetryInv, SamplerFollows
  <2> HIDE DEF new
  <2>4. QED
    BY <1>1, <1>2, <1>4, <2>1, <2>2, <2>3 DEF TelemetryInv, BoundsTyped
<1>5. CASE sampling = "stop" /\ began # 1
  BY <1>1, <1>5 DEF TelemetryInv, BoundsTyped, T!Finish
<1>6. QED
  BY <1>2, <1>3, <1>4, <1>5

\* A boundary is recovered for a log that has none.
LEMMA PrepareIs ==
  ASSUME TelemetryInv, T!Prepare
  PROVE  /\ boundary' \in [Segments -> Points] /\ UNCHANGED <<log, start>>
         /\ clock' \in {clock, clock + 1}
         /\ \/ UNCHANGED <<boundary, clock>>
            \/ /\ clock' = clock + 1 /\ T!Exact
               /\ \E s \in Segments : /\ boundary' = [boundary EXCEPT ![s] = T!Point(FALSE)]
                                      /\ log[s] # T!NoLog /\ ~boundary[s].there
         /\ \A z \in Segments : boundary'[z] = boundary[z] \/ boundary'[z].there
<1>1. UNCHANGED <<log, start>> /\ clock' \in {clock, clock + 1}
  BY DEF T!Prepare, T!Tick, T!time
<1>2. CASE UNCHANGED <<boundary, clock>>
  BY <1>1, <1>2 DEF TelemetryInv, BoundsTyped
<1>3. CASE ~UNCHANGED <<boundary, clock>>
  <2>1. PICK s \in Segments : /\ boundary' = [boundary EXCEPT ![s] = T!Point(FALSE)] /\ T!Least(s)
                              /\ clock' = clock + 1 /\ T!Exact
    BY <1>3 DEF T!Prepare, T!Tick, T!time
  <2>2. log[s] # T!NoLog /\ ~boundary[s].there
    BY <2>1 DEF T!Least, T!Missing, T!Logs, T!Bounds
  <2>3. QED
    BY <1>1, <2>1, <2>2, PointIs DEF TelemetryInv, BoundsTyped
<1>4. QED
  BY <1>2, <1>3

\* A segment's files follow each other still if they were left alone, or changed in order.
LEMMA StillFollow ==
  ASSUME LogsTyped, StartsTyped, BoundsTyped, ClockTyped, FilesFollow,
         clock' \in Nat, clock' >= clock,
         \A z \in Segments :
           /\ \/ log'[z] = log[z]
              \/ /\ log'[z].end \in Nat /\ log'[z].end < clock'
                 /\ log'[z].open # 0 /\ log'[z] # T!NoLog
           /\ start'[z] = start[z] \/ (start'[z].there /\ log'[z] # T!NoLog)
           /\ boundary'[z] = boundary[z] \/ boundary'[z].there
  PROVE  FilesFollow'
<1>1. SUFFICES ASSUME NEW z \in Segments PROVE Follows(z)'
  BY DEF FilesFollow
<1>2. Follows(z) /\ log[z].end \in Nat
  BY TimesTyped DEF FilesFollow
<1>3. (log[z].end < clock)' /\ (log[z] # T!NoLog => log[z].open # 0)'
  BY <1>2 DEF Follows, ClockTyped
<1>4. (start[z].there => log[z] # T!NoLog)' /\ (~start[z].there => start[z].unix = 0)'
  BY <1>2 DEF Follows
<1>5. (boundary[z].whole => boundary[z].there)'
  BY <1>2 DEF Follows
<1>6. QED
  BY <1>3, <1>4, <1>5 DEF Follows

\* A reboot ends the log that is written, and no other.
LEMMA RebootIs ==
  ASSUME TelemetryInv, T!Reboot
  PROVE  /\ log' \in [Segments -> Readings] /\ UNCHANGED <<start, boundary>>
         /\ clock' \in Nat /\ clock' > clock /\ boot' \in Nat
         /\ \A z \in Segments : z # up => log'[z] = log[z]
         /\ \A z \in Segments : log'[z] = T!NoLog <=> log[z] = T!NoLog
         /\ \A z \in Segments : /\ log'[z].open = log[z].open
                               /\ log'[z].end \in Nat /\ log'[z].end <= clock
<1>1. UNCHANGED <<start, boundary>> /\ clock' > clock /\ clock' \in Nat /\ boot' \in Nat
  BY TelemetryAssumption DEF TelemetryInv, ClockTyped, T!Reboot
<1>2. CASE up = 0
  <2>1. log' = log
    BY <1>2 DEF T!Reboot
  <2>2. \A z \in Segments : log[z].end \in Nat /\ log[z].end < clock
    BY TimesTyped DEF TelemetryInv, FilesFollow, Follows
  <2>3. QED
    BY <1>1, <2>1, <2>2 DEF TelemetryInv, LogsTyped, ClockTyped
<1>3. CASE up # 0
  <2>1. \E ended, torn \in BOOLEAN : T!Ends(up, ended, torn)
    BY <1>3 DEF T!Reboot
  <2>2. QED
    BY <1>1, <1>3, <2>1, DyingIs
<1>4. QED
  BY <1>2, <1>3

\* A log that ended stays as far from the workload as it was.
LEMMA StaysUncoverable ==
  ASSUME TelemetryInv, NEW s \in Segments, Uncoverable(s), log'[s] # T!NoLog,
         active' = active, began' = began, up' = 0, up # 0, boundary' = boundary, s # up => log'[s] = log[s]
  PROVE  Uncoverable(s)'
BY TelemetryAssumption DEF Uncoverable

\* Telemetry stays doomed while its files rest and the shell does not begin a segment.
LEMMA DoomRests ==
  ASSUME Doomed, UNCHANGED <<generation, log, start, boundary, up>>, sampling # "off" \/ up = 0,
         sampling' # "minted",
         active' = 0 \/ (active' = active /\ (began # 0 => began' # 0))
  PROVE  Doomed'
<1>1. CASE generation = "torn" /\ sampling # "minted"
  BY <1>1 DEF Doomed
<1>2. CASE Unusable
  BY <1>2 DEF Doomed, Unusable, T!Starts, T!Logs, T!Bounds, T!Numbered
<1>3. CASE \E s \in Segments : Uncoverable(s)
  BY <1>3, TelemetryAssumption DEF Doomed, Uncoverable
<1>4. QED
  BY <1>1, <1>2, <1>3 DEF Doomed

\* Initially nothing was sampled.
LEMMA InitTelemetry == T!Init => TelemetryInv
<1> SUFFICES ASSUME T!Init PROVE TelemetryInv
  OBVIOUS
<1>1. LogsTyped
  BY DEF T!Init, LogsTyped, Readings, T!NoLog
<1>2. StartsTyped
  BY DEF T!Init, StartsTyped, Points, T!NoPoint
<1>3. BoundsTyped
  BY DEF T!Init, BoundsTyped, Points, T!NoPoint
<1>4. ClockTyped
  BY DEF T!Init, ClockTyped
<1>5. ShellTyped
  BY DEF T!Init, ShellTyped
<1>6. FilesFollow
  BY DEF T!Init, FilesFollow, Follows, T!NoLog, T!NoPoint
<1>7. Generated
  BY DEF T!Init, Generated
<1>8. SamplerFollows
  BY DEF T!Init, SamplerFollows, Beginning, Ending
<1>9. FinalRests
  BY DEF T!Init, FinalRests
<1>10. UnseenIsDoomed
  BY DEF T!Init, UnseenIsDoomed
<1>11. EnvelopeStands
  BY DEF T!Init, EnvelopeStands, T!NoEnvelope
<1>12. QED
  BY <1>1, <1>2, <1>3, <1>4, <1>5, <1>6, <1>7, <1>8, <1>9, <1>10, <1>11 DEF TelemetryInv

\* Whatever happens, telemetry that cannot be complete never will be.
LEMMA DoomedStays ==
  ASSUME TelemetryInv, T!Next, Doomed
  PROVE  Doomed'
<1>1. CASE T!Resume
  BY <1>1, DoomRests DEF T!Resume, T!LockFree, T!segs
<1>2. CASE T!Mint
  <2>1. CASE generation = "torn" /\ sampling # "minted"
    BY <1>2, <2>1 DEF TelemetryInv, Generated, T!Mint
  <2>2. CASE Unusable
    BY <1>2, <2>2 DEF Doomed, Unusable, T!Logs, T!Starts, T!Bounds, T!Numbered, T!Mint,
         T!Goto
  <2>3. ASSUME NEW s \in Segments, Uncoverable(s) PROVE Uncoverable(s)'
    BY <1>2, <2>3 DEF Uncoverable, T!Mint, T!Goto
  <2>4. QED
    BY <2>1, <2>2, <2>3 DEF Doomed
<1>3. CASE T!Prepare
  <2>1. CASE generation = "torn" /\ sampling # "minted"
    BY <1>3, <2>1 DEF Doomed, T!Prepare, T!Exact, T!Starts, T!Next1, T!Unavailable
  <2>2. CASE Unusable
    BY <1>3, <2>2, TelemetryAssumption DEF Doomed, Unusable, T!Logs, T!Starts, T!Bounds,
         T!Numbered, T!Exact, TelemetryInv, T!Prepare, T!Unavailable, T!env, T!load
  <2>3. ASSUME NEW s \in Segments, Uncoverable(s) PROVE Uncoverable(s)'
    <3>1. UNCHANGED <<log, up, active, began>> /\ sampling # "off"
      BY <1>3 DEF T!Prepare, T!Goto, T!Unavailable
    <3>2. up # s /\ log[s] # T!NoLog /\ (s = active => began # 0)
      BY <2>3, <3>1 DEF Uncoverable
    <3>3. log[s].end < clock /\ log[s].end \in Nat
      BY TimesTyped DEF TelemetryInv, FilesFollow, Follows
    <3>4. boundary'[s] = boundary[s] \/ boundary'[s].unix = clock
      BY <1>3, PrepareIs DEF TelemetryInv, BoundsTyped, T!Point
    <3>5. log[s].end = 0 \/ ~boundary'[s].there \/ boundary'[s].unix > log[s].end
      BY <2>3, <3>2, <3>3, <3>4 DEF Uncoverable, TelemetryInv, ClockTyped
    <3>6. QED
      BY <3>1, <3>2, <3>5 DEF Uncoverable
  <2>4. QED
    BY <2>1, <2>2, <2>3 DEF Doomed
<1>4. CASE T!Recover
  <2>1. CASE generation = "torn" /\ sampling # "minted"
    BY <1>4, <2>1 DEF Doomed, T!Recover, T!Goto
  <2>2. CASE Unusable
    BY <1>4, <2>2 DEF Doomed, Unusable, T!Logs, T!Starts, T!Bounds, T!Numbered, T!Recover,
         T!Goto
  <2>3. ASSUME NEW s \in Segments, Uncoverable(s) PROVE Uncoverable(s)'
    BY <1>4, <2>3 DEF Uncoverable, T!Recover, T!Goto
  <2>4. QED
    BY <2>1, <2>2, <2>3 DEF Doomed
<1>5. CASE T!SamplerStart
  <2>1. CASE generation = "torn" /\ sampling # "minted"
    BY <1>5, <2>1 DEF Doomed, T!SamplerStart, T!segs
  <2>2. CASE Unusable
    BY <1>5, <2>2 DEF Unusable, T!Exact, TelemetryInv, T!SamplerStart, SamplerFollows,
         Generated
  <2>3. ASSUME NEW s \in Segments, Uncoverable(s) PROVE Uncoverable(s)'
    BY <1>5, <2>3 DEF Uncoverable, T!Logs, T!Numbered, T!Exact, TelemetryInv,
         T!SamplerStart, T!segs, ClockTyped, ShellTyped, FilesFollow, SamplerFollows
  <2>4. QED
    BY <2>1, <2>2, <2>3 DEF Doomed
<1>6. CASE T!FirstSample
  BY <1>6, DoomRests DEF T!FirstSample, T!Goto, T!segs
<1>7. CASE T!GiveUp
  BY <1>7, DoomRests DEF T!GiveUp, T!segs
<1>8. CASE T!BoundaryStart
  <2>1. CASE generation = "torn" /\ sampling # "minted"
    BY <1>8, <2>1 DEF Doomed, T!BoundaryStart, T!Goto
  <2>2. CASE Unusable
    BY <1>8, <2>2, TelemetryAssumption DEF Doomed, Unusable, T!Logs, T!Starts, T!Bounds,
         T!Numbered, T!Exact, TelemetryInv, T!BoundaryStart, T!Goto, T!time, T!env,
         T!load, LogsTyped, StartsTyped, BoundsTyped, ClockTyped
  <2>3. ASSUME NEW s \in Segments, Uncoverable(s) PROVE Uncoverable(s)'
    BY <1>8, <2>3 DEF Uncoverable, T!BoundaryStart, T!Point, T!Goto
  <2>4. QED
    BY <2>1, <2>2, <2>3 DEF Doomed
<1>9. CASE T!Launch
  BY <1>9, DoomRests DEF T!Launch, T!Goto, T!segs
<1>10. CASE T!Commit
  BY <1>10, DoomRests DEF T!Commit, T!Goto, T!segs
<1>11. CASE T!Complete
  BY <1>11, DoomRests DEF T!Complete, T!Goto, T!segs
<1>12. CASE T!Finish
  <2>1. CASE generation = "torn" /\ sampling # "minted"
    BY <1>12, <2>1 DEF Doomed, T!Finish, T!Goto
  <2>2. CASE Unusable
    BY <1>12, <2>2, TelemetryAssumption DEF Doomed, Unusable, T!Logs, T!Starts, T!Bounds,
         T!Numbered, T!Exact, TelemetryInv, T!Finish, T!Goto, T!time, T!env, T!load,
         LogsTyped, StartsTyped, BoundsTyped, ClockTyped
  <2>3. ASSUME NEW s \in Segments, Uncoverable(s) PROVE Uncoverable(s)'
    <3>1. UNCHANGED <<log, up, active>> /\ sampling # "off"
      BY <1>12 DEF T!Finish, T!Goto
    <3>1a. began # 0 => began' # 0
      <4>1. began' = began \/ began' = 2
        BY <1>12 DEF T!Finish, T!Goto
      <4>2. QED
        BY <4>1
    <3>2. up # s /\ log[s] # T!NoLog /\ (s = active => began # 0)
      BY <2>3, <3>1 DEF Uncoverable
    <3>3. log[s].end < clock /\ log[s].end \in Nat /\ boundary[s].unix \in Nat /\ clock \in Nat
      BY TimesTyped DEF TelemetryInv, FilesFollow, Follows, ClockTyped
    <3>4. log[s].end = 0 \/ ~boundary'[s].there \/ boundary'[s].unix > log[s].end
      <4>1. CASE boundary'[s] = boundary[s]
        BY <2>3, <3>2, <4>1 DEF Uncoverable
      <4>2. CASE s = active /\ sampling = "stop" /\ began = 1
        <5>1. boundary'[s].unix = clock
          BY <1>12, <4>2, FinishIs DEF T!Point
        <5>2. QED
          BY <3>3, <5>1
      <4>3. CASE s = active /\ sampling = "ending"
        <5>1. boundary[s].there /\ boundary'[s].unix = boundary[s].unix
          BY <1>12, <4>3, FinishIs DEF TelemetryInv, SamplerFollows
        <5>2. QED
          BY <2>3, <3>2, <5>1 DEF Uncoverable
      <4>4. QED
        BY <1>12, <4>1, <4>2, <4>3, FinishIs DEF T!Finish
    <3>5. QED
      BY <3>1, <3>1a, <3>2, <3>4 DEF Uncoverable
  <2>4. QED
    BY <2>1, <2>2, <2>3 DEF Doomed
<1>13. CASE T!GroupStop
  <2>1. CASE generation = "torn" /\ sampling # "minted"
    BY <1>13, <2>1 DEF Doomed, T!GroupStop, T!shell
  <2>2. CASE Unusable
    BY <1>13, <2>2 DEF Unusable, T!GroupStop
  <2>3. ASSUME NEW s \in Segments, Uncoverable(s) PROVE Uncoverable(s)'
    BY <1>13, <2>3, TelemetryAssumption DEF Uncoverable, T!Logs, TelemetryInv,
         T!GroupStop, T!Quit, T!Ends, T!NoLog, T!shell, LogsTyped, StartsTyped,
         BoundsTyped
  <2>4. QED
    BY <2>1, <2>2, <2>3 DEF Doomed
<1>14. CASE T!Stopped
  <2>1. CASE generation = "torn" /\ sampling # "minted"
    BY <1>14, <2>1 DEF Doomed, T!Stopped
  <2>2. CASE Unusable
    BY <1>14, <2>2 DEF Unusable, T!Exact, TelemetryInv, T!Stopped, T!Discards,
         SamplerFollows, Generated, Beginning, Ending
  <2>3. ASSUME NEW s \in Segments, Uncoverable(s) PROVE Uncoverable(s)'
    BY <1>14, <2>3 DEF Uncoverable, T!Exact, TelemetryInv, T!Stopped, T!Discards,
         T!NoPoint, LogsTyped, StartsTyped, BoundsTyped
  <2>4. QED
    BY <2>1, <2>2, <2>3 DEF Doomed
<1>15. CASE T!Finalize
  BY <1>15, DoomRests DEF T!Finalize, T!Goto, T!segs
<1>16. CASE T!Publish
  BY <1>16, DoomRests DEF T!Publish, T!Goto, T!segs
<1>17. CASE T!PublishPair
  BY <1>17, DoomRests DEF T!PublishPair, T!Goto, T!segs, T!shell
<1>18. CASE T!Mark
  BY <1>18, DoomRests DEF T!Mark, T!Goto, T!segs
<1>19. CASE T!SamplerOpens
  <2>1. CASE generation = "torn" /\ sampling # "minted"
    BY <1>19, <2>1 DEF Doomed, T!SamplerOpens, T!shell
  <2>2. CASE Unusable
    BY <1>19, <2>2 DEF Unusable, T!SamplerOpens
  <2>3. ASSUME NEW s \in Segments, Uncoverable(s) PROVE Uncoverable(s)'
    BY <1>19, <2>3 DEF Uncoverable, TelemetryInv, T!SamplerOpens, T!shell, LogsTyped
  <2>4. QED
    BY <2>1, <2>2, <2>3 DEF Doomed
<1>20. CASE T!Sweep
  <2>1. CASE generation = "torn" /\ sampling # "minted"
    BY <1>20, <2>1 DEF Doomed, T!Sweep, T!shell
  <2>2. CASE Unusable
    BY <1>20, <2>2 DEF Unusable, T!Sweep
  <2>3. ASSUME NEW s \in Segments, Uncoverable(s) PROVE Uncoverable(s)'
    BY <1>20, <2>3 DEF Uncoverable, T!Sweep, T!NoLog, T!shell
  <2>4. QED
    BY <2>1, <2>2, <2>3 DEF Doomed
<1>21. CASE T!SamplerFails
  <2>1. CASE generation = "torn" /\ sampling # "minted"
    BY <1>21, <2>1 DEF Doomed, T!SamplerFails, T!shell
  <2>2. CASE Unusable
    BY <1>21, <2>2 DEF Unusable, T!SamplerFails
  <2>3. ASSUME NEW s \in Segments, Uncoverable(s) PROVE Uncoverable(s)'
    <3>1. /\ up # 0 /\ (\E ended, torn \in BOOLEAN : T!Ends(up, ended, torn))
          /\ UNCHANGED <<boundary, active, began>> /\ up' = 0
      BY <1>21 DEF T!SamplerFails, T!Quit, T!Tick, T!shell
    <3>2. log'[s] # T!NoLog /\ (s # up => log'[s] = log[s])
      BY <2>3, <3>1, DyingIs DEF Uncoverable
    <3>3. QED
      BY <2>3, <3>1, <3>2, StaysUncoverable
  <2>4. QED
    BY <2>1, <2>2, <2>3 DEF Doomed
<1>22. CASE T!Reap
  <2>1. CASE generation = "torn" /\ sampling # "minted"
    BY <1>22, <2>1 DEF Doomed, T!Reap, T!shell
  <2>2. CASE Unusable
    BY <1>22, <2>2 DEF Unusable, T!Reap
  <2>3. ASSUME NEW s \in Segments, Uncoverable(s) PROVE Uncoverable(s)'
    <3>1. /\ up # 0 /\ (\E ended, torn \in BOOLEAN : T!Ends(up, ended, torn))
          /\ UNCHANGED <<boundary, active, began>> /\ up' = 0
      BY <1>22 DEF T!Reap, T!Quit, T!Tick, T!shell
    <3>2. log'[s] # T!NoLog /\ (s # up => log'[s] = log[s])
      BY <2>3, <3>1, DyingIs DEF Uncoverable
    <3>3. QED
      BY <2>3, <3>1, <3>2, StaysUncoverable
  <2>4. QED
    BY <2>1, <2>2, <2>3 DEF Doomed
<1>23. CASE T!Die
  BY <1>23, DoomRests DEF T!Die, T!segs
<1>24. CASE T!Kill
  BY <1>24, DoomRests DEF T!Kill, T!Goto, T!segs
<1>25. CASE T!Reboot
  <2>1. CASE generation = "torn" /\ sampling # "minted"
    BY <1>25, <2>1 DEF Doomed, T!Reboot, T!Goto
  <2>2. CASE Unusable
    BY <1>25, <2>2 DEF Doomed, Unusable, T!Logs, T!Starts, T!Bounds, T!Numbered, T!Reboot,
         T!Late, T!Goto, T!Ends
  <2>3. ASSUME NEW s \in Segments, Uncoverable(s) PROVE Uncoverable(s)'
    <3>1. UNCHANGED <<boundary, active, began>> /\ up' = 0 /\ sampling' = "off"
      BY <1>25 DEF T!Reboot, T!Goto
    <3>2. log'[s] # T!NoLog /\ (s # up => log'[s] = log[s])
      BY <1>25, <2>3, RebootIs DEF Uncoverable
    <3>3. CASE up = 0
      BY <2>3, <3>1, <3>2, <3>3, TelemetryAssumption DEF Uncoverable
    <3>4. CASE up # 0
      BY <2>3, <3>1, <3>2, <3>4, StaysUncoverable
    <3>5. QED
      BY <3>3, <3>4
  <2>4. QED
    BY <2>1, <2>2, <2>3 DEF Doomed
<1>26. QED
  BY <1>1, <1>2, <1>3, <1>4, <1>5, <1>6, <1>7, <1>8, <1>9, <1>10, <1>11, <1>12, <1>13,
       <1>14, <1>15, <1>16, <1>17, <1>18, <1>19, <1>20, <1>21, <1>22, <1>23, <1>24, <1>25
       DEF T!Next, T!Shell

\* Every step keeps the invariant.
LEMMA NextTelemetry == TelemetryInv /\ [T!Next]_T!vars => TelemetryInv'
<1> SUFFICES ASSUME TelemetryInv, [T!Next]_T!vars PROVE TelemetryInv'
  OBVIOUS
<1>1. CASE T!Resume
  <2>1. Doomed => Doomed'
    BY <1>1, DoomedStays DEF T!Next, T!Shell
  <2>2. ShellTyped'
    BY <1>1, <2>1 DEF TelemetryInv, T!Resume, T!LockFree, T!segs, ShellTyped, Apart
  <2>3. Generated'
    BY <1>1, <2>1 DEF T!Resume, T!segs, Generated
  <2>4. SamplerFollows'
    BY <1>1, <2>1 DEF T!Resume, T!LockFree, T!segs, T!time, SamplerFollows, Apart,
         Beginning, Ending, T!Exact
  <2>5. FinalRests'
    BY <1>1, <2>1 DEF T!Resume, FinalRests, Posterior
  <2>6. UnseenIsDoomed'
    BY <1>1, <2>1 DEF TelemetryInv, UnseenIsDoomed, T!Resume, T!load
  <2>7. EnvelopeStands'
    BY <1>1, <2>1, TelemetryAssumption DEF TelemetryInv, T!Resume, T!LockFree, T!segs,
         T!env, T!load, T!time, EnvelopeStands, T!Altered, T!Only, T!Logs, T!NoLog,
         T!Bounds
  <2>8. LogsTyped' /\ StartsTyped' /\ BoundsTyped' /\ ClockTyped' /\ FilesFollow'
    BY <1>1 DEF TelemetryInv, T!Resume, T!segs, T!time, LogsTyped, StartsTyped,
         BoundsTyped, ClockTyped, FilesFollow, Follows
  <2>9. QED
    BY <2>2, <2>3, <2>4, <2>5, <2>6, <2>7, <2>8 DEF TelemetryInv
<1>2. CASE T!Mint
  <2>1. Doomed => Doomed'
    BY <1>2, DoomedStays DEF T!Next, T!Shell
  <2>2. ShellTyped'
    BY <1>2, <2>1 DEF TelemetryInv, T!Mint, T!Goto, ShellTyped, Apart
  <2>3. Generated'
    BY <1>2, <2>1 DEF T!Mint, T!Goto, Generated
  <2>4. SamplerFollows'
    BY <1>2, <2>1 DEF TelemetryInv, T!Mint, T!Goto, T!time, SamplerFollows, Apart,
         Beginning, Ending, T!Exact
  <2>5. FinalRests'
    BY <1>2, <2>1 DEF T!Mint, T!Goto, FinalRests, Posterior
  <2>6. UnseenIsDoomed'
    BY <1>2, <2>1 DEF TelemetryInv, UnseenIsDoomed, T!Mint, T!Goto, T!load
  <2>7. EnvelopeStands'
    BY <1>2, <2>1, TelemetryAssumption DEF TelemetryInv, T!Mint, T!Goto, T!env, T!load,
         T!time, EnvelopeStands, T!Altered, T!Only, T!Logs, T!NoLog, T!Bounds, Readings
  <2>8. LogsTyped' /\ StartsTyped' /\ BoundsTyped' /\ ClockTyped' /\ FilesFollow'
    BY <1>2 DEF TelemetryInv, T!Mint, T!time, LogsTyped, StartsTyped, BoundsTyped,
         ClockTyped, FilesFollow, Follows
  <2>9. QED
    BY <2>2, <2>3, <2>4, <2>5, <2>6, <2>7, <2>8 DEF TelemetryInv
<1>3. CASE T!Prepare
  <2>1. Doomed => Doomed'
    BY <1>3, DoomedStays DEF T!Next, T!Shell
  <2>2. BoundsTyped'
    BY <1>3, PrepareIs DEF BoundsTyped
  <2>3. ClockTyped'
    BY <1>3, <2>1 DEF TelemetryInv, T!Prepare, T!Next1, T!time, T!Least, T!Recoverable,
         T!Point, T!Tick, T!Goto, T!load, ClockTyped
  <2>4. ShellTyped'
    BY <1>3, <2>1, TelemetryAssumption DEF TelemetryInv, T!Prepare, T!Numbered, T!Bounds,
         T!Missing, T!Next1, T!Point, T!Tick, T!Goto, T!Unavailable, T!env, T!load,
         ShellTyped, Beginning, Ending, Apart, Readings
  <2>5. FilesFollow'
    <3>1. clock' \in Nat /\ clock' >= clock
      BY <1>3, PrepareIs DEF TelemetryInv, ClockTyped
    <3>2. QED
      BY <1>3, <3>1, PrepareIs, StillFollow DEF TelemetryInv
  <2>6. Generated'
    BY <1>3, <2>1 DEF TelemetryInv, T!Prepare, T!Next1, T!Goto, T!Unavailable, T!env,
         T!load, Generated
  <2>7. SamplerFollows'
    BY <1>3, <2>1, TelemetryAssumption DEF TelemetryInv, T!Prepare, T!Exact, T!Starts,
         T!Logs, T!NoLog, T!Numbered, T!Bounds, T!Missing, T!Next1, T!Tick, T!Goto,
         T!Unavailable, T!env, T!load, SamplerFollows, Apart, Beginning, Ending
  <2>8. FinalRests'
    BY <1>3, <2>1 DEF T!Prepare, T!Numbered, T!Next1, T!Point, T!Tick, T!Goto,
         T!Unavailable, T!env, T!load, FinalRests, Posterior, Readings, Points, Beginning
  <2>9. UnseenIsDoomed'
    <3>1. /\ UNCHANGED <<unseen, generation, log, start, up, active>>
          /\ active = 0 /\ up = 0 /\ sampling = "prepare"
      BY <1>3 DEF TelemetryInv, SamplerFollows, Apart, T!Prepare, T!Goto, T!Unavailable,
           T!load
    <3>2. ASSUME sampling' \in {"loop", "run"} PROVE Doomed'
      <4>1. /\ sampling' = "loop" /\ UNCHANGED boundary
            /\ ~(T!Exact /\ \A s \in Segments : T!Least(s) => T!Recoverable(s))
        BY <1>3, <3>2 DEF T!Prepare, T!Next1, T!Goto, T!Unavailable
      <4>2. CASE generation # "whole"
        BY <3>1, <4>1, <4>2 DEF TelemetryInv, ShellTyped, Generated, Doomed
      <4>3. CASE generation = "whole" /\ ~T!Exact
        BY <3>1, <4>1, <4>3 DEF Doomed, Unusable, T!Exact, T!Logs, T!Starts, T!Bounds,
             T!Numbered
      <4>4. ASSUME NEW s \in Segments, T!Least(s) PROVE Uncoverable(s)'
        BY <3>1, <4>1, <4>4, TelemetryAssumption DEF Uncoverable, T!Least, T!Missing,
             T!Logs, T!Bounds
      <4>5. QED
        BY <4>1, <4>2, <4>3, <4>4 DEF Doomed
    <3>3. QED
      BY <2>1, <3>1, <3>2 DEF TelemetryInv, UnseenIsDoomed
  <2>10. EnvelopeStands'
    BY <1>3, <2>1, TelemetryAssumption DEF TelemetryInv, T!Prepare, T!Exact, T!Starts,
         T!Logs, T!NoLog, T!Numbered, T!Bounds, T!Missing, T!Next1, T!time, T!Least,
         T!Recoverable, T!Goto, T!Unavailable, T!env, T!load, EnvelopeStands, T!Altered,
         T!Only, Readings
  <2>11. LogsTyped' /\ StartsTyped'
    BY <1>3 DEF TelemetryInv, T!Prepare, LogsTyped, StartsTyped
  <2>12. QED
    BY <2>2, <2>3, <2>4, <2>5, <2>6, <2>7, <2>8, <2>9, <2>10, <2>11 DEF TelemetryInv
<1>4. CASE T!Recover
  <2>1. Doomed => Doomed'
    BY <1>4, DoomedStays DEF T!Next, T!Shell
  <2>2. BoundsTyped'
    BY <1>4, <2>1 DEF TelemetryInv, T!Recover, BoundsTyped, Points
  <2>3. ShellTyped'
    BY <1>4, <2>1 DEF TelemetryInv, T!Recover, T!Goto, ShellTyped, Apart, Readings
  <2>4. FilesFollow'
    BY <1>4, <2>1 DEF TelemetryInv, T!Recover, T!time, FilesFollow, Follows
  <2>5. Generated'
    BY <1>4, <2>1 DEF TelemetryInv, T!Recover, T!Goto, Generated
  <2>6. SamplerFollows'
    BY <1>4, <2>1 DEF TelemetryInv, T!Recover, T!Bounds, T!Goto, T!env, SamplerFollows,
         Apart, Beginning, Ending
  <2>7. FinalRests'
    BY <1>4, <2>1 DEF T!Recover, T!Goto, FinalRests, Posterior
  <2>8. UnseenIsDoomed'
    BY <1>4, <2>1 DEF TelemetryInv, UnseenIsDoomed, T!Recover, T!Goto, T!load
  <2>9. EnvelopeStands'
    BY <1>4, <2>1 DEF TelemetryInv, T!Recover, T!Bounds, T!Goto, T!env, EnvelopeStands,
         T!Altered
  <2>10. LogsTyped' /\ StartsTyped' /\ ClockTyped'
    BY <1>4 DEF TelemetryInv, T!Recover, T!time, LogsTyped, StartsTyped, ClockTyped
  <2>11. QED
    BY <2>2, <2>3, <2>4, <2>5, <2>6, <2>7, <2>8, <2>9, <2>10 DEF TelemetryInv
<1>5. CASE T!SamplerStart
  <2>1. Doomed => Doomed'
    BY <1>5, DoomedStays DEF T!Next, T!Shell
  <2>2. ShellTyped'
    BY <1>5, <2>1 DEF TelemetryInv, T!SamplerStart, T!segs, T!env, ShellTyped, Beginning
  <2>3. Generated'
    BY <1>5, <2>1 DEF TelemetryInv, T!SamplerStart, T!segs, Generated
  <2>4. SamplerFollows'
    BY <1>5, <2>1 DEF TelemetryInv, T!SamplerStart, T!segs, T!time, SamplerFollows, Apart,
         Beginning, Ending, T!Exact, T!NoLog, T!Numbered, T!Bounds, Readings, ShellTyped,
         FilesFollow
  <2>5. FinalRests'
    BY <1>5, <2>1 DEF TelemetryInv, T!SamplerStart, T!load, FinalRests, Posterior
  <2>6. UnseenIsDoomed'
    BY <1>5, <2>1 DEF TelemetryInv, UnseenIsDoomed, T!SamplerStart, T!load
  <2>7. EnvelopeStands'
    BY <1>5, <2>1 DEF TelemetryInv, T!SamplerStart, T!env, EnvelopeStands, Posterior,
         T!NoPoint, T!Numbered, FinalRests
  <2>8. LogsTyped' /\ StartsTyped' /\ BoundsTyped' /\ ClockTyped' /\ FilesFollow'
    BY <1>5 DEF TelemetryInv, T!SamplerStart, T!segs, T!time, LogsTyped, StartsTyped,
         BoundsTyped, ClockTyped, FilesFollow, Follows
  <2>9. QED
    BY <2>2, <2>3, <2>4, <2>5, <2>6, <2>7, <2>8 DEF TelemetryInv
<1>6. CASE T!FirstSample
  <2>1. Doomed => Doomed'
    BY <1>6, DoomedStays DEF T!Next, T!Shell
  <2>2. ShellTyped'
    BY <1>6, <2>1 DEF TelemetryInv, T!FirstSample, T!Goto, T!segs, ShellTyped, Beginning
  <2>3. Generated'
    BY <1>6, <2>1 DEF TelemetryInv, T!FirstSample, T!Goto, T!segs, Generated
  <2>4. SamplerFollows'
    BY <1>6, <2>1 DEF TelemetryInv, T!FirstSample, T!Goto, T!segs, T!time, SamplerFollows,
         Apart, Beginning, T!Logs, T!NoLog
  <2>5. FinalRests'
    BY <1>6, <2>1 DEF TelemetryInv, T!FirstSample, T!Goto, T!load, FinalRests, Posterior,
         Readings
  <2>6. UnseenIsDoomed'
    BY <1>6, <2>1 DEF TelemetryInv, UnseenIsDoomed, T!FirstSample, T!Goto, T!load
  <2>7. EnvelopeStands'
    BY <1>6, <2>1, TelemetryAssumption DEF TelemetryInv, T!FirstSample, T!Goto, T!segs,
         T!env, T!load, T!time, EnvelopeStands, T!Altered, T!Only, T!Logs, T!NoLog,
         T!Bounds
  <2>8. LogsTyped' /\ StartsTyped' /\ BoundsTyped' /\ ClockTyped' /\ FilesFollow'
    BY <1>6 DEF TelemetryInv, T!FirstSample, T!segs, T!time, LogsTyped, StartsTyped,
         BoundsTyped, ClockTyped, FilesFollow, Follows, T!NoLog
  <2>9. QED
    BY <2>2, <2>3, <2>4, <2>5, <2>6, <2>7, <2>8 DEF TelemetryInv
<1>7. CASE T!GiveUp
  <2>1. Doomed => Doomed'
    BY <1>7, DoomedStays DEF T!Next, T!Shell
  <2>2. ShellTyped'
    BY <1>7, <2>1 DEF TelemetryInv, T!GiveUp, T!segs, ShellTyped, Ending, Apart
  <2>3. Generated'
    BY <1>7, <2>1 DEF TelemetryInv, T!GiveUp, T!segs, Generated
  <2>4. SamplerFollows'
    BY <1>7, <2>1 DEF TelemetryInv, T!GiveUp, SamplerFollows, Apart, Beginning
  <2>5. FinalRests'
    BY <1>7, <2>1 DEF TelemetryInv, T!GiveUp, T!load, FinalRests, Posterior
  <2>6. UnseenIsDoomed'
    BY <1>7, <2>1 DEF TelemetryInv, UnseenIsDoomed, T!GiveUp, T!load
  <2>7. EnvelopeStands'
    BY <1>7, <2>1 DEF TelemetryInv, T!GiveUp, T!env, EnvelopeStands, Posterior, T!NoPoint,
         T!Numbered, FinalRests
  <2>8. LogsTyped' /\ StartsTyped' /\ BoundsTyped' /\ ClockTyped' /\ FilesFollow'
    BY <1>7 DEF TelemetryInv, T!GiveUp, T!segs, T!time, LogsTyped, StartsTyped,
         BoundsTyped, ClockTyped, FilesFollow, Follows
  <2>9. QED
    BY <2>2, <2>3, <2>4, <2>5, <2>6, <2>7, <2>8 DEF TelemetryInv
<1>8. CASE T!BoundaryStart
  <2>1. Doomed => Doomed'
    BY <1>8, DoomedStays DEF T!Next, T!Shell
  <2>2. StartsTyped'
    BY <1>8, BoundaryIs DEF StartsTyped
  <2>3. ClockTyped'
    BY <1>8, <2>1 DEF TelemetryInv, T!BoundaryStart, T!Point, T!Tick, T!time, T!env,
         T!load, ClockTyped
  <2>4. ShellTyped'
    BY <1>8, <2>1 DEF TelemetryInv, T!BoundaryStart, T!Goto, ShellTyped, Beginning
  <2>5. FilesFollow'
    <3>1. clock' \in Nat /\ clock' >= clock
      BY <1>8, BoundaryIs DEF TelemetryInv, ClockTyped
    <3>2. QED
      BY <1>8, <3>1, BoundaryIs, StillFollow DEF TelemetryInv
  <2>6. Generated'
    BY <1>8, <2>1 DEF TelemetryInv, T!BoundaryStart, T!Goto, Generated, Readings
  <2>7. SamplerFollows'
    <3>1. /\ UNCHANGED <<log, boundary, up, active, watched>>
          /\ sampling \in {"boundary", "bounding", "bounded"} /\ sampling' \in {"bounding", "bounded", "loop"}
          /\ (sampling' = "loop" => began' = 1) /\ (sampling' # "loop" => began' = began)
      BY <1>8 DEF T!BoundaryStart, T!Goto, T!load
    <3>2. active \in Segments /\ start'[active].there /\ listed' = listed
      BY <1>8, BoundaryIs DEF T!BoundaryStart, T!Goto
    <3>3. QED
      BY <3>1, <3>2 DEF TelemetryInv, SamplerFollows, Beginning, Apart
  <2>8. FinalRests'
    BY <1>8, <2>1 DEF TelemetryInv, T!BoundaryStart, T!Goto, T!load, FinalRests,
         Posterior, Readings
  <2>9. UnseenIsDoomed'
    BY <1>8, <2>1 DEF TelemetryInv, UnseenIsDoomed, SamplerFollows, T!BoundaryStart,
         T!Goto, T!load, Beginning
  <2>10. EnvelopeStands'
    BY <1>8, <2>1 DEF TelemetryInv, T!BoundaryStart, T!Goto, T!env, T!load,
         EnvelopeStands, T!Altered, T!Only, T!Logs, T!NoLog, T!Bounds, Readings, Points
  <2>11. LogsTyped' /\ BoundsTyped'
    BY <1>8 DEF TelemetryInv, T!BoundaryStart, LogsTyped, BoundsTyped
  <2>12. QED
    BY <2>2, <2>3, <2>4, <2>5, <2>6, <2>7, <2>8, <2>9, <2>10, <2>11 DEF TelemetryInv
<1>9. CASE T!Launch
  <2>1. Doomed => Doomed'
    BY <1>9, DoomedStays DEF T!Next, T!Shell
  <2>2. ShellTyped'
    BY <1>9, <2>1 DEF TelemetryInv, T!Launch, T!Goto, T!segs, ShellTyped
  <2>3. Generated'
    BY <1>9, <2>1 DEF TelemetryInv, T!Launch, T!Goto, T!segs, Generated
  <2>4. SamplerFollows'
    BY <1>9, <2>1 DEF TelemetryInv, T!Launch, T!Goto, T!segs, T!env, T!time,
         SamplerFollows, Apart, Beginning, Ending, T!Exact
  <2>5. FinalRests'
    BY <1>9, <2>1 DEF TelemetryInv, T!Launch, T!Goto, T!segs, FinalRests, Posterior
  <2>6. UnseenIsDoomed'
    BY <1>9, <2>1 DEF TelemetryInv, UnseenIsDoomed, T!Launch, T!Goto
  <2>7. EnvelopeStands'
    BY <1>9, <2>1 DEF TelemetryInv, T!Launch, T!Goto, T!env, EnvelopeStands, Posterior,
         T!NoPoint, T!Numbered, FinalRests
  <2>8. LogsTyped' /\ StartsTyped' /\ BoundsTyped' /\ ClockTyped' /\ FilesFollow'
    BY <1>9 DEF TelemetryInv, T!Launch, T!segs, T!time, LogsTyped, StartsTyped,
         BoundsTyped, ClockTyped, FilesFollow, Follows, T!NoLog
  <2>9. QED
    BY <2>2, <2>3, <2>4, <2>5, <2>6, <2>7, <2>8 DEF TelemetryInv
<1>10. CASE T!Commit
  <2>1. Doomed => Doomed'
    BY <1>10, DoomedStays DEF T!Next, T!Shell
  <2>2. ShellTyped'
    BY <1>10, <2>1 DEF TelemetryInv, T!Commit, T!Goto, T!segs, ShellTyped
  <2>3. Generated'
    BY <1>10, <2>1 DEF TelemetryInv, T!Commit, T!Goto, T!segs, Generated
  <2>4. SamplerFollows'
    BY <1>10, <2>1 DEF TelemetryInv, T!Commit, T!Goto, T!segs, T!env, T!time,
         SamplerFollows, Apart, Beginning, Ending, T!Exact
  <2>5. FinalRests'
    BY <1>10, <2>1 DEF TelemetryInv, T!Commit, T!Goto, T!segs, FinalRests, Posterior
  <2>6. UnseenIsDoomed'
    <3>1. CASE watched
      BY <1>10, <2>1, <3>1 DEF TelemetryInv, UnseenIsDoomed, T!Commit, T!Goto
    <3>2. CASE ~watched
      <4>1. CASE active = 0
        BY <1>10, <2>1, <4>1 DEF TelemetryInv, UnseenIsDoomed, T!Commit, T!Goto
      <4>2. CASE active # 0
        <5>1. active \in Segments /\ Uncoverable(active)
          BY <1>10, <3>2, <4>2 DEF TelemetryInv, ShellTyped, SamplerFollows, T!Commit,
               Uncoverable
        <5>2. QED
          BY <2>1, <4>2, <5>1 DEF Doomed, UnseenIsDoomed, T!Commit, T!Goto
      <4>3. QED
        BY <4>1, <4>2
    <3>3. QED
      BY <3>1, <3>2
  <2>7. EnvelopeStands'
    BY <1>10, <2>1 DEF TelemetryInv, T!Commit, T!Goto, T!env, EnvelopeStands, Posterior,
         T!NoPoint, T!Numbered, FinalRests
  <2>8. LogsTyped' /\ StartsTyped' /\ BoundsTyped' /\ ClockTyped' /\ FilesFollow'
    BY <1>10 DEF TelemetryInv, T!Commit, T!segs, T!time, LogsTyped, StartsTyped,
         BoundsTyped, ClockTyped, FilesFollow, Follows, T!NoLog
  <2>9. QED
    BY <2>2, <2>3, <2>4, <2>5, <2>6, <2>7, <2>8 DEF TelemetryInv
<1>11. CASE T!Complete
  <2>1. Doomed => Doomed'
    BY <1>11, DoomedStays DEF T!Next, T!Shell
  <2>2. ShellTyped'
    BY <1>11, <2>1 DEF TelemetryInv, T!Complete, T!Goto, T!segs, ShellTyped, Beginning,
         Ending, Apart
  <2>3. Generated'
    BY <1>11, <2>1 DEF TelemetryInv, T!Complete, T!Goto, T!segs, Generated
  <2>4. SamplerFollows'
    BY <1>11, <2>1 DEF TelemetryInv, T!Complete, T!Goto, T!segs, T!time, SamplerFollows,
         Apart, Beginning, Ending, T!Exact
  <2>5. FinalRests'
    BY <1>11, <2>1 DEF TelemetryInv, T!Complete, T!Goto, T!load, FinalRests, Posterior,
         Readings
  <2>6. UnseenIsDoomed'
    BY <1>11, <2>1 DEF TelemetryInv, UnseenIsDoomed, T!Complete, T!Goto, T!load
  <2>7. EnvelopeStands'
    BY <1>11, <2>1, TelemetryAssumption DEF TelemetryInv, T!Complete, T!Goto, T!segs,
         T!env, T!load, T!time, EnvelopeStands, T!Altered, T!Only, T!Logs, T!NoLog,
         T!Bounds
  <2>8. LogsTyped' /\ StartsTyped' /\ BoundsTyped' /\ ClockTyped' /\ FilesFollow'
    BY <1>11 DEF TelemetryInv, T!Complete, T!segs, T!time, LogsTyped, StartsTyped,
         BoundsTyped, ClockTyped, FilesFollow, Follows, T!NoLog
  <2>9. QED
    BY <2>2, <2>3, <2>4, <2>5, <2>6, <2>7, <2>8 DEF TelemetryInv
<1>12. CASE T!Finish
  <2>1. Doomed => Doomed'
    BY <1>12, DoomedStays DEF T!Next, T!Shell
  <2>2. BoundsTyped'
    BY <1>12, FinishIs DEF BoundsTyped
  <2>3. ClockTyped'
    BY <1>12, <2>1 DEF TelemetryInv, T!Finish, T!Point, T!Tick, T!time, T!env, T!load,
         ClockTyped
  <2>4. ShellTyped'
    BY <1>12, <2>1 DEF TelemetryInv, T!Finish, T!Goto, ShellTyped, Ending
  <2>5. FilesFollow'
    <3>1. clock' \in Nat /\ clock' >= clock
      BY <1>12, FinishIs DEF TelemetryInv, ClockTyped
    <3>2. QED
      BY <1>12, <3>1, FinishIs, StillFollow DEF TelemetryInv
  <2>6. Generated'
    BY <1>12, <2>1 DEF TelemetryInv, T!Finish, T!Goto, Generated, Readings
  <2>7. SamplerFollows'
    BY <1>12, <2>1 DEF TelemetryInv, T!Finish, T!Point, T!Tick, T!Goto, T!time,
         SamplerFollows, Apart, Beginning, Ending, BoundsTyped, ClockTyped, ShellTyped,
         FilesFollow
  <2>8. FinalRests'
    BY <1>12, <2>1 DEF TelemetryInv, T!Finish, T!Goto, T!load, FinalRests, Posterior,
         Readings
  <2>9. UnseenIsDoomed'
    BY <1>12, <2>1 DEF TelemetryInv, UnseenIsDoomed, T!Finish, T!Goto, T!load
  <2>10. EnvelopeStands'
    BY <1>12, <2>1 DEF TelemetryInv, T!Finish, T!Point, T!Tick, T!Goto, T!time, T!env,
         T!load, EnvelopeStands, Apart, Posterior, T!Starts, T!Numbered, FinalRests
  <2>11. LogsTyped' /\ StartsTyped'
    BY <1>12 DEF TelemetryInv, T!Finish, LogsTyped, StartsTyped
  <2>12. QED
    BY <2>2, <2>3, <2>4, <2>5, <2>6, <2>7, <2>8, <2>9, <2>10, <2>11 DEF TelemetryInv
<1>13. CASE T!GroupStop
  <2>1. Doomed => Doomed'
    BY <1>13, DoomedStays DEF T!Next, T!Shell
  <2>2. up # 0 /\ (\E ended, torn \in BOOLEAN : T!Ends(up, ended, torn)) /\ clock' = clock + 1
       /\ UNCHANGED <<start, boundary>>
    BY <1>13 DEF T!GroupStop, T!Quit, T!Tick
  <2>3. LogsTyped'
    BY <2>2, DyingIs DEF LogsTyped
  <2>4. ClockTyped'
    BY <1>13, <2>1, <2>2 DEF TelemetryInv, T!GroupStop, T!Quit, T!Tick, ClockTyped
  <2>5. ShellTyped'
    BY <1>13, <2>1, <2>2 DEF TelemetryInv, T!GroupStop, T!Quit, T!shell, ShellTyped
  <2>6. FilesFollow'
    <3>1. clock \in Nat /\ clock' \in Nat /\ clock' > clock /\ UNCHANGED <<start, boundary>>
      BY <2>2, DyingIs DEF TelemetryInv, ClockTyped
    <3>2. \A z \in Segments : log[z] # T!NoLog => log[z].open # 0
      BY DEF TelemetryInv, FilesFollow, Follows
    <3>3. \A z \in Segments : \/ log'[z] = log[z]
                             \/ /\ log'[z].end \in Nat /\ log'[z].end < clock'
                                /\ log'[z].open # 0 /\ log'[z] # T!NoLog
      BY <3>1, <3>2, <2>2, DyingIs, NoFiles
    <3>4. QED
      BY <3>1, <3>3, StillFollow DEF TelemetryInv
  <2>7. SamplerFollows'
    BY <1>13, <2>1, <2>2 DEF TelemetryInv, T!GroupStop, T!Quit, T!shell, SamplerFollows
  <2>8. UnseenIsDoomed'
    BY <1>13, <2>1 DEF TelemetryInv, UnseenIsDoomed, T!GroupStop, T!load, T!shell
  <2>9. EnvelopeStands'
    BY <1>13, <2>1, <2>2 DEF TelemetryInv, T!GroupStop, T!env, T!load, T!shell,
         EnvelopeStands, T!Altered
  <2>10. StartsTyped' /\ BoundsTyped' /\ Generated' /\ FinalRests'
    BY <1>13 DEF TelemetryInv, T!GroupStop, T!load, T!shell, StartsTyped, BoundsTyped,
         Generated, FinalRests
  <2>11. QED
    BY <2>3, <2>4, <2>5, <2>6, <2>7, <2>8, <2>9, <2>10 DEF TelemetryInv
<1>14. CASE T!Stopped
  <2>1. Doomed => Doomed'
    BY <1>14, DoomedStays DEF T!Next, T!Shell
  <2>2. active \in Segments /\ clock' = clock
    BY <1>14 DEF TelemetryInv, ShellTyped, SamplerFollows, Ending, T!Stopped, T!time
  <2>3. /\ log' \in [Segments -> Readings] /\ start' \in [Segments -> Points]
        /\ boundary' \in [Segments -> Points]
       /\ \A z \in Segments :
             \/ log'[z] = T!NoLog /\ start'[z] = T!NoPoint /\ boundary'[z] = T!NoPoint
             \/ log'[z] = log[z] /\ start'[z] = start[z] /\ boundary'[z] = boundary[z]
    BY <1>14, <2>2, NoFiles DEF TelemetryInv, LogsTyped, StartsTyped, BoundsTyped,
         T!Stopped
  <2>4. LogsTyped'
    BY <2>3 DEF LogsTyped
  <2>5. StartsTyped'
    BY <2>3 DEF StartsTyped
  <2>6. BoundsTyped'
    BY <2>3 DEF BoundsTyped
  <2>7. ShellTyped'
    BY <1>14, <2>1, <2>2, <2>3 DEF TelemetryInv, T!Stopped, ShellTyped, Apart,
         SamplerFollows, T!Exact, T!Starts
  <2>8. FilesFollow'
    <3>1. SUFFICES ASSUME NEW z \in Segments PROVE Follows(z)'
      BY DEF FilesFollow
    <3>2. Follows(z) /\ clock \in Nat \ {0}
      BY DEF TelemetryInv, FilesFollow, ClockTyped
    <3>3. QED
      BY <2>2, <2>3, <3>2, NoFiles DEF Follows
  <2>9. Generated'
    BY <1>14, <2>1, <2>2, <2>3 DEF TelemetryInv, T!Stopped, Generated
  <2>10. SamplerFollows'
    BY <1>14, <2>1, <2>2, <2>3 DEF T!Stopped, SamplerFollows, Beginning, Ending
  <2>11. FinalRests'
    BY <1>14, <2>1, <2>2, <2>3 DEF TelemetryInv, T!Stopped, T!load, FinalRests, Posterior
  <2>12. UnseenIsDoomed'
    BY <1>14, <2>1 DEF TelemetryInv, UnseenIsDoomed, T!Stopped, T!load
  <2>13. EnvelopeStands'
    BY <1>14, <2>1, <2>2, <2>3 DEF TelemetryInv, T!Stopped, T!Discards, T!env, T!load,
         T!time, EnvelopeStands, Apart, Posterior, T!Numbered, FinalRests
  <2>14. ClockTyped'
    BY <1>14 DEF TelemetryInv, T!Stopped, T!time, ClockTyped
  <2>15. QED
    BY <2>4, <2>5, <2>6, <2>7, <2>8, <2>9, <2>10, <2>11, <2>12, <2>13, <2>14 DEF
         TelemetryInv
<1>15. CASE T!Finalize
  <2>1. Doomed => Doomed'
    BY <1>15, DoomedStays DEF T!Next, T!Shell
  <2>2. ShellTyped'
    BY <1>15, <2>1 DEF TelemetryInv, T!Finalize, T!Goto, T!segs, ShellTyped, Apart
  <2>3. Generated'
    BY <1>15, <2>1 DEF TelemetryInv, T!Finalize, T!Goto, T!segs, Generated
  <2>4. SamplerFollows'
    BY <1>15, <2>1 DEF TelemetryInv, T!Finalize, T!Goto, T!time, SamplerFollows, Apart,
         Beginning, Ending, T!Exact
  <2>5. FinalRests'
    BY <1>15, <2>1 DEF T!Finalize, T!Goto, FinalRests, Posterior
  <2>6. UnseenIsDoomed'
    BY <1>15, <2>1 DEF TelemetryInv, UnseenIsDoomed, T!Finalize, T!Goto
  <2>7. EnvelopeStands'
    BY <1>15, <2>1 DEF TelemetryInv, T!Finalize, T!Goto, T!env, EnvelopeStands, Posterior,
         T!NoPoint, T!Numbered, FinalRests
  <2>8. LogsTyped' /\ StartsTyped' /\ BoundsTyped' /\ ClockTyped' /\ FilesFollow'
    BY <1>15 DEF TelemetryInv, T!Finalize, T!segs, T!time, LogsTyped, StartsTyped,
         BoundsTyped, ClockTyped, FilesFollow, Follows, T!NoLog
  <2>9. QED
    BY <2>2, <2>3, <2>4, <2>5, <2>6, <2>7, <2>8 DEF TelemetryInv
<1>16. CASE T!Publish
  <2>1. Doomed => Doomed'
    BY <1>16, DoomedStays DEF T!Next, T!Shell
  <2>2. ShellTyped'
    BY <1>16, <2>1 DEF TelemetryInv, T!Publish, T!Goto, T!segs, ShellTyped, Apart
  <2>3. Generated'
    BY <1>16, <2>1 DEF TelemetryInv, T!Publish, T!Goto, T!segs, Generated
  <2>4. SamplerFollows'
    BY <1>16, <2>1 DEF TelemetryInv, T!Publish, T!Buildable, T!Mono, T!Goto, T!time,
         SamplerFollows, Apart, Beginning, Ending
  <2>5. FinalRests'
    BY <1>16, <2>1 DEF TelemetryInv, T!Publish, T!Goto, T!load, T!time, FinalRests,
         Posterior
  <2>6. UnseenIsDoomed'
    BY <1>16, <2>1 DEF TelemetryInv, UnseenIsDoomed, T!Publish, T!Goto, T!load
  <2>7. EnvelopeStands'
    <3>1. CASE index = "absent" /\ meta = "absent" /\ T!Buildable
      <4>1. /\ envelope' = [segments |-> 1..listed, log |-> log, boundary |-> boundary,
                            status |-> T!Status]
            /\ sampling' = "pair" /\ UNCHANGED <<log, boundary, final, up, unseen>>
        BY <1>16, <3>1 DEF T!Publish, T!Goto, T!segs, T!load
      <4>2. /\ envelope'.segments = 1..listed /\ envelope'.log = log /\ envelope'.boundary = boundary
            /\ envelope'.status = T!Status /\ T!Status \in {"complete", "incomplete"}
        BY <4>1 DEF T!Status
      <4>3. final /\ up = 0 /\ active = 0 /\ 1..listed \subseteq Segments
        BY <1>16 DEF TelemetryInv, ShellTyped, SamplerFollows, FinalRests, Apart,
             T!Publish
      <4>4. \A s \in 1..listed : boundary[s].there
        BY <3>1, <4>3 DEF TelemetryInv, FilesFollow, Follows, T!Buildable, T!BoundaryReads
      <4>5. ~T!Altered'
        BY <3>1, <4>1, <4>2 DEF T!Altered, T!Only, T!Buildable, T!Logs, T!Bounds
      <4>6. T!Status = "complete" => ~unseen
        <5>1. SUFFICES ASSUME T!Status = "complete", Doomed PROVE FALSE
          BY DEF TelemetryInv, UnseenIsDoomed
        <5>2. \A s \in 1..listed : T!Covered(s) /\ T!LogReads(s)
          BY <3>1, <5>1 DEF T!Status, T!Buildable
        <5>3. T!Logs = 1..listed /\ T!Bounds \subseteq T!Logs
          BY <3>1, <4>3, <5>2 DEF T!Buildable, T!Only, T!LogReads, T!Logs
        <5>4. T!Starts = T!Logs
          <6>1. T!Starts \subseteq T!Logs
            BY DEF TelemetryInv, FilesFollow, Follows, T!Starts, T!Logs
          <6>2. ASSUME NEW s \in 1..listed PROVE s \in T!Starts
            <7>1. s \in Segments /\ log[s] # T!NoLog /\ start[s].unix >= log[s].open
              BY <4>3, <5>2 DEF T!Covered, T!LogReads
            <7>2. log[s].open # 0 /\ log[s].open \in Nat
              BY <7>1 DEF TelemetryInv, FilesFollow, Follows, LogsTyped, Readings
            <7>3. start[s].unix # 0
              BY <7>1, <7>2
            <7>4. QED
              BY <7>1, <7>3 DEF TelemetryInv, FilesFollow, Follows, T!Starts
          <6>3. QED
            BY <5>3, <6>1, <6>2
        <5>5. listed \in {0} \union Segments /\ T!Numbered(listed)
          BY <3>1, <4>3, <5>3 DEF T!Numbered, T!Buildable, TelemetryInv, ShellTyped
        <5>6. ~Unusable
          BY <5>3, <5>4, <5>5 DEF Unusable
        <5>7. generation = "whole"
          BY <3>1 DEF T!Buildable
        <5>8. PICK s \in Segments : Uncoverable(s)
          BY <5>1, <5>6, <5>7 DEF Doomed
        <5>9. s \in 1..listed
          BY <5>3, <5>8 DEF Uncoverable, T!Logs
        <5>10. log[s].end # 0 /\ boundary[s].there /\ boundary[s].unix <= log[s].end
          BY <4>4, <5>2, <5>9 DEF T!Covered
        <5>11. log[s].end \in Nat /\ boundary[s].unix \in Nat
          BY DEF TelemetryInv, LogsTyped, BoundsTyped, Readings, Points
        <5>12. QED
          BY <4>3, <5>8, <5>10, <5>11 DEF Uncoverable
      <4>7. QED
        BY <4>1, <4>2, <4>3, <4>4, <4>5, <4>6 DEF EnvelopeStands
    <3>2. CASE ~(index = "absent" /\ meta = "absent" /\ T!Buildable)
      <4>1. UNCHANGED <<envelope, log, boundary, final, up, unseen, index>> /\ sampling' = "mark"
        BY <1>16, <3>2 DEF T!Publish, T!Goto, T!segs, T!load
      <4>2. T!Altered' <=> T!Altered
        BY <4>1 DEF T!Altered, T!Only, T!Logs, T!Bounds
      <4>3. QED
        BY <4>1, <4>2 DEF TelemetryInv, EnvelopeStands
    <3>3. QED
      BY <3>1, <3>2
  <2>8. LogsTyped' /\ StartsTyped' /\ BoundsTyped' /\ ClockTyped' /\ FilesFollow'
    BY <1>16 DEF TelemetryInv, T!Publish, T!segs, T!time, LogsTyped, StartsTyped,
         BoundsTyped, ClockTyped, FilesFollow, Follows, T!NoLog
  <2>9. QED
    BY <2>2, <2>3, <2>4, <2>5, <2>6, <2>7, <2>8 DEF TelemetryInv
<1>17. CASE T!PublishPair
  <2>1. Doomed => Doomed'
    BY <1>17, DoomedStays DEF T!Next, T!Shell
  <2>2. ShellTyped'
    BY <1>17, <2>1 DEF TelemetryInv, T!PublishPair, T!shell, T!Goto, T!segs, ShellTyped,
         Beginning, Ending, Apart, Readings, Points
  <2>3. Generated'
    BY <1>17, <2>1 DEF TelemetryInv, T!PublishPair, T!shell, T!Goto, T!segs, Generated
  <2>4. SamplerFollows'
    BY <1>17, <2>1 DEF TelemetryInv, T!PublishPair, T!shell, T!Goto, T!time,
         SamplerFollows, Apart, Beginning, Ending, T!Exact
  <2>5. FinalRests'
    BY <1>17, <2>1 DEF TelemetryInv, T!PublishPair, T!shell, T!Goto, T!load, FinalRests,
         Posterior, Readings
  <2>6. UnseenIsDoomed'
    BY <1>17, <2>1 DEF TelemetryInv, UnseenIsDoomed, T!PublishPair, T!shell, T!Goto,
         T!load
  <2>7. EnvelopeStands'
    BY <1>17, <2>1, TelemetryAssumption DEF TelemetryInv, T!PublishPair, T!shell, T!Goto,
         T!segs, T!load, T!time, EnvelopeStands, T!Altered, T!Only, T!Logs, T!NoLog,
         T!Bounds
  <2>8. LogsTyped' /\ StartsTyped' /\ BoundsTyped' /\ ClockTyped' /\ FilesFollow'
    BY <1>17 DEF TelemetryInv, T!PublishPair, T!segs, T!time, LogsTyped, StartsTyped,
         BoundsTyped, ClockTyped, FilesFollow, Follows, T!NoLog
  <2>9. QED
    BY <2>2, <2>3, <2>4, <2>5, <2>6, <2>7, <2>8 DEF TelemetryInv
<1>18. CASE T!Mark
  <2>1. Doomed => Doomed'
    BY <1>18, DoomedStays DEF T!Next, T!Shell
  <2>2. ShellTyped'
    BY <1>18, <2>1 DEF TelemetryInv, T!Mark, T!Goto, T!segs, ShellTyped
  <2>3. Generated'
    BY <1>18, <2>1 DEF T!Mark, T!Goto, Generated
  <2>4. SamplerFollows'
    BY <1>18, <2>1 DEF TelemetryInv, T!Mark, T!Goto, T!time, SamplerFollows, Apart,
         Beginning, Ending, T!Exact
  <2>5. FinalRests'
    BY <1>18, <2>1 DEF T!Mark, T!Goto, FinalRests, Posterior
  <2>6. UnseenIsDoomed'
    BY <1>18, <2>1 DEF TelemetryInv, UnseenIsDoomed, T!Mark, T!Goto
  <2>7. EnvelopeStands'
    BY <1>18, <2>1, TelemetryAssumption DEF TelemetryInv, T!Mark, T!Goto, T!segs, T!env,
         T!time, EnvelopeStands, T!Altered, T!Only, T!Logs, T!NoLog, T!Bounds, Readings
  <2>8. LogsTyped' /\ StartsTyped' /\ BoundsTyped' /\ ClockTyped' /\ FilesFollow'
    BY <1>18 DEF TelemetryInv, T!Mark, T!segs, T!time, LogsTyped, StartsTyped,
         BoundsTyped, ClockTyped, FilesFollow, Follows, T!NoLog
  <2>9. QED
    BY <2>2, <2>3, <2>4, <2>5, <2>6, <2>7, <2>8 DEF TelemetryInv
<1>19. CASE T!SamplerOpens
  <2>1. Doomed => Doomed'
    BY <1>19, DoomedStays DEF T!Next, T!Shell
  <2>2. LogsTyped'
    BY <1>19, OpensIs DEF LogsTyped
  <2>3. ClockTyped'
    BY <1>19, <2>1 DEF TelemetryInv, T!SamplerOpens, T!Tick, ClockTyped
  <2>4. FilesFollow'
    <3>1. clock' = clock + 1 /\ UNCHANGED <<start, boundary>> /\ clock \in Nat \ {0}
      BY <1>19 DEF TelemetryInv, ClockTyped, T!SamplerOpens, T!Tick
    <3>2. log'[up].end \in Nat /\ log'[up].end < clock' /\ log'[up].open # 0 /\ log'[up] # T!NoLog
      BY <1>19, <3>1, OpensIs, TimesTyped DEF TelemetryInv, FilesFollow, Follows
    <3>3. QED
      BY <1>19, <3>1, <3>2, OpensIs, StillFollow DEF TelemetryInv
  <2>5. SamplerFollows'
    BY <1>19, <2>1 DEF TelemetryInv, T!SamplerOpens, T!shell, SamplerFollows, Apart
  <2>6. UnseenIsDoomed'
    BY <1>19, <2>1 DEF TelemetryInv, UnseenIsDoomed, T!SamplerOpens, T!load, T!shell
  <2>7. EnvelopeStands'
    BY <1>19, <2>1 DEF TelemetryInv, T!SamplerOpens, T!NoLog, T!Tick, T!env, T!load,
         T!shell, EnvelopeStands, T!Altered
  <2>8. StartsTyped' /\ BoundsTyped' /\ ShellTyped' /\ Generated' /\ FinalRests'
    BY <1>19 DEF TelemetryInv, T!SamplerOpens, T!load, T!shell, StartsTyped, BoundsTyped,
         ShellTyped, Generated, FinalRests
  <2>9. QED
    BY <2>2, <2>3, <2>4, <2>5, <2>6, <2>7, <2>8 DEF TelemetryInv
<1>20. CASE T!Sweep
  <2>1. Doomed => Doomed'
    BY <1>20, DoomedStays DEF T!Next, T!Shell
  <2>2. LogsTyped'
    BY <1>20, SweepIs DEF LogsTyped
  <2>3. ClockTyped'
    BY <1>20, <2>1 DEF TelemetryInv, T!Sweep, T!Tick, ClockTyped
  <2>4. FilesFollow'
    <3>1. clock' = clock + 1 /\ UNCHANGED <<start, boundary>> /\ clock \in Nat \ {0}
      BY <1>20 DEF TelemetryInv, ClockTyped, T!Sweep, T!Tick
    <3>2. log'[up].end \in Nat /\ log'[up].end < clock' /\ log'[up].open # 0 /\ log'[up] # T!NoLog
      BY <1>20, <3>1, SweepIs, TimesTyped DEF TelemetryInv, FilesFollow, Follows
    <3>3. QED
      BY <1>20, <3>1, <3>2, SweepIs, StillFollow DEF TelemetryInv
  <2>5. SamplerFollows'
    BY <1>20, <2>1 DEF TelemetryInv, T!Sweep, T!NoLog, T!load, T!shell, SamplerFollows,
         Apart
  <2>6. UnseenIsDoomed'
    BY <1>20, <2>1 DEF TelemetryInv, UnseenIsDoomed, T!Sweep, T!load, T!shell
  <2>7. EnvelopeStands'
    BY <1>20, <2>1 DEF TelemetryInv, T!Sweep, T!NoLog, T!Tick, T!env, T!load, T!shell,
         EnvelopeStands, T!Altered
  <2>8. StartsTyped' /\ BoundsTyped' /\ ShellTyped' /\ Generated' /\ FinalRests'
    BY <1>20 DEF TelemetryInv, T!Sweep, T!load, T!shell, StartsTyped, BoundsTyped,
         ShellTyped, Generated, FinalRests
  <2>9. QED
    BY <2>2, <2>3, <2>4, <2>5, <2>6, <2>7, <2>8 DEF TelemetryInv
<1>21. CASE T!SamplerFails
  <2>1. Doomed => Doomed'
    BY <1>21, DoomedStays DEF T!Next, T!Shell
  <2>2. up # 0 /\ (\E ended, torn \in BOOLEAN : T!Ends(up, ended, torn)) /\ clock' = clock + 1
       /\ UNCHANGED <<start, boundary>>
    BY <1>21 DEF T!SamplerFails, T!Quit, T!Tick
  <2>3. LogsTyped'
    BY <2>2, DyingIs DEF LogsTyped
  <2>4. ClockTyped'
    BY <1>21, <2>1, <2>2 DEF TelemetryInv, T!SamplerFails, T!Quit, T!Tick, ClockTyped
  <2>5. ShellTyped'
    BY <1>21, <2>1, <2>2 DEF TelemetryInv, T!SamplerFails, T!Quit, T!shell, ShellTyped
  <2>6. FilesFollow'
    <3>1. clock \in Nat /\ clock' \in Nat /\ clock' > clock /\ UNCHANGED <<start, boundary>>
      BY <2>2, DyingIs DEF TelemetryInv, ClockTyped
    <3>2. \A z \in Segments : log[z] # T!NoLog => log[z].open # 0
      BY DEF TelemetryInv, FilesFollow, Follows
    <3>3. \A z \in Segments : \/ log'[z] = log[z]
                             \/ /\ log'[z].end \in Nat /\ log'[z].end < clock'
                                /\ log'[z].open # 0 /\ log'[z] # T!NoLog
      BY <3>1, <3>2, <2>2, DyingIs, NoFiles
    <3>4. QED
      BY <3>1, <3>3, StillFollow DEF TelemetryInv
  <2>7. SamplerFollows'
    <3>1. /\ UNCHANGED <<sampling, active, listed, began, boundary, start>>
          /\ up' = 0 /\ sampling # "start"
      BY <1>21, <2>2 DEF TelemetryInv, SamplerFollows, T!SamplerFails, T!Quit, T!shell,
           Apart
    <3>2. \A z \in Segments : log'[z] = T!NoLog <=> log[z] = T!NoLog
      BY <2>2, DyingIs
    <3>3. QED
      BY <3>1, <3>2 DEF TelemetryInv, ShellTyped, SamplerFollows, Apart
  <2>8. UnseenIsDoomed'
    BY <1>21, <2>1 DEF TelemetryInv, UnseenIsDoomed, T!SamplerFails, T!shell
  <2>9. EnvelopeStands'
    BY <1>21, <2>1, <2>2 DEF TelemetryInv, T!SamplerFails, T!Quit, T!Tick, T!env, T!shell,
         EnvelopeStands
  <2>10. StartsTyped' /\ BoundsTyped' /\ Generated' /\ FinalRests'
    BY <1>21 DEF TelemetryInv, T!SamplerFails, T!shell, StartsTyped, BoundsTyped,
         Generated, FinalRests
  <2>11. QED
    BY <2>3, <2>4, <2>5, <2>6, <2>7, <2>8, <2>9, <2>10 DEF TelemetryInv
<1>22. CASE T!Reap
  <2>1. Doomed => Doomed'
    BY <1>22, DoomedStays DEF T!Next, T!Shell
  <2>2. up # 0 /\ (\E ended, torn \in BOOLEAN : T!Ends(up, ended, torn)) /\ clock' = clock + 1
       /\ UNCHANGED <<start, boundary>>
    BY <1>22 DEF T!Reap, T!Quit, T!Tick
  <2>3. LogsTyped'
    BY <2>2, DyingIs DEF LogsTyped
  <2>4. ClockTyped'
    BY <1>22, <2>1, <2>2 DEF TelemetryInv, T!Reap, T!Quit, T!Tick, ClockTyped
  <2>5. ShellTyped'
    BY <1>22, <2>1, <2>2 DEF TelemetryInv, T!Reap, T!Quit, T!shell, ShellTyped
  <2>6. FilesFollow'
    <3>1. clock \in Nat /\ clock' \in Nat /\ clock' > clock /\ UNCHANGED <<start, boundary>>
      BY <2>2, DyingIs DEF TelemetryInv, ClockTyped
    <3>2. \A z \in Segments : log[z] # T!NoLog => log[z].open # 0
      BY DEF TelemetryInv, FilesFollow, Follows
    <3>3. \A z \in Segments : \/ log'[z] = log[z]
                             \/ /\ log'[z].end \in Nat /\ log'[z].end < clock'
                                /\ log'[z].open # 0 /\ log'[z] # T!NoLog
      BY <3>1, <3>2, <2>2, DyingIs, NoFiles
    <3>4. QED
      BY <3>1, <3>3, StillFollow DEF TelemetryInv
  <2>7. SamplerFollows'
    BY <1>22, <2>1, <2>2 DEF TelemetryInv, T!Reap, T!shell, SamplerFollows
  <2>8. UnseenIsDoomed'
    BY <1>22, <2>1 DEF TelemetryInv, UnseenIsDoomed, T!Reap, T!load, T!shell
  <2>9. EnvelopeStands'
    BY <1>22, <2>1, <2>2 DEF TelemetryInv, T!Reap, T!env, T!load, T!shell, EnvelopeStands,
         T!Altered
  <2>10. StartsTyped' /\ BoundsTyped' /\ Generated' /\ FinalRests'
    BY <1>22 DEF TelemetryInv, T!Reap, T!shell, StartsTyped, BoundsTyped, Generated,
         FinalRests, Posterior
  <2>11. QED
    BY <2>3, <2>4, <2>5, <2>6, <2>7, <2>8, <2>9, <2>10 DEF TelemetryInv
<1>23. CASE T!Die
  <2>1. Doomed => Doomed'
    BY <1>23, DoomedStays DEF T!Next, T!Shell
  <2>2. ShellTyped'
    BY <1>23, <2>1 DEF TelemetryInv, T!Die, T!segs, ShellTyped, Ending
  <2>3. Generated'
    BY <1>23, <2>1 DEF TelemetryInv, T!Die, T!segs, Generated
  <2>4. SamplerFollows'
    BY <1>23, <2>1 DEF TelemetryInv, T!Die, T!segs, SamplerFollows, Apart, Beginning,
         Ending
  <2>5. FinalRests'
    BY <1>23, <2>1 DEF TelemetryInv, T!Die, FinalRests, Posterior
  <2>6. UnseenIsDoomed'
    BY <1>23, <2>1 DEF TelemetryInv, UnseenIsDoomed, T!Die
  <2>7. EnvelopeStands'
    BY <1>23, <2>1 DEF TelemetryInv, T!Die, T!env, EnvelopeStands, Posterior, T!NoPoint,
         T!Numbered, FinalRests
  <2>8. LogsTyped' /\ StartsTyped' /\ BoundsTyped' /\ ClockTyped' /\ FilesFollow'
    BY <1>23 DEF TelemetryInv, T!Die, T!segs, T!time, LogsTyped, StartsTyped, BoundsTyped,
         ClockTyped, FilesFollow, Follows, T!NoLog
  <2>9. QED
    BY <2>2, <2>3, <2>4, <2>5, <2>6, <2>7, <2>8 DEF TelemetryInv
<1>24. CASE T!Kill
  <2>1. Doomed => Doomed'
    BY <1>24, DoomedStays DEF T!Next, T!Shell
  <2>2. ShellTyped'
    BY <1>24, <2>1 DEF TelemetryInv, T!Kill, T!Goto, T!segs, ShellTyped
  <2>3. Generated'
    BY <1>24, <2>1 DEF T!Kill, T!Goto, Generated
  <2>4. SamplerFollows'
    BY <1>24, <2>1 DEF TelemetryInv, T!Kill, T!Late, T!Goto, T!time, SamplerFollows,
         Apart, Beginning, Ending, T!Exact
  <2>5. FinalRests'
    BY <1>24, <2>1 DEF T!Kill, T!Goto, FinalRests, Posterior
  <2>6. UnseenIsDoomed'
    <3>1. /\ sampling' = "off" /\ UNCHANGED <<boundary, active, began>>
          /\ unseen' => unseen \/ sampling = "run"
      BY <1>24 DEF T!Kill, T!Late, T!Goto, T!segs
    <3>2. CASE sampling = "run" /\ active # 0
      <4>1. active \in Segments /\ began = 1 /\ log[active] # T!NoLog /\ ~boundary[active].there
        BY <3>2 DEF TelemetryInv, ShellTyped, SamplerFollows
      <4>2. log'[active] # T!NoLog
        BY <1>24, <4>1 DEF T!Kill, T!segs
      <4>3. Uncoverable(active)'
        BY <3>1, <4>1, <4>2 DEF Uncoverable
      <4>4. QED
        BY <3>1, <4>1, <4>3 DEF UnseenIsDoomed, Doomed
    <3>3. CASE ~(sampling = "run" /\ active # 0)
      BY <2>1, <3>1, <3>3 DEF TelemetryInv, UnseenIsDoomed
    <3>4. QED
      BY <3>2, <3>3
  <2>7. EnvelopeStands'
    BY <1>24, <2>1 DEF TelemetryInv, T!Kill, T!Late, T!Goto, T!segs, T!env, T!time,
         EnvelopeStands, T!Altered, T!Only, T!Logs, T!NoLog, T!Bounds, Apart, Posterior,
         T!Starts, T!Numbered, FinalRests
  <2>8. LogsTyped' /\ StartsTyped' /\ BoundsTyped' /\ ClockTyped' /\ FilesFollow'
    BY <1>24 DEF TelemetryInv, T!Kill, T!segs, T!time, LogsTyped, StartsTyped,
         BoundsTyped, ClockTyped, FilesFollow, Follows, T!NoLog
  <2>9. QED
    BY <2>2, <2>3, <2>4, <2>5, <2>6, <2>7, <2>8 DEF TelemetryInv
<1>25. CASE T!Reboot
  <2>1. Doomed => Doomed'
    BY <1>25, DoomedStays DEF T!Next, T!Shell
  <2>2. LogsTyped'
    BY <1>25, RebootIs DEF LogsTyped
  <2>3. ClockTyped'
    BY <1>25, RebootIs DEF TelemetryInv, ClockTyped
  <2>4. ShellTyped'
    BY <1>25, <2>1 DEF TelemetryInv, T!Reboot, T!Goto, ShellTyped
  <2>5. FilesFollow'
    <3>1. clock \in Nat /\ clock' \in Nat /\ clock' > clock /\ UNCHANGED <<start, boundary>>
      BY <1>25, RebootIs DEF TelemetryInv, ClockTyped
    <3>2. \A z \in Segments : log[z] # T!NoLog => log[z].open # 0
      BY DEF TelemetryInv, FilesFollow, Follows
    <3>3. \A z \in Segments : \/ log'[z] = log[z]
                             \/ /\ log'[z].end \in Nat /\ log'[z].end < clock'
                                /\ log'[z].open # 0 /\ log'[z] # T!NoLog
      BY <3>1, <3>2, <1>25, RebootIs, NoFiles
    <3>4. QED
      BY <3>1, <3>3, StillFollow DEF TelemetryInv
  <2>6. Generated'
    BY <1>25, <2>1 DEF T!Reboot, T!Goto, Generated
  <2>7. SamplerFollows'
    BY <1>25, <2>1 DEF TelemetryInv, T!Reboot, T!Late, T!Goto, T!Ends, SamplerFollows,
         Apart, Beginning, Ending
  <2>8. FinalRests'
    BY <1>25, <2>1 DEF T!Reboot, T!Goto, FinalRests, Posterior
  <2>9. UnseenIsDoomed'
    <3>1. /\ sampling' = "off" /\ UNCHANGED <<boundary, active, began>>
          /\ unseen' => unseen \/ sampling = "run"
      BY <1>25 DEF T!Reboot, T!Late, T!Goto, T!segs
    <3>2. CASE sampling = "run" /\ active # 0
      <4>1. active \in Segments /\ began = 1 /\ log[active] # T!NoLog /\ ~boundary[active].there
        BY <3>2 DEF TelemetryInv, ShellTyped, SamplerFollows
      <4>2. log'[active] # T!NoLog
        BY <1>25, <4>1, RebootIs
      <4>3. Uncoverable(active)'
        BY <3>1, <4>1, <4>2 DEF Uncoverable
      <4>4. QED
        BY <3>1, <4>1, <4>3 DEF UnseenIsDoomed, Doomed
    <3>3. CASE ~(sampling = "run" /\ active # 0)
      BY <2>1, <3>1, <3>3 DEF TelemetryInv, UnseenIsDoomed
    <3>4. QED
      BY <3>2, <3>3
  <2>10. EnvelopeStands'
    BY <1>25, <2>1 DEF TelemetryInv, T!Reboot, T!Late, T!Goto, T!Ends, T!NoLog, T!env,
         EnvelopeStands, T!Altered, T!Only, T!Logs, T!Bounds, Readings, Posterior,
         T!NoPoint, T!Numbered, FinalRests
  <2>11. StartsTyped' /\ BoundsTyped'
    BY <1>25 DEF TelemetryInv, T!Reboot, StartsTyped, BoundsTyped
  <2>12. QED
    BY <2>2, <2>3, <2>4, <2>5, <2>6, <2>7, <2>8, <2>9, <2>10, <2>11 DEF TelemetryInv
<1>26. CASE UNCHANGED T!vars
  <2>1. LogsTyped'
    BY <1>26 DEF T!vars, T!segs, TelemetryInv, LogsTyped
  <2>2. StartsTyped'
    BY <1>26 DEF T!vars, T!segs, TelemetryInv, StartsTyped
  <2>3. BoundsTyped'
    BY <1>26 DEF T!vars, T!segs, TelemetryInv, BoundsTyped
  <2>4. ClockTyped'
    BY <1>26 DEF T!vars, T!time, TelemetryInv, ClockTyped
  <2>5. ShellTyped'
    BY <1>26 DEF T!vars, T!segs, T!shell, TelemetryInv, ShellTyped
  <2>6. FilesFollow'
    BY <1>26 DEF T!vars, T!segs, T!time, TelemetryInv, FilesFollow, Follows
  <2>7. Generated'
    BY <1>26 DEF T!vars, T!segs, T!shell, TelemetryInv, Generated
  <2>8. SamplerFollows'
    BY <1>26 DEF T!vars, T!segs, T!load, T!shell, TelemetryInv, SamplerFollows, T!Exact,
         T!Starts, T!Logs, T!Numbered, T!Bounds
  <2>9. FinalRests'
    BY <1>26 DEF T!vars, T!load, T!shell, TelemetryInv, FinalRests
  <2>10. UnseenIsDoomed'
    BY <1>26 DEF T!vars, T!segs, T!load, T!shell, TelemetryInv, UnseenIsDoomed, Doomed,
         Unusable, T!Starts, T!Logs, T!Numbered, T!Bounds, Uncoverable
  <2>11. EnvelopeStands'
    BY <1>26 DEF T!vars, T!segs, T!env, T!load, T!shell, TelemetryInv, EnvelopeStands,
         T!Altered, T!Only, T!Logs, T!Bounds
  <2>12. QED
    BY <2>1, <2>2, <2>3, <2>4, <2>5, <2>6, <2>7, <2>8, <2>9, <2>10, <2>11 DEF TelemetryInv
<1>27. QED
  BY <1>1, <1>2, <1>3, <1>4, <1>5, <1>6, <1>7, <1>8, <1>9, <1>10, <1>11, <1>12, <1>13,
       <1>14, <1>15, <1>16, <1>17, <1>18, <1>19, <1>20, <1>21, <1>22, <1>23, <1>24, <1>25,
       <1>26 DEF T!Next, T!Shell

\* The invariant holds throughout.
THEOREM TelemetryInvariant == T!Spec => []TelemetryInv
BY InitTelemetry, NextTelemetry, PTL DEF T!Spec

\* Telemetry that is read as complete covers every observation (buildTelemetryEnvelope,
\* assessTelemetryEvidence), for any observations, segments and faults.
THEOREM CompleteIsCovered == T!Spec => []CompleteMeansCovered
<1>1. TelemetryInv => CompleteMeansCovered
  BY DEF TelemetryInv, EnvelopeStands, CompleteMeansCovered,
         T!CompleteMeansCovered, T!Assessment
<1>2. QED
  BY <1>1, TelemetryInvariant, PTL

\* A published envelope is never found to disagree with the files it was built from
\* (telemetry_phase_publish): no sampler runs and no boundary is recovered after it.
THEOREM EnvelopesReadBack == T!Spec => []EnvelopeReadsBack
<1>1. TelemetryInv => EnvelopeReadsBack
  BY DEF TelemetryInv, EnvelopeStands, EnvelopeReadsBack,
         T!EnvelopeReadsBack, T!Published, T!Assessment
<1>2. QED
  BY <1>1, TelemetryInvariant, PTL
=============================================================================
