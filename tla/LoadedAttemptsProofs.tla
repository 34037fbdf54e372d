------------------------ MODULE LoadedAttemptsProofs ------------------------
(***************************************************************************)
(* What MCLoadedAttempts checks on small instances, for all values of the   *)
(* constants: the controlled-load session for any worker set and any number *)
(* of attempts per leg, then one supervised attempt (AL) in every           *)
(* interleaving and for channels of any length.                             *)
(***************************************************************************)
EXTENDS MCLoadedAttempts, SequenceTheorems, TLAPS

-----------------------------------------------------------------------------
(* The inductive invariant. *)

\* What the session does tells the state of the worker set.
SetFollowsStage ==
  /\ stage = "a1" => set = "none"
  /\ stage = "starting" => set \in {"starting", "invalid"}
  /\ stage = "start-failed" => set = "invalid"
  /\ stage = "stopping" => set = "stopping"
  /\ stage = "invalid-stop" => set \in {"invalid", "stopping"}
  /\ stage \in {"recovery", "a2", "committed"} => set = "stopped"
  /\ stage = "failed" => set \in {"none", "invalid", "stopped"}
  /\ measuring => stage \in Legs /\ done < PerLeg

\* Before the set is started there are no workers.
NoWorkersBefore ==
  set = "none" => /\ ~failure /\ ~lapsed
                  /\ \A w \in Worker : /\ runner[w] = "idle" /\ proc[w] = "none"
                                       /\ cause[w] = "none" /\ ~clean[w]

\* A set that has stopped, or failed to start, is accounted for.
Accounted == (set = "stopped" \/ (stage = "failed" /\ set # "none")) => AllReturned

\* A clean worker has left nothing, and after a valid stop all are clean.
CleanIsGone == /\ \A w \in Worker : clean[w] => proc[w] \notin Runs /\ runner[w] = "returned"
               /\ stage \in {"recovery", "a2", "committed"} => \A w \in Worker : clean[w]

\* A lapse during B is a worker that has gone, and the second boundary sees it.
LapseIsVisible ==
  /\ \A w \in Worker : runner[w] = "idle" => proc[w] = "none"
  /\ stage = "b" => \A w \in Worker : proc[w] # "none"
  /\ lapsed => \/ stage = "b" /\ \E w \in Worker : proc[w] # "live"
               \/ stage \in {"invalid-stop", "failed"}

\* A session aborted before its last attempt does not get to start it.
AbortStopsLegs ==
  /\ stage = "a2" /\ abortedAt \notin {"no", "last"} => ~LastAttempt
  /\ stage = "committed" => abortedAt \in {"no", "last"}

IInv == /\ TypeOK /\ SetFollowsStage /\ NoWorkersBefore /\ Accounted
        /\ CleanIsGone /\ FailureCancelsPeers /\ LapseIsVisible /\ AbortStopsLegs

-----------------------------------------------------------------------------
LEMMA InitIInv == Init => IInv
<1> SUFFICES ASSUME Init PROVE IInv
  OBVIOUS
<1>1. done \in 0..PerLeg
  BY ScheduleAssumption DEF Init
<1>2. TypeOK
  BY <1>1 DEF Init, TypeOK, Legs, Over
<1>3. QED
  BY <1>2 DEF Init, IInv, SetFollowsStage, NoWorkersBefore, Accounted, AllReturned,
     CleanIsGone, FailureCancelsPeers, LapseIsVisible, AbortStopsLegs, Legs, Over, Runs


\* The history variable stays a Boolean.
LEMMA RecordedBoolean == Recorded => lapsed' \in BOOLEAN
BY DEF Recorded

\* Cancelling all leaves no worker uncancelled, and the causes what they may be.
LEMMA AbortReaches == AbortAll => \A w \in Worker : cause'[w] # "none"
BY DEF AbortAll

LEMMA AbortTyped ==
  ASSUME cause \in [Worker -> {"none", "cancel", "early"}], AbortAll
  PROVE  cause' \in [Worker -> {"none", "cancel", "early"}]
BY DEF AbortAll

LEMMA NextIInv == IInv /\ [Next]_vars => IInv'
<1> SUFFICES ASSUME IInv, [Next]_vars PROVE IInv'
  OBVIOUS
<1>1. ASSUME BeginAttempt, Recorded PROVE IInv'
  <2>1. TypeOK'
    BY RecordedBoolean, ScheduleAssumption, <1>1 DEF IInv, BeginAttempt, session, worker, Legs,
         Over, Aborted, TypeOK, SetFollowsStage
  <2>2. SetFollowsStage'
    BY ScheduleAssumption, <1>1 DEF IInv, BeginAttempt, session, worker, Legs, Over, Aborted,
         TypeOK, SetFollowsStage
  <2>3. NoWorkersBefore'
    BY ScheduleAssumption, <1>1 DEF IInv, BeginAttempt, session, worker, Legs, Over, Aborted,
         TypeOK, SetFollowsStage, NoWorkersBefore, Recorded
  <2>4. Accounted'
    BY ScheduleAssumption, <1>1 DEF IInv, BeginAttempt, session, worker, Legs, Over, Aborted,
         TypeOK, SetFollowsStage, Accounted, AllReturned
  <2>5. CleanIsGone'
    BY ScheduleAssumption, <1>1 DEF IInv, BeginAttempt, session, worker, Legs, Over, Aborted,
         TypeOK, SetFollowsStage, CleanIsGone, Accounted, AllReturned, Runs
  <2>6. FailureCancelsPeers'
    BY AbortReaches, <1>1 DEF IInv, BeginAttempt, worker, FailureCancelsPeers
  <2>7. LapseIsVisible'
    BY ScheduleAssumption, <1>1 DEF IInv, BeginAttempt, session, worker, Legs, Over, Aborted,
         TypeOK, SetFollowsStage, NoWorkersBefore, LapseIsVisible, Recorded
  <2>8. AbortStopsLegs'
    BY ScheduleAssumption, <1>1 DEF IInv, BeginAttempt, session, worker, Legs, Over, Aborted,
         TypeOK, SetFollowsStage, AbortStopsLegs, LastAttempt
  <2>9. QED
    BY <2>1, <2>2, <2>3, <2>4, <2>5, <2>6, <2>7, <2>8 DEF IInv
<1>2. ASSUME EndAttempt, Recorded PROVE IInv'
  <2>1. TypeOK'
    <3>1. done' \in 0..PerLeg
      BY ScheduleAssumption, <1>2 DEF IInv, TypeOK, SetFollowsStage, EndAttempt
    <3>2. QED
      BY <3>1, RecordedBoolean, <1>2 DEF IInv, EndAttempt, session, worker, Legs, Over, Aborted,
           TypeOK, SetFollowsStage
  <2>2. SetFollowsStage'
    BY ScheduleAssumption, <1>2 DEF IInv, EndAttempt, session, worker, Legs, Over, Aborted, TypeOK,
         SetFollowsStage
  <2>3. NoWorkersBefore'
    BY ScheduleAssumption, <1>2 DEF IInv, EndAttempt, session, worker, Legs, Over, Aborted, TypeOK,
         SetFollowsStage, NoWorkersBefore, Recorded
  <2>4. Accounted'
    BY ScheduleAssumption, <1>2 DEF IInv, EndAttempt, session, worker, Legs, Over, Aborted, TypeOK,
         SetFollowsStage, Accounted, AllReturned
  <2>5. CleanIsGone'
    BY ScheduleAssumption, <1>2 DEF IInv, EndAttempt, session, worker, Legs, Over, Aborted, TypeOK,
         SetFollowsStage, CleanIsGone, Accounted, AllReturned, Runs
  <2>6. FailureCancelsPeers'
    BY AbortReaches, <1>2 DEF IInv, EndAttempt, worker, FailureCancelsPeers
  <2>7. LapseIsVisible'
    BY ScheduleAssumption, <1>2 DEF IInv, EndAttempt, session, worker, Legs, Over, Aborted, TypeOK,
         SetFollowsStage, NoWorkersBefore, LapseIsVisible, Recorded
  <2>8. AbortStopsLegs'
    BY ScheduleAssumption, <1>2 DEF IInv, EndAttempt, session, worker, Legs, Over, Aborted, TypeOK,
         SetFollowsStage, AbortStopsLegs, LastAttempt
  <2>9. QED
    BY <2>1, <2>2, <2>3, <2>4, <2>5, <2>6, <2>7, <2>8 DEF IInv
<1>3. ASSUME LegFails, Recorded PROVE IInv'
  <2>1. TypeOK'
    <3>1. done' \in 0..PerLeg
      BY ScheduleAssumption, <1>3 DEF IInv, TypeOK, SetFollowsStage, LegFails, Goto
    <3>2. QED
      BY <3>1, RecordedBoolean, <1>3 DEF IInv, LegFails, Goto, StopSet, AbortAll, session, worker,
           Legs, Over, Aborted, TypeOK, SetFollowsStage
  <2>2. SetFollowsStage'
    BY ScheduleAssumption, <1>3 DEF IInv, LegFails, Goto, StopSet, AbortAll, session, worker, Legs,
         Over, Aborted, TypeOK, SetFollowsStage
  <2>3. NoWorkersBefore'
    BY ScheduleAssumption, <1>3 DEF IInv, LegFails, Goto, StopSet, AbortAll, session, worker, Legs,
         Over, Aborted, TypeOK, SetFollowsStage, NoWorkersBefore, Recorded
  <2>4. Accounted'
    BY ScheduleAssumption, <1>3 DEF IInv, LegFails, Goto, StopSet, AbortAll, session, worker, Legs,
         Over, Aborted, TypeOK, SetFollowsStage, Accounted, AllReturned
  <2>5. CleanIsGone'
    BY ScheduleAssumption, <1>3 DEF IInv, LegFails, Goto, StopSet, AbortAll, session, worker, Legs,
         Over, Aborted, TypeOK, SetFollowsStage, CleanIsGone, Accounted, AllReturned, Runs
  <2>6. FailureCancelsPeers'
    BY AbortReaches, <1>3 DEF IInv, LegFails, Goto, StopSet, worker, FailureCancelsPeers
  <2>7. LapseIsVisible'
    BY ScheduleAssumption, <1>3 DEF IInv, LegFails, Goto, StopSet, AbortAll, session, worker, Legs,
         Over, Aborted, TypeOK, SetFollowsStage, NoWorkersBefore, LapseIsVisible, Recorded
  <2>8. AbortStopsLegs'
    BY ScheduleAssumption, <1>3 DEF IInv, LegFails, Goto, StopSet, AbortAll, session, worker, Legs,
         Over, Aborted, TypeOK, SetFollowsStage, AbortStopsLegs, LastAttempt
  <2>9. QED
    BY <2>1, <2>2, <2>3, <2>4, <2>5, <2>6, <2>7, <2>8 DEF IInv
<1>4. ASSUME StartSet, Recorded PROVE IInv'
  <2>1. TypeOK'
    <3>1. done' \in 0..PerLeg
      BY ScheduleAssumption, <1>4 DEF IInv, TypeOK, SetFollowsStage, StartSet, LegOver, Goto
    <3>2. QED
      BY <3>1, RecordedBoolean, <1>4 DEF IInv, StartSet, LegOver, Goto, AbortAll, session, worker,
           Legs, Over, Aborted, TypeOK, SetFollowsStage
  <2>2. SetFollowsStage'
    BY ScheduleAssumption, <1>4 DEF IInv, StartSet, LegOver, Goto, AbortAll, session, worker, Legs,
         Over, Aborted, TypeOK, SetFollowsStage
  <2>3. NoWorkersBefore'
    BY ScheduleAssumption, <1>4 DEF IInv, StartSet, LegOver, Goto, AbortAll, session, worker, Legs,
         Over, Aborted, TypeOK, SetFollowsStage, NoWorkersBefore, Recorded
  <2>4. Accounted'
    BY ScheduleAssumption, <1>4 DEF IInv, StartSet, LegOver, Goto, AbortAll, session, worker, Legs,
         Over, Aborted, TypeOK, SetFollowsStage, Accounted, AllReturned
  <2>5. CleanIsGone'
    BY ScheduleAssumption, <1>4 DEF IInv, StartSet, LegOver, Goto, AbortAll, session, worker, Legs,
         Over, Aborted, TypeOK, SetFollowsStage, CleanIsGone, Accounted, AllReturned, Runs
  <2>6. FailureCancelsPeers'
    BY AbortReaches, <1>4 DEF IInv, StartSet, LegOver, Goto, worker, FailureCancelsPeers
  <2>7. LapseIsVisible'
    BY ScheduleAssumption, <1>4 DEF IInv, StartSet, LegOver, Goto, AbortAll, session, worker, Legs,
         Over, Aborted, TypeOK, SetFollowsStage, NoWorkersBefore, LapseIsVisible, Recorded
  <2>8. AbortStopsLegs'
    BY ScheduleAssumption, <1>4 DEF IInv, StartSet, LegOver, Goto, AbortAll, session, worker, Legs,
         Over, Aborted, TypeOK, SetFollowsStage, AbortStopsLegs, LastAttempt
  <2>9. QED
    BY <2>1, <2>2, <2>3, <2>4, <2>5, <2>6, <2>7, <2>8 DEF IInv
<1>5. ASSUME SetReady, Recorded PROVE IInv'
  <2>1. TypeOK'
    <3>1. done' \in 0..PerLeg
      BY ScheduleAssumption, <1>5 DEF IInv, TypeOK, SetFollowsStage, SetReady, Goto
    <3>2. QED
      BY <3>1, RecordedBoolean, <1>5 DEF IInv, SetReady, Goto, FirstReady, session, worker, Legs,
           Over, Aborted, TypeOK, SetFollowsStage
  <2>2. SetFollowsStage'
    BY ScheduleAssumption, <1>5 DEF IInv, SetReady, Goto, FirstReady, session, worker, Legs, Over,
         Aborted, TypeOK, SetFollowsStage
  <2>3. NoWorkersBefore'
    BY ScheduleAssumption, <1>5 DEF IInv, SetReady, Goto, FirstReady, session, worker, Legs, Over,
         Aborted, TypeOK, SetFollowsStage, NoWorkersBefore, Recorded
  <2>4. Accounted'
    BY ScheduleAssumption, <1>5 DEF IInv, SetReady, Goto, FirstReady, session, worker, Legs, Over,
         Aborted, TypeOK, SetFollowsStage, Accounted, AllReturned
  <2>5. CleanIsGone'
    BY ScheduleAssumption, <1>5 DEF IInv, SetReady, Goto, FirstReady, session, worker, Legs, Over,
         Aborted, TypeOK, SetFollowsStage, CleanIsGone, Accounted, AllReturned, Runs
  <2>6. FailureCancelsPeers'
    BY AbortReaches, <1>5 DEF IInv, SetReady, Goto, FirstReady, worker, FailureCancelsPeers
  <2>7. LapseIsVisible'
    BY ScheduleAssumption, <1>5 DEF IInv, SetReady, Goto, FirstReady, session, worker, Legs, Over,
         Aborted, TypeOK, SetFollowsStage, NoWorkersBefore, LapseIsVisible, Recorded
  <2>8. AbortStopsLegs'
    BY ScheduleAssumption, <1>5 DEF IInv, SetReady, Goto, FirstReady, session, worker, Legs, Over,
         Aborted, TypeOK, SetFollowsStage, AbortStopsLegs, LastAttempt
  <2>9. QED
    BY <2>1, <2>2, <2>3, <2>4, <2>5, <2>6, <2>7, <2>8 DEF IInv
<1>6. ASSUME SetNotReady, Recorded PROVE IInv'
  <2>1. TypeOK'
    <3>1. done' \in 0..PerLeg
      BY ScheduleAssumption, <1>6 DEF IInv, TypeOK, SetFollowsStage, SetNotReady, Goto
    <3>2. QED
      BY <3>1, RecordedBoolean, <1>6 DEF IInv, SetNotReady, Goto, Invalidate, AbortAll, session,
           worker, Legs, Over, Aborted, TypeOK, SetFollowsStage
  <2>2. SetFollowsStage'
    BY ScheduleAssumption, <1>6 DEF IInv, SetNotReady, Goto, Invalidate, AbortAll, session, worker,
         Legs, Over, Aborted, TypeOK, SetFollowsStage
  <2>3. NoWorkersBefore'
    BY ScheduleAssumption, <1>6 DEF IInv, SetNotReady, Goto, Invalidate, AbortAll, session, worker,
         Legs, Over, Aborted, TypeOK, SetFollowsStage, NoWorkersBefore, Recorded
  <2>4. Accounted'
    BY ScheduleAssumption, <1>6 DEF IInv, SetNotReady, Goto, Invalidate, AbortAll, session, worker,
         Legs, Over, Aborted, TypeOK, SetFollowsStage, Accounted, AllReturned
  <2>5. CleanIsGone'
    BY ScheduleAssumption, <1>6 DEF IInv, SetNotReady, Goto, Invalidate, AbortAll, session, worker,
         Legs, Over, Aborted, TypeOK, SetFollowsStage, CleanIsGone, Accounted, AllReturned, Runs
  <2>6. FailureCancelsPeers'
    BY AbortReaches, <1>6 DEF IInv, SetNotReady, Goto, Invalidate, worker,
         FailureCancelsPeers
  <2>7. LapseIsVisible'
    BY ScheduleAssumption, <1>6 DEF IInv, SetNotReady, Goto, Invalidate, AbortAll, session, worker,
         Legs, Over, Aborted, TypeOK, SetFollowsStage, NoWorkersBefore, LapseIsVisible, Recorded
  <2>8. AbortStopsLegs'
    BY ScheduleAssumption, <1>6 DEF IInv, SetNotReady, Goto, Invalidate, AbortAll, session, worker,
         Legs, Over, Aborted, TypeOK, SetFollowsStage, AbortStopsLegs, LastAttempt
  <2>9. QED
    BY <2>1, <2>2, <2>3, <2>4, <2>5, <2>6, <2>7, <2>8 DEF IInv
<1>7. ASSUME StartFailed, Recorded PROVE IInv'
  <2>1. TypeOK'
    <3>1. done' \in 0..PerLeg
      BY ScheduleAssumption, <1>7 DEF IInv, TypeOK, SetFollowsStage, StartFailed, Goto
    <3>2. QED
      BY <3>1, RecordedBoolean, <1>7 DEF IInv, StartFailed, Goto, AllReturned, session, worker,
           Legs, Over, Aborted, TypeOK, SetFollowsStage
  <2>2. SetFollowsStage'
    BY ScheduleAssumption, <1>7 DEF IInv, StartFailed, Goto, AllReturned, session, worker, Legs,
         Over, Aborted, TypeOK, SetFollowsStage
  <2>3. NoWorkersBefore'
    BY ScheduleAssumption, <1>7 DEF IInv, StartFailed, Goto, AllReturned, session, worker, Legs,
         Over, Aborted, TypeOK, SetFollowsStage, NoWorkersBefore, Recorded
  <2>4. Accounted'
    BY ScheduleAssumption, <1>7 DEF IInv, StartFailed, Goto, AllReturned, session, worker, Legs,
         Over, Aborted, TypeOK, SetFollowsStage, Accounted
  <2>5. CleanIsGone'
    BY ScheduleAssumption, <1>7 DEF IInv, StartFailed, Goto, AllReturned, session, worker, Legs,
         Over, Aborted, TypeOK, SetFollowsStage, CleanIsGone, Accounted, Runs
  <2>6. FailureCancelsPeers'
    BY AbortReaches, <1>7 DEF IInv, StartFailed, Goto, AllReturned, worker,
         FailureCancelsPeers
  <2>7. LapseIsVisible'
    BY ScheduleAssumption, <1>7 DEF IInv, StartFailed, Goto, AllReturned, session, worker, Legs,
         Over, Aborted, TypeOK, SetFollowsStage, NoWorkersBefore, LapseIsVisible, Recorded
  <2>8. AbortStopsLegs'
    BY ScheduleAssumption, <1>7 DEF IInv, StartFailed, Goto, AllReturned, session, worker, Legs,
         Over, Aborted, TypeOK, SetFollowsStage, AbortStopsLegs, LastAttempt
  <2>9. QED
    BY <2>1, <2>2, <2>3, <2>4, <2>5, <2>6, <2>7, <2>8 DEF IInv
<1>8. ASSUME WarmedUp, Recorded PROVE IInv'
  <2>1. TypeOK'
    <3>1. done' \in 0..PerLeg
      BY ScheduleAssumption, <1>8 DEF IInv, TypeOK, SetFollowsStage, WarmedUp, Boundary, Goto
    <3>2. QED
      BY <3>1, RecordedBoolean, <1>8 DEF IInv, WarmedUp, Boundary, Verified, Goto, StopSet,
           AbortAll, session, worker, Legs, Over, Aborted, TypeOK, SetFollowsStage
  <2>2. SetFollowsStage'
    BY ScheduleAssumption, <1>8 DEF IInv, WarmedUp, Boundary, Verified, Goto, StopSet, AbortAll,
         session, worker, Legs, Over, Aborted, TypeOK, SetFollowsStage
  <2>3. NoWorkersBefore'
    BY ScheduleAssumption, <1>8 DEF IInv, WarmedUp, Boundary, Verified, Goto, StopSet, AbortAll,
         session, worker, Legs, Over, Aborted, TypeOK, SetFollowsStage, NoWorkersBefore, Recorded
  <2>4. Accounted'
    BY ScheduleAssumption, <1>8 DEF IInv, WarmedUp, Boundary, Verified, Goto, StopSet, AbortAll,
         session, worker, Legs, Over, Aborted, TypeOK, SetFollowsStage, Accounted, AllReturned
  <2>5. CleanIsGone'
    BY ScheduleAssumption, <1>8 DEF IInv, WarmedUp, Boundary, Verified, Goto, StopSet, AbortAll,
         session, worker, Legs, Over, Aborted, TypeOK, SetFollowsStage, CleanIsGone, Accounted,
         AllReturned, Runs
  <2>6. FailureCancelsPeers'
    BY AbortReaches, <1>8 DEF IInv, WarmedUp, Boundary, Goto, StopSet, worker,
         FailureCancelsPeers
  <2>7. LapseIsVisible'
    BY ScheduleAssumption, <1>8 DEF IInv, WarmedUp, Boundary, Verified, Goto, StopSet, AbortAll,
         session, worker, Legs, Over, Aborted, TypeOK, SetFollowsStage, NoWorkersBefore,
         LapseIsVisible, Recorded
  <2>8. AbortStopsLegs'
    BY ScheduleAssumption, <1>8 DEF IInv, WarmedUp, Boundary, Verified, Goto, StopSet, AbortAll,
         session, worker, Legs, Over, Aborted, TypeOK, SetFollowsStage, AbortStopsLegs, LastAttempt
  <2>9. QED
    BY <2>1, <2>2, <2>3, <2>4, <2>5, <2>6, <2>7, <2>8 DEF IInv
<1>9. ASSUME BDone, Recorded PROVE IInv'
  <2>1. TypeOK'
    <3>1. done' \in 0..PerLeg
      BY ScheduleAssumption, <1>9 DEF IInv, TypeOK, SetFollowsStage, BDone, LegOver, Boundary, Goto
    <3>2. QED
      BY <3>1, RecordedBoolean, <1>9 DEF IInv, BDone, LegOver, Boundary, Verified, Goto, StopSet,
           AbortAll, session, worker, Legs, Over, Aborted, TypeOK, SetFollowsStage
  <2>2. SetFollowsStage'
    BY ScheduleAssumption, <1>9 DEF IInv, BDone, LegOver, Boundary, Verified, Goto, StopSet,
         AbortAll, session, worker, Legs, Over, Aborted, TypeOK, SetFollowsStage
  <2>3. NoWorkersBefore'
    BY ScheduleAssumption, <1>9 DEF IInv, BDone, LegOver, Boundary, Verified, Goto, StopSet,
         AbortAll, session, worker, Legs, Over, Aborted, TypeOK, SetFollowsStage, NoWorkersBefore,
         Recorded
  <2>4. Accounted'
    BY ScheduleAssumption, <1>9 DEF IInv, BDone, LegOver, Boundary, Verified, Goto, StopSet,
         AbortAll, session, worker, Legs, Over, Aborted, TypeOK, SetFollowsStage, Accounted,
         AllReturned
  <2>5. CleanIsGone'
    BY ScheduleAssumption, <1>9 DEF IInv, BDone, LegOver, Boundary, Verified, Goto, StopSet,
         AbortAll, session, worker, Legs, Over, Aborted, TypeOK, SetFollowsStage, CleanIsGone,
         Accounted, AllReturned, Runs
  <2>6. FailureCancelsPeers'
    BY AbortReaches, <1>9 DEF IInv, BDone, LegOver, Boundary, Goto, StopSet, worker,
         FailureCancelsPeers
  <2>7. LapseIsVisible'
    BY ScheduleAssumption, <1>9 DEF IInv, BDone, LegOver, Boundary, Verified, Goto, StopSet,
         AbortAll, session, worker, Legs, Over, Aborted, TypeOK, SetFollowsStage, NoWorkersBefore,
         LapseIsVisible, Recorded
  <2>8. AbortStopsLegs'
    BY ScheduleAssumption, <1>9 DEF IInv, BDone, LegOver, Boundary, Verified, Goto, StopSet,
         AbortAll, session, worker, Legs, Over, Aborted, TypeOK, SetFollowsStage, AbortStopsLegs,
         LastAttempt
  <2>9. QED
    BY <2>1, <2>2, <2>3, <2>4, <2>5, <2>6, <2>7, <2>8 DEF IInv
<1>10. ASSUME Stopped, Recorded PROVE IInv'
  <2>1. TypeOK'
    <3>1. done' \in 0..PerLeg
      BY ScheduleAssumption, <1>10 DEF IInv, TypeOK, SetFollowsStage, Stopped, Goto
    <3>2. QED
      BY <3>1, RecordedBoolean, <1>10 DEF IInv, Stopped, Goto, ValidStop, AllReturned, session,
           worker, Legs, Over, Aborted, TypeOK, SetFollowsStage
  <2>2. SetFollowsStage'
    BY ScheduleAssumption, <1>10 DEF IInv, Stopped, Goto, ValidStop, AllReturned, session, worker,
         Legs, Over, Aborted, TypeOK, SetFollowsStage
  <2>3. NoWorkersBefore'
    BY ScheduleAssumption, <1>10 DEF IInv, Stopped, Goto, ValidStop, AllReturned, session, worker,
         Legs, Over, Aborted, TypeOK, SetFollowsStage, NoWorkersBefore, Recorded
  <2>4. Accounted'
    BY ScheduleAssumption, <1>10 DEF IInv, Stopped, Goto, ValidStop, AllReturned, session, worker,
         Legs, Over, Aborted, TypeOK, SetFollowsStage, Accounted
  <2>5. CleanIsGone'
    BY ScheduleAssumption, <1>10 DEF IInv, Stopped, Goto, ValidStop, AllReturned, session, worker,
         Legs, Over, Aborted, TypeOK, SetFollowsStage, CleanIsGone, Accounted, Runs
  <2>6. FailureCancelsPeers'
    BY AbortReaches, <1>10 DEF IInv, Stopped, Goto, ValidStop, AllReturned, worker,
         FailureCancelsPeers
  <2>7. LapseIsVisible'
    BY ScheduleAssumption, <1>10 DEF IInv, Stopped, Goto, ValidStop, AllReturned, session, worker,
         Legs, Over, Aborted, TypeOK, SetFollowsStage, NoWorkersBefore, LapseIsVisible, Recorded
  <2>8. AbortStopsLegs'
    BY ScheduleAssumption, <1>10 DEF IInv, Stopped, Goto, ValidStop, AllReturned, session, worker,
         Legs, Over, Aborted, TypeOK, SetFollowsStage, AbortStopsLegs, LastAttempt
  <2>9. QED
    BY <2>1, <2>2, <2>3, <2>4, <2>5, <2>6, <2>7, <2>8 DEF IInv
<1>11. ASSUME Recovered, Recorded PROVE IInv'
  <2>1. TypeOK'
    <3>1. done' \in 0..PerLeg
      BY ScheduleAssumption, <1>11 DEF IInv, TypeOK, SetFollowsStage, Recovered, Goto
    <3>2. QED
      BY <3>1, RecordedBoolean, <1>11 DEF IInv, Recovered, Goto, session, worker, Legs, Over,
           Aborted, TypeOK, SetFollowsStage
  <2>2. SetFollowsStage'
    BY ScheduleAssumption, <1>11 DEF IInv, Recovered, Goto, session, worker, Legs, Over, Aborted,
         TypeOK, SetFollowsStage
  <2>3. NoWorkersBefore'
    BY ScheduleAssumption, <1>11 DEF IInv, Recovered, Goto, session, worker, Legs, Over, Aborted,
         TypeOK, SetFollowsStage, NoWorkersBefore, Recorded
  <2>4. Accounted'
    BY ScheduleAssumption, <1>11 DEF IInv, Recovered, Goto, session, worker, Legs, Over, Aborted,
         TypeOK, SetFollowsStage, Accounted, AllReturned
  <2>5. CleanIsGone'
    BY ScheduleAssumption, <1>11 DEF IInv, Recovered, Goto, session, worker, Legs, Over, Aborted,
         TypeOK, SetFollowsStage, CleanIsGone, Accounted, AllReturned, Runs
  <2>6. FailureCancelsPeers'
    BY AbortReaches, <1>11 DEF IInv, Recovered, Goto, worker, FailureCancelsPeers
  <2>7. LapseIsVisible'
    BY ScheduleAssumption, <1>11 DEF IInv, Recovered, Goto, session, worker, Legs, Over, Aborted,
         TypeOK, SetFollowsStage, NoWorkersBefore, LapseIsVisible, Recorded
  <2>8. AbortStopsLegs'
    BY ScheduleAssumption, <1>11 DEF IInv, Recovered, Goto, session, worker, Legs, Over, Aborted,
         TypeOK, SetFollowsStage, AbortStopsLegs, LastAttempt
  <2>9. QED
    BY <2>1, <2>2, <2>3, <2>4, <2>5, <2>6, <2>7, <2>8 DEF IInv
<1>12. ASSUME Finish, Recorded PROVE IInv'
  <2>1. TypeOK'
    <3>1. done' \in 0..PerLeg
      BY ScheduleAssumption, <1>12 DEF IInv, TypeOK, SetFollowsStage, Finish, LegOver, Goto
    <3>2. QED
      BY <3>1, RecordedBoolean, <1>12 DEF IInv, Finish, LegOver, Goto, session, worker, Legs, Over,
           Aborted, TypeOK, SetFollowsStage
  <2>2. SetFollowsStage'
    BY ScheduleAssumption, <1>12 DEF IInv, Finish, LegOver, Goto, session, worker, Legs, Over,
         Aborted, TypeOK, SetFollowsStage
  <2>3. NoWorkersBefore'
    BY ScheduleAssumption, <1>12 DEF IInv, Finish, LegOver, Goto, session, worker, Legs, Over,
         Aborted, TypeOK, SetFollowsStage, NoWorkersBefore, Recorded
  <2>4. Accounted'
    BY ScheduleAssumption, <1>12 DEF IInv, Finish, LegOver, Goto, session, worker, Legs, Over,
         Aborted, TypeOK, SetFollowsStage, Accounted, AllReturned
  <2>5. CleanIsGone'
    BY ScheduleAssumption, <1>12 DEF IInv, Finish, LegOver, Goto, session, worker, Legs, Over,
         Aborted, TypeOK, SetFollowsStage, CleanIsGone, Accounted, AllReturned, Runs
  <2>6. FailureCancelsPeers'
    BY AbortReaches, <1>12 DEF IInv, Finish, LegOver, Goto, worker, FailureCancelsPeers
  <2>7. LapseIsVisible'
    BY ScheduleAssumption, <1>12 DEF IInv, Finish, LegOver, Goto, session, worker, Legs, Over,
         Aborted, TypeOK, SetFollowsStage, NoWorkersBefore, LapseIsVisible, Recorded
  <2>8. AbortStopsLegs'
    BY ScheduleAssumption, <1>12 DEF IInv, Finish, LegOver, Goto, session, worker, Legs, Over,
         Aborted, TypeOK, SetFollowsStage, AbortStopsLegs, LastAttempt
  <2>9. QED
    BY <2>1, <2>2, <2>3, <2>4, <2>5, <2>6, <2>7, <2>8 DEF IInv
<1>13. ASSUME Abort, Recorded PROVE IInv'
  <2>1. TypeOK'
    BY RecordedBoolean, ScheduleAssumption, <1>13 DEF IInv, Abort, Invalidate, AbortAll, session,
         worker, Legs, Over, Aborted, TypeOK, SetFollowsStage
  <2>2. SetFollowsStage'
    BY ScheduleAssumption, <1>13 DEF IInv, Abort, Invalidate, AbortAll, session, worker, Legs, Over,
         Aborted, TypeOK, SetFollowsStage
  <2>3. NoWorkersBefore'
    BY ScheduleAssumption, <1>13 DEF IInv, Abort, Invalidate, AbortAll, session, worker, Legs, Over,
         Aborted, TypeOK, SetFollowsStage, NoWorkersBefore, Recorded
  <2>4. Accounted'
    BY ScheduleAssumption, <1>13 DEF IInv, Abort, Invalidate, AbortAll, session, worker, Legs, Over,
         Aborted, TypeOK, SetFollowsStage, Accounted, AllReturned
  <2>5. CleanIsGone'
    BY ScheduleAssumption, <1>13 DEF IInv, Abort, Invalidate, AbortAll, session, worker, Legs, Over,
         Aborted, TypeOK, SetFollowsStage, CleanIsGone, Accounted, AllReturned, Runs
  <2>6. FailureCancelsPeers'
    BY AbortReaches, <1>13 DEF IInv, Abort, Invalidate, worker, FailureCancelsPeers
  <2>7. LapseIsVisible'
    BY ScheduleAssumption, <1>13 DEF IInv, Abort, Invalidate, AbortAll, session, worker, Legs, Over,
         Aborted, TypeOK, SetFollowsStage, NoWorkersBefore, LapseIsVisible, Recorded
  <2>8. AbortStopsLegs'
    BY ScheduleAssumption, <1>13 DEF IInv, Abort, Invalidate, AbortAll, session, worker, Legs, Over,
         Aborted, TypeOK, SetFollowsStage, AbortStopsLegs, LastAttempt
  <2>9. QED
    BY <2>1, <2>2, <2>3, <2>4, <2>5, <2>6, <2>7, <2>8 DEF IInv
<1>14. ASSUME NEW w \in Worker, Launch(w), Recorded PROVE IInv'
  <2>1. TypeOK'
    BY RecordedBoolean, ScheduleAssumption, <1>14 DEF IInv, Launch, Alive, session, worker, Legs,
         Over, Aborted, TypeOK, SetFollowsStage
  <2>2. SetFollowsStage'
    BY ScheduleAssumption, <1>14 DEF IInv, Launch, Alive, session, worker, Legs, Over, Aborted,
         TypeOK, SetFollowsStage
  <2>3. NoWorkersBefore'
    BY ScheduleAssumption, <1>14 DEF IInv, Launch, Alive, session, worker, Legs, Over, Aborted,
         TypeOK, SetFollowsStage, NoWorkersBefore, Recorded
  <2>4. Accounted'
    BY ScheduleAssumption, <1>14 DEF IInv, Launch, Alive, session, worker, Legs, Over, Aborted,
         TypeOK, SetFollowsStage, Accounted, AllReturned
  <2>5. CleanIsGone'
    BY ScheduleAssumption, <1>14 DEF IInv, Launch, Alive, session, worker, Legs, Over, Aborted,
         TypeOK, SetFollowsStage, CleanIsGone, Accounted, AllReturned, Runs
  <2>6. FailureCancelsPeers'
    BY AbortReaches, <1>14 DEF IInv, Launch, Alive, worker, FailureCancelsPeers
  <2>7. LapseIsVisible'
    BY ScheduleAssumption, <1>14 DEF IInv, Launch, Alive, session, worker, Legs, Over, Aborted,
         TypeOK, SetFollowsStage, NoWorkersBefore, LapseIsVisible, Recorded
  <2>8. AbortStopsLegs'
    BY ScheduleAssumption, <1>14 DEF IInv, Launch, Alive, session, worker, Legs, Over, Aborted,
         TypeOK, SetFollowsStage, AbortStopsLegs, LastAttempt
  <2>9. QED
    BY <2>1, <2>2, <2>3, <2>4, <2>5, <2>6, <2>7, <2>8 DEF IInv
<1>15. ASSUME NEW w \in Worker, Announce(w), Recorded PROVE IInv'
  <2>1. TypeOK'
    BY RecordedBoolean, ScheduleAssumption, <1>15 DEF IInv, Announce, session, worker, Legs, Over,
         Aborted, TypeOK, SetFollowsStage
  <2>2. SetFollowsStage'
    BY ScheduleAssumption, <1>15 DEF IInv, Announce, session, worker, Legs, Over, Aborted, TypeOK,
         SetFollowsStage
  <2>3. NoWorkersBefore'
    BY ScheduleAssumption, <1>15 DEF IInv, Announce, session, worker, Legs, Over, Aborted, TypeOK,
         SetFollowsStage, NoWorkersBefore, Recorded
  <2>4. Accounted'
    BY ScheduleAssumption, <1>15 DEF IInv, Announce, session, worker, Legs, Over, Aborted, TypeOK,
         SetFollowsStage, Accounted, AllReturned
  <2>5. CleanIsGone'
    BY ScheduleAssumption, <1>15 DEF IInv, Announce, session, worker, Legs, Over, Aborted, TypeOK,
         SetFollowsStage, CleanIsGone, Accounted, AllReturned, Runs
  <2>6. FailureCancelsPeers'
    BY AbortReaches, <1>15 DEF IInv, Announce, worker, FailureCancelsPeers
  <2>7. LapseIsVisible'
    BY ScheduleAssumption, <1>15 DEF IInv, Announce, session, worker, Legs, Over, Aborted, TypeOK,
         SetFollowsStage, NoWorkersBefore, LapseIsVisible, Recorded
  <2>8. AbortStopsLegs'
    BY ScheduleAssumption, <1>15 DEF IInv, Announce, session, worker, Legs, Over, Aborted, TypeOK,
         SetFollowsStage, AbortStopsLegs, LastAttempt
  <2>9. QED
    BY <2>1, <2>2, <2>3, <2>4, <2>5, <2>6, <2>7, <2>8 DEF IInv
<1>16. ASSUME NEW w \in Worker, Die(w), Recorded PROVE IInv'
  <2>1. TypeOK'
    BY RecordedBoolean, ScheduleAssumption, <1>16 DEF IInv, Die, Runs, session, worker, Legs, Over,
         Aborted, TypeOK, SetFollowsStage
  <2>2. SetFollowsStage'
    BY ScheduleAssumption, <1>16 DEF IInv, Die, Runs, session, worker, Legs, Over, Aborted, TypeOK,
         SetFollowsStage
  <2>3. NoWorkersBefore'
    BY ScheduleAssumption, <1>16 DEF IInv, Die, Runs, session, worker, Legs, Over, Aborted, TypeOK,
         SetFollowsStage, NoWorkersBefore, Recorded
  <2>4. Accounted'
    BY ScheduleAssumption, <1>16 DEF IInv, Die, Runs, session, worker, Legs, Over, Aborted, TypeOK,
         SetFollowsStage, Accounted, AllReturned
  <2>5. CleanIsGone'
    BY ScheduleAssumption, <1>16 DEF IInv, Die, Runs, session, worker, Legs, Over, Aborted, TypeOK,
         SetFollowsStage, CleanIsGone, Accounted, AllReturned
  <2>6. FailureCancelsPeers'
    BY AbortReaches, <1>16 DEF IInv, Die, Runs, worker, FailureCancelsPeers, TypeOK
  <2>7. LapseIsVisible'
    BY ScheduleAssumption, <1>16 DEF IInv, Die, Runs, session, worker, Legs, Over, Aborted, TypeOK,
         SetFollowsStage, NoWorkersBefore, LapseIsVisible, Recorded
  <2>8. AbortStopsLegs'
    BY ScheduleAssumption, <1>16 DEF IInv, Die, Runs, session, worker, Legs, Over, Aborted, TypeOK,
         SetFollowsStage, AbortStopsLegs, LastAttempt
  <2>9. QED
    BY <2>1, <2>2, <2>3, <2>4, <2>5, <2>6, <2>7, <2>8 DEF IInv
<1>17. ASSUME NEW w \in Worker, Ends(w), Recorded PROVE IInv'
  <2>1. TypeOK'
    BY RecordedBoolean, ScheduleAssumption, <1>17 DEF IInv, Ends, session, worker, Legs, Over,
         Aborted, TypeOK, SetFollowsStage
  <2>2. SetFollowsStage'
    BY ScheduleAssumption, <1>17 DEF IInv, Ends, session, worker, Legs, Over, Aborted, TypeOK,
         SetFollowsStage
  <2>3. NoWorkersBefore'
    BY ScheduleAssumption, <1>17 DEF IInv, Ends, session, worker, Legs, Over, Aborted, TypeOK,
         SetFollowsStage, NoWorkersBefore, Recorded
  <2>4. Accounted'
    BY ScheduleAssumption, <1>17 DEF IInv, Ends, session, worker, Legs, Over, Aborted, TypeOK,
         SetFollowsStage, Accounted, AllReturned
  <2>5. CleanIsGone'
    BY ScheduleAssumption, <1>17 DEF IInv, Ends, session, worker, Legs, Over, Aborted, TypeOK,
         SetFollowsStage, CleanIsGone, Accounted, AllReturned, Runs
  <2>6. FailureCancelsPeers'
    BY AbortReaches, <1>17 DEF IInv, Ends, worker, FailureCancelsPeers, TypeOK
  <2>7. LapseIsVisible'
    BY ScheduleAssumption, <1>17 DEF IInv, Ends, session, worker, Legs, Over, Aborted, TypeOK,
         SetFollowsStage, NoWorkersBefore, LapseIsVisible, Recorded
  <2>8. AbortStopsLegs'
    BY ScheduleAssumption, <1>17 DEF IInv, Ends, session, worker, Legs, Over, Aborted, TypeOK,
         SetFollowsStage, AbortStopsLegs, LastAttempt
  <2>9. QED
    BY <2>1, <2>2, <2>3, <2>4, <2>5, <2>6, <2>7, <2>8 DEF IInv
<1>18. ASSUME NEW w \in Worker, Return(w), Recorded PROVE IInv'
  <2>1. TypeOK'
    <3>1. cause' \in [Worker -> {"none", "cancel", "early"}]
      BY AbortTyped, <1>18 DEF IInv, TypeOK, Return, Invalidate
    <3>2. set' \in {"none", "starting", "running", "invalid", "stopping", "stopped"}
          /\ failure' \in BOOLEAN
      BY <1>18 DEF IInv, TypeOK, Return, Invalidate
    <3>3. clean' \in [Worker -> BOOLEAN] /\ proc' \in [Worker -> {"none", "live", "orphan", "dead"}]
      BY <1>18 DEF IInv, TypeOK, Return
    <3>4. runner' \in [Worker -> {"idle", "up", "returned"}]
      BY <1>18 DEF IInv, TypeOK, Return
    <3>5. UNCHANGED <<stage, done, measuring, abortedAt, ready>>
      BY <1>18 DEF Return, session
    <3>6. stage \in {"warmup", "b"} => set' \in {"running", "invalid"}
      BY <1>18 DEF IInv, TypeOK, Return, Invalidate
    <3>7. QED
      BY <1>18, <3>1, <3>2, <3>3, <3>4, <3>5, <3>6, RecordedBoolean DEF IInv, TypeOK, Legs, Over
  <2>2. SetFollowsStage'
    BY ScheduleAssumption, <1>18 DEF IInv, Return, Alive, Invalidate, AbortAll, session, worker,
         Legs, Over, Aborted, TypeOK, SetFollowsStage
  <2>3. NoWorkersBefore'
    BY ScheduleAssumption, <1>18 DEF IInv, Return, Alive, Invalidate, AbortAll, session, worker,
         Legs, Over, Aborted, TypeOK, SetFollowsStage, NoWorkersBefore, Recorded
  <2>4. Accounted'
    BY ScheduleAssumption, <1>18 DEF IInv, Return, Alive, Invalidate, AbortAll, session, worker,
         Legs, Over, Aborted, TypeOK, SetFollowsStage, Accounted, AllReturned
  <2>5. CleanIsGone'
    BY ScheduleAssumption, <1>18 DEF IInv, Return, Alive, Invalidate, AbortAll, session, worker,
         Legs, Over, Aborted, TypeOK, SetFollowsStage, CleanIsGone, Accounted, AllReturned, Runs
  <2>6. FailureCancelsPeers'
    BY AbortReaches, <1>18 DEF IInv, Return, Alive, Invalidate, worker, FailureCancelsPeers
  <2>7. LapseIsVisible'
    BY ScheduleAssumption, <1>18 DEF IInv, Return, Alive, Invalidate, AbortAll, session, worker,
         Legs, Over, Aborted, TypeOK, SetFollowsStage, NoWorkersBefore, LapseIsVisible, Recorded
  <2>8. AbortStopsLegs'
    BY ScheduleAssumption, <1>18 DEF IInv, Return, Alive, Invalidate, AbortAll, session, worker,
         Legs, Over, Aborted, TypeOK, SetFollowsStage, AbortStopsLegs, LastAttempt
  <2>9. QED
    BY <2>1, <2>2, <2>3, <2>4, <2>5, <2>6, <2>7, <2>8 DEF IInv
<1>19. CASE UNCHANGED vars
  BY <1>19 DEF vars, session, worker, IInv, TypeOK, SetFollowsStage, NoWorkersBefore, Accounted,
     AllReturned, CleanIsGone, FailureCancelsPeers, LapseIsVisible, AbortStopsLegs, LastAttempt
<1>20. QED
  BY <1>1, <1>2, <1>3, <1>4, <1>5, <1>6, <1>7, <1>8, <1>9, <1>10, <1>11, <1>12, <1>13, <1>14, <1>15, <1>16, <1>17, <1>18, <1>19 DEF Next, SessionStep, WorkerStep

\* The inductive invariant holds in every state of every session.
THEOREM SessionInvariant == Spec => []IInv
BY InitIInv, NextIInv, PTL DEF Spec

-----------------------------------------------------------------------------
(* What the invariant gives. *)

\* Every variable keeps its type, and warm-up and B only run with a set that is
\* running or known to be invalid.
THEOREM SessionTypes == Spec => []TypeOK
BY SessionInvariant, PTL DEF IInv

\* A committed session had its full load during every attempt of B: a worker
\* lost during B is still lost at the second boundary, which refuses the leg.
THEOREM LoadHeld == Spec => []LoadBracketsB
<1>1. IInv => LoadBracketsB
  BY DEF IInv, LapseIsVisible, LoadBracketsB
<1>2. QED
  BY <1>1, SessionInvariant, PTL

\* No worker is on a CPU while A1 or A2 is measured.
THEOREM BaselinesAreQuiet == Spec => []BaselinesUnloaded
<1>1. IInv => BaselinesUnloaded
  <2> SUFFICES ASSUME IInv, measuring, stage # "b", NEW w \in Worker
               PROVE  proc[w] \notin Runs
    BY DEF BaselinesUnloaded
  <2>1. stage \in {"a1", "a2"}
    BY DEF IInv, SetFollowsStage, Legs
  <2>2. CASE stage = "a1"
    BY <2>2 DEF IInv, SetFollowsStage, NoWorkersBefore, Runs
  <2>3. CASE stage = "a2"
    BY <2>3 DEF IInv, CleanIsGone
  <2>4. QED
    BY <2>1, <2>2, <2>3
<1>2. QED
  BY <1>1, SessionInvariant, PTL

\* A signal that arrived before the last attempt began keeps the session from
\* being committed.
THEOREM SignalIsHeeded == Spec => []CancellationHeeded
<1>1. IInv => CancellationHeeded
  BY DEF IInv, AbortStopsLegs, CancellationHeeded
<1>2. QED
  BY <1>1, SessionInvariant, PTL

\* A session that has returned has left no managed runner at work.
THEOREM RunnersEndFirst == Spec => []NoRunnerOutlivesSession
<1>1. IInv => NoRunnerOutlivesSession
  BY DEF IInv, SetFollowsStage, Accounted, AllReturned, NoRunnerOutlivesSession, Over
<1>2. QED
  BY <1>1, SessionInvariant, PTL

\* A worker set with a failure code has cancelled every worker.
THEOREM PeersAreCancelled == Spec => []FailureCancelsPeers
BY SessionInvariant, PTL DEF IInv

-----------------------------------------------------------------------------
(* The attempt.                                                              *)
Kinds == {"supervisor-ready", "workload-started", "workload-exit", "workload-launch-error",
          "fatal"}
Message == [type : Kinds, late : BOOLEAN]
Orders  == {"launch", "shutdown"}

Has(type)     == \E i \in 1..Len(toRunner) : toRunner[i].type = type
Ordered(what) == \E i \in 1..Len(toSup) : toSup[i] = what

\* What a sender and a receiver make of a channel.
Extends(s, type) ==
  /\ s \in Seq(Message) /\ Len(s) \in Nat /\ Len(toRunner) \in Nat
  /\ \A i \in 1..Len(s) :
       \/ i \in 1..Len(toRunner) /\ s[i] = toRunner[i]
       \/ connected /\ i = Len(toRunner) + 1 /\ s[i].type = type /\ s[i].late = late
  /\ \A i \in 1..Len(toRunner) : i \in 1..Len(s) /\ s[i] = toRunner[i]
  /\ connected => Len(s) = Len(toRunner) + 1 /\ s[Len(s)].type = type
Shortens(s, t) ==
  /\ Len(t) \in Nat /\ Len(t) > 0 /\ Len(s) = Len(t) - 1 /\ Head(t) = t[1]
  /\ \A i \in 1..Len(s) : i + 1 \in 1..Len(t) /\ s[i] = t[i + 1]
  /\ \A i \in 1..Len(t) : i = 1 \/ (i - 1 \in 1..Len(s) /\ s[i - 1] = t[i])
Lengthens(s, t, e) ==
  /\ Len(t) \in Nat /\ Len(s) = Len(t) + 1
  /\ \A i \in 1..Len(s) : \/ i \in 1..Len(t) /\ s[i] = t[i]
                          \/ i = Len(s) /\ s[i] = e

Unasked == proto \in {"awaiting-ready", "supervisor-ready"}

-----------------------------------------------------------------------------
(* The inductive invariant. *)

\* Nobody joins the group before the workload is launched.
EmptyBeforeLaunch ==
  sup \in {"boot", "ready", "failed"} => \A m \in AL!Members : life[m] = "none"

\* The supervisor announces itself once, with its first message.
ReadyOnce ==
  /\ sup = "boot" => toRunner = << >> /\ proto = "awaiting-ready"
  /\ \A i \in 1..Len(toRunner) :
       toRunner[i].type = "supervisor-ready" => i = 1 /\ proto = "awaiting-ready"

\* Nothing is launched, and nothing of a launch is heard, before it is asked for.
AskedFirst ==
  Unasked => /\ ~Ordered("launch") /\ sup \notin {"up", "reaped", "failed"}
             /\ \A i \in 1..Len(toRunner) : toRunner[i].type \in {"supervisor-ready", "fatal"}

\* What the runner hears of a launch, or knows of its end, is past.
LaunchIsPast ==
  /\ \A i \in 1..Len(toRunner) :
       toRunner[i].type \notin {"supervisor-ready", "fatal"} => sup \notin {"boot", "ready"}
  /\ proto = "workload-terminal" => sup \notin {"boot", "ready"}

\* Until the runner has chosen, only the supervisor signals the group, and the
\* runner hears of it, or the channel is closed.
SignalIsAnnounced == signalled /\ connected /\ choice = "none" => Has("fatal")

\* A workload that did not die by itself was signalled first.
DeathIsRecorded ==
  /\ life["workload"] = "gone" /\ ~death.natural => signalled
  /\ death.late => late

\* An exit message speaks of a death, and overtakes no announcement of a signal.
ExitIsTrue ==
  \A i \in 1..Len(toRunner) : toRunner[i].type = "workload-exit" =>
    /\ life["workload"] = "gone"
    /\ death.late => toRunner[i].late
    /\ \/ death.natural \/ choice # "none"
       \/ \E j \in 1..Len(toRunner) : j < i /\ toRunner[j].type = "fatal"

\* A natural exit cannot be undone by a launch.
NaturalIsFinal ==
  choice = "natural-exit" => /\ sup \notin {"boot", "ready"} /\ life["workload"] = "gone"
                             /\ death.natural /\ ~death.late

\* A window that closed on a live workload makes its death a late one.
WindowClosed ==
  choice = "observation-window" => /\ late /\ life["workload"] # "none"
                                   /\ life["workload"] = "gone" => death.late

CleanupHasCause ==
  run \in {"terming", "deciding", "draining", "returning"} => choice # "none"

\* An orderly exit is asked for when the group is empty and stays so.
ShutdownIsSafe ==
  Ordered("shutdown") => /\ choice # "none" /\ AL!Alive = {}
                         /\ sup \in {"boot", "ready"} => ~Ordered("launch")

\* A live group has its supervisor, unless something outside killed it.
GroupIsSupervised == (\E m \in AL!Members : life[m] = "live") => AL!SupUp \/ supExit = "crashed"

AttemptInv == /\ AL!ChannelTyped /\ AL!FlagsTyped /\ AL!StateTyped /\ EmptyBeforeLaunch
        /\ ReadyOnce /\ AskedFirst /\ LaunchIsPast
        /\ SignalIsAnnounced /\ DeathIsRecorded /\ ExitIsTrue /\ NaturalIsFinal
        /\ WindowClosed /\ CleanupHasCause /\ ShutdownIsSafe /\ GroupIsSupervised
        /\ AL!CompleteMeansGone /\ AL!OrderlyExitAbandonsNobody
-----------------------------------------------------------------------------
(* Preservation: what the steps of the channel do to it. *)

LEMMA SaysExtends ==
  ASSUME AL!ChannelTyped, AL!FlagsTyped, NEW type \in Kinds PROVE Extends(AL!Says(<<type>>), type)
<1> DEFINE said == [i \in 1..Len(<<type>>) |-> [type |-> <<type>>[i], late |-> late]]
<1>1. toRunner \in Seq(Message) /\ late \in BOOLEAN
  BY DEF AL!ChannelTyped, AL!FlagsTyped, Message, Kinds
<1>2. said \in Seq(Message) /\ Len(said) = 1 /\ said[1] = [type |-> type, late |-> late]
  BY <1>1 DEF Message
<1>3. said[1].type = type /\ said[1].late = late
  BY <1>2
<1>4. /\ toRunner \o said \in Seq(Message)
      /\ Len(toRunner \o said) = Len(toRunner) + 1
      /\ \A i \in 1..(Len(toRunner) + 1) : (toRunner \o said)[i] =
           IF i <= Len(toRunner) THEN toRunner[i] ELSE said[i - Len(toRunner)]
  BY <1>1, <1>2, ConcatProperties
<1>5. AL!Says(<<type>>) = IF connected THEN toRunner \o said ELSE toRunner
  BY DEF AL!Says
<1>6. Len(toRunner) \in Nat
  BY <1>1
<1>7. CASE ~connected
  BY <1>1, <1>5, <1>6, <1>7 DEF Extends
<1>8. CASE connected
  <2>1. /\ (toRunner \o said)[Len(toRunner) + 1] = said[1]
        /\ \A i \in 1..Len(toRunner) : (toRunner \o said)[i] = toRunner[i]
    BY <1>4, <1>6
  <2> HIDE DEF said
  <2>2. /\ AL!Says(<<type>>) \in Seq(Message) /\ Len(AL!Says(<<type>>)) = Len(toRunner) + 1
        /\ AL!Says(<<type>>)[Len(toRunner) + 1].type = type
        /\ AL!Says(<<type>>)[Len(toRunner) + 1].late = late
        /\ \A i \in 1..Len(toRunner) : AL!Says(<<type>>)[i] = toRunner[i]
    BY <1>4, <1>5, <1>8, <1>3, <2>1
  <2>3. QED
    BY <1>6, <1>8, <2>2 DEF Extends
<1>9. QED
  BY <1>7, <1>8

LEMMA OrderTaken ==
  ASSUME AL!ChannelTyped, AL!FlagsTyped, toSup # << >>
  PROVE  Shortens(Tail(toSup), toSup) /\ Tail(toSup) \in Seq(Orders)
<1>1. toSup \in Seq(Orders)
  BY DEF AL!ChannelTyped, Orders
<1>2. QED
  BY <1>1, HeadTailProperties DEF Shortens

LEMMA MessageTaken ==
  ASSUME AL!ChannelTyped, AL!FlagsTyped, toRunner # << >>
  PROVE  Shortens(Tail(toRunner), toRunner) /\ Tail(toRunner) \in Seq(Message)
<1>1. toRunner \in Seq(Message)
  BY DEF AL!ChannelTyped, Message, Kinds
<1>2. QED
  BY <1>1, HeadTailProperties DEF Shortens

LEMMA OrderGiven ==
  ASSUME AL!ChannelTyped, AL!FlagsTyped, NEW order \in Orders
  PROVE  Lengthens(Append(toSup, order), toSup, order) /\ Append(toSup, order) \in Seq(Orders)
<1>1. toSup \in Seq(Orders)
  BY DEF AL!ChannelTyped, Orders
<1>2. QED
  BY <1>1, AppendProperties DEF Lengthens

LEMMA InitAttempt == AL!Init => AttemptInv
<1> SUFFICES ASSUME AL!Init PROVE AttemptInv
  OBVIOUS
<1>1. AL!ChannelTyped
  BY DEF AL!Init, AL!ChannelTyped
<1>2. AL!FlagsTyped
  BY DEF AL!Init, AL!FlagsTyped
<1>3. AL!StateTyped
  BY DEF AL!Init, AL!StateTyped
<1>4. QED
  BY <1>1, <1>2, <1>3 DEF AttemptInv, AL!Init, EmptyBeforeLaunch, ReadyOnce, AskedFirst, LaunchIsPast,
       SignalIsAnnounced, DeathIsRecorded, ExitIsTrue, NaturalIsFinal, WindowClosed,
       CleanupHasCause, ShutdownIsSafe, GroupIsSupervised, AL!CompleteMeansGone,
       AL!OrderlyExitAbandonsNobody, Has, Ordered, Unasked, AL!Members, AL!Alive, AL!SupUp

LEMMA NextAttempt == AttemptInv /\ [AL!Next]_AL!vars => AttemptInv'
<1> SUFFICES ASSUME AttemptInv, [AL!Next]_AL!vars PROVE AttemptInv'
  OBVIOUS
<1>1. CASE AL!SupReady
  <2>1. Extends(AL!Says(<<"supervisor-ready">>), "supervisor-ready")
    BY SaysExtends DEF AttemptInv, Kinds
  <2>2. AL!ChannelTyped'
    BY <1>1, <2>1 DEF AttemptInv, AL!SupReady, AL!ChannelTyped, Kinds, Message, Orders, Extends
  <2>3. AL!StateTyped'
    BY <1>1, <2>1 DEF AttemptInv, AL!SupReady, AL!group, AL!runner, AL!StateTyped, AL!Members, AL!Gone
  <2>4. EmptyBeforeLaunch'
    BY <1>1, <2>1 DEF AttemptInv, AL!SupReady, AL!group, EmptyBeforeLaunch, AL!Members, AL!StateTyped, AL!Gone,
         AskedFirst, Unasked, Ordered
  <2>5. ReadyOnce'
    BY <1>1, <2>1 DEF AttemptInv, AL!SupReady, AL!runner, ReadyOnce, Extends, Message, Kinds
  <2>6. AskedFirst'
    BY <1>1, <2>1 DEF AttemptInv, AL!SupReady, AskedFirst, Unasked, Ordered, ReadyOnce, Extends, Message,
         Kinds
  <2>7. LaunchIsPast'
    BY <1>1, <2>1 DEF AttemptInv, AL!SupReady, AL!runner, LaunchIsPast, AskedFirst, Unasked, Ordered,
         Extends, Message, Kinds
  <2>8. SignalIsAnnounced'
    BY <1>1, <2>1 DEF AttemptInv, AL!SupReady, AL!group, AL!runner, SignalIsAnnounced, Has, CleanupHasCause,
         ShutdownIsSafe, Ordered, AL!Alive, AL!Members, Extends, Message, Kinds
  <2>9. ExitIsTrue'
    BY <1>1, <2>1 DEF AttemptInv, AL!SupReady, ExitIsTrue, AL!StateTyped, AL!Members, AL!Gone, LaunchIsPast,
         SignalIsAnnounced, Has, DeathIsRecorded, Extends, Message, Kinds
  <2>10. NaturalIsFinal'
    BY <1>1, <2>1 DEF AttemptInv, AL!SupReady, AL!runner, NaturalIsFinal, AL!StateTyped, AL!Members, AL!Gone,
         LaunchIsPast, ExitIsTrue, DeathIsRecorded
  <2>11. ShutdownIsSafe'
    BY <1>1, <2>1 DEF AttemptInv, AL!SupReady, AL!group, AL!runner, ShutdownIsSafe, Ordered, AL!Alive, AL!Members,
         AL!StateTyped, AL!Gone, AskedFirst, Unasked, LaunchIsPast, CleanupHasCause,
         EmptyBeforeLaunch, Extends, Message, Kinds
  <2>12. GroupIsSupervised'
    BY <1>1, <2>1 DEF AttemptInv, AL!SupReady, AL!group, GroupIsSupervised, AL!Members, AL!SupUp, AL!StateTyped,
         AL!Gone, EmptyBeforeLaunch, ShutdownIsSafe, Ordered, AL!Alive
  <2>13. AL!CompleteMeansGone'
    BY <1>1, <2>1 DEF AttemptInv, AL!SupReady, AL!runner, AL!CompleteMeansGone, AL!Alive, AL!Members, AL!StateTyped,
         AL!Gone, EmptyBeforeLaunch
  <2>14. AL!OrderlyExitAbandonsNobody'
    BY <1>1, <2>1 DEF AttemptInv, AL!SupReady, AL!group, AL!OrderlyExitAbandonsNobody, AL!Alive, AL!Members,
         AL!StateTyped, AL!Gone, EmptyBeforeLaunch, ShutdownIsSafe, Ordered
  <2>15. AL!FlagsTyped' /\ DeathIsRecorded' /\ WindowClosed' /\ CleanupHasCause'
    BY <1>1 DEF AttemptInv, AL!SupReady, AL!window, AL!group, AL!runner, AL!FlagsTyped, DeathIsRecorded,
         WindowClosed, CleanupHasCause
  <2>16. QED
    BY <2>2, <2>3, <2>4, <2>5, <2>6, <2>7, <2>8, <2>9, <2>10, <2>11, <2>12, <2>13, <2>14, <2>15
         DEF AttemptInv
<1>2. CASE AL!SupLaunch
  <2>1. Extends(AL!Says(<<"workload-started">>), "workload-started")
    BY SaysExtends DEF AttemptInv, Kinds
  <2>2. Shortens(Tail(toSup), toSup) /\ Tail(toSup) \in Seq(Orders)
    BY <1>2, OrderTaken DEF AttemptInv, AL!SupLaunch
  <2>3. AL!ChannelTyped'
    BY <1>2, <2>1, <2>2 DEF AttemptInv, AL!SupLaunch, AL!ChannelTyped, Kinds, Message, Orders, Extends,
         Shortens
  <2>4. AL!StateTyped'
    BY <1>2, <2>1, <2>2 DEF AttemptInv, AL!SupLaunch, AL!runner, AL!StateTyped, AL!Members, AL!Gone
  <2>5. EmptyBeforeLaunch'
    BY <1>2, <2>1, <2>2 DEF AttemptInv, AL!SupLaunch, EmptyBeforeLaunch, AL!Members, AL!StateTyped, AL!Gone,
         AskedFirst, Unasked, Ordered
  <2>6. ReadyOnce'
    BY <1>2, <2>1, <2>2 DEF AttemptInv, AL!SupLaunch, AL!runner, ReadyOnce, Extends, Message, Kinds,
         Shortens, Orders
  <2>7. AskedFirst'
    BY <1>2, <2>1, <2>2 DEF AttemptInv, AL!SupLaunch, AL!runner, AskedFirst, Unasked, Ordered, ReadyOnce,
         Extends, Message, Kinds, Shortens, Orders
  <2>8. LaunchIsPast'
    BY <1>2, <2>1, <2>2 DEF AttemptInv, AL!SupLaunch, LaunchIsPast, AskedFirst, Unasked, Ordered,
         Extends, Message, Kinds, Shortens, Orders
  <2>9. SignalIsAnnounced'
    BY <1>2, <2>1, <2>2 DEF AttemptInv, AL!SupLaunch, AL!runner, SignalIsAnnounced, Has, CleanupHasCause,
         ShutdownIsSafe, Ordered, AL!Alive, AL!Members, Extends, Message, Kinds, Shortens, Orders
  <2>10. DeathIsRecorded'
    BY <1>2, <2>1, <2>2 DEF AttemptInv, AL!SupLaunch, AL!window, DeathIsRecorded, AL!StateTyped, AL!Members, AL!Gone,
         EmptyBeforeLaunch, LaunchIsPast
  <2>11. ExitIsTrue'
    BY <1>2, <2>1, <2>2 DEF AttemptInv, AL!SupLaunch, AL!runner, ExitIsTrue, AL!StateTyped, AL!Members, AL!Gone,
         LaunchIsPast, SignalIsAnnounced, Has, DeathIsRecorded, Extends, Message, Kinds,
         Shortens, Orders
  <2>12. NaturalIsFinal'
    BY <1>2, <2>1, <2>2 DEF AttemptInv, AL!SupLaunch, AL!runner, NaturalIsFinal, AL!StateTyped, AL!Members, AL!Gone,
         LaunchIsPast, ExitIsTrue, DeathIsRecorded, Shortens, Orders
  <2>13. WindowClosed'
    BY <1>2, <2>1, <2>2 DEF AttemptInv, AL!SupLaunch, AL!runner, WindowClosed, AL!StateTyped, AL!Members, AL!Gone,
         AskedFirst, Unasked, Ordered, LaunchIsPast, EmptyBeforeLaunch, DeathIsRecorded
  <2>14. ShutdownIsSafe'
    BY <1>2, <2>1, <2>2 DEF AttemptInv, AL!SupLaunch, ShutdownIsSafe, Ordered, AL!Alive, AL!Members,
         AL!StateTyped, AL!Gone, AskedFirst, Unasked, LaunchIsPast, CleanupHasCause,
         EmptyBeforeLaunch, Extends, Message, Kinds, Shortens, Orders
  <2>15. GroupIsSupervised'
    BY <1>2, <2>1, <2>2 DEF AttemptInv, AL!SupLaunch, GroupIsSupervised, AL!Members, AL!SupUp, AL!StateTyped,
         AL!Gone, EmptyBeforeLaunch, ShutdownIsSafe, Ordered, AL!Alive
  <2>16. AL!CompleteMeansGone'
    BY <1>2, <2>1, <2>2 DEF AttemptInv, AL!SupLaunch, AL!runner, AL!CompleteMeansGone, AL!Alive, AL!Members,
         AL!StateTyped, AL!Gone, EmptyBeforeLaunch
  <2>17. AL!OrderlyExitAbandonsNobody'
    BY <1>2, <2>1, <2>2 DEF AttemptInv, AL!SupLaunch, AL!OrderlyExitAbandonsNobody, AL!Alive, AL!Members,
         AL!StateTyped, AL!Gone, EmptyBeforeLaunch, ShutdownIsSafe, Ordered
  <2>18. AL!FlagsTyped' /\ CleanupHasCause'
    BY <1>2 DEF AttemptInv, AL!SupLaunch, AL!window, AL!runner, AL!FlagsTyped, CleanupHasCause
  <2>19. QED
    BY <2>3, <2>4, <2>5, <2>6, <2>7, <2>8, <2>9, <2>10, <2>11, <2>12, <2>13, <2>14, <2>15,
         <2>16, <2>17, <2>18 DEF AttemptInv
<1>3. CASE AL!SupLaunchFails
  <2>1. Extends(AL!Says(<<"workload-launch-error">>), "workload-launch-error")
    BY SaysExtends DEF AttemptInv, Kinds
  <2>2. Shortens(Tail(toSup), toSup) /\ Tail(toSup) \in Seq(Orders)
    BY <1>3, OrderTaken DEF AttemptInv, AL!SupLaunchFails
  <2>3. AL!ChannelTyped'
    BY <1>3, <2>1, <2>2 DEF AttemptInv, AL!SupLaunchFails, AL!ChannelTyped, Kinds, Message, Orders, Extends,
         Shortens
  <2>4. AL!StateTyped'
    BY <1>3, <2>1, <2>2 DEF AttemptInv, AL!SupLaunchFails, AL!group, AL!runner, AL!StateTyped, AL!Members, AL!Gone
  <2>5. EmptyBeforeLaunch'
    BY <1>3, <2>1, <2>2 DEF AttemptInv, AL!SupLaunchFails, AL!group, EmptyBeforeLaunch, AL!Members, AL!StateTyped,
         AL!Gone, AskedFirst, Unasked, Ordered
  <2>6. ReadyOnce'
    BY <1>3, <2>1, <2>2 DEF AttemptInv, AL!SupLaunchFails, AL!runner, ReadyOnce, Extends, Message, Kinds,
         Shortens, Orders
  <2>7. AskedFirst'
    BY <1>3, <2>1, <2>2 DEF AttemptInv, AL!SupLaunchFails, AL!runner, AskedFirst, Unasked, Ordered,
         ReadyOnce, Extends, Message, Kinds, Shortens, Orders
  <2>8. LaunchIsPast'
    BY <1>3, <2>1, <2>2 DEF AttemptInv, AL!SupLaunchFails, LaunchIsPast, AskedFirst, Unasked, Ordered,
         Extends, Message, Kinds, Shortens, Orders
  <2>9. SignalIsAnnounced'
    BY <1>3, <2>1, <2>2 DEF AttemptInv, AL!SupLaunchFails, AL!group, AL!runner, SignalIsAnnounced, Has,
         CleanupHasCause, ShutdownIsSafe, Ordered, AL!Alive, AL!Members, Extends, Message, Kinds,
         Shortens, Orders
  <2>10. ExitIsTrue'
    BY <1>3, <2>1, <2>2 DEF AttemptInv, AL!SupLaunchFails, ExitIsTrue, AL!StateTyped, AL!Members, AL!Gone,
         LaunchIsPast, SignalIsAnnounced, Has, DeathIsRecorded, Extends, Message, Kinds,
         Shortens, Orders
  <2>11. NaturalIsFinal'
    BY <1>3, <2>1, <2>2 DEF AttemptInv, AL!SupLaunchFails, AL!runner, NaturalIsFinal, AL!StateTyped, AL!Members,
         AL!Gone, LaunchIsPast, ExitIsTrue, DeathIsRecorded, Shortens, Orders
  <2>12. ShutdownIsSafe'
    BY <1>3, <2>1, <2>2 DEF AttemptInv, AL!SupLaunchFails, ShutdownIsSafe, Ordered, AL!Alive, AL!Members,
         AL!StateTyped, AL!Gone, AskedFirst, Unasked, LaunchIsPast, CleanupHasCause,
         EmptyBeforeLaunch, Extends, Message, Kinds, Shortens, Orders
  <2>13. GroupIsSupervised'
    BY <1>3, <2>1, <2>2 DEF AttemptInv, AL!SupLaunchFails, GroupIsSupervised, AL!Members, AL!SupUp, AL!StateTyped,
         AL!Gone, EmptyBeforeLaunch, ShutdownIsSafe, Ordered, AL!Alive
  <2>14. AL!CompleteMeansGone'
    BY <1>3, <2>1, <2>2 DEF AttemptInv, AL!SupLaunchFails, AL!runner, AL!CompleteMeansGone, AL!Alive, AL!Members,
         AL!StateTyped, AL!Gone, EmptyBeforeLaunch
  <2>15. AL!FlagsTyped' /\ DeathIsRecorded' /\ WindowClosed' /\ CleanupHasCause' /\
        AL!OrderlyExitAbandonsNobody'
    BY <1>3 DEF AttemptInv, AL!SupLaunchFails, AL!window, AL!group, AL!runner, AL!FlagsTyped, DeathIsRecorded,
         WindowClosed, CleanupHasCause, AL!OrderlyExitAbandonsNobody, AL!Alive, AL!Members
  <2>16. QED
    BY <2>3, <2>4, <2>5, <2>6, <2>7, <2>8, <2>9, <2>10, <2>11, <2>12, <2>13, <2>14, <2>15 DEF
         AttemptInv
<1>4. CASE AL!SupLaunchStray
  <2>1. Extends(AL!Says(<<"fatal">>), "fatal")
    BY SaysExtends DEF AttemptInv, Kinds
  <2>2. Shortens(Tail(toSup), toSup) /\ Tail(toSup) \in Seq(Orders)
    BY <1>4, OrderTaken DEF AttemptInv, AL!SupLaunchStray
  <2>3. AL!ChannelTyped'
    BY <1>4, <2>1, <2>2 DEF AttemptInv, AL!SupLaunchStray, AL!ChannelTyped, Kinds, Message, Orders, Extends,
         Shortens
  <2>4. AL!FlagsTyped'
    BY <1>4, <2>1, <2>2 DEF AttemptInv, AL!SupLaunchStray, AL!BeginEmergency, AL!window, AL!runner, AL!FlagsTyped
  <2>5. AL!StateTyped'
    BY <1>4, <2>1, <2>2 DEF AttemptInv, AL!SupLaunchStray, AL!BeginEmergency, AL!runner, AL!StateTyped, AL!Members,
         AL!Gone
  <2>6. EmptyBeforeLaunch'
    BY <1>4, <2>1, <2>2 DEF AttemptInv, AL!SupLaunchStray, AL!BeginEmergency, AL!window, EmptyBeforeLaunch,
         AL!Members, AL!StateTyped, AL!Gone, AskedFirst, Unasked, Ordered
  <2>7. ReadyOnce'
    BY <1>4, <2>1, <2>2 DEF AttemptInv, AL!SupLaunchStray, AL!runner, ReadyOnce, Extends, Message, Kinds,
         Shortens, Orders
  <2>8. AskedFirst'
    BY <1>4, <2>1, <2>2 DEF AttemptInv, AL!SupLaunchStray, AL!runner, AskedFirst, Unasked, Ordered,
         ReadyOnce, Extends, Message, Kinds, Shortens, Orders
  <2>9. LaunchIsPast'
    BY <1>4, <2>1, <2>2 DEF AttemptInv, AL!SupLaunchStray, LaunchIsPast, AskedFirst, Unasked, Ordered,
         Extends, Message, Kinds, Shortens, Orders
  <2>10. SignalIsAnnounced'
    BY <1>4, <2>1, <2>2 DEF AttemptInv, AL!SupLaunchStray, SignalIsAnnounced, Has, CleanupHasCause,
         ShutdownIsSafe, Ordered, AL!Alive, AL!Members, Extends, Message, Kinds, Shortens, Orders
  <2>11. DeathIsRecorded'
    BY <1>4, <2>1, <2>2 DEF AttemptInv, AL!SupLaunchStray, AL!window, DeathIsRecorded, AL!StateTyped, AL!Members,
         AL!Gone, EmptyBeforeLaunch, LaunchIsPast
  <2>12. ExitIsTrue'
    BY <1>4, <2>1, <2>2 DEF AttemptInv, AL!SupLaunchStray, ExitIsTrue, AL!StateTyped, AL!Members, AL!Gone,
         LaunchIsPast, SignalIsAnnounced, Has, DeathIsRecorded, Extends, Message, Kinds,
         Shortens, Orders
  <2>13. NaturalIsFinal'
    BY <1>4, <2>1, <2>2 DEF AttemptInv, AL!SupLaunchStray, AL!runner, NaturalIsFinal, AL!StateTyped, AL!Members,
         AL!Gone, LaunchIsPast, ExitIsTrue, DeathIsRecorded, Shortens, Orders
  <2>14. WindowClosed'
    BY <1>4, <2>1, <2>2 DEF AttemptInv, AL!SupLaunchStray, AL!runner, WindowClosed, AL!StateTyped, AL!Members,
         AL!Gone, AskedFirst, Unasked, Ordered, LaunchIsPast, EmptyBeforeLaunch, DeathIsRecorded
  <2>15. ShutdownIsSafe'
    BY <1>4, <2>1, <2>2 DEF AttemptInv, AL!SupLaunchStray, ShutdownIsSafe, Ordered, AL!Alive, AL!Members,
         AL!StateTyped, AL!Gone, AskedFirst, Unasked, LaunchIsPast, CleanupHasCause,
         EmptyBeforeLaunch, Extends, Message, Kinds, Shortens, Orders
  <2>16. GroupIsSupervised'
    BY <1>4, <2>1, <2>2 DEF AttemptInv, AL!SupLaunchStray, GroupIsSupervised, AL!Members, AL!SupUp, AL!StateTyped,
         AL!Gone, EmptyBeforeLaunch, ShutdownIsSafe, Ordered, AL!Alive
  <2>17. AL!CompleteMeansGone'
    BY <1>4, <2>1, <2>2 DEF AttemptInv, AL!SupLaunchStray, AL!runner, AL!CompleteMeansGone, AL!Alive, AL!Members,
         AL!StateTyped, AL!Gone, EmptyBeforeLaunch
  <2>18. AL!OrderlyExitAbandonsNobody'
    BY <1>4, <2>1, <2>2 DEF AttemptInv, AL!SupLaunchStray, AL!OrderlyExitAbandonsNobody, AL!Alive, AL!Members,
         AL!StateTyped, AL!Gone, EmptyBeforeLaunch, ShutdownIsSafe, Ordered
  <2>19. CleanupHasCause'
    BY <1>4 DEF AttemptInv, AL!SupLaunchStray, AL!runner, CleanupHasCause
  <2>20. QED
    BY <2>3, <2>4, <2>5, <2>6, <2>7, <2>8, <2>9, <2>10, <2>11, <2>12, <2>13, <2>14, <2>15,
         <2>16, <2>17, <2>18, <2>19 DEF AttemptInv
<1>5. CASE AL!SupReap
  <2>1. Extends(AL!Says(<<"workload-exit">>), "workload-exit")
    BY SaysExtends DEF AttemptInv, Kinds
  <2>2. AL!ChannelTyped'
    BY <1>5, <2>1 DEF AttemptInv, AL!SupReap, AL!ChannelTyped, Kinds, Message, Orders, Extends
  <2>3. AL!StateTyped'
    BY <1>5, <2>1 DEF AttemptInv, AL!SupReap, AL!group, AL!runner, AL!StateTyped, AL!Members, AL!Gone
  <2>4. EmptyBeforeLaunch'
    BY <1>5, <2>1 DEF AttemptInv, AL!SupReap, EmptyBeforeLaunch, AL!Members, AL!StateTyped, AL!Gone, AskedFirst,
         Unasked, Ordered
  <2>5. ReadyOnce'
    BY <1>5, <2>1 DEF AttemptInv, AL!SupReap, AL!runner, ReadyOnce, Extends, Message, Kinds
  <2>6. AskedFirst'
    BY <1>5, <2>1 DEF AttemptInv, AL!SupReap, AL!runner, AskedFirst, Unasked, Ordered, ReadyOnce, Extends,
         Message, Kinds
  <2>7. LaunchIsPast'
    BY <1>5, <2>1 DEF AttemptInv, AL!SupReap, LaunchIsPast, AskedFirst, Unasked, Ordered, Extends,
         Message, Kinds
  <2>8. SignalIsAnnounced'
    BY <1>5, <2>1 DEF AttemptInv, AL!SupReap, AL!group, AL!runner, SignalIsAnnounced, Has, CleanupHasCause,
         ShutdownIsSafe, Ordered, AL!Alive, AL!Members, Extends, Message, Kinds
  <2>9. ExitIsTrue'
    <3>1. life["workload"] = "gone" /\ (connected /\ choice = "none" /\ ~death.natural => Has("fatal"))
      BY <1>5 DEF AttemptInv, AL!SupReap, DeathIsRecorded, SignalIsAnnounced
    <3>2. /\ UNCHANGED <<late, life, death, choice>>
          /\ toRunner' = AL!Says(<<"workload-exit">>)
          /\ death.late => late
      BY <1>5 DEF AttemptInv, AL!SupReap, AL!window, AL!group, AL!runner, DeathIsRecorded
    <3>3. QED
      BY <2>1, <3>1, <3>2 DEF AttemptInv, ExitIsTrue, Has, Extends
  <2>10. NaturalIsFinal'
    BY <1>5, <2>1 DEF AttemptInv, AL!SupReap, AL!group, AL!runner, NaturalIsFinal, AL!StateTyped, AL!Members, AL!Gone,
         LaunchIsPast, ExitIsTrue, DeathIsRecorded
  <2>11. ShutdownIsSafe'
    BY <1>5, <2>1 DEF AttemptInv, AL!SupReap, AL!group, AL!runner, ShutdownIsSafe, Ordered, AL!Alive, AL!Members,
         AL!StateTyped, AL!Gone, AskedFirst, Unasked, LaunchIsPast, CleanupHasCause,
         EmptyBeforeLaunch, Extends, Message, Kinds
  <2>12. GroupIsSupervised'
    BY <1>5, <2>1 DEF AttemptInv, AL!SupReap, GroupIsSupervised, AL!Members, AL!SupUp, AL!StateTyped, AL!Gone,
         EmptyBeforeLaunch, ShutdownIsSafe, Ordered, AL!Alive
  <2>13. AL!CompleteMeansGone'
    BY <1>5, <2>1 DEF AttemptInv, AL!SupReap, AL!runner, AL!CompleteMeansGone, AL!Alive, AL!Members, AL!StateTyped,
         AL!Gone, EmptyBeforeLaunch
  <2>14. AL!FlagsTyped' /\ DeathIsRecorded' /\ WindowClosed' /\ CleanupHasCause' /\
        AL!OrderlyExitAbandonsNobody'
    BY <1>5 DEF AttemptInv, AL!SupReap, AL!window, AL!group, AL!runner, AL!FlagsTyped, DeathIsRecorded, WindowClosed,
         CleanupHasCause, AL!OrderlyExitAbandonsNobody, AL!Alive, AL!Members
  <2>15. QED
    BY <2>2, <2>3, <2>4, <2>5, <2>6, <2>7, <2>8, <2>9, <2>10, <2>11, <2>12, <2>13, <2>14 DEF
         AttemptInv
<1>6. CASE AL!SupShutdown
  <2>1. Extends(AL!Says(<<"fatal">>), "fatal")
    BY SaysExtends DEF AttemptInv, Kinds
  <2>2. Shortens(Tail(toSup), toSup) /\ Tail(toSup) \in Seq(Orders)
    BY <1>6, OrderTaken DEF AttemptInv, AL!SupShutdown
  <2>3. AL!ChannelTyped'
    BY <1>6, <2>1, <2>2 DEF AttemptInv, AL!SupShutdown, AL!ChannelTyped, Kinds, Message, Orders, Extends,
         Shortens
  <2>4. AL!FlagsTyped'
    BY <1>6, <2>1, <2>2 DEF AttemptInv, AL!SupShutdown, AL!window, AL!runner, AL!FlagsTyped
  <2>5. AL!StateTyped'
    BY <1>6, <2>1, <2>2 DEF AttemptInv, AL!SupShutdown, AL!runner, AL!StateTyped, AL!Members, AL!Gone
  <2>6. EmptyBeforeLaunch'
    BY <1>6, <2>1, <2>2 DEF AttemptInv, AL!SupShutdown, EmptyBeforeLaunch, AL!Members, AL!StateTyped, AL!Gone,
         AskedFirst, Unasked, Ordered
  <2>7. ReadyOnce'
    BY <1>6, <2>1, <2>2 DEF AttemptInv, AL!SupShutdown, AL!window, AL!runner, ReadyOnce, Extends, Message,
         Kinds, Shortens, Orders
  <2>8. AskedFirst'
    BY <1>6, <2>1, <2>2 DEF AttemptInv, AL!SupShutdown, AL!runner, AskedFirst, Unasked, Ordered, ReadyOnce,
         Extends, Message, Kinds, Shortens, Orders
  <2>9. LaunchIsPast'
    BY <1>6, <2>1, <2>2 DEF AttemptInv, AL!SupShutdown, LaunchIsPast, AskedFirst, Unasked, Ordered,
         Extends, Message, Kinds, Shortens, Orders
  <2>10. SignalIsAnnounced'
    BY <1>6, <2>1, <2>2 DEF AttemptInv, AL!SupShutdown, AL!runner, SignalIsAnnounced, Has, CleanupHasCause,
         ShutdownIsSafe, Ordered, AL!Alive, AL!Members, Extends, Message, Kinds, Shortens, Orders
  <2>11. DeathIsRecorded'
    BY <1>6, <2>1, <2>2 DEF AttemptInv, AL!SupShutdown, AL!window, DeathIsRecorded, AL!StateTyped, AL!Members,
         AL!Gone, EmptyBeforeLaunch, LaunchIsPast
  <2>12. ExitIsTrue'
    BY <1>6, <2>1, <2>2 DEF AttemptInv, AL!SupShutdown, AL!SupUp, AL!runner, ExitIsTrue, AL!StateTyped, AL!Members,
         AL!Gone, LaunchIsPast, SignalIsAnnounced, Has, DeathIsRecorded, Extends, Message, Kinds,
         Shortens, Orders
  <2>13. NaturalIsFinal'
    BY <1>6, <2>1, <2>2 DEF AttemptInv, AL!SupShutdown, AL!runner, NaturalIsFinal, AL!StateTyped, AL!Members,
         AL!Gone, LaunchIsPast, ExitIsTrue, DeathIsRecorded, Shortens, Orders
  <2>14. ShutdownIsSafe'
    BY <1>6, <2>1, <2>2 DEF AttemptInv, AL!SupShutdown, AL!runner, ShutdownIsSafe, Ordered, AL!Alive, AL!Members,
         AL!StateTyped, AL!Gone, AskedFirst, Unasked, LaunchIsPast, CleanupHasCause,
         EmptyBeforeLaunch, Extends, Message, Kinds, Shortens, Orders
  <2>15. GroupIsSupervised'
    BY <1>6, <2>1, <2>2 DEF AttemptInv, AL!SupShutdown, GroupIsSupervised, AL!Members, AL!StateTyped, AL!Gone,
         EmptyBeforeLaunch, ShutdownIsSafe, Ordered, AL!Alive
  <2>16. AL!CompleteMeansGone'
    BY <1>6, <2>1, <2>2 DEF AttemptInv, AL!SupShutdown, AL!runner, AL!CompleteMeansGone, AL!Alive, AL!Members,
         AL!StateTyped, AL!Gone, EmptyBeforeLaunch
  <2>17. AL!OrderlyExitAbandonsNobody'
    BY <1>6, <2>1, <2>2 DEF AttemptInv, AL!SupShutdown, AL!OrderlyExitAbandonsNobody, AL!Alive, AL!Members,
         AL!StateTyped, AL!Gone, EmptyBeforeLaunch, ShutdownIsSafe, Ordered
  <2>18. WindowClosed' /\ CleanupHasCause'
    BY <1>6 DEF AttemptInv, AL!SupShutdown, AL!window, AL!runner, WindowClosed, CleanupHasCause
  <2>19. QED
    BY <2>3, <2>4, <2>5, <2>6, <2>7, <2>8, <2>9, <2>10, <2>11, <2>12, <2>13, <2>14, <2>15,
         <2>16, <2>17, <2>18 DEF AttemptInv
<1>7. CASE AL!SupDisconnect
  <2>1. AL!FlagsTyped'
    BY <1>7 DEF AttemptInv, AL!SupDisconnect, AL!BeginEmergency, AL!window, AL!channel, AL!runner, AL!FlagsTyped
  <2>2. AL!StateTyped'
    BY <1>7 DEF AttemptInv, AL!SupDisconnect, AL!BeginEmergency, AL!channel, AL!runner, AL!StateTyped, AL!Members, AL!Gone
  <2>3. SignalIsAnnounced'
    BY <1>7 DEF AttemptInv, AL!SupDisconnect, AL!channel, AL!runner, SignalIsAnnounced, Has, CleanupHasCause,
         ShutdownIsSafe, Ordered, AL!Alive, AL!Members
  <2>4. DeathIsRecorded'
    BY <1>7 DEF AttemptInv, AL!SupDisconnect, AL!BeginEmergency, AL!window, AL!channel, AL!runner, DeathIsRecorded,
         AL!StateTyped, AL!Members, AL!Gone, EmptyBeforeLaunch, LaunchIsPast
  <2>5. AL!ChannelTyped' /\ EmptyBeforeLaunch' /\ ReadyOnce' /\ AskedFirst' /\ LaunchIsPast'
        /\ ExitIsTrue' /\ NaturalIsFinal' /\ WindowClosed' /\ CleanupHasCause' /\
        ShutdownIsSafe' /\ GroupIsSupervised' /\ AL!CompleteMeansGone' /\
        AL!OrderlyExitAbandonsNobody'
    BY <1>7 DEF AttemptInv, AL!SupDisconnect, AL!window, AL!channel, AL!runner, AL!ChannelTyped, EmptyBeforeLaunch,
         AL!Members, ReadyOnce, AskedFirst, Unasked, Ordered, LaunchIsPast, ExitIsTrue,
         NaturalIsFinal, WindowClosed, CleanupHasCause, ShutdownIsSafe, AL!Alive,
         GroupIsSupervised, AL!SupUp, AL!CompleteMeansGone, AL!OrderlyExitAbandonsNobody
  <2>6. QED
    BY <2>1, <2>2, <2>3, <2>4, <2>5 DEF AttemptInv
<1>8. CASE AL!EmergencyKill
  <2>1. AL!StateTyped'
    BY <1>8 DEF AttemptInv, AL!EmergencyKill, AL!SupUp, AL!Doom, AL!window, AL!channel, AL!runner, AL!StateTyped, AL!Gone
  <2>2. EmptyBeforeLaunch'
    BY <1>8 DEF AttemptInv, AL!EmergencyKill, AL!window, AL!channel, AL!runner, EmptyBeforeLaunch, AL!StateTyped,
         AL!Gone, AskedFirst, Unasked, Ordered
  <2>3. ReadyOnce'
    BY <1>8 DEF AttemptInv, AL!EmergencyKill, AL!window, AL!channel, AL!runner, ReadyOnce
  <2>4. AskedFirst'
    BY <1>8 DEF AttemptInv, AL!EmergencyKill, AL!window, AL!channel, AL!runner, AskedFirst, Unasked, Ordered,
         ReadyOnce
  <2>5. LaunchIsPast'
    BY <1>8 DEF AttemptInv, AL!EmergencyKill, AL!window, AL!channel, AL!runner, LaunchIsPast, AskedFirst, Unasked,
         Ordered
  <2>6. DeathIsRecorded'
    BY <1>8 DEF AttemptInv, AL!EmergencyKill, AL!Doom, AL!Members, AL!window, AL!channel, AL!runner, DeathIsRecorded,
         AL!StateTyped, AL!Gone, EmptyBeforeLaunch, LaunchIsPast
  <2>7. ExitIsTrue'
    BY <1>8 DEF AttemptInv, AL!EmergencyKill, AL!Doom, AL!Members, AL!window, AL!channel, AL!runner, ExitIsTrue,
         AL!StateTyped, AL!Gone, LaunchIsPast, SignalIsAnnounced, Has, DeathIsRecorded
  <2>8. NaturalIsFinal'
    BY <1>8 DEF AttemptInv, AL!EmergencyKill, AL!Doom, AL!Members, AL!window, AL!channel, AL!runner, NaturalIsFinal,
         AL!StateTyped, AL!Gone, LaunchIsPast, ExitIsTrue, DeathIsRecorded
  <2>9. WindowClosed'
    BY <1>8 DEF AttemptInv, AL!EmergencyKill, AL!Doom, AL!Members, AL!window, AL!channel, AL!runner, WindowClosed,
         AL!StateTyped, AL!Gone, AskedFirst, Unasked, Ordered, LaunchIsPast, EmptyBeforeLaunch,
         DeathIsRecorded
  <2>10. ShutdownIsSafe'
    BY <1>8 DEF AttemptInv, AL!EmergencyKill, AL!Doom, AL!window, AL!channel, AL!runner, ShutdownIsSafe, Ordered,
         AL!Alive, AL!StateTyped, AL!Gone, AskedFirst, Unasked, LaunchIsPast, CleanupHasCause,
         EmptyBeforeLaunch
  <2>11. GroupIsSupervised'
    BY <1>8 DEF AttemptInv, AL!EmergencyKill, AL!Doom, AL!window, AL!channel, AL!runner, GroupIsSupervised,
         AL!StateTyped, AL!Gone, EmptyBeforeLaunch, ShutdownIsSafe, Ordered, AL!Alive
  <2>12. AL!CompleteMeansGone'
    BY <1>8 DEF AttemptInv, AL!EmergencyKill, AL!SupUp, AL!window, AL!channel, AL!runner, AL!CompleteMeansGone, AL!Alive,
         AL!StateTyped, AL!Gone, EmptyBeforeLaunch
  <2>13. AL!OrderlyExitAbandonsNobody'
    BY <1>8 DEF AttemptInv, AL!EmergencyKill, AL!Doom, AL!window, AL!channel, AL!runner, AL!OrderlyExitAbandonsNobody,
         AL!Alive, AL!StateTyped, AL!Gone, EmptyBeforeLaunch, ShutdownIsSafe, Ordered
  <2>14. AL!ChannelTyped' /\ AL!FlagsTyped' /\ SignalIsAnnounced' /\ CleanupHasCause'
    BY <1>8 DEF AttemptInv, AL!EmergencyKill, AL!window, AL!channel, AL!runner, AL!ChannelTyped, AL!FlagsTyped,
         SignalIsAnnounced, Has, CleanupHasCause
  <2>15. QED
    BY <2>1, <2>2, <2>3, <2>4, <2>5, <2>6, <2>7, <2>8, <2>9, <2>10, <2>11, <2>12, <2>13, <2>14
         DEF AttemptInv
<1>9. CASE AL!SupDies
  <2>1. AL!FlagsTyped'
    BY <1>9 DEF AttemptInv, AL!SupDies, AL!window, AL!group, AL!runner, AL!FlagsTyped
  <2>2. AL!StateTyped'
    BY <1>9 DEF AttemptInv, AL!SupDies, AL!group, AL!runner, AL!StateTyped, AL!Members, AL!Gone
  <2>3. EmptyBeforeLaunch'
    BY <1>9 DEF AttemptInv, AL!SupDies, EmptyBeforeLaunch, AL!Members, AL!StateTyped, AL!Gone, AskedFirst,
         Unasked, Ordered
  <2>4. ReadyOnce'
    BY <1>9 DEF AttemptInv, AL!SupDies, AL!runner, ReadyOnce
  <2>5. AskedFirst'
    BY <1>9 DEF AttemptInv, AL!SupDies, AL!runner, AskedFirst, Unasked, Ordered, ReadyOnce
  <2>6. LaunchIsPast'
    BY <1>9 DEF AttemptInv, AL!SupDies, LaunchIsPast, AskedFirst, Unasked, Ordered
  <2>7. SignalIsAnnounced'
    BY <1>9 DEF AttemptInv, AL!SupDies, SignalIsAnnounced, Has, CleanupHasCause, ShutdownIsSafe, Ordered,
         AL!Alive, AL!Members
  <2>8. NaturalIsFinal'
    BY <1>9 DEF AttemptInv, AL!SupDies, AL!group, AL!runner, NaturalIsFinal, AL!StateTyped, AL!Members, AL!Gone,
         LaunchIsPast, ExitIsTrue, DeathIsRecorded
  <2>9. ShutdownIsSafe'
    BY <1>9 DEF AttemptInv, AL!SupDies, AL!group, AL!runner, ShutdownIsSafe, Ordered, AL!Alive, AL!Members,
         AL!StateTyped, AL!Gone, AskedFirst, Unasked, LaunchIsPast, CleanupHasCause, EmptyBeforeLaunch
  <2>10. GroupIsSupervised'
    BY <1>9 DEF AttemptInv, AL!SupDies, AL!group, GroupIsSupervised, AL!Members, AL!SupUp, AL!StateTyped, AL!Gone,
         EmptyBeforeLaunch, ShutdownIsSafe, Ordered, AL!Alive
  <2>11. AL!CompleteMeansGone'
    BY <1>9 DEF AttemptInv, AL!SupDies, AL!runner, AL!CompleteMeansGone, AL!Alive, AL!Members, AL!StateTyped, AL!Gone,
         EmptyBeforeLaunch
  <2>12. AL!OrderlyExitAbandonsNobody'
    BY <1>9 DEF AttemptInv, AL!SupDies, AL!OrderlyExitAbandonsNobody, AL!Alive, AL!Members, AL!StateTyped, AL!Gone,
         EmptyBeforeLaunch, ShutdownIsSafe, Ordered
  <2>13. AL!ChannelTyped' /\ DeathIsRecorded' /\ ExitIsTrue' /\ WindowClosed' /\
        CleanupHasCause'
    BY <1>9 DEF AttemptInv, AL!SupDies, AL!window, AL!group, AL!runner, AL!ChannelTyped, DeathIsRecorded, ExitIsTrue,
         WindowClosed, CleanupHasCause
  <2>14. QED
    BY <2>1, <2>2, <2>3, <2>4, <2>5, <2>6, <2>7, <2>8, <2>9, <2>10, <2>11, <2>12, <2>13 DEF AttemptInv
<1>10. CASE AL!RecvReady
  <2>1. Shortens(Tail(toRunner), toRunner) /\ Tail(toRunner) \in Seq(Message)
    BY <1>10, MessageTaken DEF AttemptInv, AL!RecvReady, AL!Receives
  <2>2. Lengthens(Append(toSup, "launch"), toSup, "launch") /\ Append(toSup, "launch") \in Seq(Orders)
    BY OrderGiven DEF AttemptInv, Orders
  <2>3. AL!ChannelTyped'
    BY <1>10, <2>1, <2>2 DEF AttemptInv, AL!RecvReady, AL!Receives, AL!window, AL!supervisor, AL!group, AL!ChannelTyped,
         Kinds, Message, Orders, Shortens, Lengthens
  <2>4. AL!StateTyped'
    BY <1>10, <2>1, <2>2 DEF AttemptInv, AL!RecvReady, AL!Choose, AL!window, AL!supervisor, AL!group, AL!StateTyped,
         AL!Members
  <2>5. ReadyOnce'
    BY <1>10, <2>1, <2>2 DEF AttemptInv, AL!RecvReady, AL!Receives, AL!window, AL!supervisor, AL!group, ReadyOnce,
         Shortens, Orders, Lengthens
  <2>6. AskedFirst'
    BY <1>10, <2>1, <2>2 DEF AttemptInv, AL!RecvReady, AL!Receives, AL!window, AL!supervisor, AL!group, AskedFirst,
         Unasked, Ordered, ReadyOnce, Shortens, Orders, Lengthens
  <2>7. LaunchIsPast'
    BY <1>10, <2>1, <2>2 DEF AttemptInv, AL!RecvReady, AL!Receives, AL!window, AL!supervisor, AL!group, LaunchIsPast,
         AskedFirst, Unasked, Ordered, Shortens, Orders, Lengthens
  <2>8. SignalIsAnnounced'
    BY <1>10, <2>1, <2>2 DEF AttemptInv, AL!RecvReady, AL!Receives, AL!Choose, AL!window, AL!supervisor, AL!group,
         SignalIsAnnounced, Has, CleanupHasCause, ShutdownIsSafe, Ordered, AL!Alive, AL!Members,
         Shortens, Orders, Lengthens
  <2>9. ExitIsTrue'
    BY <1>10, <2>1, <2>2 DEF AttemptInv, AL!RecvReady, AL!Receives, AL!window, AL!supervisor, AL!group, ExitIsTrue,
         AL!StateTyped, AL!Members, LaunchIsPast, SignalIsAnnounced, Has, DeathIsRecorded, AskedFirst,
         Unasked, Ordered, ReadyOnce, Shortens, Orders, Lengthens
  <2>10. NaturalIsFinal'
    BY <1>10, <2>1, <2>2 DEF AttemptInv, AL!RecvReady, AL!Choose, AL!window, AL!supervisor, AL!group, NaturalIsFinal,
         AL!StateTyped, AL!Members, LaunchIsPast, ExitIsTrue, DeathIsRecorded, Shortens, Orders,
         Lengthens
  <2>11. WindowClosed'
    BY <1>10, <2>1, <2>2 DEF AttemptInv, AL!RecvReady, AL!Choose, AL!window, AL!supervisor, AL!group, WindowClosed,
         AL!StateTyped, AL!Members, AskedFirst, Unasked, Ordered, LaunchIsPast, EmptyBeforeLaunch,
         DeathIsRecorded
  <2>12. CleanupHasCause'
    BY <1>10, <2>1, <2>2 DEF AttemptInv, AL!RecvReady, AL!Choose, AL!window, AL!supervisor, AL!group, CleanupHasCause
  <2>13. ShutdownIsSafe'
    <3>1. UNCHANGED life /\ UNCHANGED sup /\ (choice # "none" => choice' = choice)
      BY <1>10 DEF AttemptInv, AL!RecvReady, AL!Choose, AL!supervisor, AL!group
    <3>2. Ordered("shutdown")' => toSup' = toSup /\ choice # "none"
      BY <1>10, <2>2 DEF AttemptInv, AL!RecvReady, Ordered, ShutdownIsSafe
    <3>3. QED
      BY <3>1, <3>2 DEF AttemptInv, ShutdownIsSafe, Ordered, AL!Alive
  <2>14. AL!FlagsTyped' /\ EmptyBeforeLaunch' /\ DeathIsRecorded' /\ GroupIsSupervised' /\
        AL!CompleteMeansGone' /\ AL!OrderlyExitAbandonsNobody'
    BY <1>10 DEF AttemptInv, AL!RecvReady, AL!window, AL!supervisor, AL!group, AL!FlagsTyped, EmptyBeforeLaunch,
         AL!Members, DeathIsRecorded, GroupIsSupervised, AL!SupUp, AL!CompleteMeansGone, AL!Alive,
         AL!OrderlyExitAbandonsNobody
  <2>15. QED
    BY <2>3, <2>4, <2>5, <2>6, <2>7, <2>8, <2>9, <2>10, <2>11, <2>12, <2>13, <2>14 DEF AttemptInv
<1>11. CASE AL!RecvStarted
  <2>1. Shortens(Tail(toRunner), toRunner) /\ Tail(toRunner) \in Seq(Message)
    BY <1>11, MessageTaken DEF AttemptInv, AL!RecvStarted, AL!Receives
  <2>2. AL!ChannelTyped'
    BY <1>11, <2>1 DEF AttemptInv, AL!RecvStarted, AL!Receives, AL!window, AL!supervisor, AL!group, AL!ChannelTyped,
         Kinds, Message, Orders, Shortens
  <2>3. AL!StateTyped'
    BY <1>11, <2>1 DEF AttemptInv, AL!RecvStarted, AL!Choose, AL!window, AL!supervisor, AL!group, AL!StateTyped, AL!Members
  <2>4. ReadyOnce'
    BY <1>11, <2>1 DEF AttemptInv, AL!RecvStarted, AL!Receives, AL!window, AL!supervisor, AL!group, ReadyOnce,
         Shortens, Orders
  <2>5. AskedFirst'
    BY <1>11, <2>1 DEF AttemptInv, AL!RecvStarted, AL!window, AL!supervisor, AL!group, AskedFirst, Unasked,
         Ordered, ReadyOnce, Shortens, Orders
  <2>6. LaunchIsPast'
    BY <1>11, <2>1 DEF AttemptInv, AL!RecvStarted, AL!Receives, AL!window, AL!supervisor, AL!group, LaunchIsPast,
         AskedFirst, Unasked, Ordered, Shortens, Orders
  <2>7. SignalIsAnnounced'
    BY <1>11, <2>1 DEF AttemptInv, AL!RecvStarted, AL!Receives, AL!Choose, AL!window, AL!supervisor, AL!group,
         SignalIsAnnounced, Has, CleanupHasCause, ShutdownIsSafe, Ordered, AL!Alive, AL!Members,
         Shortens, Orders
  <2>8. ExitIsTrue'
    <3> DEFINE s == Tail(toRunner)
    <3>1. /\ toRunner' = s /\ Shortens(s, toRunner) /\ Head(toRunner).type = "workload-started"
          /\ UNCHANGED <<life, death>> /\ (choice # "none" => choice' # "none")
      BY <1>11, <2>1 DEF AL!RecvStarted, AL!Receives, AL!Choose, AL!group
    <3> HIDE DEF s
    <3> SUFFICES ASSUME NEW i \in 1..Len(s), s[i].type = "workload-exit"
                 PROVE  /\ life["workload"] = "gone"
                        /\ death.late => s[i].late
                        /\ \/ death.natural \/ choice' # "none"
                           \/ \E j \in 1..Len(s) : j < i /\ s[j].type = "fatal"
      BY <3>1 DEF ExitIsTrue
    <3>2. i + 1 \in 1..Len(toRunner) /\ s[i] = toRunner[i + 1]
      BY <3>1 DEF Shortens
    <3>3. /\ life["workload"] = "gone" /\ (death.late => s[i].late)
          /\ \/ death.natural \/ choice # "none"
             \/ \E j \in 1..Len(toRunner) : j < i + 1 /\ toRunner[j].type = "fatal"
      BY <3>2 DEF AttemptInv, ExitIsTrue
    <3>4. ASSUME NEW j \in 1..Len(toRunner), j < i + 1, toRunner[j].type = "fatal"
          PROVE  \E k \in 1..Len(s) : k < i /\ s[k].type = "fatal"
      <4>1. j # 1
        BY <3>1, <3>4 DEF Shortens
      <4>2. j - 1 \in 1..Len(s) /\ s[j - 1] = toRunner[j] /\ j - 1 < i
        BY <3>1, <3>4, <4>1 DEF Shortens
      <4>3. QED
        BY <3>4, <4>2
    <3>5. QED
      BY <3>1, <3>3, <3>4
  <2>9. NaturalIsFinal'
    BY <1>11, <2>1 DEF AttemptInv, AL!RecvStarted, AL!Choose, AL!window, AL!supervisor, AL!group, NaturalIsFinal,
         AL!StateTyped, AL!Members, LaunchIsPast, ExitIsTrue, DeathIsRecorded, Shortens, Orders
  <2>10. WindowClosed'
    BY <1>11, <2>1 DEF AttemptInv, AL!RecvStarted, AL!Choose, AL!window, AL!supervisor, AL!group, WindowClosed,
         AL!StateTyped, AL!Members, AskedFirst, Unasked, Ordered, LaunchIsPast, EmptyBeforeLaunch,
         DeathIsRecorded
  <2>11. CleanupHasCause'
    BY <1>11, <2>1 DEF AttemptInv, AL!RecvStarted, AL!Choose, AL!window, AL!supervisor, AL!group, CleanupHasCause
  <2>12. ShutdownIsSafe'
    BY <1>11, <2>1 DEF AttemptInv, AL!RecvStarted, AL!Choose, AL!window, AL!supervisor, AL!group, ShutdownIsSafe,
         Ordered, AL!Alive, AL!Members, AL!StateTyped, AskedFirst, Unasked, LaunchIsPast,
         CleanupHasCause, EmptyBeforeLaunch, Shortens, Orders
  <2>13. AL!FlagsTyped' /\ EmptyBeforeLaunch' /\ DeathIsRecorded' /\ GroupIsSupervised' /\
        AL!CompleteMeansGone' /\ AL!OrderlyExitAbandonsNobody'
    BY <1>11 DEF AttemptInv, AL!RecvStarted, AL!window, AL!supervisor, AL!group, AL!FlagsTyped, EmptyBeforeLaunch,
         AL!Members, DeathIsRecorded, GroupIsSupervised, AL!SupUp, AL!CompleteMeansGone, AL!Alive,
         AL!OrderlyExitAbandonsNobody
  <2>14. QED
    BY <2>2, <2>3, <2>4, <2>5, <2>6, <2>7, <2>8, <2>9, <2>10, <2>11, <2>12, <2>13 DEF AttemptInv
<1>12. CASE AL!RecvExit
  <2>1. Shortens(Tail(toRunner), toRunner) /\ Tail(toRunner) \in Seq(Message)
    BY <1>12, MessageTaken DEF AttemptInv, AL!RecvExit, AL!Receives
  <2>2. AL!ChannelTyped'
    BY <1>12, <2>1 DEF AttemptInv, AL!RecvExit, AL!Receives, AL!Choose, AL!window, AL!supervisor, AL!group,
         AL!ChannelTyped, Kinds, Message, Orders, Shortens
  <2>3. AL!FlagsTyped'
    BY <1>12, <2>1 DEF AttemptInv, AL!RecvExit, AL!Choose, AL!window, AL!supervisor, AL!group, AL!FlagsTyped
  <2>4. AL!StateTyped'
    BY <1>12, <2>1 DEF AttemptInv, AL!RecvExit, AL!Choose, AL!window, AL!supervisor, AL!group, AL!StateTyped, AL!Members
  <2>5. ReadyOnce'
    BY <1>12, <2>1 DEF AttemptInv, AL!RecvExit, AL!Receives, AL!Choose, AL!window, AL!supervisor, AL!group, ReadyOnce,
         Shortens, Orders
  <2>6. AskedFirst'
    BY <1>12, <2>1 DEF AttemptInv, AL!RecvExit, AL!Receives, AL!Choose, AL!window, AL!supervisor, AL!group, AskedFirst,
         Unasked, Ordered, ReadyOnce, Shortens, Orders
  <2>7. LaunchIsPast'
    BY <1>12, <2>1 DEF AttemptInv, AL!RecvExit, AL!Receives, AL!Choose, AL!window, AL!supervisor, AL!group,
         LaunchIsPast, AskedFirst, Unasked, Ordered, Shortens, Orders
  <2>8. SignalIsAnnounced'
    BY <1>12, <2>1 DEF AttemptInv, AL!RecvExit, AL!Choose, AL!window, AL!supervisor, AL!group, SignalIsAnnounced,
         Has, CleanupHasCause, ShutdownIsSafe, Ordered, AL!Alive, AL!Members, Shortens, Orders
  <2>9. ExitIsTrue'
    BY <1>12, <2>1 DEF AttemptInv, AL!RecvExit, AL!Receives, AL!Choose, AL!window, AL!supervisor, AL!group, ExitIsTrue,
         AL!StateTyped, AL!Members, LaunchIsPast, SignalIsAnnounced, Has, DeathIsRecorded, Shortens,
         Orders
  <2>10. NaturalIsFinal'
    BY <1>12, <2>1 DEF AttemptInv, AL!RecvExit, AL!Receives, AL!Choose, AL!window, AL!supervisor, AL!group,
         NaturalIsFinal, AL!StateTyped, AL!Members, LaunchIsPast, ExitIsTrue, DeathIsRecorded,
         Shortens, Orders
  <2>11. WindowClosed'
    BY <1>12, <2>1 DEF AttemptInv, AL!RecvExit, AL!Choose, AL!window, AL!supervisor, AL!group, WindowClosed,
         AL!StateTyped, AL!Members, AskedFirst, Unasked, Ordered, LaunchIsPast, EmptyBeforeLaunch,
         DeathIsRecorded
  <2>12. CleanupHasCause'
    BY <1>12, <2>1 DEF AttemptInv, AL!RecvExit, AL!Choose, AL!window, AL!supervisor, AL!group, CleanupHasCause
  <2>13. ShutdownIsSafe'
    BY <1>12, <2>1 DEF AttemptInv, AL!RecvExit, AL!Choose, AL!window, AL!supervisor, AL!group, ShutdownIsSafe,
         Ordered, AL!Alive, AL!Members, AL!StateTyped, AskedFirst, Unasked, LaunchIsPast,
         CleanupHasCause, EmptyBeforeLaunch, Shortens, Orders
  <2>14. EmptyBeforeLaunch' /\ DeathIsRecorded' /\ GroupIsSupervised' /\
        AL!CompleteMeansGone' /\ AL!OrderlyExitAbandonsNobody'
    BY <1>12 DEF AttemptInv, AL!RecvExit, AL!window, AL!supervisor, AL!group, EmptyBeforeLaunch, AL!Members,
         DeathIsRecorded, GroupIsSupervised, AL!SupUp, AL!CompleteMeansGone, AL!Alive,
         AL!OrderlyExitAbandonsNobody
  <2>15. QED
    BY <2>2, <2>3, <2>4, <2>5, <2>6, <2>7, <2>8, <2>9, <2>10, <2>11, <2>12, <2>13, <2>14 DEF
         AttemptInv
<1>13. CASE AL!RecvLaunchError
  <2>1. Shortens(Tail(toRunner), toRunner) /\ Tail(toRunner) \in Seq(Message)
    BY <1>13, MessageTaken DEF AttemptInv, AL!RecvLaunchError, AL!Receives
  <2>2. AL!ChannelTyped'
    BY <1>13, <2>1 DEF AttemptInv, AL!RecvLaunchError, AL!Receives, AL!window, AL!supervisor, AL!group, AL!ChannelTyped,
         Kinds, Message, Orders, Shortens
  <2>3. AL!StateTyped'
    BY <1>13, <2>1 DEF AttemptInv, AL!RecvLaunchError, AL!Choose, AL!window, AL!supervisor, AL!group, AL!StateTyped,
         AL!Members
  <2>4. ReadyOnce'
    BY <1>13, <2>1 DEF AttemptInv, AL!RecvLaunchError, AL!Receives, AL!window, AL!supervisor, AL!group, ReadyOnce,
         Shortens, Orders
  <2>5. AskedFirst'
    BY <1>13, <2>1 DEF AttemptInv, AL!RecvLaunchError, AL!window, AL!supervisor, AL!group, AskedFirst, Unasked,
         Ordered, ReadyOnce, Shortens, Orders
  <2>6. LaunchIsPast'
    BY <1>13, <2>1 DEF AttemptInv, AL!RecvLaunchError, AL!Receives, AL!window, AL!supervisor, AL!group, LaunchIsPast,
         AskedFirst, Unasked, Ordered, Shortens, Orders
  <2>7. SignalIsAnnounced'
    BY <1>13, <2>1 DEF AttemptInv, AL!RecvLaunchError, AL!Choose, AL!window, AL!supervisor, AL!group,
         SignalIsAnnounced, Has, CleanupHasCause, ShutdownIsSafe, Ordered, AL!Alive, AL!Members,
         Shortens, Orders
  <2>8. ExitIsTrue'
    BY <1>13, <2>1 DEF AttemptInv, AL!RecvLaunchError, AL!Receives, AL!Choose, AL!window, AL!supervisor, AL!group,
         ExitIsTrue, AL!StateTyped, AL!Members, LaunchIsPast, SignalIsAnnounced, Has, DeathIsRecorded,
         Shortens, Orders
  <2>9. NaturalIsFinal'
    BY <1>13, <2>1 DEF AttemptInv, AL!RecvLaunchError, AL!Choose, AL!window, AL!supervisor, AL!group, NaturalIsFinal,
         AL!StateTyped, AL!Members, LaunchIsPast, ExitIsTrue, DeathIsRecorded, Shortens, Orders
  <2>10. WindowClosed'
    BY <1>13, <2>1 DEF AttemptInv, AL!RecvLaunchError, AL!Choose, AL!window, AL!supervisor, AL!group, WindowClosed,
         AL!StateTyped, AL!Members, AskedFirst, Unasked, Ordered, LaunchIsPast, EmptyBeforeLaunch,
         DeathIsRecorded
  <2>11. CleanupHasCause'
    BY <1>13, <2>1 DEF AttemptInv, AL!RecvLaunchError, AL!Choose, AL!window, AL!supervisor, AL!group, CleanupHasCause
  <2>12. ShutdownIsSafe'
    BY <1>13, <2>1 DEF AttemptInv, AL!RecvLaunchError, AL!Choose, AL!window, AL!supervisor, AL!group, ShutdownIsSafe,
         Ordered, AL!Alive, AL!Members, AL!StateTyped, AskedFirst, Unasked, LaunchIsPast,
         CleanupHasCause, EmptyBeforeLaunch, Shortens, Orders
  <2>13. AL!FlagsTyped' /\ EmptyBeforeLaunch' /\ DeathIsRecorded' /\ GroupIsSupervised' /\
        AL!CompleteMeansGone' /\ AL!OrderlyExitAbandonsNobody'
    BY <1>13 DEF AttemptInv, AL!RecvLaunchError, AL!window, AL!supervisor, AL!group, AL!FlagsTyped,
         EmptyBeforeLaunch, AL!Members, DeathIsRecorded, GroupIsSupervised, AL!SupUp,
         AL!CompleteMeansGone, AL!Alive, AL!OrderlyExitAbandonsNobody
  <2>14. QED
    BY <2>2, <2>3, <2>4, <2>5, <2>6, <2>7, <2>8, <2>9, <2>10, <2>11, <2>12, <2>13 DEF AttemptInv
<1>14. CASE AL!RecvFatal
  <2>1. Shortens(Tail(toRunner), toRunner) /\ Tail(toRunner) \in Seq(Message)
    BY <1>14, MessageTaken DEF AttemptInv, AL!RecvFatal, AL!Receives
  <2>2. AL!ChannelTyped'
    BY <1>14, <2>1 DEF AttemptInv, AL!RecvFatal, AL!Receives, AL!Started, AL!window, AL!supervisor, AL!group,
         AL!ChannelTyped, Kinds, Message, Orders, Shortens
  <2>3. AL!FlagsTyped'
    BY <1>14, <2>1 DEF AttemptInv, AL!RecvFatal, AL!Started, AL!window, AL!supervisor, AL!group, AL!FlagsTyped
  <2>4. AL!StateTyped'
    BY <1>14, <2>1 DEF AttemptInv, AL!RecvFatal, AL!Choose, AL!Started, AL!window, AL!supervisor, AL!group, AL!StateTyped,
         AL!Members
  <2>5. ReadyOnce'
    BY <1>14, <2>1 DEF AttemptInv, AL!RecvFatal, AL!Receives, AL!Started, AL!window, AL!supervisor, AL!group, ReadyOnce,
         Shortens, Orders
  <2>6. AskedFirst'
    BY <1>14, <2>1 DEF AttemptInv, AL!RecvFatal, AL!Receives, AL!Started, AL!window, AL!supervisor, AL!group,
         AskedFirst, Unasked, Ordered, ReadyOnce, Shortens, Orders
  <2>7. LaunchIsPast'
    BY <1>14, <2>1 DEF AttemptInv, AL!RecvFatal, AL!Receives, AL!Started, AL!window, AL!supervisor, AL!group,
         LaunchIsPast, AskedFirst, Unasked, Ordered, Shortens, Orders
  <2>8. SignalIsAnnounced'
    BY <1>14, <2>1 DEF AttemptInv, AL!RecvFatal, AL!Choose, AL!Started, AL!window, AL!supervisor, AL!group,
         SignalIsAnnounced, Has, CleanupHasCause, ShutdownIsSafe, Ordered, AL!Alive, AL!Members,
         Shortens, Orders
  <2>9. ExitIsTrue'
    BY <1>14, <2>1 DEF AttemptInv, AL!RecvFatal, AL!Receives, AL!Choose, AL!Started, AL!window, AL!supervisor, AL!group,
         ExitIsTrue, AL!StateTyped, AL!Members, LaunchIsPast, SignalIsAnnounced, Has, DeathIsRecorded,
         Shortens, Orders
  <2>10. NaturalIsFinal'
    BY <1>14, <2>1 DEF AttemptInv, AL!RecvFatal, AL!Choose, AL!Started, AL!window, AL!supervisor, AL!group,
         NaturalIsFinal, AL!StateTyped, AL!Members, LaunchIsPast, ExitIsTrue, DeathIsRecorded,
         Shortens, Orders
  <2>11. WindowClosed'
    BY <1>14, <2>1 DEF AttemptInv, AL!RecvFatal, AL!Choose, AL!Started, AL!window, AL!supervisor, AL!group,
         WindowClosed, AL!StateTyped, AL!Members, AskedFirst, Unasked, Ordered, LaunchIsPast,
         EmptyBeforeLaunch, DeathIsRecorded
  <2>12. CleanupHasCause'
    BY <1>14, <2>1 DEF AttemptInv, AL!RecvFatal, AL!Choose, AL!Started, AL!window, AL!supervisor, AL!group,
         CleanupHasCause
  <2>13. ShutdownIsSafe'
    BY <1>14, <2>1 DEF AttemptInv, AL!RecvFatal, AL!Choose, AL!Started, AL!window, AL!supervisor, AL!group,
         ShutdownIsSafe, Ordered, AL!Alive, AL!Members, AL!StateTyped, AskedFirst, Unasked, LaunchIsPast,
         CleanupHasCause, EmptyBeforeLaunch, Shortens, Orders
  <2>14. EmptyBeforeLaunch' /\ DeathIsRecorded' /\ GroupIsSupervised' /\
        AL!CompleteMeansGone' /\ AL!OrderlyExitAbandonsNobody'
    BY <1>14 DEF AttemptInv, AL!RecvFatal, AL!window, AL!supervisor, AL!group, EmptyBeforeLaunch, AL!Members,
         DeathIsRecorded, GroupIsSupervised, AL!SupUp, AL!CompleteMeansGone, AL!Alive,
         AL!OrderlyExitAbandonsNobody
  <2>15. QED
    BY <2>2, <2>3, <2>4, <2>5, <2>6, <2>7, <2>8, <2>9, <2>10, <2>11, <2>12, <2>13, <2>14 DEF
         AttemptInv
<1>15. CASE AL!SeeSupExit
  <2>1. AL!FlagsTyped'
    BY <1>15 DEF AttemptInv, AL!SeeSupExit, AL!window, AL!channel, AL!supervisor, AL!group, AL!FlagsTyped
  <2>2. AL!StateTyped'
    BY <1>15 DEF AttemptInv, AL!SeeSupExit, AL!Choose, AL!window, AL!channel, AL!supervisor, AL!group, AL!StateTyped,
         AL!Members
  <2>3. SignalIsAnnounced'
    BY <1>15 DEF AttemptInv, AL!SeeSupExit, AL!Choose, AL!window, AL!channel, AL!supervisor, AL!group,
         SignalIsAnnounced, Has, CleanupHasCause, ShutdownIsSafe, Ordered, AL!Alive, AL!Members
  <2>4. ExitIsTrue'
    BY <1>15 DEF AttemptInv, AL!SeeSupExit, AL!Choose, AL!window, AL!channel, AL!supervisor, AL!group, ExitIsTrue,
         AL!StateTyped, AL!Members, LaunchIsPast, SignalIsAnnounced, Has, DeathIsRecorded
  <2>5. NaturalIsFinal'
    BY <1>15 DEF AttemptInv, AL!SeeSupExit, AL!Choose, AL!window, AL!channel, AL!supervisor, AL!group, NaturalIsFinal,
         AL!StateTyped, AL!Members, LaunchIsPast, ExitIsTrue, DeathIsRecorded
  <2>6. WindowClosed'
    BY <1>15 DEF AttemptInv, AL!SeeSupExit, AL!Choose, AL!window, AL!channel, AL!supervisor, AL!group, WindowClosed,
         AL!StateTyped, AL!Members, AskedFirst, Unasked, Ordered, LaunchIsPast, EmptyBeforeLaunch,
         DeathIsRecorded
  <2>7. CleanupHasCause'
    BY <1>15 DEF AttemptInv, AL!SeeSupExit, AL!Choose, AL!window, AL!channel, AL!supervisor, AL!group, CleanupHasCause
  <2>8. ShutdownIsSafe'
    BY <1>15 DEF AttemptInv, AL!SeeSupExit, AL!Choose, AL!window, AL!channel, AL!supervisor, AL!group, ShutdownIsSafe,
         Ordered, AL!Alive, AL!Members, AL!StateTyped, AskedFirst, Unasked, LaunchIsPast,
         CleanupHasCause, EmptyBeforeLaunch
  <2>9. AL!ChannelTyped' /\ EmptyBeforeLaunch' /\ ReadyOnce' /\ AskedFirst' /\ LaunchIsPast'
        /\ DeathIsRecorded' /\ GroupIsSupervised' /\ AL!CompleteMeansGone' /\
        AL!OrderlyExitAbandonsNobody'
    BY <1>15 DEF AttemptInv, AL!SeeSupExit, AL!window, AL!channel, AL!supervisor, AL!group, AL!ChannelTyped,
         EmptyBeforeLaunch, AL!Members, ReadyOnce, AskedFirst, Unasked, Ordered, LaunchIsPast,
         DeathIsRecorded, GroupIsSupervised, AL!SupUp, AL!CompleteMeansGone, AL!Alive,
         AL!OrderlyExitAbandonsNobody
  <2>10. QED
    BY <2>1, <2>2, <2>3, <2>4, <2>5, <2>6, <2>7, <2>8, <2>9 DEF AttemptInv
<1>16. CASE AL!Deadline
  <2>1. AL!StateTyped'
    BY <1>16 DEF AttemptInv, AL!Deadline, AL!Candidate, AL!Choose, AL!channel, AL!supervisor, AL!group, AL!StateTyped,
         AL!Members, AL!Gone
  <2>2. SignalIsAnnounced'
    BY <1>16 DEF AttemptInv, AL!Deadline, AL!channel, AL!supervisor, AL!group, SignalIsAnnounced, Has,
         CleanupHasCause, ShutdownIsSafe, Ordered, AL!Alive, AL!Members
  <2>3. ExitIsTrue'
    BY <1>16 DEF AttemptInv, AL!Deadline, AL!channel, AL!supervisor, AL!group, ExitIsTrue, AL!StateTyped, AL!Members,
         AL!Gone, LaunchIsPast, SignalIsAnnounced, Has, DeathIsRecorded
  <2>4. NaturalIsFinal'
    BY <1>16 DEF AttemptInv, AL!Deadline, AL!Candidate, AL!Choose, AL!channel, AL!supervisor, AL!group, NaturalIsFinal,
         AL!StateTyped, AL!Members, AL!Gone, LaunchIsPast, ExitIsTrue, DeathIsRecorded
  <2>5. WindowClosed'
    BY <1>16 DEF AttemptInv, AL!Deadline, AL!Candidate, AL!Choose, AL!window, AL!channel, AL!supervisor, AL!group,
         WindowClosed, AL!StateTyped, AL!Members, AL!Gone, AskedFirst, Unasked, Ordered, LaunchIsPast,
         EmptyBeforeLaunch, DeathIsRecorded
  <2>6. CleanupHasCause'
    BY <1>16 DEF AttemptInv, AL!Deadline, AL!channel, AL!supervisor, AL!group, CleanupHasCause
  <2>7. ShutdownIsSafe'
    BY <1>16 DEF AttemptInv, AL!Deadline, AL!channel, AL!supervisor, AL!group, ShutdownIsSafe, Ordered, AL!Alive,
         AL!Members, AL!StateTyped, AL!Gone, AskedFirst, Unasked, LaunchIsPast, CleanupHasCause,
         EmptyBeforeLaunch
  <2>8. AL!ChannelTyped' /\ AL!FlagsTyped' /\ EmptyBeforeLaunch' /\ ReadyOnce' /\ AskedFirst' /\
        LaunchIsPast' /\ DeathIsRecorded' /\ GroupIsSupervised' /\ AL!CompleteMeansGone' /\
        AL!OrderlyExitAbandonsNobody'
    BY <1>16 DEF AttemptInv, AL!Deadline, AL!window, AL!channel, AL!supervisor, AL!group, AL!ChannelTyped, AL!FlagsTyped,
         EmptyBeforeLaunch, AL!Members, ReadyOnce, AskedFirst, Unasked, Ordered, LaunchIsPast,
         DeathIsRecorded, GroupIsSupervised, AL!SupUp, AL!CompleteMeansGone, AL!Alive,
         AL!OrderlyExitAbandonsNobody
  <2>9. QED
    BY <2>1, <2>2, <2>3, <2>4, <2>5, <2>6, <2>7, <2>8 DEF AttemptInv
<1>17. CASE AL!BeginCleanup
  <2>1. AL!FlagsTyped'
    BY <1>17 DEF AttemptInv, AL!BeginCleanup, AL!window, AL!channel, AL!supervisor, AL!FlagsTyped
  <2>2. AL!StateTyped'
    BY <1>17 DEF AttemptInv, AL!BeginCleanup, AL!channel, AL!supervisor, AL!StateTyped, AL!Gone
  <2>3. SignalIsAnnounced'
    BY <1>17 DEF AttemptInv, AL!BeginCleanup, AL!channel, AL!supervisor, SignalIsAnnounced, Has,
         CleanupHasCause, ShutdownIsSafe, Ordered
  <2>4. DeathIsRecorded'
    BY <1>17 DEF AttemptInv, AL!BeginCleanup, AL!window, AL!channel, AL!supervisor, DeathIsRecorded, AL!StateTyped,
         AL!Gone, EmptyBeforeLaunch, LaunchIsPast
  <2>5. CleanupHasCause'
    BY <1>17 DEF AttemptInv, AL!BeginCleanup, AL!channel, AL!supervisor, CleanupHasCause
  <2>6. AL!ChannelTyped' /\ EmptyBeforeLaunch' /\ ReadyOnce' /\ AskedFirst' /\ LaunchIsPast'
        /\ ExitIsTrue' /\ NaturalIsFinal' /\ WindowClosed' /\ ShutdownIsSafe' /\
        GroupIsSupervised' /\ AL!CompleteMeansGone' /\ AL!OrderlyExitAbandonsNobody'
    BY <1>17 DEF AttemptInv, AL!BeginCleanup, AL!window, AL!channel, AL!supervisor, AL!ChannelTyped,
         EmptyBeforeLaunch, AL!Members, ReadyOnce, AskedFirst, Unasked, Ordered, LaunchIsPast,
         ExitIsTrue, NaturalIsFinal, WindowClosed, ShutdownIsSafe, AL!Alive, GroupIsSupervised,
         AL!SupUp, AL!CompleteMeansGone, AL!OrderlyExitAbandonsNobody
  <2>7. QED
    BY <2>1, <2>2, <2>3, <2>4, <2>5, <2>6 DEF AttemptInv
<1>18. CASE AL!TermOver
  <2>1. AL!StateTyped'
    BY <1>18 DEF AttemptInv, AL!TermOver, AL!Go, AL!supervisor, AL!group, AL!StateTyped, AL!Members, AL!Gone
  <2>2. CleanupHasCause'
    BY <1>18 DEF AttemptInv, AL!TermOver, AL!Go, AL!supervisor, AL!group, CleanupHasCause
  <2>3. AL!ChannelTyped' /\ AL!FlagsTyped' /\ EmptyBeforeLaunch' /\ ReadyOnce' /\ AskedFirst' /\
        LaunchIsPast' /\ SignalIsAnnounced' /\ DeathIsRecorded' /\ ExitIsTrue' /\
        NaturalIsFinal' /\ WindowClosed' /\ ShutdownIsSafe' /\ GroupIsSupervised' /\
        AL!CompleteMeansGone' /\ AL!OrderlyExitAbandonsNobody'
    BY <1>18 DEF AttemptInv, AL!TermOver, AL!window, AL!channel, AL!supervisor, AL!group, AL!ChannelTyped, AL!FlagsTyped,
         EmptyBeforeLaunch, AL!Members, ReadyOnce, AskedFirst, Unasked, Ordered, LaunchIsPast,
         SignalIsAnnounced, Has, DeathIsRecorded, ExitIsTrue, NaturalIsFinal, WindowClosed,
         ShutdownIsSafe, AL!Alive, GroupIsSupervised, AL!SupUp, AL!CompleteMeansGone,
         AL!OrderlyExitAbandonsNobody
  <2>4. QED
    BY <2>1, <2>2, <2>3 DEF AttemptInv
<1>19. CASE AL!Decide
  <2>1. Lengthens(Append(toSup, "shutdown"), toSup, "shutdown") /\ Append(toSup, "shutdown") \in Seq(Orders)
    BY OrderGiven DEF AttemptInv, Orders
  <2>2. AL!ChannelTyped'
    BY <1>19, <2>1 DEF AttemptInv, AL!Decide, AL!Settled, AL!SendKill, AL!SupLive, AL!Doom, AL!SupUp, AL!RequestShutdown,
         AL!window, AL!ChannelTyped, Kinds, Message, Orders, Lengthens
  <2>3. AL!FlagsTyped'
    BY <1>19, <2>1 DEF AttemptInv, AL!Decide, AL!Settled, AL!SendKill, AL!SupLive, AL!Doom, AL!SupUp, AL!RequestShutdown,
         AL!window, AL!FlagsTyped
  <2>4. AL!StateTyped'
    BY <1>19, <2>1 DEF AttemptInv, AL!Decide, AL!Go, AL!Settled, AL!SendKill, AL!SupLive, AL!Doom, AL!SupUp,
         AL!RequestShutdown, AL!window, AL!StateTyped, AL!Gone
  <2>5. EmptyBeforeLaunch'
    BY <1>19, <2>1 DEF AttemptInv, AL!Decide, AL!Settled, AL!SendKill, AL!SupLive, AL!Doom, AL!SupUp, AL!RequestShutdown,
         AL!window, EmptyBeforeLaunch, AL!StateTyped, AL!Gone, AskedFirst, Unasked, Ordered
  <2>6. ReadyOnce'
    BY <1>19, <2>1 DEF AttemptInv, AL!Decide, AL!Settled, AL!SendKill, AL!SupLive, AL!Doom, AL!SupUp, AL!RequestShutdown,
         AL!window, ReadyOnce, Lengthens, Orders
  <2>7. AskedFirst'
    BY <1>19, <2>1 DEF AttemptInv, AL!Decide, AL!Settled, AL!SendKill, AL!SupLive, AL!Doom, AL!SupUp, AL!RequestShutdown,
         AL!window, AskedFirst, Unasked, Ordered, ReadyOnce, Lengthens, Orders
  <2>8. LaunchIsPast'
    BY <1>19, <2>1 DEF AttemptInv, AL!Decide, AL!Settled, AL!SendKill, AL!SupLive, AL!Doom, AL!SupUp, AL!RequestShutdown,
         AL!window, LaunchIsPast, AskedFirst, Unasked, Ordered, Lengthens, Orders
  <2>9. SignalIsAnnounced'
    BY <1>19, <2>1 DEF AttemptInv, AL!Decide, AL!Go, AL!Settled, AL!SendKill, AL!SupLive, AL!Doom, AL!SupUp,
         AL!RequestShutdown, AL!window, SignalIsAnnounced, Has, CleanupHasCause, ShutdownIsSafe,
         Ordered, Lengthens, Orders
  <2>10. DeathIsRecorded'
    BY <1>19, <2>1 DEF AttemptInv, AL!Decide, AL!Settled, AL!SendKill, AL!SupLive, AL!Doom, AL!SupUp, AL!RequestShutdown,
         AL!window, DeathIsRecorded, AL!StateTyped, AL!Gone, EmptyBeforeLaunch, LaunchIsPast
  <2>11. ExitIsTrue'
    BY <1>19, <2>1 DEF AttemptInv, AL!Decide, AL!Members, AL!Settled, AL!SendKill, AL!SupLive, AL!Doom, AL!SupUp,
         AL!RequestShutdown, AL!window, ExitIsTrue, AL!StateTyped, AL!Gone, LaunchIsPast, SignalIsAnnounced,
         Has, DeathIsRecorded, Lengthens, Orders
  <2>12. NaturalIsFinal'
    BY <1>19, <2>1 DEF AttemptInv, AL!Decide, AL!Members, AL!Settled, AL!SendKill, AL!SupLive, AL!Doom, AL!SupUp,
         AL!RequestShutdown, AL!window, NaturalIsFinal, AL!StateTyped, AL!Gone, LaunchIsPast, ExitIsTrue,
         DeathIsRecorded, Lengthens, Orders
  <2>13. WindowClosed'
    BY <1>19, <2>1 DEF AttemptInv, AL!Decide, AL!Members, AL!Settled, AL!SendKill, AL!SupLive, AL!Doom, AL!SupUp,
         AL!RequestShutdown, AL!window, WindowClosed, AL!StateTyped, AL!Gone, AskedFirst, Unasked, Ordered,
         LaunchIsPast, EmptyBeforeLaunch, DeathIsRecorded
  <2>14. CleanupHasCause'
    BY <1>19, <2>1 DEF AttemptInv, AL!Decide, AL!Go, AL!Settled, AL!SendKill, AL!SupLive, AL!Doom, AL!SupUp,
         AL!RequestShutdown, AL!window, CleanupHasCause
  <2>15. ShutdownIsSafe'
    <3>1. CASE AL!Alive # {} \/ ~AL!Settled
      <4>1. /\ UNCHANGED <<toSup, choice>> /\ life' = AL!Doom(AL!Members)
            /\ sup' = IF AL!SupUp THEN "doomed" ELSE sup
        BY <1>19, <3>1 DEF AL!Decide, AL!SendKill
      <4>2. QED
        BY <4>1 DEF AttemptInv, ShutdownIsSafe, Ordered, AL!Alive, AL!SupUp, AL!StateTyped, AL!Doom
    <3>2. CASE AL!Alive = {} /\ AL!Settled
      <4>1. /\ UNCHANGED <<life, sup, choice>> /\ choice # "none"
            /\ toSup' \in {toSup, Append(toSup, "shutdown")}
        BY <1>19, <3>2 DEF AttemptInv, AL!Decide, AL!RequestShutdown, AL!Go, CleanupHasCause
      <4>2. sup \in {"boot", "ready"} => ~Ordered("launch")
        BY <3>2 DEF AttemptInv, AL!Settled, AskedFirst, Unasked, LaunchIsPast
      <4>3. Ordered("launch")' => Ordered("launch")
        BY <2>1, <4>1 DEF Ordered
      <4>4. AL!Alive' = {}
        BY <3>2, <4>1 DEF AL!Alive
      <4>5. QED
        BY <4>1, <4>2, <4>3, <4>4 DEF ShutdownIsSafe
    <3>3. QED
      BY <3>1, <3>2
  <2>16. GroupIsSupervised'
    BY <1>19, <2>1 DEF AttemptInv, AL!Decide, AL!Settled, AL!SendKill, AL!SupLive, AL!Doom, AL!SupUp, AL!RequestShutdown,
         AL!window, GroupIsSupervised, AL!StateTyped, AL!Gone, EmptyBeforeLaunch, ShutdownIsSafe, Ordered
  <2>17. AL!CompleteMeansGone'
    BY <1>19, <2>1 DEF AttemptInv, AL!Decide, AL!Alive, AL!Settled, AL!SendKill, AL!SupLive, AL!Doom, AL!SupUp,
         AL!RequestShutdown, AL!window, AL!CompleteMeansGone, AL!StateTyped, AL!Gone, EmptyBeforeLaunch
  <2>18. AL!OrderlyExitAbandonsNobody'
    BY <1>19, <2>1 DEF AttemptInv, AL!Decide, AL!Alive, AL!Settled, AL!SendKill, AL!SupLive, AL!Doom, AL!SupUp,
         AL!RequestShutdown, AL!window, AL!OrderlyExitAbandonsNobody, AL!StateTyped, AL!Gone,
         EmptyBeforeLaunch, ShutdownIsSafe, Ordered
  <2>19. QED
    BY <2>2, <2>3, <2>4, <2>5, <2>6, <2>7, <2>8, <2>9, <2>10, <2>11, <2>12, <2>13, <2>14, <2>15,
         <2>16, <2>17, <2>18 DEF AttemptInv
<1>20. CASE AL!DrainOver
  <2>1. AL!FlagsTyped'
    BY <1>20 DEF AttemptInv, AL!DrainOver, AL!SupLive, AL!SendKill, AL!Doom, AL!SupUp, AL!window, AL!channel, AL!FlagsTyped
  <2>2. AL!StateTyped'
    BY <1>20 DEF AttemptInv, AL!DrainOver, AL!Go, AL!SupLive, AL!SendKill, AL!Doom, AL!SupUp, AL!window, AL!channel,
         AL!StateTyped, AL!Gone
  <2>3. EmptyBeforeLaunch'
    BY <1>20 DEF AttemptInv, AL!DrainOver, AL!SupLive, AL!SendKill, AL!Doom, AL!SupUp, AL!window, AL!channel,
         EmptyBeforeLaunch, AL!StateTyped, AL!Gone, AskedFirst, Unasked, Ordered
  <2>4. ReadyOnce'
    BY <1>20 DEF AttemptInv, AL!DrainOver, AL!SupLive, AL!SendKill, AL!Doom, AL!SupUp, AL!window, AL!channel, ReadyOnce
  <2>5. AskedFirst'
    BY <1>20 DEF AttemptInv, AL!DrainOver, AL!SupLive, AL!SendKill, AL!Doom, AL!SupUp, AL!window, AL!channel, AskedFirst,
         Unasked, Ordered, ReadyOnce
  <2>6. LaunchIsPast'
    BY <1>20 DEF AttemptInv, AL!DrainOver, AL!SupLive, AL!SendKill, AL!Doom, AL!SupUp, AL!window, AL!channel, LaunchIsPast,
         AskedFirst, Unasked, Ordered
  <2>7. SignalIsAnnounced'
    BY <1>20 DEF AttemptInv, AL!DrainOver, AL!Go, AL!SupLive, AL!SendKill, AL!Doom, AL!SupUp, AL!window, AL!channel,
         SignalIsAnnounced, Has, CleanupHasCause, ShutdownIsSafe, Ordered
  <2>8. DeathIsRecorded'
    BY <1>20 DEF AttemptInv, AL!DrainOver, AL!SupLive, AL!SendKill, AL!Doom, AL!SupUp, AL!window, AL!channel,
         DeathIsRecorded, AL!StateTyped, AL!Gone, EmptyBeforeLaunch, LaunchIsPast
  <2>9. ExitIsTrue'
    BY <1>20 DEF AttemptInv, AL!DrainOver, AL!Members, AL!SupLive, AL!SendKill, AL!Doom, AL!SupUp, AL!window, AL!channel,
         ExitIsTrue, AL!StateTyped, AL!Gone, LaunchIsPast, SignalIsAnnounced, Has, DeathIsRecorded
  <2>10. NaturalIsFinal'
    BY <1>20 DEF AttemptInv, AL!DrainOver, AL!Members, AL!SupLive, AL!SendKill, AL!Doom, AL!SupUp, AL!window, AL!channel,
         NaturalIsFinal, AL!StateTyped, AL!Gone, LaunchIsPast, ExitIsTrue, DeathIsRecorded
  <2>11. WindowClosed'
    BY <1>20 DEF AttemptInv, AL!DrainOver, AL!Members, AL!SupLive, AL!SendKill, AL!Doom, AL!SupUp, AL!window, AL!channel,
         WindowClosed, AL!StateTyped, AL!Gone, AskedFirst, Unasked, Ordered, LaunchIsPast,
         EmptyBeforeLaunch, DeathIsRecorded
  <2>12. CleanupHasCause'
    BY <1>20 DEF AttemptInv, AL!DrainOver, AL!Go, AL!SupLive, AL!SendKill, AL!Doom, AL!SupUp, AL!window, AL!channel,
         CleanupHasCause
  <2>13. ShutdownIsSafe'
    BY <1>20 DEF AttemptInv, AL!DrainOver, AL!Alive, AL!SupLive, AL!SendKill, AL!Doom, AL!SupUp, AL!window, AL!channel,
         ShutdownIsSafe, Ordered, AL!StateTyped, AL!Gone, AskedFirst, Unasked, LaunchIsPast,
         CleanupHasCause, EmptyBeforeLaunch
  <2>14. GroupIsSupervised'
    BY <1>20 DEF AttemptInv, AL!DrainOver, AL!SupLive, AL!SendKill, AL!Doom, AL!SupUp, AL!window, AL!channel,
         GroupIsSupervised, AL!StateTyped, AL!Gone, EmptyBeforeLaunch, ShutdownIsSafe, Ordered
  <2>15. AL!CompleteMeansGone'
    BY <1>20 DEF AttemptInv, AL!DrainOver, AL!Alive, AL!SupLive, AL!SendKill, AL!Doom, AL!SupUp, AL!window, AL!channel,
         AL!CompleteMeansGone, AL!StateTyped, AL!Gone, EmptyBeforeLaunch
  <2>16. AL!OrderlyExitAbandonsNobody'
    BY <1>20 DEF AttemptInv, AL!DrainOver, AL!Alive, AL!SupLive, AL!SendKill, AL!Doom, AL!SupUp, AL!window, AL!channel,
         AL!OrderlyExitAbandonsNobody, AL!StateTyped, AL!Gone, EmptyBeforeLaunch, ShutdownIsSafe, Ordered
  <2>17. AL!ChannelTyped'
    BY <1>20 DEF AttemptInv, AL!DrainOver, AL!channel, AL!ChannelTyped
  <2>18. QED
    BY <2>1, <2>2, <2>3, <2>4, <2>5, <2>6, <2>7, <2>8, <2>9, <2>10, <2>11, <2>12, <2>13, <2>14,
         <2>15, <2>16, <2>17 DEF AttemptInv
<1>21. CASE AL!Return
  <2>1. AL!FlagsTyped'
    BY <1>21 DEF AttemptInv, AL!Return, AL!Drained, AL!Alive, AL!Members, AL!SupLive, AL!window, AL!supervisor, AL!group,
         AL!FlagsTyped
  <2>2. AL!StateTyped'
    BY <1>21 DEF AttemptInv, AL!Return, AL!Go, AL!Alive, AL!Members, AL!SupLive, AL!window, AL!supervisor, AL!group,
         AL!StateTyped, AL!Gone
  <2>3. SignalIsAnnounced'
    BY <1>21 DEF AttemptInv, AL!Return, AL!Alive, AL!Members, AL!SupLive, AL!window, AL!supervisor, AL!group,
         SignalIsAnnounced, Has, CleanupHasCause, ShutdownIsSafe, Ordered
  <2>4. CleanupHasCause'
    BY <1>21 DEF AttemptInv, AL!Return, AL!Go, AL!Alive, AL!Members, AL!SupLive, AL!window, AL!supervisor, AL!group,
         CleanupHasCause
  <2>5. AL!CompleteMeansGone'
    BY <1>21 DEF AttemptInv, AL!Return, AL!Drained, AL!Alive, AL!Members, AL!SupLive, AL!window, AL!supervisor, AL!group,
         AL!CompleteMeansGone, AL!StateTyped, AL!Gone, EmptyBeforeLaunch
  <2>6. AL!ChannelTyped' /\ EmptyBeforeLaunch' /\ ReadyOnce' /\ AskedFirst' /\ LaunchIsPast'
        /\ DeathIsRecorded' /\ ExitIsTrue' /\ NaturalIsFinal' /\ WindowClosed' /\
        ShutdownIsSafe' /\ GroupIsSupervised' /\ AL!OrderlyExitAbandonsNobody'
    BY <1>21 DEF AttemptInv, AL!Return, AL!window, AL!supervisor, AL!group, AL!ChannelTyped, EmptyBeforeLaunch,
         AL!Members, ReadyOnce, AskedFirst, Unasked, Ordered, LaunchIsPast, DeathIsRecorded,
         ExitIsTrue, NaturalIsFinal, WindowClosed, ShutdownIsSafe, AL!Alive, GroupIsSupervised,
         AL!SupUp, AL!OrderlyExitAbandonsNobody
  <2>7. QED
    BY <2>1, <2>2, <2>3, <2>4, <2>5, <2>6 DEF AttemptInv
<1>22. CASE AL!SupBootFails
  <2>1. AL!FlagsTyped'
    BY <1>22 DEF AttemptInv, AL!SupBootFails, AL!window, AL!group, AL!runner, AL!FlagsTyped
  <2>2. AL!StateTyped'
    BY <1>22 DEF AttemptInv, AL!SupBootFails, AL!group, AL!runner, AL!StateTyped, AL!Members, AL!Gone
  <2>3. EmptyBeforeLaunch'
    BY <1>22 DEF AttemptInv, AL!SupBootFails, EmptyBeforeLaunch, AL!Members, AL!StateTyped, AL!Gone, AskedFirst,
         Unasked, Ordered
  <2>4. ReadyOnce'
    BY <1>22 DEF AttemptInv, AL!SupBootFails, ReadyOnce
  <2>5. AskedFirst'
    BY <1>22 DEF AttemptInv, AL!SupBootFails, AskedFirst, Unasked, Ordered, ReadyOnce
  <2>6. LaunchIsPast'
    BY <1>22 DEF AttemptInv, AL!SupBootFails, LaunchIsPast, AskedFirst, Unasked, Ordered
  <2>7. SignalIsAnnounced'
    BY <1>22 DEF AttemptInv, AL!SupBootFails, SignalIsAnnounced, Has, CleanupHasCause, ShutdownIsSafe,
         Ordered, AL!Alive, AL!Members
  <2>8. NaturalIsFinal'
    BY <1>22 DEF AttemptInv, AL!SupBootFails, AL!runner, NaturalIsFinal, AL!StateTyped, AL!Members, AL!Gone,
         LaunchIsPast, ExitIsTrue, DeathIsRecorded
  <2>9. ShutdownIsSafe'
    BY <1>22 DEF AttemptInv, AL!SupBootFails, AL!group, AL!runner, ShutdownIsSafe, Ordered, AL!Alive, AL!Members,
         AL!StateTyped, AL!Gone, AskedFirst, Unasked, LaunchIsPast, CleanupHasCause, EmptyBeforeLaunch
  <2>10. GroupIsSupervised'
    BY <1>22 DEF AttemptInv, AL!SupBootFails, AL!group, GroupIsSupervised, AL!Members, AL!SupUp, AL!StateTyped, AL!Gone,
         EmptyBeforeLaunch, ShutdownIsSafe, Ordered, AL!Alive
  <2>11. AL!CompleteMeansGone'
    BY <1>22 DEF AttemptInv, AL!SupBootFails, AL!runner, AL!CompleteMeansGone, AL!Alive, AL!Members, AL!StateTyped,
         AL!Gone, EmptyBeforeLaunch
  <2>12. AL!OrderlyExitAbandonsNobody'
    BY <1>22 DEF AttemptInv, AL!SupBootFails, AL!OrderlyExitAbandonsNobody, AL!Alive, AL!Members, AL!StateTyped,
         AL!Gone, EmptyBeforeLaunch, ShutdownIsSafe, Ordered
  <2>13. AL!ChannelTyped' /\ DeathIsRecorded' /\ ExitIsTrue' /\ WindowClosed' /\
        CleanupHasCause'
    BY <1>22 DEF AttemptInv, AL!SupBootFails, AL!window, AL!group, AL!runner, AL!ChannelTyped, DeathIsRecorded,
         ExitIsTrue, WindowClosed, CleanupHasCause
  <2>14. QED
    BY <2>1, <2>2, <2>3, <2>4, <2>5, <2>6, <2>7, <2>8, <2>9, <2>10, <2>11, <2>12, <2>13 DEF AttemptInv
<1>23. CASE AL!SupFatal
  <2>1. Extends(AL!Says(<<"fatal">>), "fatal")
    BY SaysExtends DEF AttemptInv, Kinds
  <2>2. AL!ChannelTyped'
    BY <1>23, <2>1 DEF AttemptInv, AL!SupFatal, AL!runner, AL!ChannelTyped, Kinds, Message, Orders, Extends
  <2>3. AL!FlagsTyped'
    BY <1>23, <2>1 DEF AttemptInv, AL!SupFatal, AL!BeginEmergency, AL!window, AL!runner, AL!FlagsTyped
  <2>4. AL!StateTyped'
    BY <1>23, <2>1 DEF AttemptInv, AL!SupFatal, AL!BeginEmergency, AL!runner, AL!StateTyped, AL!Members, AL!Gone
  <2>5. ReadyOnce'
    BY <1>23, <2>1 DEF AttemptInv, AL!SupFatal, AL!runner, ReadyOnce, Extends, Message, Kinds
  <2>6. AskedFirst'
    BY <1>23, <2>1 DEF AttemptInv, AL!SupFatal, AL!runner, AskedFirst, Unasked, Ordered, ReadyOnce, Extends,
         Message, Kinds
  <2>7. LaunchIsPast'
    BY <1>23, <2>1 DEF AttemptInv, AL!SupFatal, AL!runner, LaunchIsPast, AskedFirst, Unasked, Ordered,
         Extends, Message, Kinds
  <2>8. SignalIsAnnounced'
    BY <1>23, <2>1 DEF AttemptInv, AL!SupFatal, AL!runner, SignalIsAnnounced, Has, CleanupHasCause,
         ShutdownIsSafe, Ordered, AL!Alive, AL!Members, Extends, Message, Kinds
  <2>9. DeathIsRecorded'
    BY <1>23, <2>1 DEF AttemptInv, AL!SupFatal, AL!BeginEmergency, AL!window, AL!runner, DeathIsRecorded,
         AL!StateTyped, AL!Members, AL!Gone, EmptyBeforeLaunch, LaunchIsPast
  <2>10. ExitIsTrue'
    <3>1. UNCHANGED <<life, death, choice>>
      BY <1>23 DEF AL!SupFatal, AL!window, AL!runner
    <3>2. Extends(toRunner', "fatal")
      BY <1>23, <2>1 DEF AL!SupFatal
    <3>3. ASSUME NEW i \in 1..Len(toRunner'), toRunner'[i].type = "workload-exit"
          PROVE  /\ life'["workload"] = "gone"
                 /\ death'.late => toRunner'[i].late
                 /\ \/ death'.natural \/ choice' # "none"
                    \/ \E j \in 1..Len(toRunner') : j < i /\ toRunner'[j].type = "fatal"
      <4>1. i \in 1..Len(toRunner) /\ toRunner'[i] = toRunner[i]
        BY <3>2, <3>3 DEF Extends
      <4>2. ASSUME NEW j \in 1..Len(toRunner)
            PROVE  j \in 1..Len(toRunner') /\ toRunner'[j] = toRunner[j]
        BY <3>2 DEF Extends
      <4>3. QED
        BY <3>1, <3>3, <4>1, <4>2 DEF AttemptInv, ExitIsTrue
    <3>4. QED
      BY <3>3 DEF ExitIsTrue
  <2>11. EmptyBeforeLaunch' /\ NaturalIsFinal' /\ WindowClosed' /\ CleanupHasCause' /\
        ShutdownIsSafe' /\ GroupIsSupervised' /\ AL!CompleteMeansGone' /\
        AL!OrderlyExitAbandonsNobody'
    BY <1>23 DEF AttemptInv, AL!SupFatal, AL!window, AL!runner, EmptyBeforeLaunch, AL!Members, NaturalIsFinal,
         WindowClosed, CleanupHasCause, ShutdownIsSafe, Ordered, AL!Alive, GroupIsSupervised,
         AL!SupUp, AL!CompleteMeansGone, AL!OrderlyExitAbandonsNobody
  <2>12. QED
    BY <2>2, <2>3, <2>4, <2>5, <2>6, <2>7, <2>8, <2>9, <2>10, <2>11 DEF AttemptInv
<1>24. CASE AL!SupCrash
  <2>1. AL!FlagsTyped'
    BY <1>24 DEF AttemptInv, AL!SupCrash, AL!window, AL!group, AL!runner, AL!FlagsTyped
  <2>2. AL!StateTyped'
    BY <1>24 DEF AttemptInv, AL!SupCrash, AL!group, AL!runner, AL!StateTyped, AL!Members, AL!Gone
  <2>3. EmptyBeforeLaunch'
    BY <1>24 DEF AttemptInv, AL!SupCrash, AL!runner, EmptyBeforeLaunch, AL!Members, AL!StateTyped, AL!Gone,
         AskedFirst, Unasked, Ordered
  <2>4. ReadyOnce'
    BY <1>24 DEF AttemptInv, AL!SupCrash, AL!runner, ReadyOnce
  <2>5. AskedFirst'
    BY <1>24 DEF AttemptInv, AL!SupCrash, AL!runner, AskedFirst, Unasked, Ordered, ReadyOnce
  <2>6. LaunchIsPast'
    BY <1>24 DEF AttemptInv, AL!SupCrash, AL!runner, LaunchIsPast, AskedFirst, Unasked, Ordered
  <2>7. SignalIsAnnounced'
    BY <1>24 DEF AttemptInv, AL!SupCrash, AL!runner, SignalIsAnnounced, Has, CleanupHasCause,
         ShutdownIsSafe, Ordered, AL!Alive, AL!Members
  <2>8. NaturalIsFinal'
    BY <1>24 DEF AttemptInv, AL!SupCrash, AL!group, AL!runner, NaturalIsFinal, AL!StateTyped, AL!Members, AL!Gone,
         LaunchIsPast, ExitIsTrue, DeathIsRecorded
  <2>9. ShutdownIsSafe'
    BY <1>24 DEF AttemptInv, AL!SupCrash, AL!group, AL!runner, ShutdownIsSafe, Ordered, AL!Alive, AL!Members,
         AL!StateTyped, AL!Gone, AskedFirst, Unasked, LaunchIsPast, CleanupHasCause, EmptyBeforeLaunch
  <2>10. GroupIsSupervised'
    BY <1>24 DEF AttemptInv, AL!SupCrash, AL!runner, GroupIsSupervised, AL!Members, AL!StateTyped, AL!Gone,
         EmptyBeforeLaunch, ShutdownIsSafe, Ordered, AL!Alive
  <2>11. AL!CompleteMeansGone'
    BY <1>24 DEF AttemptInv, AL!SupCrash, AL!group, AL!runner, AL!CompleteMeansGone, AL!Alive, AL!Members, AL!StateTyped,
         AL!Gone, EmptyBeforeLaunch
  <2>12. AL!OrderlyExitAbandonsNobody'
    BY <1>24 DEF AttemptInv, AL!SupCrash, AL!runner, AL!OrderlyExitAbandonsNobody, AL!Alive, AL!Members, AL!StateTyped,
         AL!Gone, EmptyBeforeLaunch, ShutdownIsSafe, Ordered
  <2>13. AL!ChannelTyped' /\ DeathIsRecorded' /\ ExitIsTrue' /\ WindowClosed' /\
        CleanupHasCause'
    BY <1>24 DEF AttemptInv, AL!SupCrash, AL!window, AL!group, AL!runner, AL!ChannelTyped, DeathIsRecorded,
         ExitIsTrue, WindowClosed, CleanupHasCause
  <2>14. QED
    BY <2>1, <2>2, <2>3, <2>4, <2>5, <2>6, <2>7, <2>8, <2>9, <2>10, <2>11, <2>12, <2>13 DEF AttemptInv
<1>25. CASE AL!Abort
  <2>1. AL!StateTyped'
    BY <1>25 DEF AttemptInv, AL!Abort, AL!Choose, AL!supervisor, AL!group, AL!StateTyped, AL!Members, AL!Gone
  <2>2. SignalIsAnnounced'
    BY <1>25 DEF AttemptInv, AL!Abort, AL!channel, AL!supervisor, AL!group, SignalIsAnnounced, Has,
         CleanupHasCause, ShutdownIsSafe, Ordered, AL!Alive, AL!Members
  <2>3. ExitIsTrue'
    BY <1>25 DEF AttemptInv, AL!Abort, AL!channel, AL!supervisor, AL!group, ExitIsTrue, AL!StateTyped, AL!Members, AL!Gone,
         LaunchIsPast, SignalIsAnnounced, Has, DeathIsRecorded
  <2>4. NaturalIsFinal'
    BY <1>25 DEF AttemptInv, AL!Abort, AL!Choose, AL!supervisor, AL!group, NaturalIsFinal, AL!StateTyped, AL!Members,
         AL!Gone, LaunchIsPast, ExitIsTrue, DeathIsRecorded
  <2>5. WindowClosed'
    BY <1>25 DEF AttemptInv, AL!Abort, AL!Choose, AL!supervisor, AL!group, WindowClosed, AL!StateTyped, AL!Members,
         AL!Gone, AskedFirst, Unasked, Ordered, LaunchIsPast, EmptyBeforeLaunch, DeathIsRecorded
  <2>6. CleanupHasCause'
    BY <1>25 DEF AttemptInv, AL!Abort, AL!supervisor, AL!group, CleanupHasCause
  <2>7. ShutdownIsSafe'
    BY <1>25 DEF AttemptInv, AL!Abort, AL!channel, AL!supervisor, AL!group, ShutdownIsSafe, Ordered, AL!Alive,
         AL!Members, AL!StateTyped, AL!Gone, AskedFirst, Unasked, LaunchIsPast, CleanupHasCause,
         EmptyBeforeLaunch
  <2>8. AL!ChannelTyped' /\ AL!FlagsTyped' /\ EmptyBeforeLaunch' /\ ReadyOnce' /\ AskedFirst' /\
        LaunchIsPast' /\ DeathIsRecorded' /\ GroupIsSupervised' /\ AL!CompleteMeansGone' /\
        AL!OrderlyExitAbandonsNobody'
    BY <1>25 DEF AttemptInv, AL!Abort, AL!window, AL!channel, AL!supervisor, AL!group, AL!ChannelTyped, AL!FlagsTyped,
         EmptyBeforeLaunch, AL!Members, ReadyOnce, AskedFirst, Unasked, Ordered, LaunchIsPast,
         DeathIsRecorded, GroupIsSupervised, AL!SupUp, AL!CompleteMeansGone, AL!Alive,
         AL!OrderlyExitAbandonsNobody
  <2>9. QED
    BY <2>1, <2>2, <2>3, <2>4, <2>5, <2>6, <2>7, <2>8 DEF AttemptInv
<1>26. CASE AL!RunnerDies
  <2>1. AL!FlagsTyped'
    BY <1>26 DEF AttemptInv, AL!RunnerDies, AL!window, AL!group, AL!FlagsTyped
  <2>2. AL!StateTyped'
    BY <1>26 DEF AttemptInv, AL!RunnerDies, AL!Gone, AL!supervisor, AL!group, AL!StateTyped, AL!Members
  <2>3. SignalIsAnnounced'
    BY <1>26 DEF AttemptInv, AL!RunnerDies, AL!group, SignalIsAnnounced, Has, CleanupHasCause,
         ShutdownIsSafe, Ordered, AL!Alive, AL!Members
  <2>4. CleanupHasCause'
    BY <1>26 DEF AttemptInv, AL!RunnerDies, AL!group, CleanupHasCause
  <2>5. AL!ChannelTyped' /\ EmptyBeforeLaunch' /\ ReadyOnce' /\ AskedFirst' /\ LaunchIsPast'
        /\ DeathIsRecorded' /\ ExitIsTrue' /\ NaturalIsFinal' /\ WindowClosed' /\
        ShutdownIsSafe' /\ GroupIsSupervised' /\ AL!CompleteMeansGone' /\
        AL!OrderlyExitAbandonsNobody'
    BY <1>26 DEF AttemptInv, AL!RunnerDies, AL!window, AL!supervisor, AL!group, AL!ChannelTyped, EmptyBeforeLaunch,
         AL!Members, ReadyOnce, AskedFirst, Unasked, Ordered, LaunchIsPast, DeathIsRecorded,
         ExitIsTrue, NaturalIsFinal, WindowClosed, ShutdownIsSafe, AL!Alive, GroupIsSupervised,
         AL!SupUp, AL!CompleteMeansGone, AL!OrderlyExitAbandonsNobody
  <2>6. QED
    BY <2>1, <2>2, <2>3, <2>4, <2>5 DEF AttemptInv
<1>27. CASE AL!DeadlinePasses
  <2>1. AL!ChannelTyped'
    BY <1>27 DEF AttemptInv, AL!DeadlinePasses, AL!channel, AL!runner, AL!ChannelTyped, Kinds, Message, Orders
  <2>2. AL!FlagsTyped'
    BY <1>27 DEF AttemptInv, AL!DeadlinePasses, AL!channel, AL!group, AL!runner, AL!FlagsTyped
  <2>3. AL!StateTyped'
    BY <1>27 DEF AttemptInv, AL!DeadlinePasses, AL!supervisor, AL!group, AL!runner, AL!StateTyped, AL!Members, AL!Gone
  <2>4. DeathIsRecorded'
    BY <1>27 DEF AttemptInv, AL!DeadlinePasses, AL!group, AL!runner, DeathIsRecorded, AL!StateTyped, AL!Members,
         AL!Gone, EmptyBeforeLaunch, LaunchIsPast
  <2>5. WindowClosed'
    BY <1>27 DEF AttemptInv, AL!DeadlinePasses, AL!runner, WindowClosed, AL!StateTyped, AL!Members, AL!Gone,
         AskedFirst, Unasked, Ordered, LaunchIsPast, EmptyBeforeLaunch, DeathIsRecorded
  <2>6. EmptyBeforeLaunch' /\ ReadyOnce' /\ AskedFirst' /\ LaunchIsPast' /\
        SignalIsAnnounced' /\ ExitIsTrue' /\ NaturalIsFinal' /\ CleanupHasCause' /\
        ShutdownIsSafe' /\ GroupIsSupervised' /\ AL!CompleteMeansGone' /\
        AL!OrderlyExitAbandonsNobody'
    BY <1>27 DEF AttemptInv, AL!DeadlinePasses, AL!channel, AL!supervisor, AL!group, AL!runner, EmptyBeforeLaunch,
         AL!Members, ReadyOnce, AskedFirst, Unasked, Ordered, LaunchIsPast, SignalIsAnnounced, Has,
         ExitIsTrue, NaturalIsFinal, CleanupHasCause, ShutdownIsSafe, AL!Alive, GroupIsSupervised,
         AL!SupUp, AL!CompleteMeansGone, AL!OrderlyExitAbandonsNobody
  <2>7. QED
    BY <2>1, <2>2, <2>3, <2>4, <2>5, <2>6 DEF AttemptInv
<1>28. CASE AL!Fork
  <2>1. AL!StateTyped'
    BY <1>28 DEF AttemptInv, AL!Fork, AL!Members, AL!supervisor, AL!runner, AL!StateTyped, AL!Gone
  <2>2. EmptyBeforeLaunch'
    BY <1>28 DEF AttemptInv, AL!Fork, AL!supervisor, AL!runner, EmptyBeforeLaunch, AL!StateTyped, AL!Gone,
         AskedFirst, Unasked, Ordered
  <2>3. DeathIsRecorded'
    BY <1>28 DEF AttemptInv, AL!Fork, AL!window, AL!supervisor, AL!runner, DeathIsRecorded, AL!StateTyped, AL!Gone,
         EmptyBeforeLaunch, LaunchIsPast
  <2>4. ExitIsTrue'
    BY <1>28 DEF AttemptInv, AL!Fork, AL!channel, AL!supervisor, AL!runner, ExitIsTrue, AL!StateTyped, AL!Gone,
         LaunchIsPast, SignalIsAnnounced, Has, DeathIsRecorded
  <2>5. NaturalIsFinal'
    BY <1>28 DEF AttemptInv, AL!Fork, AL!supervisor, AL!runner, NaturalIsFinal, AL!StateTyped, AL!Gone, LaunchIsPast,
         ExitIsTrue, DeathIsRecorded
  <2>6. WindowClosed'
    BY <1>28 DEF AttemptInv, AL!Fork, AL!window, AL!supervisor, AL!runner, WindowClosed, AL!StateTyped, AL!Gone,
         AskedFirst, Unasked, Ordered, LaunchIsPast, EmptyBeforeLaunch, DeathIsRecorded
  <2>7. ShutdownIsSafe'
    BY <1>28 DEF AttemptInv, AL!Fork, AL!channel, AL!supervisor, AL!runner, ShutdownIsSafe, Ordered, AL!Alive,
         AL!StateTyped, AL!Gone, AskedFirst, Unasked, LaunchIsPast, CleanupHasCause, EmptyBeforeLaunch
  <2>8. GroupIsSupervised'
    BY <1>28 DEF AttemptInv, AL!Fork, AL!supervisor, AL!runner, GroupIsSupervised, AL!SupUp, AL!StateTyped, AL!Gone,
         EmptyBeforeLaunch, ShutdownIsSafe, Ordered, AL!Alive
  <2>9. AL!CompleteMeansGone'
    BY <1>28 DEF AttemptInv, AL!Fork, AL!supervisor, AL!runner, AL!CompleteMeansGone, AL!Alive, AL!StateTyped, AL!Gone,
         EmptyBeforeLaunch
  <2>10. AL!OrderlyExitAbandonsNobody'
    BY <1>28 DEF AttemptInv, AL!Fork, AL!supervisor, AL!runner, AL!OrderlyExitAbandonsNobody, AL!Alive, AL!StateTyped,
         AL!Gone, EmptyBeforeLaunch, ShutdownIsSafe, Ordered
  <2>11. AL!ChannelTyped' /\ AL!FlagsTyped' /\ ReadyOnce' /\ AskedFirst' /\ LaunchIsPast' /\
        SignalIsAnnounced' /\ CleanupHasCause'
    BY <1>28 DEF AttemptInv, AL!Fork, AL!window, AL!channel, AL!supervisor, AL!runner, AL!ChannelTyped, AL!FlagsTyped,
         ReadyOnce, AskedFirst, Unasked, Ordered, LaunchIsPast, SignalIsAnnounced, Has,
         CleanupHasCause
  <2>12. QED
    BY <2>1, <2>2, <2>3, <2>4, <2>5, <2>6, <2>7, <2>8, <2>9, <2>10, <2>11 DEF AttemptInv
<1>29. ASSUME NEW m \in AL!Members, AL!Die(m) PROVE AttemptInv'
  <2>1. AL!StateTyped'
    BY <1>29 DEF AttemptInv, AL!Die, AL!supervisor, AL!runner, AL!StateTyped, AL!Members, AL!Gone, AL!FlagsTyped
  <2>2. EmptyBeforeLaunch'
    BY <1>29 DEF AttemptInv, AL!Die, AL!supervisor, AL!runner, EmptyBeforeLaunch, AL!Members, AL!StateTyped, AL!Gone,
         AskedFirst, Unasked, Ordered
  <2>3. DeathIsRecorded'
    BY <1>29 DEF AttemptInv, AL!Die, AL!window, AL!runner, DeathIsRecorded, AL!StateTyped, AL!Members, AL!Gone,
         EmptyBeforeLaunch, LaunchIsPast
  <2>4. ExitIsTrue'
    BY <1>29 DEF AttemptInv, AL!Die, AL!channel, AL!runner, ExitIsTrue, AL!StateTyped, AL!Members, AL!Gone,
         LaunchIsPast, SignalIsAnnounced, Has, DeathIsRecorded
  <2>5. NaturalIsFinal'
    BY <1>29 DEF AttemptInv, AL!Die, AL!supervisor, AL!runner, NaturalIsFinal, AL!StateTyped, AL!Members, AL!Gone,
         LaunchIsPast, ExitIsTrue, DeathIsRecorded
  <2>6. WindowClosed'
    BY <1>29 DEF AttemptInv, AL!Die, AL!window, AL!runner, WindowClosed, AL!StateTyped, AL!Members, AL!Gone, AskedFirst,
         Unasked, Ordered, LaunchIsPast, EmptyBeforeLaunch, DeathIsRecorded
  <2>7. ShutdownIsSafe'
    BY <1>29 DEF AttemptInv, AL!Die, AL!channel, AL!runner, ShutdownIsSafe, Ordered, AL!Alive, AL!Members,
         AL!StateTyped, AL!Gone, AskedFirst, Unasked, LaunchIsPast, CleanupHasCause, EmptyBeforeLaunch
  <2>8. GroupIsSupervised'
    BY <1>29 DEF AttemptInv, AL!Die, AL!supervisor, AL!runner, GroupIsSupervised, AL!Members, AL!SupUp, AL!StateTyped,
         AL!Gone, EmptyBeforeLaunch, ShutdownIsSafe, Ordered, AL!Alive
  <2>9. AL!CompleteMeansGone'
    BY <1>29 DEF AttemptInv, AL!Die, AL!runner, AL!CompleteMeansGone, AL!Alive, AL!Members, AL!StateTyped, AL!Gone,
         EmptyBeforeLaunch
  <2>10. AL!OrderlyExitAbandonsNobody'
    BY <1>29 DEF AttemptInv, AL!Die, AL!supervisor, AL!runner, AL!OrderlyExitAbandonsNobody, AL!Alive, AL!Members,
         AL!StateTyped, AL!Gone, EmptyBeforeLaunch, ShutdownIsSafe, Ordered
  <2>11. AL!ChannelTyped' /\ AL!FlagsTyped' /\ ReadyOnce' /\ AskedFirst' /\ LaunchIsPast' /\
        SignalIsAnnounced' /\ CleanupHasCause'
    BY <1>29 DEF AttemptInv, AL!Die, AL!window, AL!channel, AL!supervisor, AL!runner, AL!ChannelTyped, AL!FlagsTyped,
         ReadyOnce, AskedFirst, Unasked, Ordered, LaunchIsPast, SignalIsAnnounced, Has,
         CleanupHasCause
  <2>12. QED
    BY <2>1, <2>2, <2>3, <2>4, <2>5, <2>6, <2>7, <2>8, <2>9, <2>10, <2>11 DEF AttemptInv
<1>30. CASE UNCHANGED AL!vars
  BY <1>30 DEF AttemptInv, AL!vars, AL!window, AL!channel, AL!supervisor, AL!group, AL!runner, AL!ChannelTyped, AL!FlagsTyped,
       AL!StateTyped, AL!Members, AL!Gone, EmptyBeforeLaunch, ReadyOnce, AskedFirst, Unasked, Ordered,
       LaunchIsPast, SignalIsAnnounced, Has, DeathIsRecorded, ExitIsTrue, NaturalIsFinal,
       WindowClosed, CleanupHasCause, ShutdownIsSafe, AL!Alive, GroupIsSupervised, AL!SupUp,
       AL!CompleteMeansGone, AL!OrderlyExitAbandonsNobody
<1>31. CASE AL!SupStep
  BY <1>1, <1>2, <1>3, <1>4, <1>5, <1>6, <1>7, <1>8, <1>9, <1>31 DEF AL!SupStep
<1>32. CASE AL!RunnerStep
  BY <1>10, <1>11, <1>12, <1>13, <1>14, <1>15, <1>16, <1>17, <1>18, <1>19, <1>20, <1>21, <1>32
       DEF AL!RunnerStep
<1>33. QED
  BY <1>22, <1>23, <1>24, <1>25, <1>26, <1>27, <1>28, <1>29, <1>30, <1>31, <1>32 DEF AL!Next

THEOREM AttemptInvariant == AL!Spec => []AttemptInv
BY InitAttempt, NextAttempt, PTL DEF AL!Spec

-----------------------------------------------------------------------------
\* Every variable of an attempt keeps its type, and the messages in both
\* directions of the channel are ones the processes know.
THEOREM AttemptTyped == AL!Spec => []AL!TypeOK
<1>1. AttemptInv => AL!TypeOK
  BY DEF AttemptInv, AL!TypeOK
<1>2. QED
  BY <1>1, AttemptInvariant, PTL

\* An exit counts as natural only if the workload died by itself in time, in
\* whatever order messages, signals and the deadline arrive.
THEOREM NaturalExitsAreNatural == AL!Spec => []NaturalIsNatural
<1>1. AttemptInv => NaturalIsNatural
  BY DEF AttemptInv, NaturalIsFinal, NaturalIsNatural, AL!NaturalIsNatural
<1>2. QED
  BY <1>1, AttemptInvariant, PTL

\* An attempt that survived its window was alive when the window closed.
THEOREM WindowsAreSurvived == AL!Spec => []WindowWasSurvived
<1>1. AttemptInv => WindowWasSurvived
  BY DEF AttemptInv, WindowClosed, WindowWasSurvived, AL!WindowWasSurvived
<1>2. QED
  BY <1>1, AttemptInvariant, PTL

\* A complete cleanup leaves no process behind, now or later.
THEOREM CompleteCleanups == AL!Spec => []CompleteMeansGone
<1>1. AttemptInv => CompleteMeansGone
  BY DEF AttemptInv, CompleteMeansGone
<1>2. QED
  BY <1>1, AttemptInvariant, PTL

\* A supervisor that is told to exit abandons no process of its group.
THEOREM OrderlyExits == AL!Spec => []OrderlyExitAbandonsNobody
<1>1. AttemptInv => OrderlyExitAbandonsNobody
  BY DEF AttemptInv, OrderlyExitAbandonsNobody
<1>2. QED
  BY <1>1, AttemptInvariant, PTL

\* While a group runs, its supervisor or its runner holds the lease, unless
\* something outside has killed the supervisor.
THEOREM LeaseCoversGroups == AL!Spec => []LeaseCoversGroup
<1>1. AttemptInv => LeaseCoversGroup
  BY DEF AttemptInv, GroupIsSupervised, LeaseCoversGroup, AL!LeaseCoversGroup
<1>2. QED
  BY <1>1, AttemptInvariant, PTL
=============================================================================
