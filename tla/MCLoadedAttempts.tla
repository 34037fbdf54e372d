-------------------------- MODULE MCLoadedAttempts --------------------------
(* The controlled-load session, and the supervised attempts that its legs    *)
(* and its workers are.  The two modules share no state: `side` says which   *)
(* of them a behaviour is about, and the other rests in an initial state.    *)
(*                                                                           *)
(* Session: two workers, so that one may fail while its peer runs, and two   *)
(* attempts per leg, so that the signal may come between two.  Attempt: it   *)
(* has no unbounded data; either kind of runner, one helper, and channels    *)
(* that the protocol itself keeps short.                                     *)
EXTENDS ControlledLoad

VARIABLES
  side,
  managed, late, toSup, toRunner, connected, sup, supExit, emergency, life, signalled, death,
  run, proto, choice, supSeen, shutdown, kill, faulted, complete

AL == INSTANCE AttemptLifecycle

attempt ==
  <<managed, late, toSup, toRunner, connected, sup, supExit, emergency, life, signalled,
    death, run, proto, choice, supSeen, shutdown, kill, faulted, complete>>

NaturalIsNatural     == AL!NaturalIsNatural
CompleteMeansGone    == AL!CompleteMeansGone
GroupIsReaped        == AL!GroupIsReaped

\* Further properties of an attempt (theorems of LoadedAttemptsProofs, but for the last).
WindowWasSurvived         == AL!WindowWasSurvived
OrderlyExitAbandonsNobody == AL!OrderlyExitAbandonsNobody
LeaseCoversGroup          == AL!LeaseCoversGroup
AttemptReturns            == side = "attempt" => AL!AttemptReturns

\* The legs of a session end, whatever its workers do (it ends in one of the stages `Over`).
SessionReturns == side = "session" => SessionEnds

-----------------------------------------------------------------------------
InSession(A)   == side = "session" /\ A /\ Recorded /\ UNCHANGED <<side, attempt>>
InAttempt(A)   == side = "attempt" /\ A /\ UNCHANGED <<side, vars>>

LoadedInit ==
  /\ side \in {"session", "attempt"}
  /\ Init /\ AL!Init
  /\ side # "attempt" => ~managed

SessionNext ==
  \/ InSession(BeginAttempt) \/ InSession(EndAttempt) \/ InSession(LegFails)
  \/ InSession(StartSet) \/ InSession(SetReady) \/ InSession(SetNotReady)
  \/ InSession(StartFailed) \/ InSession(WarmedUp) \/ InSession(BDone)
  \/ InSession(Stopped) \/ InSession(Recovered) \/ InSession(Finish) \/ InSession(Abort)
  \/ \E w \in Worker :
       \/ InSession(Launch(w)) \/ InSession(Announce(w)) \/ InSession(Die(w))
       \/ InSession(Ends(w)) \/ InSession(Return(w))

AttemptNext ==
  \/ InAttempt(AL!SupReady) \/ InAttempt(AL!SupLaunch) \/ InAttempt(AL!SupLaunchFails)
  \/ InAttempt(AL!SupLaunchStray) \/ InAttempt(AL!SupReap) \/ InAttempt(AL!SupShutdown)
  \/ InAttempt(AL!SupDisconnect) \/ InAttempt(AL!EmergencyKill) \/ InAttempt(AL!SupDies)
  \/ InAttempt(AL!RecvReady) \/ InAttempt(AL!RecvStarted) \/ InAttempt(AL!RecvExit)
  \/ InAttempt(AL!RecvLaunchError) \/ InAttempt(AL!RecvFatal) \/ InAttempt(AL!SeeSupExit)
  \/ InAttempt(AL!Deadline) \/ InAttempt(AL!BeginCleanup) \/ InAttempt(AL!TermOver)
  \/ InAttempt(AL!Decide) \/ InAttempt(AL!DrainOver) \/ InAttempt(AL!Return)
  \/ InAttempt(AL!SupBootFails) \/ InAttempt(AL!SupFatal) \/ InAttempt(AL!SupCrash)
  \/ InAttempt(AL!Abort) \/ InAttempt(AL!RunnerDies) \/ InAttempt(AL!DeadlinePasses)
  \/ InAttempt(AL!Fork) \/ \E m \in AL!Members : InAttempt(AL!Die(m))

\* The fairness of each module, on the steps of its own side.
LoadedFairness ==
  LET S(A) == side = "session" /\ A /\ Recorded
      At(A) == side = "attempt" /\ A
  IN /\ WF_vars(S(SessionStep))
     /\ \A w \in Worker : /\ WF_vars(S(Launch(w))) /\ WF_vars(S(Announce(w)))
                          /\ WF_vars(S(Notices(w))) /\ WF_vars(S(Return(w)))
     /\ WF_attempt(At(AL!SupStep)) /\ WF_attempt(At(AL!RunnerStep))
     /\ WF_attempt(At(AL!DeadlinePasses))
     /\ \A m \in AL!Members : WF_attempt(At(life[m] = "doomed" /\ AL!Die(m)))

LoadedNext == SessionNext \/ AttemptNext

LoadedSpec == /\ LoadedInit
              /\ [][LoadedNext]_<<side, vars, attempt>>
              /\ LoadedFairness
=============================================================================
