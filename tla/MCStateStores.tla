--------------------------- MODULE MCStateStores ---------------------------
(* The directory under every store, and one of the stores.  The two modules  *)
(* share no state: `side` says which of them a behaviour is about, the other *)
(* rests in its initial state, and the graph TLC builds is the disjoint      *)
(* union of theirs.                                                          *)
(*                                                                           *)
(* Directory: one ordinary record, one collection record and one report      *)
(* artifact, and two contents, so that a replaced record can be told from a  *)
(* kept one.  Debugger phase: three runs, of which a second capture ends the *)
(* phase, and one attempt more than there are runs.                          *)
EXTENDS StateFiles, TLC

CONSTANTS MaxRuns, MaxCaptures, Attempt, None

VARIABLES side, manifest, part, temp, step, slot, nonce, orphans, used, captured

debugger == <<manifest, part, temp, step, slot, nonce, orphans, used, captured>>

D == INSTANCE DebuggerStore WITH pc <- step, run <- slot

AllNames    == {"attempt", "plan", "report"}
ReportNames == {"report"}
KnownNames  == {"attempt", "plan"}
PlanNames   == {"plan"}

Symmetry == Permutations(Pids) \union Permutations(Values)

LogSpec == D!LogSpec

\* Further properties of the debugger's store (StateStoresMore.cfg).
AlwaysReadable  == D!AlwaysReadable
NothingInTheWay == D!NothingInTheWay

InFiles(A)    == side = "files" /\ A /\ UNCHANGED <<side, debugger>>
InDebugger(A) == side = "debugger" /\ A /\ UNCHANGED <<side, vars>>

StoresInit == Init /\ D!Init /\ side \in {"files", "debugger"}

FilesNext == \E p \in Pids :
  \/ InFiles(StartProcess(p)) \/ InFiles(OpenSession(p)) \/ InFiles(CloseSession(p))
  \/ InFiles(Exit(p)) \/ InFiles(PlanRecovery(p)) \/ InFiles(RefuseRecovery(p))
  \/ InFiles(Recovered(p))
  \/ InFiles(\E t \in todo[p] : PublishLeftover(p, t))
  \/ InFiles(\E t \in todo[p] : UnlinkLeftover(p, t))
  \/ InFiles(\E n \in Names, v \in Values : CommitOpen(p, n, v))
  \/ InFiles(CommitWrite(p)) \/ InFiles(CommitRename(p)) \/ InFiles(CommitLink(p))
  \/ InFiles(CommitExists(p)) \/ InFiles(CommitUnlink(p)) \/ InFiles(CommitFails(p))
  \/ InFiles(\E n \in Known : Remove(p, n))

DebuggerNext ==
  \/ InDebugger(D!Initialize) \/ InDebugger(D!Open) \/ InDebugger(D!StartAttempt)
  \/ InDebugger(D!EndAttempt) \/ InDebugger(D!CommitRead) \/ InDebugger(D!RemoveOrphan)
  \/ InDebugger(D!Removed) \/ InDebugger(\E p \in D!Part : D!Put(p))
  \/ InDebugger(D!Close) \/ InDebugger(D!Crash)

StoresNext == FilesNext \/ DebuggerNext

StoresSpec == StoresInit /\ [][StoresNext]_<<side, vars, debugger>>
=============================================================================
