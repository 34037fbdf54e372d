------------------------- MODULE SchemaBundleProofs -------------------------
(***************************************************************************)
(* What holds of SchemaBundle for any number of owners, phases, units and  *)
(* jobs.  The argument has three layers.                                   *)
(*                                                                         *)
(*   Inv1  types; an owner at work has a phase and a unit; stores are      *)
(*         contiguous.  Needs no mutual exclusion: the commit itself       *)
(*         refuses anything but the next ordinal.                          *)
(*   Inv2  the lease has one holder.                                       *)
(*   Inv3  what the holder knows: its view is the next unit, and the       *)
(*         breadcrumb is absent, the one it wrote, or classifiable.  Other *)
(*         owners cannot disturb it, by Inv2.                              *)
(***************************************************************************)
EXTENDS SchemaBundle, TLAPS

-----------------------------------------------------------------------------
(* Stores as intervals. *)

\* Two initial segments of the naturals are equal only if they end together.
LEMMA IntervalsEqual ==
  ASSUME NEW m \in Nat, NEW n \in Nat, 1..m = 1..n
  PROVE  m = n
<1>1. CASE m = 0
  <2>1. n = 0 \/ n \in 1..m
    OBVIOUS
  <2> QED BY <1>1, <2>1
<1>2. CASE n = 0
  <2>1. m = 0 \/ m \in 1..n
    OBVIOUS
  <2> QED BY <1>2, <2>1
<1>3. CASE m # 0 /\ n # 0
  <2>1. m \in 1..n /\ n \in 1..m
    BY <1>3
  <2> QED BY <2>1
<1> QED BY <1>1, <1>2, <1>3

\* The frontier of a contiguous store is the length of its interval.
LEMMA FrontierIs ==
  ASSUME NEW p \in Phases, NEW n \in 0..Total[p], committed[p] = 1..n
  PROVE  Frontier(p) = n
<1>1. Total[p] \in Nat
  BY TotalAssumption
<1>2. Frontier(p) \in 0..Total[p] /\ committed[p] = 1..Frontier(p)
  BY DEF Frontier
<1>3. 1..n = 1..Frontier(p) /\ n \in Nat /\ Frontier(p) \in Nat
  BY <1>1, <1>2
<1> QED BY <1>3, IntervalsEqual

\* The unit that is due, by what the store holds: all units before it, or
\* all there are.
DueIs(p, u) == \/ u = 0 /\ committed[p] = 1..Total[p]
               \/ u \in 1..Total[p] /\ committed[p] = 1..(u - 1)

LEMMA DueIsDue ==
  ASSUME NEW p \in Phases, Contiguous(p)
  PROVE  Due(p) \in Nat /\ DueIs(p, Due(p))
<1>1. Total[p] \in Nat
  BY TotalAssumption
<1>2. PICK n \in 0..Total[p] : committed[p] = 1..n
  BY DEF Contiguous
<1>3. Frontier(p) = n
  BY <1>2, FrontierIs
<1>4. CASE n < Total[p]
  BY <1>1, <1>2, <1>3, <1>4 DEF Due, DueIs
<1>5. CASE n = Total[p]
  BY <1>1, <1>2, <1>3, <1>5 DEF Due, DueIs
<1> QED BY <1>1, <1>4, <1>5

\* ... and only that unit is due.
LEMMA DueUnique ==
  ASSUME NEW p \in Phases, NEW u \in Nat, DueIs(p, u)
  PROVE  Contiguous(p) /\ Due(p) = u
<1>1. Total[p] \in Nat
  BY TotalAssumption
<1>2. CASE u = 0
  <2>1. committed[p] = 1..Total[p]
    BY <1>1, <1>2 DEF DueIs
  <2>2. Frontier(p) = Total[p]
    BY <1>1, <2>1, FrontierIs
  <2> QED BY <1>1, <1>2, <2>1, <2>2 DEF Due, Contiguous
<1>3. CASE u # 0
  <2>1. u \in 1..Total[p] /\ committed[p] = 1..(u - 1) /\ u - 1 \in 0..Total[p]
    BY <1>1, <1>3 DEF DueIs
  <2>2. Frontier(p) = u - 1
    BY <2>1, FrontierIs
  <2> QED BY <1>1, <2>1, <2>2 DEF Due, Contiguous
<1> QED BY <1>2, <1>3

-----------------------------------------------------------------------------
(* Layer 1. *)

\* States in which an owner works on a phase, and on a unit of it.
Placed == {"loop", "locked", "arm", "arming", "armed", "running", "ran",
           "recorded", "cleared"}
Chosen == {"arming", "armed", "running", "ran", "recorded"}

HasPhase == \A o \in Owners : pc[o] \in Placed => at[o] <= Len(job[o])
HasUnit  == \A o \in Owners : pc[o] \in Chosen => view[o] # 0

Inv1 == TypeOK /\ HasPhase /\ HasUnit /\ ContiguousPrefix

LEMMA PhaseOfType ==
  ASSUME Inv1, NEW o \in Owners, at[o] <= Len(job[o])
  PROVE  PhaseOf(o) \in Phases
<1>1. job[o] \in Seq(Phases)
  <2>1. << >> \in Seq(Phases)
    OBVIOUS
  <2> QED BY <2>1, JobsAssumption DEF Inv1, TypeOK
<1>2. at[o] \in 1..Len(job[o])
  BY <1>1 DEF Inv1, TypeOK
<1> QED BY <1>1, <1>2 DEF PhaseOf

\* The steps an owner's process or its supervisor can take.
OwnerStep(o) == Start(o) \/ Step(o) \/ Crash(o) \/ SupervisorExits(o)

LEMMA Init1 == Init => Inv1
<1> SUFFICES ASSUME Init PROVE Inv1
  OBVIOUS
<1>1. TypeOK
  <2>1. {} \in SUBSET (Nat \ {0})
    OBVIOUS
  <2>2. committed \in [Phases -> SUBSET (Nat \ {0})]
    BY <2>1 DEF Init
  <2>3. job \in [Owners -> Jobs \union {<< >>}]
    BY DEF Init
  <2>4. pc \in [Owners -> Stopped \union Critical \union Outside]
    BY DEF Init, Outside
  <2>5. at \in [Owners -> Nat \ {0}] /\ view \in [Owners -> Nat]
    BY DEF Init
  <2>6. good \in [Owners -> BOOLEAN] /\ attempt \in [Owners -> Unit \union {None}]
    BY DEF Init
  <2>7. litter \in BOOLEAN /\ armed \in Unit \union {None}
    BY DEF Init
  <2>8. published \in 0..ReportFiles
    BY DEF Init, ReportFiles
  <2> QED BY <2>2, <2>3, <2>4, <2>5, <2>6, <2>7, <2>8 DEF TypeOK
<1>2. HasPhase /\ HasUnit
  BY DEF Init, HasPhase, HasUnit, Placed, Chosen
<1>3. ContiguousPrefix
  <2>1. ASSUME NEW p \in Phases PROVE Contiguous(p)
    <3>1. Total[p] \in Nat /\ committed[p] = {}
      BY TotalAssumption DEF Init
    <3>2. 0 \in 0..Total[p] /\ 1..0 = {}
      BY <3>1
    <3> QED BY <3>1, <3>2 DEF Contiguous
  <2> QED BY <2>1 DEF ContiguousPrefix
<1> QED BY <1>1, <1>2, <1>3 DEF Inv1

\* Layer 1 does not depend on the lease: a step of any owner keeps it.
LEMMA Step1 ==
  ASSUME Inv1, NEW o \in Owners, OwnerStep(o)
  PROVE  Inv1'
<1> USE DEF Stopped, Critical, Outside, Placed, Chosen, owner, disk, Go
<1>t. TypeOK /\ HasPhase /\ HasUnit /\ ContiguousPrefix
  BY DEF Inv1
<1>p. at[o] <= Len(job[o]) => PhaseOf(o) \in Phases /\ Due(PhaseOf(o)) \in Nat
  BY <1>t, PhaseOfType, DueIsDue DEF ContiguousPrefix
<1>w. pc[o] \in Chosen => Wanted(o) \in Unit
  BY <1>t, <1>p DEF Wanted, Unit, HasPhase, HasUnit, TypeOK
<1>c. committed' = committed => ContiguousPrefix'
  BY <1>t DEF ContiguousPrefix, Contiguous
<1> DEFINE Rest == TypeOK /\ HasPhase /\ HasUnit
<1>1. CASE Start(o)
  <2>1. Rest'
    BY <1>1, <1>t DEF Start, TypeOK, HasPhase, HasUnit
  <2> QED BY <1>1, <1>c, <2>1 DEF Start, Inv1
<1>2. CASE Busy(o)
  <2>1. Rest'
    BY <1>2, <1>t DEF Busy, TypeOK, HasPhase, HasUnit
  <2> QED BY <1>2, <1>c, <2>1 DEF Busy, Inv1
<1>3. CASE Open(o)
  <2>1. Rest'
    BY <1>3, <1>t DEF Open, TakeLease, TypeOK, HasPhase, HasUnit
  <2> QED BY <1>3, <1>c, <2>1 DEF Open, TakeLease, Inv1
<1>4. CASE ReadOpened(o)
  <2>1. Rest'
    BY <1>4, <1>t, <1>p DEF ReadOpened, AfterOpen, JobDone, TypeOK, HasPhase, HasUnit
  <2> QED BY <1>4, <1>c, <2>1 DEF ReadOpened, AfterOpen, JobDone, Inv1
<1>5. CASE FailClosed(o)
  <2>1. Rest'
    BY <1>5, <1>t DEF FailClosed, TypeOK, HasPhase, HasUnit
  <2> QED BY <1>5, <1>c, <2>1 DEF FailClosed, Inv1
<1>6. CASE PhaseDone(o)
  <2>1. Rest'
    BY <1>6, <1>t DEF PhaseDone, TypeOK, HasPhase, HasUnit
  <2> QED BY <1>6, <1>c, <2>1 DEF PhaseDone, Inv1
<1>7. CASE Lock(o)
  <2>1. Rest'
    BY <1>7, <1>t DEF Lock, TakeLease, TypeOK, HasPhase, HasUnit
  <2> QED BY <1>7, <1>c, <2>1 DEF Lock, TakeLease, Inv1
<1>8. CASE Read(o)
  <2>1. Rest'
    BY <1>8, <1>t, <1>p DEF Read, TypeOK, HasPhase, HasUnit
  <2> QED BY <1>8, <1>c, <2>1 DEF Read, Inv1
<1>9. CASE RemoveReconciled(o)
  <2>1. Rest'
    BY <1>9, <1>t DEF RemoveReconciled, TypeOK, HasPhase, HasUnit
  <2> QED BY <1>9, <1>c, <2>1 DEF RemoveReconciled, Inv1
<1>10. CASE NothingDue(o)
  <2>1. Rest'
    BY <1>10, <1>t DEF NothingDue, TypeOK, HasPhase, HasUnit
  <2> QED BY <1>10, <1>c, <2>1 DEF NothingDue, Inv1
<1>11. CASE ArmBegin(o)
  <2>1. Rest'
    BY <1>11, <1>t DEF ArmBegin, TypeOK, HasPhase, HasUnit
  <2> QED BY <1>11, <1>c, <2>1 DEF ArmBegin, Inv1
<1>12. CASE ArmCommit(o)
  <2>1. Rest'
    BY <1>12, <1>t, <1>w DEF ArmCommit, TypeOK, HasPhase, HasUnit
  <2> QED BY <1>12, <1>c, <2>1 DEF ArmCommit, Inv1
<1>13. CASE ArmAgain(o)
  <2>1. Rest'
    BY <1>13, <1>t DEF ArmAgain, TypeOK, HasPhase, HasUnit
  <2> QED BY <1>13, <1>c, <2>1 DEF ArmAgain, Inv1
<1>14. CASE ArmRefused(o)
  <2>1. Rest'
    BY <1>14, <1>t DEF ArmRefused, TypeOK, HasPhase, HasUnit
  <2> QED BY <1>14, <1>c, <2>1 DEF ArmRefused, Inv1
<1>15. CASE RunUnit(o)
  <2>1. Rest'
    BY <1>15, <1>t, <1>w DEF RunUnit, TypeOK, HasPhase, HasUnit
  <2> QED BY <1>15, <1>c, <2>1 DEF RunUnit, Inv1
<1>16. CASE RunCancelled(o)
  <2>1. Rest'
    BY <1>16, <1>t DEF RunCancelled, TypeOK, HasPhase, HasUnit
  <2> QED BY <1>16, <1>c, <2>1 DEF RunCancelled, Inv1
<1>17. CASE RunThrows(o)
  <2>1. Rest'
    BY <1>17, <1>t DEF RunThrows, TypeOK, HasPhase, HasUnit
  <2> QED BY <1>17, <1>c, <2>1 DEF RunThrows, Inv1
<1>18. CASE RunEnds(o)
  <2>1. Rest'
    BY <1>18, <1>t DEF RunEnds, TypeOK, HasPhase, HasUnit
  <2> QED BY <1>18, <1>c, <2>1 DEF RunEnds, Inv1
<1>19. CASE RunUndrained(o)
  <2>1. Rest'
    BY <1>19, <1>t DEF RunUndrained, TypeOK, HasPhase, HasUnit
  <2> QED BY <1>19, <1>c, <2>1 DEF RunUndrained, Inv1
<1>20. CASE Commit(o)
  <2>1. PhaseOf(o) \in Phases /\ view[o] \in Nat \ {0}
    BY <1>20, <1>t, <1>p DEF Commit, TypeOK, HasPhase, HasUnit
  <2>2. committed' \in [Phases -> SUBSET (Nat \ {0})]
    BY <1>20, <1>t, <2>1 DEF Commit, TypeOK
  <2>3. Rest'
    BY <1>20, <1>t, <2>2 DEF Commit, TypeOK, HasPhase, HasUnit
  <2>4. ASSUME NEW p \in Phases, p = PhaseOf(o), view[o] = Due(p)
        PROVE  \E n \in 0..Total[p] : committed[p] \union {view[o]} = 1..n
    <3>1. Total[p] \in Nat
      BY TotalAssumption
    <3>2. DueIs(p, view[o]) /\ view[o] # 0
      BY <1>t, <2>1, <2>4, DueIsDue DEF ContiguousPrefix
    <3>3. view[o] \in 1..Total[p] /\ committed[p] = 1..(view[o] - 1)
      BY <3>2 DEF DueIs
    <3>4. committed[p] \union {view[o]} = 1..view[o]
      BY <3>1, <3>3
    <3> QED BY <3>1, <3>3, <3>4
  <2>5. ContiguousPrefix'
    BY <1>20, <1>t, <2>1, <2>4 DEF Commit, TypeOK, ContiguousPrefix, Contiguous
  <2> QED BY <2>3, <2>5 DEF Inv1
<1>21. CASE Clear(o)
  <2>1. Rest'
    BY <1>21, <1>t DEF Clear, TypeOK, HasPhase, HasUnit
  <2> QED BY <1>21, <1>c, <2>1 DEF Clear, Inv1
<1>22. CASE Reread(o)
  <2>1. Rest'
    BY <1>22, <1>t, <1>p DEF Reread, TypeOK, HasPhase, HasUnit
  <2> QED BY <1>22, <1>c, <2>1 DEF Reread, Inv1
<1>23. CASE PublishBegin(o)
  <2>1. Rest'
    BY <1>23, <1>t DEF PublishBegin, TypeOK, HasPhase, HasUnit
  <2> QED BY <1>23, <1>c, <2>1 DEF PublishBegin, Inv1
<1>24. CASE PublishCommit(o)
  <2>1. Rest'
    BY <1>24, <1>t DEF PublishCommit, ReportFiles, TypeOK, HasPhase, HasUnit
  <2> QED BY <1>24, <1>c, <2>1 DEF PublishCommit, ReportFiles, Inv1
<1>25. CASE Crash(o)
  <2>1. Rest'
    BY <1>25, <1>t, <1>w DEF Crash, TypeOK, HasPhase, HasUnit
  <2> QED BY <1>25, <1>c, <2>1 DEF Crash, Inv1
<1>26. CASE SupervisorExits(o)
  <2>1. Rest'
    BY <1>26, <1>t DEF SupervisorExits, TypeOK, HasPhase, HasUnit
  <2> QED BY <1>26, <1>c, <2>1 DEF SupervisorExits, Inv1
<1> QED BY <1>1, <1>2, <1>3, <1>4, <1>5, <1>6, <1>7, <1>8, <1>9, <1>10, <1>11, <1>12, <1>13, <1>14, <1>15, <1>16, <1>17, <1>18, <1>19, <1>20, <1>21, <1>22, <1>23, <1>24, <1>25, <1>26 DEF OwnerStep, Step

-----------------------------------------------------------------------------
(* Layer 2: the lease. *)

\* A step lets nobody take the lease but the stepping owner, and that one
\* only if it was free.
LEMMA HoldersStep ==
  ASSUME TypeOK, NEW o \in Owners, OwnerStep(o)
  PROVE  \/ LeaseHolders' \subseteq LeaseHolders
         \/ LeaseHolders = {} /\ LeaseHolders' \subseteq {o}
<1> USE DEF Stopped, Critical, Outside, owner, disk, Go, LeaseHolders, Retained, None
<1>1. CASE Open(o) \/ Lock(o)
  BY <1>1 DEF Open, Lock, TakeLease, LeaseFree, TypeOK
<1>2. CASE RunUnit(o)
  BY <1>2 DEF RunUnit, TypeOK
<1>3. CASE Start(o) \/ Busy(o) \/ ReadOpened(o) \/ FailClosed(o) \/ PhaseDone(o)
  BY <1>3 DEF Start, Busy, ReadOpened, AfterOpen, FailClosed, PhaseDone, TypeOK
<1>4. CASE Read(o) \/ RemoveReconciled(o) \/ NothingDue(o) \/ ArmBegin(o)
           \/ ArmCommit(o) \/ ArmAgain(o) \/ ArmRefused(o)
  BY <1>4 DEF Read, RemoveReconciled, NothingDue, ArmBegin, ArmCommit, ArmAgain,
              ArmRefused, TypeOK
<1>5. CASE RunCancelled(o) \/ RunThrows(o) \/ RunEnds(o) \/ RunUndrained(o)
  BY <1>5 DEF RunCancelled, RunThrows, RunEnds, RunUndrained, TypeOK
<1>6. CASE Commit(o) \/ Clear(o) \/ Reread(o)
  BY <1>6 DEF Commit, Clear, Reread, TypeOK
<1>7. CASE PublishBegin(o) \/ PublishCommit(o)
  BY <1>7 DEF PublishBegin, PublishCommit, TypeOK
<1>8. CASE Crash(o) \/ SupervisorExits(o)
  BY <1>8 DEF Crash, SupervisorExits, TypeOK
<1> QED BY <1>1, <1>2, <1>3, <1>4, <1>5, <1>6, <1>7, <1>8 DEF OwnerStep, Step

LEMMA Step2 ==
  ASSUME TypeOK, LeaseExclusive, NEW o \in Owners, OwnerStep(o)
  PROVE  LeaseExclusive'
BY HoldersStep DEF LeaseExclusive

\* While an owner is in its critical section no other owner is in its own.
LEMMA Alone ==
  ASSUME LeaseExclusive, NEW o \in Owners, pc[o] \in Critical,
         NEW q \in Owners, q # o
  PROVE  pc[q] \notin Critical
BY DEF LeaseExclusive, LeaseHolders

-----------------------------------------------------------------------------
(* Layer 3: what the holder of the lease knows. *)

Knows == {"arm", "arming", "armed", "running", "ran"}
Named == {"armed", "running", "ran", "recorded"}

\* Its view is the unit that is due; the breadcrumb is absent when it starts
\* to write one, and then names the unit, until the envelope is committed.
Knowledge(o) ==
  /\ pc[o] \in Knows => DueIs(PhaseOf(o), view[o])
  /\ pc[o] = "arming" => armed = None
  /\ pc[o] \in Named => armed = Wanted(o)
  /\ pc[o] = "running" => attempt[o] = Wanted(o)
  /\ pc[o] = "recorded" =>
       view[o] \in 1..Total[PhaseOf(o)] /\ committed[PhaseOf(o)] = 1..view[o]

\* The breadcrumb is the due unit of its phase or the last one committed.
LastIs(p, u) == u \in 1..Total[p] /\ committed[p] = 1..u
Classified == \/ armed = None
              \/ /\ armed.phase \in Phases
                 /\ armed.unit # 0
                 /\ DueIs(armed.phase, armed.unit) \/ LastIs(armed.phase, armed.unit)

Inv3 == (\A o \in Owners : Knowledge(o)) /\ Classified

LEMMA ClassifiedMeans ==
  ASSUME Inv1, Classified
  PROVE  BreadcrumbClassifiable
<1>1. CASE armed = None
  BY <1>1 DEF BreadcrumbClassifiable
<1>2. CASE armed # None
  <2>1. armed.phase \in Phases /\ armed.unit \in Nat
    BY <1>2 DEF Inv1, TypeOK, Unit
  <2>2. CASE DueIs(armed.phase, armed.unit)
    BY <1>2, <2>1, <2>2, DueUnique DEF BreadcrumbClassifiable, Interrupted
  <2>3. CASE LastIs(armed.phase, armed.unit)
    <3>1. armed.unit \in 0..Total[armed.phase]
      BY <2>1, <2>3, TotalAssumption DEF LastIs
    <3>2. Frontier(armed.phase) = armed.unit
      BY <2>1, <2>3, <3>1, FrontierIs DEF LastIs
    <3> QED BY <1>2, <3>2 DEF BreadcrumbClassifiable, Reconciled
  <2> QED BY <1>2, <2>2, <2>3 DEF Classified
<1> QED BY <1>1, <1>2

\* A step of one owner leaves the others' own variables alone, and what is on
\* disk too unless it is in its critical section.
LEMMA Frame ==
  ASSUME TypeOK, NEW o \in Owners, OwnerStep(o), NEW q \in Owners, q # o
  PROVE  /\ pc'[q] = pc[q] /\ job'[q] = job[q] /\ at'[q] = at[q]
         /\ view'[q] = view[q] /\ attempt'[q] = attempt[q]
         /\ (committed' = committed /\ armed' = armed) \/ pc[o] \in Critical
<1> USE DEF Stopped, Critical, Outside, owner, disk, Go
<1>1. CASE Open(o) \/ Lock(o) \/ RunUnit(o)
  BY <1>1 DEF Open, Lock, TakeLease, RunUnit, TypeOK
<1>2. CASE Start(o) \/ Busy(o) \/ ReadOpened(o) \/ FailClosed(o) \/ PhaseDone(o)
  BY <1>2 DEF Start, Busy, ReadOpened, AfterOpen, FailClosed, PhaseDone, TypeOK
<1>3. CASE Read(o) \/ RemoveReconciled(o) \/ NothingDue(o) \/ ArmBegin(o)
           \/ ArmCommit(o) \/ ArmAgain(o) \/ ArmRefused(o)
  BY <1>3 DEF Read, RemoveReconciled, NothingDue, ArmBegin, ArmCommit, ArmAgain,
              ArmRefused, TypeOK
<1>4. CASE RunCancelled(o) \/ RunThrows(o) \/ RunEnds(o) \/ RunUndrained(o)
  BY <1>4 DEF RunCancelled, RunThrows, RunEnds, RunUndrained, TypeOK
<1>5. CASE Commit(o) \/ Clear(o) \/ Reread(o)
  BY <1>5 DEF Commit, Clear, Reread, TypeOK
<1>6. CASE PublishBegin(o) \/ PublishCommit(o)
  BY <1>6 DEF PublishBegin, PublishCommit, TypeOK
<1>7. CASE Crash(o) \/ SupervisorExits(o)
  BY <1>7 DEF Crash, SupervisorExits, TypeOK
<1> QED BY <1>1, <1>2, <1>3, <1>4, <1>5, <1>6, <1>7 DEF OwnerStep, Step

LEMMA OthersKeepKnowledge ==
  ASSUME Inv1, LeaseExclusive, NEW o \in Owners, OwnerStep(o),
         NEW q \in Owners, q # o, Knowledge(q)
  PROVE  Knowledge(q)'
<1>1. /\ pc'[q] = pc[q] /\ job'[q] = job[q] /\ at'[q] = at[q]
      /\ view'[q] = view[q] /\ attempt'[q] = attempt[q]
      /\ (committed' = committed /\ armed' = armed) \/ pc[o] \in Critical
  BY Frame DEF Inv1
<1>2. CASE pc[o] \in Critical
  <2>1. pc[q] \notin Critical
    BY <1>2, Alone
  <2> QED BY <1>1, <2>1 DEF Knowledge, Critical, Knows, Named
<1>3. CASE committed' = committed /\ armed' = armed
  BY <1>1, <1>3 DEF Knowledge, PhaseOf, Wanted, DueIs
<1> QED BY <1>1, <1>2, <1>3

\* Steps that end outside the part of the critical section that has a unit,
\* and touch nothing on disk.
LEMMA QuietStep ==
  ASSUME Classified, NEW o \in Owners,
         pc'[o] \notin Knows \union Named, committed' = committed, armed' = armed
  PROVE  Knowledge(o)' /\ Classified'
BY DEF Knowledge, Classified, DueIs, LastIs, Knows, Named

\* What a step does to its owner's knowledge and to the breadcrumb.
LEMMA OwnKnowledge ==
  ASSUME Inv1, NEW o \in Owners, OwnerStep(o), Knowledge(o), Classified
  PROVE  Knowledge(o)' /\ Classified'
<1> USE DEF Stopped, Critical, Outside, Knows, Named, owner, disk, Go
<1>t. TypeOK /\ HasPhase /\ HasUnit /\ ContiguousPrefix
  BY DEF Inv1
<1>p. pc[o] \in Placed =>
        PhaseOf(o) \in Phases /\ DueIs(PhaseOf(o), Due(PhaseOf(o)))
  BY <1>t, PhaseOfType, DueIsDue DEF HasPhase, ContiguousPrefix
<1>1. CASE Start(o) \/ Busy(o) \/ Open(o) \/ ReadOpened(o) \/ FailClosed(o)
           \/ PhaseDone(o) \/ Lock(o)
  BY <1>1, <1>t, QuietStep
     DEF Start, Busy, Open, ReadOpened, AfterOpen, FailClosed, PhaseDone, Lock,
         TakeLease, TypeOK
<1>2. CASE NothingDue(o) \/ ArmRefused(o) \/ RunThrows(o) \/ Reread(o)
           \/ PublishBegin(o) \/ PublishCommit(o)
  BY <1>2, <1>t, QuietStep
     DEF NothingDue, ArmRefused, RunThrows, Reread, PublishBegin, PublishCommit, TypeOK
<1>3. CASE Read(o)
  <2>1. pc'[o] = "arm" /\ PhaseOf(o)' = PhaseOf(o) /\ view'[o] = Due(PhaseOf(o))
    BY <1>3, <1>t DEF Read, TypeOK, PhaseOf
  <2>2. committed' = committed /\ armed' = armed
    BY <1>3 DEF Read
  <2>3. DueIs(PhaseOf(o), view[o])'
    BY <1>3, <1>p, <2>1, <2>2 DEF Read, Placed, DueIs
  <2> QED BY <2>1, <2>2, <2>3 DEF Knowledge, Classified, DueIs, LastIs
<1>4. CASE RemoveReconciled(o)
  BY <1>4 DEF RemoveReconciled, Knowledge, Classified, DueIs, PhaseOf
<1>5. CASE ArmBegin(o) \/ ArmAgain(o) \/ RunCancelled(o) \/ RunEnds(o) \/ RunUndrained(o)
  <2>1. /\ pc[o] \in Knows /\ pc'[o] \in {"arming", "armed", "ran"}
        /\ pc'[o] = "arming" => armed = None
        /\ pc'[o] \in Named => armed = Wanted(o)
    BY <1>5, <1>t DEF ArmBegin, ArmAgain, RunCancelled, RunEnds, RunUndrained,
                      TypeOK, Knowledge
  <2>2. /\ committed' = committed /\ armed' = armed
        /\ job' = job /\ at' = at /\ view' = view
    BY <1>5 DEF ArmBegin, ArmAgain, RunCancelled, RunEnds, RunUndrained
  <2> QED BY <2>1, <2>2 DEF Knowledge, Classified, DueIs, LastIs, Wanted, PhaseOf
<1>6. CASE ArmCommit(o)
  <2>1. PhaseOf(o) \in Phases /\ view[o] # 0 /\ DueIs(PhaseOf(o), view[o])
    BY <1>6, <1>t, <1>p DEF ArmCommit, Placed, Chosen, HasUnit, Knowledge
  <2>2. /\ pc'[o] = "armed" /\ armed' = Wanted(o) /\ committed' = committed
        /\ job' = job /\ at' = at /\ view' = view
    BY <1>6, <1>t DEF ArmCommit, TypeOK
  <2> QED BY <2>1, <2>2 DEF Knowledge, Classified, DueIs, Wanted, PhaseOf
<1>7. CASE RunUnit(o)
  <2>1. /\ pc[o] = "armed" /\ pc'[o] = "running" /\ attempt'[o] = Wanted(o)
        /\ committed' = committed /\ armed' = armed
        /\ job' = job /\ at' = at /\ view' = view
    BY <1>7, <1>t DEF RunUnit, TypeOK
  <2> QED BY <2>1 DEF Knowledge, Classified, DueIs, LastIs, Wanted, PhaseOf
<1>8. CASE Commit(o)
  <2>1. /\ PhaseOf(o) \in Phases /\ view[o] \in Nat \ {0}
        /\ DueIs(PhaseOf(o), view[o]) /\ armed = Wanted(o)
    BY <1>8, <1>t, <1>p DEF Commit, Placed, Chosen, HasUnit, Knowledge, TypeOK
  <2>2. armed' = armed /\ job' = job /\ at' = at /\ view' = view
    BY <1>8 DEF Commit
  <2>3. CASE view[o] # Due(PhaseOf(o))
    BY <1>8, <1>t, <2>3, QuietStep DEF Commit, TypeOK
  <2>4. CASE view[o] = Due(PhaseOf(o))
    <3>1. Total[PhaseOf(o)] \in Nat
      BY <2>1, TotalAssumption
    <3>2. view[o] \in 1..Total[PhaseOf(o)] /\ committed[PhaseOf(o)] = 1..(view[o] - 1)
      BY <2>1 DEF DueIs
    <3>3. committed'[PhaseOf(o)] = committed[PhaseOf(o)] \union {view[o]}
      BY <1>8, <1>t, <2>1, <2>4 DEF Commit, TypeOK
    <3>4. committed'[PhaseOf(o)] = 1..view[o]
      BY <3>1, <3>2, <3>3
    <3>5. pc'[o] = "recorded" /\ PhaseOf(o)' = PhaseOf(o)
      BY <1>8, <1>t, <2>2, <2>4 DEF Commit, TypeOK, PhaseOf
    <3>6. Knowledge(o)'
      BY <2>1, <2>2, <3>2, <3>4, <3>5 DEF Knowledge, Wanted
    <3>7. Classified'
      BY <2>1, <2>2, <3>2, <3>4 DEF Classified, LastIs, Wanted
    <3> QED BY <3>6, <3>7
  <2> QED BY <2>3, <2>4
<1>9. CASE Clear(o)
  BY <1>9, <1>t DEF Clear, Knowledge, Classified, TypeOK
<1>10. CASE Crash(o)
  <2>1. pc'[o] = "crashed" /\ committed' = committed
    BY <1>10, <1>t DEF Crash, TypeOK
  <2>2. CASE armed' = armed
    BY <2>1, <2>2, QuietStep
  <2>3. CASE pc[o] = "arming" /\ armed' = Wanted(o)
    <3>1. PhaseOf(o) \in Phases /\ view[o] # 0 /\ DueIs(PhaseOf(o), view[o])
      BY <2>3, <1>t, <1>p DEF Placed, Chosen, HasUnit, Knowledge
    <3> QED BY <2>1, <2>3, <3>1 DEF Knowledge, Classified, DueIs, Wanted
  <2> QED BY <1>10, <2>2, <2>3 DEF Crash
<1>11. CASE SupervisorExits(o)
  <2>1. /\ pc' = pc /\ pc[o] # "running" /\ committed' = committed /\ armed' = armed
        /\ job' = job /\ at' = at /\ view' = view
    BY <1>11 DEF SupervisorExits
  <2> QED BY <2>1 DEF Knowledge, Classified, DueIs, LastIs, Wanted, PhaseOf
<1> QED BY <1>1, <1>2, <1>3, <1>4, <1>5, <1>6, <1>7, <1>8, <1>9, <1>10, <1>11
        DEF OwnerStep, Step

LEMMA Step3 ==
  ASSUME Inv1, LeaseExclusive, Inv3, NEW o \in Owners, OwnerStep(o)
  PROVE  Inv3'
<1>1. Knowledge(o)' /\ Classified'
  BY OwnKnowledge DEF Inv3
<1>2. \A q \in Owners : q # o => Knowledge(q)'
  BY OthersKeepKnowledge DEF Inv3
<1> QED BY <1>1, <1>2 DEF Inv3

-----------------------------------------------------------------------------
(* The theorems. *)

Inv == Inv1 /\ LeaseExclusive /\ Inv3

LEMMA InitInv == Init => Inv
<1> SUFFICES ASSUME Init PROVE Inv
  OBVIOUS
<1>1. LeaseExclusive
  BY DEF Init, LeaseExclusive, LeaseHolders, Retained, Critical
<1>2. Inv3
  BY DEF Init, Inv3, Knowledge, Classified, Knows, Named
<1> QED BY <1>1, <1>2, Init1 DEF Inv

LEMMA NextInv == Inv /\ [Next]_vars => Inv'
<1> SUFFICES ASSUME Inv, [Next]_vars PROVE Inv'
  OBVIOUS
<1>1. CASE Next
  <2>1. PICK o \in Owners : OwnerStep(o)
    BY <1>1 DEF Next, OwnerStep
  <2> QED BY <2>1, Step1, Step2, Step3 DEF Inv, Inv1
<1>2. CASE UNCHANGED vars
  BY <1>2 DEF vars, Inv, Inv1, TypeOK, HasPhase, HasUnit, ContiguousPrefix, Contiguous,
     LeaseExclusive, LeaseHolders, Retained, Inv3, Knowledge, Classified, DueIs, LastIs,
     Wanted, PhaseOf
<1> QED BY <1>1, <1>2

LEMMA Invariance == Spec => []Inv
BY InitInv, NextInv, PTL DEF Spec

\* Types are kept whatever the owners do.
THEOREM TypeCorrect == Spec => []TypeOK
<1>1. Inv => TypeOK
  BY DEF Inv, Inv1
<1> QED BY <1>1, Invariance, PTL

\* Every phase store is a contiguous prefix of its schedule, for any number
\* of owners with any jobs, crashing at any point.
THEOREM StoresContiguous == Spec => []ContiguousPrefix
<1>1. Inv => ContiguousPrefix
  BY DEF Inv, Inv1
<1> QED BY <1>1, Invariance, PTL

\* The lease has at most one holder, supervisors that outlive their owner
\* included.
THEOREM LeaseIsExclusive == Spec => []LeaseExclusive
<1>1. Inv => LeaseExclusive
  BY DEF Inv
<1> QED BY <1>1, Invariance, PTL

\* If every phase's runner passes the descriptor on, no two supervised
\* attempts ever overlap.
THEOREM AttemptsNeverOverlap ==
  ASSUME Phases \subseteq Retaining
  PROVE  Spec => []NoOverlap
<1>1. Inv => NoOverlap
  BY DEF Inv, Inv1, TypeOK, Unit, LeaseExclusive, LeaseHolders, Retained, NoOverlap
<1> QED BY <1>1, Invariance, PTL

\* The breadcrumb is always the due or the last committed unit of its phase:
\* the reader's "fails closed" case is never what a crash leaves.
THEOREM BreadcrumbAlwaysClassifiable == Spec => []BreadcrumbClassifiable
<1>1. Inv => BreadcrumbClassifiable
  BY ClassifiedMeans DEF Inv, Inv3
<1> QED BY <1>1, Invariance, PTL

\* A unit that is executing is the one the breadcrumb names, and is not yet
\* committed.
THEOREM BreadcrumbNamesWhatRuns == Spec => []BreadcrumbNamesAttempt
<1>1. ASSUME Inv PROVE BreadcrumbNamesAttempt
  <2> SUFFICES ASSUME NEW o \in Owners, pc[o] = "running"
               PROVE  attempt[o] = armed /\ attempt[o].unit \notin committed[attempt[o].phase]
    BY DEF BreadcrumbNamesAttempt
  <2>1. /\ attempt[o] = Wanted(o) /\ armed = Wanted(o)
        /\ DueIs(PhaseOf(o), view[o]) /\ view[o] # 0
    BY <1>1 DEF Inv, Inv1, Inv3, Knowledge, Knows, Named, HasUnit, Chosen
  <2>2. view[o] \in Nat /\ committed[PhaseOf(o)] = 1..(view[o] - 1)
    BY <1>1, <2>1 DEF DueIs, Inv, Inv1, TypeOK
  <2>3. view[o] \notin committed[PhaseOf(o)]
    BY <2>2
  <2> QED BY <2>1, <2>3 DEF Wanted
<1> QED BY <1>1, Invariance, PTL

-----------------------------------------------------------------------------
(* Commits, completeness and the campaign. *)

\* What any step does to the stores: nothing, or the unit its owner holds the
\* lease for, wrote the breadcrumb of and ran with a valid outcome.
LEMMA CommitStep ==
  ASSUME Inv, NEW o \in Owners, OwnerStep(o), committed' # committed
  PROVE  /\ pc[o] = "ran" /\ good[o] /\ PhaseOf(o) \in Phases
         /\ view[o] \in 1..Total[PhaseOf(o)]
         /\ committed[PhaseOf(o)] = 1..(view[o] - 1)
         /\ view[o] = Due(PhaseOf(o))
         /\ armed = Wanted(o) /\ armed' = armed
         /\ committed' = [committed EXCEPT ![PhaseOf(o)] = @ \union {view[o]}]
<1>1. Commit(o)
  BY DEF OwnerStep, Step, Start, Busy, Open, ReadOpened, FailClosed, PhaseDone, Lock, Read,
         RemoveReconciled, NothingDue, ArmBegin, ArmCommit, ArmAgain, ArmRefused, RunUnit,
         RunCancelled, RunThrows, RunEnds, RunUndrained, Clear, Reread, PublishBegin,
         PublishCommit, Crash, SupervisorExits, TakeLease, disk
<1>2. PhaseOf(o) \in Phases
  BY <1>1, PhaseOfType DEF Commit, Inv, Inv1, HasPhase, Placed
<1>3. /\ view[o] \in Nat /\ view[o] # 0 /\ DueIs(PhaseOf(o), view[o])
      /\ armed = Wanted(o)
  BY <1>1 DEF Commit, Inv, Inv1, Inv3, TypeOK, HasUnit, Chosen, Knowledge, Knows, Named
<1> QED BY <1>1, <1>2, <1>3 DEF Commit, DueIs

\* A store only grows, by the unit whose attempt has just drained.
THEOREM CommitsOnlyWhatItRan == Spec => CommitsWhatItRan
<1>1. ASSUME Inv, Next, NEW p \in Phases, committed'[p] # committed[p]
      PROVE  \E o \in LeaseHolders :
               /\ pc[o] = "ran" /\ good[o]
               /\ armed = [phase |-> p, unit |-> Frontier(p) + 1]
               /\ committed'[p] = committed[p] \union {armed.unit}
  <2>1. PICK o \in Owners : OwnerStep(o)
    BY <1>1 DEF Next, OwnerStep
  <2>2. /\ pc[o] = "ran" /\ good[o] /\ PhaseOf(o) \in Phases
        /\ view[o] \in 1..Total[PhaseOf(o)]
        /\ committed[PhaseOf(o)] = 1..(view[o] - 1)
        /\ armed = Wanted(o)
        /\ committed' = [committed EXCEPT ![PhaseOf(o)] = @ \union {view[o]}]
    BY <1>1, <2>1, CommitStep
  <2>3. p = PhaseOf(o) /\ committed'[p] = committed[p] \union {view[o]}
    BY <1>1, <2>2 DEF Inv, Inv1, TypeOK
  <2>4. Total[p] \in Nat
    BY TotalAssumption
  <2>5. Frontier(p) = view[o] - 1
    BY <2>2, <2>3, <2>4, FrontierIs
  <2>6. o \in LeaseHolders
    BY <2>2 DEF LeaseHolders, Critical
  <2> QED BY <2>2, <2>3, <2>4, <2>5, <2>6 DEF Wanted
<1>2. Inv /\ [Next]_vars =>
        [\A p \in Phases : committed'[p] # committed[p] =>
           \E o \in LeaseHolders :
             /\ pc[o] = "ran" /\ good[o]
             /\ armed = [phase |-> p, unit |-> Frontier(p) + 1]
             /\ committed'[p] = committed[p] \union {armed.unit}]_vars
  BY <1>1
<1> QED BY <1>2, Invariance, PTL DEF Spec, CommitsWhatItRan

\* A complete phase stays complete.
LEMMA CompleteStays ==
  ASSUME Inv, NEW o \in Owners, OwnerStep(o), NEW p \in Phases, Complete(p)
  PROVE  Complete(p)'
<1>1. CASE committed' = committed
  BY <1>1 DEF Complete
<1>2. CASE committed' # committed
  <2>1. /\ PhaseOf(o) \in Phases /\ view[o] \in 1..Total[PhaseOf(o)]
        /\ committed[PhaseOf(o)] = 1..(view[o] - 1)
        /\ committed' = [committed EXCEPT ![PhaseOf(o)] = @ \union {view[o]}]
    BY <1>2, CommitStep
  <2>2. p # PhaseOf(o)
    <3>1. SUFFICES ASSUME p = PhaseOf(o) PROVE FALSE
      OBVIOUS
    <3>2. Total[p] \in Nat /\ view[o] \in 1..Total[p]
      BY <2>1, <3>1, TotalAssumption
    <3>3. view[o] \in committed[p] /\ view[o] \notin 1..(view[o] - 1)
      BY <3>2 DEF Complete
    <3> QED BY <2>1, <3>1, <3>3
  <2> QED BY <2>1, <2>2 DEF Complete, Inv, Inv1, TypeOK
<1> QED BY <1>1, <1>2

\* An owner that has left a phase behind, or is about to, saw it complete;
\* one that publishes saw all of them complete.
Finished(o) ==
  /\ pc[o] = "new" => at[o] = 1
  /\ \A i \in 1..Len(job[o]) : i < at[o] => Complete(job[o][i])
  /\ pc[o] = "loop" /\ view[o] = 0 => Complete(PhaseOf(o))
  /\ pc[o] \in {"publish", "publishing"} => \A p \in Phases : Complete(p)

Inv4 == (\A o \in Owners : Finished(o)) /\ ReportOnlyWhenComplete

\* A unit number 0 means that nothing is due because all is done.
LEMMA ZeroDue ==
  ASSUME ContiguousPrefix, NEW p \in Phases, Due(p) = 0
  PROVE  Complete(p)
<1>1. DueIs(p, 0) /\ Total[p] \in Nat
  BY DueIsDue, TotalAssumption DEF ContiguousPrefix
<1> QED BY <1>1 DEF DueIs, Complete

LEMMA OthersFinished ==
  ASSUME Inv, NEW o \in Owners, OwnerStep(o), NEW q \in Owners, q # o, Finished(q)
  PROVE  Finished(q)'
<1>1. /\ pc'[q] = pc[q] /\ job'[q] = job[q] /\ at'[q] = at[q] /\ view'[q] = view[q]
  BY Frame DEF Inv, Inv1
<1>2. \A i \in 1..Len(job[q]) : job[q][i] \in Phases
  <2>1. << >> \in Seq(Phases)
    OBVIOUS
  <2>2. job[q] \in Seq(Phases)
    BY <2>1, JobsAssumption DEF Inv, Inv1, TypeOK
  <2> QED BY <2>2
<1>3. pc[q] = "loop" => PhaseOf(q) \in Phases
  BY PhaseOfType DEF Inv, Inv1, HasPhase, Placed
<1>4. \A p \in Phases : Complete(p) => Complete(p)'
  BY CompleteStays
<1> QED BY <1>1, <1>2, <1>3, <1>4 DEF Finished, PhaseOf, Complete

LEMMA OwnFinished ==
  ASSUME Inv, NEW o \in Owners, OwnerStep(o), Finished(o), ReportOnlyWhenComplete
  PROVE  Finished(o)' /\ ReportOnlyWhenComplete'
<1> USE DEF Stopped, Critical, Outside, owner, disk, Go
<1>t. TypeOK /\ HasPhase /\ ContiguousPrefix
  BY DEF Inv, Inv1
<1>j. /\ job[o] \in Seq(Phases) /\ Len(job[o]) \in Nat /\ at[o] \in Nat \ {0}
      /\ \A i \in 1..Len(job[o]) : job[o][i] \in Phases
  <2>1. << >> \in Seq(Phases)
    OBVIOUS
  <2>2. job[o] \in Seq(Phases)
    BY <1>t, <2>1, JobsAssumption DEF TypeOK
  <2> QED BY <1>t, <2>2 DEF TypeOK
<1>s. \A p \in Phases : Complete(p) => Complete(p)'
  BY CompleteStays
<1>1. CASE Start(o)
  <2>1. PICK j \in Jobs : job' = [job EXCEPT ![o] = j]
    BY <1>1 DEF Start
  <2>2. pc[o] = "new" /\ pc'[o] = "open" /\ at'[o] = 1 /\ published' = published
    BY <1>1, <1>t DEF Start, TypeOK, Finished
  <2>3. Len(job'[o]) \in Nat
    BY <1>t, <2>1, JobsAssumption DEF TypeOK
  <2> QED BY <1>s, <2>2, <2>3 DEF Finished, ReportOnlyWhenComplete
<1>2. CASE ReadOpened(o)
  <2>1. /\ job' = job /\ at' = at /\ committed' = committed /\ published' = published
        /\ pc'[o] = AfterOpen(o)
        /\ view'[o] = IF JobDone(o) THEN 0 ELSE Due(PhaseOf(o))
    BY <1>2, <1>t DEF ReadOpened, TypeOK
  <2>2. CASE ~JobDone(o)
    <3>1. PhaseOf(o) \in Phases /\ pc'[o] = "loop" /\ view'[o] = Due(PhaseOf(o))
      BY <1>j, <2>1, <2>2, PhaseOfType DEF JobDone, AfterOpen, Inv
    <3>2. view'[o] = 0 => Complete(PhaseOf(o))
      BY <1>t, <3>1, ZeroDue
    <3> QED BY <2>1, <3>1, <3>2 DEF Finished, PhaseOf, Complete, ReportOnlyWhenComplete
  <2>3. CASE JobDone(o)
    <3>1. pc'[o] \in {"publish", "stopped"}
      BY <2>1, <2>3 DEF AfterOpen
    <3>2. pc'[o] = "publish" => \A p \in Phases : Complete(p)
      BY <1>t, <2>1, <2>3, ZeroDue DEF AfterOpen
    <3> QED BY <2>1, <3>1, <3>2 DEF Finished, PhaseOf, Complete, ReportOnlyWhenComplete
  <2> QED BY <2>2, <2>3
<1>3. CASE PhaseDone(o)
  <2>1. /\ pc[o] = "loop" /\ view[o] = 0 /\ pc'[o] \in {"open", "stopped"}
        /\ at'[o] = at[o] + 1 /\ job' = job
        /\ committed' = committed /\ published' = published
    BY <1>3, <1>t DEF PhaseDone, TypeOK
  <2>2. Complete(job[o][at[o]])
    BY <2>1 DEF Finished, PhaseOf
  <2>3. \A i \in 1..Len(job[o]) : i < at[o] + 1 => Complete(job[o][i])
    BY <1>j, <2>2 DEF Finished
  <2> QED BY <1>j, <2>1, <2>3 DEF Finished, Complete, ReportOnlyWhenComplete
<1>4. CASE Reread(o)
  <2>1. /\ pc[o] = "cleared" /\ pc'[o] \in {"loop", "stopped"}
        /\ view'[o] = Due(PhaseOf(o)) /\ job' = job /\ at' = at
        /\ committed' = committed /\ published' = published
    BY <1>4, <1>t DEF Reread, TypeOK
  <2>2. PhaseOf(o) \in Phases
    BY <1>t, <2>1, PhaseOfType DEF HasPhase, Placed, Inv
  <2>3. view'[o] = 0 => Complete(PhaseOf(o))
    BY <1>t, <2>1, <2>2, ZeroDue
  <2> QED BY <2>1, <2>3 DEF Finished, PhaseOf, Complete, ReportOnlyWhenComplete
<1>5. CASE PublishBegin(o) \/ PublishCommit(o)
  <2>1. /\ pc[o] \in {"publish", "publishing"}
        /\ pc'[o] \in {"publish", "publishing", "stopped"}
        /\ job' = job /\ at' = at /\ committed' = committed
    BY <1>5, <1>t DEF PublishBegin, PublishCommit, TypeOK
  <2> QED BY <2>1 DEF Finished, Complete, ReportOnlyWhenComplete
<1>6. CASE Commit(o)
  <2>1. /\ pc'[o] \in {"recorded", "stopped"} /\ job' = job /\ at' = at
        /\ published' = published
    BY <1>6, <1>t DEF Commit, TypeOK
  <2> QED BY <1>j, <1>s, <2>1 DEF Finished, ReportOnlyWhenComplete
<1>7. CASE \/ Busy(o) \/ Open(o) \/ FailClosed(o) \/ Lock(o) \/ Read(o) \/ RemoveReconciled(o)
           \/ NothingDue(o) \/ ArmBegin(o) \/ ArmCommit(o) \/ ArmAgain(o) \/ ArmRefused(o)
           \/ RunUnit(o) \/ RunCancelled(o) \/ RunThrows(o) \/ RunEnds(o) \/ RunUndrained(o)
           \/ Clear(o) \/ Crash(o)
  <2>1. /\ pc'[o] \notin {"new", "loop", "publish", "publishing"}
        /\ job' = job /\ at' = at /\ committed' = committed /\ published' = published
    <3>1. CASE \/ Busy(o) \/ Open(o) \/ FailClosed(o) \/ Lock(o) \/ Read(o)
               \/ RemoveReconciled(o) \/ NothingDue(o) \/ ArmBegin(o) \/ ArmCommit(o)
      BY <1>t, <3>1 DEF Busy, Open, FailClosed, Lock, TakeLease, Read, RemoveReconciled,
         NothingDue, ArmBegin, ArmCommit, TypeOK
    <3>2. CASE \/ ArmAgain(o) \/ ArmRefused(o) \/ RunUnit(o) \/ RunCancelled(o)
               \/ RunThrows(o) \/ RunEnds(o) \/ RunUndrained(o) \/ Clear(o) \/ Crash(o)
      BY <1>t, <3>2 DEF ArmAgain, ArmRefused, RunUnit, RunCancelled, RunThrows, RunEnds,
         RunUndrained, Clear, Crash, TypeOK
    <3> QED BY <1>7, <3>1, <3>2
  <2> QED BY <2>1 DEF Finished, Complete, ReportOnlyWhenComplete
<1>8. CASE SupervisorExits(o)
  BY <1>8 DEF SupervisorExits, Finished, Complete, ReportOnlyWhenComplete, PhaseOf
<1> QED BY <1>1, <1>2, <1>3, <1>4, <1>5, <1>6, <1>7, <1>8 DEF OwnerStep, Step

LEMMA Invariance4 == Spec => []Inv4
<1>1. Init => Inv4
  BY DEF Init, Inv4, Finished, ReportOnlyWhenComplete
<1>2. Inv /\ Inv4 /\ [Next]_vars => Inv4'
  <2> SUFFICES ASSUME Inv, Inv4, [Next]_vars PROVE Inv4'
    OBVIOUS
  <2>1. CASE Next
    <3>1. PICK o \in Owners : OwnerStep(o)
      BY <2>1 DEF Next, OwnerStep
    <3>2. Finished(o)' /\ ReportOnlyWhenComplete'
      BY <3>1, OwnFinished DEF Inv4
    <3>3. \A q \in Owners : q # o => Finished(q)'
      BY <3>1, OthersFinished DEF Inv4
    <3> QED BY <3>2, <3>3 DEF Inv4
  <2>2. CASE UNCHANGED vars
    BY <2>2 DEF vars, Inv4, Finished, ReportOnlyWhenComplete, Complete, PhaseOf
  <2> QED BY <2>1, <2>2
<1> QED BY <1>1, <1>2, Invariance, PTL DEF Spec

\* A report artifact is only ever published for a complete bundle, although
\* the publisher has given the lease back.
THEOREM ReportsAreComplete == Spec => []ReportOnlyWhenComplete
<1>1. Inv4 => ReportOnlyWhenComplete
  BY DEF Inv4
<1> QED BY <1>1, Invariance4, PTL

\* A campaign runs no unit of a phase before the phases ahead of it are
\* complete.
THEOREM CampaignsKeepOrder == Spec => []CampaignOrder
<1>1. ASSUME Inv, Inv4 PROVE CampaignOrder
  <2> SUFFICES ASSUME NEW o \in Owners, pc[o] = "running", job[o] = Campaign,
                      NEW i \in 1..(at[o] - 1)
               PROVE  Complete(Campaign[i])
    BY DEF CampaignOrder
  <2>1. at[o] \in Nat /\ at[o] <= Len(job[o]) /\ Len(job[o]) \in Nat
    <3>1. << >> \in Seq(Phases)
      OBVIOUS
    <3>2. job[o] \in Seq(Phases)
      BY <1>1, <3>1, JobsAssumption DEF Inv, Inv1, TypeOK
    <3> QED BY <1>1, <3>2 DEF Inv, Inv1, TypeOK, HasPhase, Placed
  <2>2. i \in 1..Len(job[o]) /\ i < at[o]
    BY <2>1
  <2> QED BY <1>1, <2>2 DEF Inv4, Finished
<1> QED BY <1>1, Invariance, Invariance4, PTL

-----------------------------------------------------------------------------
(* SchemaBundle implements BundleLedger. *)

Entered == IF armed # None /\ armed.unit \notin committed[armed.phase] THEN armed ELSE None

\* A due unit is not committed, a last one is; so the breadcrumb stands for
\* an entered unit until the commit, and no longer.
LEMMA EnteredWhenDue ==
  ASSUME Inv, NEW o \in Owners, pc[o] \in Knows, view[o] # 0
  PROVE  /\ PhaseOf(o) \in Phases /\ view[o] \in 1..Total[PhaseOf(o)]
         /\ committed[PhaseOf(o)] = 1..(view[o] - 1)
         /\ view[o] \notin committed[PhaseOf(o)]
<1>1. PhaseOf(o) \in Phases
  BY PhaseOfType DEF Inv, Inv1, HasPhase, Placed, Knows
<1>2. view[o] \in 1..Total[PhaseOf(o)] /\ committed[PhaseOf(o)] = 1..(view[o] - 1)
  BY DEF Inv, Inv3, Knowledge, DueIs
<1>3. Total[PhaseOf(o)] \in Nat
  BY <1>1, TotalAssumption
<1> QED BY <1>1, <1>2, <1>3

LEMMA WantedFields ==
  ASSUME NEW o \in Owners
  PROVE  /\ Wanted(o).phase = PhaseOf(o) /\ Wanted(o).unit = view[o]
         /\ view[o] # 0 => Wanted(o) # None
BY DEF Wanted, None

LEMMA LedgerStep ==
  ASSUME Inv, NEW o \in Owners, OwnerStep(o)
  PROVE  Ledger!Next \/ UNCHANGED Ledger!vars
<1> USE DEF Stopped, Critical, Outside, owner, disk, Go
<1>t. TypeOK /\ ContiguousPrefix /\ HasUnit /\ Knowledge(o)
  BY DEF Inv, Inv1, Inv3
<1>n. Ledger!None = None
  BY DEF Ledger!None, None
<1>w. /\ Wanted(o).phase = PhaseOf(o) /\ Wanted(o).unit = view[o]
      /\ view[o] # 0 => Wanted(o) # None
  BY WantedFields
<1>1. CASE committed' = committed /\ armed' = armed
  BY <1>1 DEF Ledger!vars
\* The breadcrumb of an owner that is arming becomes an entered unit, by its
\* own step or by the crash that interrupts it.
<1>2. ASSUME pc[o] = "arming", armed' = Wanted(o), committed' = committed
      PROVE  Ledger!Next
  <2>1. armed = None /\ view[o] # 0
    BY <1>t, <1>2 DEF Knowledge, HasUnit, Chosen
  <2>2. /\ PhaseOf(o) \in Phases /\ view[o] \in 1..Total[PhaseOf(o)]
        /\ committed[PhaseOf(o)] = 1..(view[o] - 1)
        /\ view[o] \notin committed[PhaseOf(o)]
    BY <1>2, <2>1, EnteredWhenDue DEF Knows
  <2>3. Entered = None /\ Entered' = Wanted(o)
    BY <1>2, <1>w, <2>1, <2>2 DEF Entered
  <2>4. Ledger!Enter(PhaseOf(o), view[o])
    BY <1>2, <1>n, <2>2, <2>3 DEF Ledger!Enter, Entered, Wanted
  <2> QED BY <2>2, <2>4 DEF Ledger!Next
<1>3. CASE ArmCommit(o)
  BY <1>2, <1>3 DEF ArmCommit
<1>4. CASE Crash(o)
  BY <1>1, <1>2, <1>4 DEF Crash
<1>5. CASE Commit(o)
  <2>1. CASE committed' = committed
    BY <1>1, <1>5, <2>1 DEF Commit
  <2>2. CASE committed' # committed
    <3>1. /\ PhaseOf(o) \in Phases /\ armed = Wanted(o) /\ armed' = armed
          /\ view[o] \in 1..Total[PhaseOf(o)]
          /\ committed[PhaseOf(o)] = 1..(view[o] - 1)
          /\ committed' = [committed EXCEPT ![PhaseOf(o)] = @ \union {view[o]}]
      BY <2>2, CommitStep
    <3>2. Total[PhaseOf(o)] \in Nat /\ view[o] # 0 /\ view[o] \notin committed[PhaseOf(o)]
      BY <3>1, TotalAssumption
    <3>3. Entered = Wanted(o)
      BY <1>w, <3>1, <3>2 DEF Entered
    <3>4. view[o] \in committed'[PhaseOf(o)]
      BY <1>t, <3>1 DEF TypeOK
    <3>5. Entered' = None
      BY <1>w, <3>1, <3>4 DEF Entered
    <3>6. Ledger!Complete(PhaseOf(o))
      BY <1>n, <1>w, <3>1, <3>3, <3>5 DEF Ledger!Complete, Entered
    <3> QED BY <3>1, <3>6 DEF Ledger!Next
  <2> QED BY <2>1, <2>2
\* Removing the breadcrumb abandons an entered unit, or does not matter any
\* more.
<1>6. ASSUME armed' = None, committed' = committed
      PROVE  Ledger!Next \/ UNCHANGED Ledger!vars
  <2>1. Entered' = None
    BY <1>6 DEF Entered
  <2>2. CASE Entered = None
    BY <1>6, <2>1, <2>2 DEF Ledger!vars, Entered
  <2>3. CASE Entered # None
    <3>1. Ledger!Abandon
      BY <1>6, <1>n, <2>1, <2>3 DEF Ledger!Abandon, Entered
    <3> QED BY <3>1 DEF Ledger!Next
  <2> QED BY <2>2, <2>3
<1>7. CASE RemoveReconciled(o) \/ Clear(o)
  BY <1>6, <1>7 DEF RemoveReconciled, Clear
<1>8. CASE \/ Start(o) \/ Busy(o) \/ Open(o) \/ ReadOpened(o) \/ FailClosed(o) \/ PhaseDone(o)
           \/ Lock(o) \/ Read(o) \/ NothingDue(o) \/ ArmBegin(o) \/ ArmAgain(o)
           \/ ArmRefused(o) \/ RunUnit(o) \/ RunCancelled(o) \/ RunThrows(o) \/ RunEnds(o)
           \/ RunUndrained(o) \/ Reread(o) \/ PublishBegin(o) \/ PublishCommit(o)
           \/ SupervisorExits(o)
  BY <1>1, <1>8 DEF Start, Busy, Open, ReadOpened, FailClosed, PhaseDone, Lock, TakeLease,
     Read, NothingDue, ArmBegin, ArmAgain, ArmRefused, RunUnit, RunCancelled, RunThrows,
     RunEnds, RunUndrained, Reread, PublishBegin, PublishCommit, SupervisorExits
<1> QED BY <1>3, <1>4, <1>5, <1>7, <1>8 DEF OwnerStep, Step

\* Whatever the owners do, the bundle is a ledger: units are entered one at a
\* time, each the next of its phase, and completed at most once.
THEOREM ImplementsLedger == Spec => LedgerSpec
<1>1. Init => Ledger!Init
  <2>1. Ledger!None = None
    BY DEF Ledger!None, None
  <2> QED BY <2>1 DEF Init, Ledger!Init
<1>2. Inv /\ [Next]_vars => [Ledger!Next]_(Ledger!vars)
  <2> SUFFICES ASSUME Inv, [Next]_vars PROVE [Ledger!Next]_(Ledger!vars)
    OBVIOUS
  <2>1. CASE Next
    <3>1. PICK o \in Owners : OwnerStep(o)
      BY <2>1 DEF Next, OwnerStep
    <3> QED BY <3>1, LedgerStep
  <2>2. CASE UNCHANGED vars
    BY <2>2 DEF vars, Ledger!vars
  <2> QED BY <2>1, <2>2
<1> QED BY <1>1, <1>2, Invariance, PTL DEF Spec, LedgerSpec, Ledger!Spec
=============================================================================
