------------------------- MODULE ReferenceKitProofs -------------------------
(***************************************************************************)
(* What MCReferenceKit checks on small instances, for all values of the     *)
(* constants: the guided screen (Discovery) and its runs and archives (R).  *)
(*                                                                          *)
(* Screen: a workload can outlive its owner and an owner its controller, so *)
(* no single lease excludes two workloads. The first invariant follows the  *)
(* chain: who holds the coordination lease, which owner inherited it, and   *)
(* what the holder has already seen of the children's leases. The second    *)
(* follows the history: who works, works on the one open session, so that   *)
(* nothing changes any more once every session has an end; and a session    *)
(* that was interfered with has failed or can only fail.                    *)
(*                                                                          *)
(* Runs: what a run has left behind follows from how far it came, so that a *)
(* directory a preparer accepts is sealed: nothing, a power cut included,   *)
(* changes what is archived of it.                                          *)
(***************************************************************************)
EXTENDS MCReferenceKit, TLAPS

(* The screen: leases.                                                      *)
-----------------------------------------------------------------------------
(* The inductive invariant. *)

Outside == {"idle", "ensure", "enter"}
Inside  == {"check", "init", "next", "spawn", "wait", "after", "derive", "publish"}

Types == /\ pc \in [Procs -> Outside \cup Inside]
         /\ at \in [Procs -> Nat \ {0}]
         /\ owner \in [Sessions -> {"none", "starting", "measuring", "committed", "gone"}]
         /\ load \in [Sessions -> BOOLEAN]

\* The coordination lease has one holder.
OneController == \A c, d \in Coordinating : c = d

\* An owner that lives holds the lease too: there is no other, and its holder
\* among the controllers is the one that waits for it.
OneOwner == \A s, t \in Sessions : Alive(s) /\ Alive(t) => s = t
OwnerIsAwaited == \A c \in Coordinating, s \in Sessions :
                     Alive(s) => pc[c] = "wait" /\ at[c] = s

\* Whatever workload there is while an owner lives is its own.
LoadIsItsOwners == \A s, t \in Sessions : Alive(s) /\ load[t] => t = s

\* What a controller has seen of the children's leases.
Passed == \A c \in Procs, t \in Sessions : pc[c] = "init" /\ t < at[c] => ~load[t]
SeenFree == \A c \in Procs, t \in Sessions :
               pc[c] \in {"next", "spawn", "derive", "publish"} => ~load[t]
OnlyItsOwn == \A c \in Procs, t \in Sessions :
                 pc[c] \in {"wait", "after"} /\ load[t] => t = at[c]

\* Where it stands.
Begins == \A c \in Procs : pc[c] \in Outside \cup {"check"} => at[c] = 1
AtSession == \A c \in Procs : pc[c] \in {"spawn", "wait", "after"} => at[c] \in Sessions

IInv == /\ Types /\ OneController /\ OneOwner /\ OwnerIsAwaited /\ OneAtATime
        /\ LoadIsItsOwners /\ Passed /\ SeenFree /\ OnlyItsOwn /\ Begins /\ AtSession

-----------------------------------------------------------------------------
LEMMA NType == N \in Nat
BY CpuAssumption DEF N

LEMMA InitIInv == Init => IInv
BY NType DEF Init, IInv, Types, OneController, OneOwner, OwnerIsAwaited, OneAtATime,
             LoadIsItsOwners, Passed, SeenFree, OnlyItsOwn, Begins, AtSession,
             Outside, Inside, Coordinating, Alive, Sessions

\* A controller that gives up, or dies, leaves the rest to the others.
LEMMA LeaveKeeps ==
  ASSUME IInv, NEW c \in Procs, Leave(c), UNCHANGED <<owner, load>>
  PROVE  IInv'
<1> USE NType DEF IInv, Leave, Go, Outside, Inside, Coordinating, Alive
<1>1. Types' /\ Begins' /\ AtSession'
  BY DEF Types, Begins, AtSession, Sessions
<1>2. OneController' /\ OwnerIsAwaited'
  BY DEF Types, OneController, OwnerIsAwaited, Sessions
<1>3. OneOwner' /\ OneAtATime' /\ LoadIsItsOwners'
  BY DEF OneOwner, OneAtATime, LoadIsItsOwners, Sessions
<1>4. Passed' /\ SeenFree' /\ OnlyItsOwn'
  BY DEF Types, Passed, SeenFree, OnlyItsOwn, Sessions
<1> QED
  BY <1>1, <1>2, <1>3, <1>4

\* A controller moves on inside the lease, while no owner lives, to a place
\* that fits what it has seen.
Agrees(w, n) ==
  /\ w \in Inside /\ n \in Nat \ {0}
  /\ \A s \in Sessions : ~Alive(s)
  /\ w = "check" => n = 1
  /\ w = "init" => \A t \in Sessions : t < n => ~load[t]
  /\ w \in {"next", "spawn", "derive", "publish"} => \A t \in Sessions : ~load[t]
  /\ w \in {"wait", "after"} => \A t \in Sessions : load[t] => t = n
  /\ w \in {"spawn", "wait", "after"} => n \in Sessions

LEMMA MoveKeeps ==
  ASSUME IInv, NEW c \in Procs, NEW w, NEW n, Agrees(w, n),
         c \in Coordinating \/ CoordinatorFree,
         pc' = [pc EXCEPT ![c] = w], at' = [at EXCEPT ![c] = n], UNCHANGED <<owner, load>>
  PROVE  IInv'
<1> USE NType DEF IInv, Agrees, Outside, Inside, Coordinating, Alive
<1>1. Types' /\ Begins' /\ AtSession'
  BY DEF Types, Begins, AtSession, Sessions
<1>2. OneController' /\ OwnerIsAwaited'
  BY DEF Types, OneController, OwnerIsAwaited, CoordinatorFree, Sessions
<1>3. OneOwner' /\ OneAtATime' /\ LoadIsItsOwners'
  BY DEF OneOwner, OneAtATime, LoadIsItsOwners, Sessions
<1>4. Passed' /\ SeenFree' /\ OnlyItsOwn'
  BY DEF Types, Passed, SeenFree, OnlyItsOwn, Sessions
<1> QED
  BY <1>1, <1>2, <1>3, <1>4

\* The holder of the lease knows of no live owner unless it waits for it.
LEMMA NobodyAlive ==
  ASSUME IInv, NEW c \in Coordinating, pc[c] # "wait"
  PROVE  \A s \in Sessions : ~Alive(s)
BY DEF IInv, OwnerIsAwaited

\* The steps of a controller.
LEMMA ControllerKeeps ==
  ASSUME IInv, NEW c \in Procs, Controller(c)
  PROVE  IInv'
<1> USE NType DEF own
<1>a. /\ pc[c] \in Outside \cup Inside /\ at[c] \in Nat \ {0}
      /\ pc \in [Procs -> Outside \cup Inside] /\ at \in [Procs -> Nat \ {0}]
  BY DEF IInv, Types
<1>b. at = [at EXCEPT ![c] = at[c]] /\ pc = [pc EXCEPT ![c] = pc[c]]
  BY <1>a
<1>c. pc[c] \notin Outside => c \in Coordinating
  BY DEF Coordinating, Outside
<1>d. pc[c] \notin Outside \cup {"wait"} => \A s \in Sessions : ~Alive(s)
  BY <1>c, NobodyAlive
<1>1. CASE Ensure(c)
  <2>1. pc[c] = "ensure" /\ pc' = [pc EXCEPT ![c] = "enter"] /\ UNCHANGED <<at, owner, load>>
    BY <1>1 DEF Ensure, Go
  <2> QED
    BY <2>1 DEF IInv, Types, OneController, OneOwner, OwnerIsAwaited, OneAtATime,
                LoadIsItsOwners, Passed, SeenFree, OnlyItsOwn, Begins, AtSession, Sessions,
                Outside, Inside, Coordinating, Alive
<1>2. CASE Enter(c)
  <2>1. CASE CoordinatorFree
    <3>1. pc[c] = "enter" /\ pc' = [pc EXCEPT ![c] = "check"] /\ UNCHANGED <<at, owner, load>>
      BY <1>2, <2>1 DEF Enter, Go
    <3>2. at[c] = 1
      BY <3>1 DEF IInv, Begins, Outside
    <3>3. Agrees("check", at[c])
      BY <2>1, <3>2 DEF Agrees, CoordinatorFree, Inside
    <3> QED
      BY <1>b, <2>1, <3>1, <3>3, MoveKeeps
  <2>2. CASE ~CoordinatorFree
    BY <1>2, <2>2, LeaveKeeps DEF Enter
  <2> QED
    BY <2>1, <2>2
<1>3. CASE Refused(c)
  BY <1>3, LeaveKeeps DEF Refused
<1>4. CASE Check(c)
  <2>1. pc[c] = "check" /\ pc' = [pc EXCEPT ![c] = "init"] /\ UNCHANGED <<at, owner, load>>
    BY <1>4 DEF Check, Go
  <2>2. Agrees("init", at[c])
    BY <1>a, <1>d, <2>1 DEF IInv, Begins, Agrees, Inside, Outside, Sessions
  <2> QED
    BY <1>b, <1>c, <2>1, <2>2, MoveKeeps DEF Outside
<1>5. CASE InitChild(c)
  <2>1. CASE ChildFree(at[c])
    <3>1. /\ pc[c] = "init" /\ at' = [at EXCEPT ![c] = at[c] + 1] /\ UNCHANGED <<pc, owner, load>>
          /\ ~load[at[c]]
      BY <1>5, <2>1 DEF InitChild, ChildFree
    <3>2. Agrees("init", at[c] + 1)
      BY <1>a, <1>d, <3>1 DEF IInv, Passed, Agrees, Inside, Outside, Sessions
    <3> QED
      BY <1>b, <1>c, <3>1, <3>2, MoveKeeps DEF Outside
  <2>2. CASE ~ChildFree(at[c])
    BY <1>5, <2>2, LeaveKeeps DEF InitChild
  <2> QED
    BY <2>1, <2>2
<1>6. CASE Reconcile(c)
  <2>1. CASE IsOpen /\ ~ChildFree(Last(history).s)
    BY <1>6, <2>1, LeaveKeeps DEF Reconcile
  <2>2. CASE ~(IsOpen /\ ~ChildFree(Last(history).s))
    <3>1. /\ pc[c] = "init" /\ at[c] > N /\ pc' = [pc EXCEPT ![c] = "next"]
          /\ at' = [at EXCEPT ![c] = 1] /\ UNCHANGED <<owner, load>>
      BY <1>6, <2>2 DEF Reconcile, Go
    <3>2. Agrees("next", 1)
      BY <1>a, <1>d, <3>1 DEF IInv, Passed, Agrees, Inside, Outside, Sessions
    <3> QED
      BY <1>c, <3>1, <3>2, MoveKeeps DEF Outside
  <2> QED
    BY <2>1, <2>2
<1>7. CASE Skip(c)
  <2>1. pc[c] = "next" /\ at' = [at EXCEPT ![c] = at[c] + 1] /\ UNCHANGED <<pc, owner, load>>
    BY <1>7 DEF Skip
  <2>2. Agrees("next", at[c] + 1)
    BY <1>a, <1>d, <2>1 DEF IInv, SeenFree, Agrees, Inside, Outside
  <2> QED
    BY <1>b, <1>c, <2>1, <2>2, MoveKeeps DEF Outside
<1>8. CASE PublishStart(c)
  <2>1. CASE ChildFree(at[c]) /\ child[at[c]].stage = "empty" /\ Startable(at[c])
    <3>1. /\ pc[c] = "next" /\ at[c] <= N /\ pc' = [pc EXCEPT ![c] = "spawn"]
          /\ UNCHANGED <<at, owner, load>>
      BY <1>8, <2>1 DEF PublishStart, Go
    <3>2. Agrees("spawn", at[c])
      BY <1>a, <1>d, <3>1 DEF IInv, SeenFree, Agrees, Inside, Outside, Sessions
    <3> QED
      BY <1>b, <1>c, <3>1, <3>2, MoveKeeps DEF Outside
  <2>2. CASE ~(ChildFree(at[c]) /\ child[at[c]].stage = "empty" /\ Startable(at[c]))
    BY <1>8, <2>2, LeaveKeeps DEF PublishStart
  <2> QED
    BY <2>1, <2>2
<1>9. CASE EndLoop(c)
  <2>1. pc[c] = "next" /\ pc' = [pc EXCEPT ![c] = "derive"] /\ UNCHANGED <<at, owner, load>>
    BY <1>9 DEF EndLoop, Go
  <2>2. Agrees("derive", at[c])
    BY <1>a, <1>d, <2>1 DEF IInv, SeenFree, Agrees, Inside, Outside
  <2> QED
    BY <1>b, <1>c, <2>1, <2>2, MoveKeeps DEF Outside
<1>10. CASE Spawn(c)
  BY <1>10 DEF Spawn, Go, IInv, Types, OneController, OneOwner, OwnerIsAwaited, OneAtATime,
               LoadIsItsOwners, Passed, SeenFree, OnlyItsOwn, Begins, AtSession, Sessions,
               Outside, Inside, Coordinating, Alive
<1>11. CASE Close(c)
  <2>1. /\ pc[c] = "wait" /\ owner[at[c]] = "gone" /\ pc' = [pc EXCEPT ![c] = "after"]
        /\ UNCHANGED <<at, owner, load>>
    BY <1>11 DEF Close, Go
  <2>2. \A s \in Sessions : ~Alive(s)
    BY <1>c, <2>1 DEF IInv, OwnerIsAwaited, Alive, Outside
  <2>3. Agrees("after", at[c])
    BY <1>a, <2>1, <2>2 DEF IInv, OnlyItsOwn, AtSession, Agrees, Inside
  <2> QED
    BY <1>b, <1>c, <2>1, <2>3, MoveKeeps DEF Outside
<1>12. CASE After(c)
  <2> DEFINE stuck == ~ChildFree(at[c]) \/ (Committed(at[c]) /\ child[at[c]].stage # "complete")
  <2>1. CASE stuck
    BY <1>12, <2>1, LeaveKeeps DEF After
  <2>2. CASE ~stuck
    <3>1. pc[c] = "after" /\ ~load[at[c]] /\ UNCHANGED <<owner, load>>
      BY <1>12, <2>2 DEF After, ChildFree
    <3>2. \/ pc' = [pc EXCEPT ![c] = "next"] /\ at' = [at EXCEPT ![c] = at[c] + 1]
          \/ pc' = [pc EXCEPT ![c] = "derive"] /\ at' = [at EXCEPT ![c] = at[c]]
      BY <1>12, <2>2 DEF After, Go
    <3>3. \A t \in Sessions : ~load[t]
      BY <3>1 DEF IInv, OnlyItsOwn
    <3>4. Agrees("next", at[c] + 1) /\ Agrees("derive", at[c])
      BY <1>a, <1>d, <3>1, <3>3 DEF Agrees, Inside, Outside
    <3> QED
      BY <1>c, <3>1, <3>2, <3>4, MoveKeeps DEF Outside
  <2> QED
    BY <2>1, <2>2
<1>13. CASE Derive(c)
  <2>1. CASE Readable /\ \A s \in Sessions : Ended(s)
    <3>1. /\ pc[c] = "derive" /\ pc' = [pc EXCEPT ![c] = "publish"]
          /\ at' = [at EXCEPT ![c] = 1] /\ UNCHANGED <<owner, load>>
      BY <1>13, <2>1 DEF Derive, Go
    <3>2. Agrees("publish", 1)
      BY <1>d, <3>1 DEF IInv, SeenFree, Agrees, Inside, Outside
    <3> QED
      BY <1>c, <3>1, <3>2, MoveKeeps DEF Outside
  <2>2. CASE ~(Readable /\ \A s \in Sessions : Ended(s))
    BY <1>13, <2>2, LeaveKeeps DEF Derive
  <2> QED
    BY <2>1, <2>2
<1>14. CASE PutFile(c)
  <2>1. CASE Leave(c)
    BY <1>14, <2>1, LeaveKeeps DEF PutFile
  <2>2. CASE at' = [at EXCEPT ![c] = @ + 1] /\ UNCHANGED pc
    <3>1. pc[c] = "publish" /\ UNCHANGED <<owner, load>>
      BY <1>14 DEF PutFile
    <3>2. Agrees("publish", at[c] + 1)
      BY <1>a, <1>d, <3>1 DEF IInv, SeenFree, Agrees, Inside, Outside
    <3> QED
      BY <1>b, <1>c, <2>2, <3>1, <3>2, MoveKeeps DEF Outside
  <2> QED
    BY <1>14, <2>1, <2>2 DEF PutFile
<1> QED
  BY <1>1, <1>2, <1>3, <1>4, <1>5, <1>6, <1>7, <1>8, <1>9, <1>10, <1>11, <1>12, <1>13, <1>14
     DEF Controller

\* The steps of an owner and of what is left of it.
LEMMA OwnerKeeps ==
  ASSUME IInv, NEW s \in Sessions, Owner(s) \/ OwnerKilled(s)
  PROVE  IInv'
<1>1. UNCHANGED <<pc, at>>
  BY DEF Owner, OwnerNotices, OwnerRefuses, OwnerMeasures, OwnerCommits, OwnerGivesUp, OwnerExits,
         OrphanDrains, OwnerKilled, ByOwner, ctl
<1>2. CASE OwnerMeasures(s)
  <2>1. /\ owner[s] = "starting" /\ owner' = [owner EXCEPT ![s] = "measuring"]
        /\ load' = [load EXCEPT ![s] = TRUE]
    BY <1>2 DEF OwnerMeasures, Becomes
  <2>2. \A c \in Coordinating : pc[c] = "wait" /\ at[c] = s
    BY <2>1 DEF IInv, OwnerIsAwaited, Alive
  <2>3. \A t \in Sessions : load[t] => t = s
    BY <2>1 DEF IInv, LoadIsItsOwners, Alive
  <2>4. Types' /\ OneController' /\ OneOwner' /\ OwnerIsAwaited' /\ Begins' /\ AtSession'
    BY <1>1, <2>1 DEF IInv, Types, OneController, OneOwner, OwnerIsAwaited, Begins, AtSession,
                      Coordinating, Alive
  <2>5. OneAtATime' /\ LoadIsItsOwners'
    BY <2>1, <2>3 DEF IInv, Types, OneOwner, OneAtATime, LoadIsItsOwners, Alive
  <2>6. Passed' /\ SeenFree' /\ OnlyItsOwn'
    BY <1>1, <2>1, <2>2, <2>3 DEF IInv, Types, Passed, SeenFree, OnlyItsOwn, Coordinating
  <2> QED
    BY <2>4, <2>5, <2>6 DEF IInv
<1>3. ASSUME NEW o, owner' = [owner EXCEPT ![s] = o], load' \in [Sessions -> BOOLEAN],
             o \in {"committed", "gone"}, Alive(s) \/ (o = "gone" /\ owner[s] = "gone"),
             \A t \in Sessions : load'[t] => load[t]
      PROVE  IInv'
  <2>1. Types' /\ OneController' /\ OneOwner' /\ OwnerIsAwaited' /\ Begins' /\ AtSession'
    BY <1>1, <1>3 DEF IInv, Types, OneController, OneOwner, OwnerIsAwaited, Begins, AtSession,
                      Coordinating, Alive
  <2>2. OneAtATime' /\ LoadIsItsOwners'
    BY <1>3 DEF IInv, Types, OneAtATime, LoadIsItsOwners, Alive
  <2>3. Passed' /\ SeenFree' /\ OnlyItsOwn'
    BY <1>1, <1>3 DEF IInv, Passed, SeenFree, OnlyItsOwn
  <2> QED
    BY <2>1, <2>2, <2>3 DEF IInv
<1>4. CASE OwnerRefuses(s) \/ OwnerExits(s) \/ OwnerKilled(s)
  <2>1. Alive(s) /\ owner' = [owner EXCEPT ![s] = "gone"] /\ UNCHANGED load
    BY <1>4 DEF OwnerRefuses, OwnerExits, OwnerKilled, Becomes, Alive
  <2> QED
    BY <1>3, <2>1 DEF IInv, Types
<1>5. CASE OwnerCommits(s) \/ OwnerGivesUp(s)
  <2>1. /\ Alive(s) /\ load' = [load EXCEPT ![s] = FALSE]
        /\ \/ owner' = [owner EXCEPT ![s] = "committed"]
           \/ owner' = [owner EXCEPT ![s] = "gone"]
    BY <1>5 DEF OwnerCommits, OwnerGivesUp, Becomes, Alive
  <2>2. load' \in [Sessions -> BOOLEAN] /\ \A t \in Sessions : load'[t] => load[t]
    BY <2>1 DEF IInv, Types
  <2> QED
    BY <1>3, <2>1, <2>2
<1>6. CASE OrphanDrains(s)
  <2>1. /\ owner[s] = "gone" /\ load' = [load EXCEPT ![s] = FALSE] /\ UNCHANGED owner
    BY <1>6 DEF OrphanDrains
  <2>2. load' \in [Sessions -> BOOLEAN] /\ \A t \in Sessions : load'[t] => load[t]
    BY <2>1 DEF IInv, Types
  <2>3. owner' = [owner EXCEPT ![s] = "gone"]
    BY <2>1 DEF IInv, Types
  <2> QED
    BY <1>3, <2>1, <2>2, <2>3
<1>7. CASE OwnerNotices(s)
  <2>1. UNCHANGED <<owner, load>>
    BY <1>7 DEF OwnerNotices
  <2> QED
    BY <1>1, <2>1 DEF IInv, Types, OneController, OneOwner, OwnerIsAwaited, OneAtATime,
                      LoadIsItsOwners, Passed, SeenFree, OnlyItsOwn, Begins, AtSession,
                      Coordinating, Alive
<1> QED
  BY <1>2, <1>4, <1>5, <1>6, <1>7 DEF Owner

\* What the operator and the machine do.
LEMMA OthersKeep ==
  ASSUME IInv,
         \/ \E c \in Procs : Start(c) \/ Resume(c) \/ Authorize(c) \/ Export(c) \/ Abort(c)
                              \/ Deadline(c) \/ Crash(c)
         \/ Reboot \/ UNCHANGED vars
  PROVE  IInv'
<1> USE DEF own, ctl
<1>1. ASSUME UNCHANGED <<pc, at, owner, load>> PROVE IInv'
  BY <1>1 DEF IInv, Types, OneController, OneOwner, OwnerIsAwaited, OneAtATime,
              LoadIsItsOwners, Passed, SeenFree, OnlyItsOwn, Begins, AtSession,
              Coordinating, Alive
<1>2. ASSUME NEW c \in Procs, Start(c) \/ Resume(c) PROVE IInv'
  <2>1. pc[c] = "idle" /\ pc' = [pc EXCEPT ![c] = "ensure"] /\ UNCHANGED <<at, owner, load>>
    BY <1>2 DEF Start, Resume, Go
  <2> QED
    BY <2>1 DEF IInv, Types, OneController, OneOwner, OwnerIsAwaited, OneAtATime,
                LoadIsItsOwners, Passed, SeenFree, OnlyItsOwn, Begins, AtSession,
                Coordinating, Alive, Outside, Inside
<1>3. ASSUME NEW c \in Procs, Authorize(c) \/ Export(c) \/ Abort(c) \/ Deadline(c) PROVE IInv'
  BY <1>1, <1>3 DEF Authorize, Export, Abort, Deadline
<1>4. ASSUME NEW c \in Procs, Crash(c) PROVE IInv'
  BY <1>4, LeaveKeeps DEF Crash
<1>5. CASE Reboot
  <2>1. /\ pc' = [c \in Procs |-> "idle"] /\ at' = [c \in Procs |-> 1]
        /\ owner' = [s \in Sessions |-> IF Alive(s) THEN "gone" ELSE owner[s]]
        /\ load' = [s \in Sessions |-> FALSE]
    BY <1>5 DEF Reboot
  <2> QED
    BY <2>1 DEF IInv, Types, OneController, OneOwner, OwnerIsAwaited, OneAtATime,
                LoadIsItsOwners, Passed, SeenFree, OnlyItsOwn, Begins, AtSession,
                Coordinating, Alive, Outside, Inside
<1>6. CASE UNCHANGED vars
  BY <1>1, <1>6 DEF vars
<1> QED
  BY <1>2, <1>3, <1>4, <1>5, <1>6

LEMMA NextIInv == IInv /\ [Next]_vars => IInv'
BY ControllerKeeps, OwnerKeeps, OthersKeep DEF Next

LEMMA AlwaysIInv == Spec => []IInv
BY InitIInv, NextIInv, PTL DEF Spec

-----------------------------------------------------------------------------
(* Two sessions are never measured at the same time.                        *)
THEOREM SessionsOneAtATime == Spec => []OneAtATime
BY AlwaysIInv, PTL DEF IInv

(* At any time one controller at most decides what the screen does, and it   *)
(* is the one that waits for the owner that lives.                           *)
THEOREM OneHolder == Spec => [](OneController /\ OneOwner /\ OwnerIsAwaited)
BY AlwaysIInv, PTL DEF IInv

-----------------------------------------------------------------------------
(* The history, and what is made of it. *)

Entries == [s : Sessions, end : {"open", "committed", "failed"}]
HistoryTyped == history \in Seq(Entries)

\* A session is in the history once, and only the last one can be open.
OneEntry == \A i, j \in DOMAIN history : history[i].s = history[j].s => i = j
OnlyLastOpen == \A i \in DOMAIN history : i # Len(history) => history[i].end # "open"

\* Who works on a session works on the one that is open.
OpenFor(s) == IsOpen /\ Last(history).s = s
AliveIsOpen == \A s \in Sessions : Alive(s) => OpenFor(s)
WaitingIsOpen == \A c \in Procs : pc[c] \in {"spawn", "wait"} => OpenFor(at[c])

\* Nothing is left to do: no session is started, and no child changes, again.
Over == /\ \A s \in Sessions : Ended(s) /\ child[s].stage # "absent"
        /\ ~IsOpen

PublishesReport == \A c \in Procs : pc[c] = "publish" => draft[c] = Report /\ at[c] \in 1..3 /\ Over
FilesTyped == DOMAIN files = Range(Files)
AnswersWhenOver ==
  (authorized # 0 \/ exported # "none" \/ \E f \in DOMAIN files : files[f] # NoReport) => Over

\* A session that was interfered with has failed, or can only fail.
Failed(s) == \E i \in DOMAIN history : history[i].s = s /\ history[i].end = "failed"
WillFail(s) ==
  /\ OpenFor(s) /\ \A c \in Procs : pc[c] # "spawn"
  /\ \A c \in Procs : pc[c] = "wait" =>
       \/ termed[s] = "seen" \/ forced[c]
       \/ owner[s] = "gone" /\ record[s] # "committed"
DisturbedFails == \A s \in disturbed : Failed(s) \/ WillFail(s)

Children == [stage : {"absent", "empty", "complete"}, usable : {TRUE, FALSE}, hits : Nat]
ChildTyped == child \in [Sessions -> Children]
DisturbancesTyped == disturbed \subseteq Sessions /\ DOMAIN draft = Procs
OwnersTyped == DOMAIN termed = Sessions /\ DOMAIN record = Sessions /\ DOMAIN forced = Procs

StoryInv == /\ HistoryTyped /\ OneEntry /\ OnlyLastOpen /\ AliveIsOpen /\ WaitingIsOpen
            /\ PublishesReport /\ FilesTyped /\ AnswersWhenOver /\ PublishedIsFinal
            /\ DisturbedFails /\ ChildTyped /\ DisturbancesTyped /\ OwnersTyped

LEMMA StoryStands ==
  ASSUME StoryInv, UNCHANGED <<child, history>>
  PROVE  /\ Report' = Report /\ (Over' <=> Over)
         /\ \A t \in Sessions : (OpenFor(t)' <=> OpenFor(t)) /\ (Failed(t)' <=> Failed(t))
         /\ HistoryTyped' /\ OneEntry' /\ OnlyLastOpen'
<1>1. Report' = Report
  BY DEF Report, Complete, Selectable, Candidates, Contaminated, Outranks
<1>2. Over' <=> Over
  BY DEF Over, Ended, IsOpen
<1>3. \A t \in Sessions : (OpenFor(t)' <=> OpenFor(t)) /\ (Failed(t)' <=> Failed(t))
  BY DEF OpenFor, IsOpen, Failed
<1>4. HistoryTyped' /\ OneEntry' /\ OnlyLastOpen'
  BY DEF StoryInv, HistoryTyped, OneEntry, OnlyLastOpen
<1>5. QED
  BY <1>1, <1>2, <1>3, <1>4

\* When every session has an end, none is open.
LEMMA NoneIsOpen ==
  ASSUME StoryInv, \A s \in Sessions : Ended(s)
  PROVE  ~IsOpen
<1> SUFFICES ASSUME IsOpen PROVE FALSE
  OBVIOUS
<1>1. history \in Seq(Entries) /\ history # <<>> /\ history[Len(history)].end = "open"
  BY DEF StoryInv, HistoryTyped, IsOpen, Last
<1>2. Len(history) \in DOMAIN history
  BY <1>1
<1>4. history[Len(history)] \in Entries
  BY <1>1, <1>2
<1>5. history[Len(history)].s \in Sessions
  BY <1>4 DEF Entries
<1>3. PICK i \in DOMAIN history : /\ history[i].s = history[Len(history)].s
                                  /\ history[i].end # "open"
  BY <1>5 DEF Ended
<1>6. QED
  BY <1>1, <1>2, <1>3 DEF StoryInv, OneEntry

\* What can be read when every session has an end stays as it is.
LEMMA ReadableIsOver ==
  ASSUME StoryInv, Readable, \A s \in Sessions : Ended(s)
  PROVE  Over
BY NoneIsOpen DEF Readable, Over

LEMMA CompleteIsOver ==
  ASSUME StoryInv, Readable, Complete
  PROVE  Over
<1>1. \A s \in Sessions : Ended(s)
  BY DEF Readable, Consistent, Complete
<1>2. QED
  BY <1>1, ReadableIsOver

LEMMA CandidateIsComplete ==
  Report.candidate # 0 => Complete /\ ~Contaminated
BY DEF Report, Candidates, Selectable

\* An open session is the last of the history.
LEMMA EndsOpen ==
  ASSUME StoryInv, IsOpen, NEW how \in {"committed", "failed"}, EndWith(how)
  PROVE  /\ HistoryTyped' /\ OneEntry' /\ OnlyLastOpen' /\ ~IsOpen'
         /\ \A t \in Sessions : Failed(t) => Failed(t)'
         /\ \A t \in Sessions : OpenFor(t) /\ how = "failed" => Failed(t)'
<1> DEFINE n == Len(history)
<1>1. /\ history \in Seq(Entries) /\ n \in Nat \ {0} /\ history[n].end = "open"
      /\ DOMAIN history = 1..n
  BY DEF StoryInv, HistoryTyped, IsOpen, Last
<1>2. history' = [history EXCEPT ![n].end = how]
  BY DEF EndWith
<1>3. [history[n] EXCEPT !.end = how] \in Entries
  <2>1. history[n] \in Entries
    BY <1>1
  <2>2. QED
    BY <2>1 DEF Entries
<1>4. history' \in Seq(Entries) /\ Len(history') = n /\ DOMAIN history' = 1..n
  BY <1>1, <1>2, <1>3
<1>5. /\ \A i \in 1..n : history'[i].s = history[i].s /\ (i # n => history'[i] = history[i])
      /\ history'[n].end = how
  BY <1>1, <1>2 DEF Entries
<1> HIDE DEF n
<1>6. HistoryTyped' /\ OneEntry' /\ OnlyLastOpen'
  <2>1. HistoryTyped'
    BY <1>4 DEF HistoryTyped, Entries, Sessions
  <2>2. OneEntry'
    BY <1>1, <1>4, <1>5 DEF StoryInv, OneEntry
  <2>3. Len(history') = n /\ \A i \in 1..n : i # n => history[i].end # "open"
    BY <1>1, <1>4 DEF StoryInv, OnlyLastOpen, n
  <2>4. OnlyLastOpen'
    BY <1>4, <1>5, <2>3 DEF OnlyLastOpen
  <2>5. QED
    BY <2>1, <2>2, <2>4
<1>7. ~IsOpen'
  BY <1>1, <1>4, <1>5 DEF IsOpen, Last
<1>8. \A t \in Sessions : Failed(t) => Failed(t)'
  BY <1>1, <1>4, <1>5 DEF Failed
<1>9. \A t \in Sessions : OpenFor(t) /\ how = "failed" => Failed(t)'
  <2>1. \A t \in Sessions : OpenFor(t) => history[n].s = t
    BY DEF OpenFor, Last, n
  <2>2. n \in 1..n
    BY <1>1
  <2>3. QED
    BY <1>4, <1>5, <2>1, <2>2 DEF Failed
<1>10. QED
  BY <1>6, <1>7, <1>8, <1>9

\* A session that is started had no entry.
LEMMA StartsOpen ==
  ASSUME StoryInv, ~IsOpen, NEW s \in Sessions, ~Ended(s),
         history' = Append(history, [s |-> s, end |-> "open"])
  PROVE  /\ HistoryTyped' /\ OneEntry' /\ OnlyLastOpen' /\ OpenFor(s)'
         /\ \A t \in Sessions : Failed(t) => Failed(t)'
<1> DEFINE n == Len(history)
           entry == [s |-> s, end |-> "open"]
<1>1. history \in Seq(Entries) /\ n \in Nat /\ DOMAIN history = 1..n /\ entry \in Entries
  BY DEF StoryInv, HistoryTyped, Entries
<1>2. /\ history' \in Seq(Entries) /\ Len(history') = n + 1 /\ DOMAIN history' = 1..(n + 1)
      /\ history'[n + 1] = entry /\ \A i \in 1..n : history'[i] = history[i]
  BY <1>1
<1>3. \A i \in 1..n : history[i].end # "open"
  BY <1>1 DEF StoryInv, OnlyLastOpen, IsOpen, Last
<1>4. \A i \in 1..n : history[i].s # s
  BY <1>1, <1>3 DEF Ended
<1> HIDE DEF n
<1>5. HistoryTyped'
  BY <1>2 DEF HistoryTyped, Entries, Sessions
<1>6. OneEntry' /\ OnlyLastOpen'
  BY <1>1, <1>2, <1>3, <1>4 DEF StoryInv, OneEntry, OnlyLastOpen
<1>7. OpenFor(s)'
  BY <1>1, <1>2 DEF OpenFor, IsOpen, Last
<1>8. \A t \in Sessions : Failed(t) => Failed(t)'
  BY <1>1, <1>2 DEF Failed
<1>9. QED
  BY <1>5, <1>6, <1>7, <1>8

\* Before the end nothing is published and nobody publishes.
LEMMA NotOver ==
  ASSUME StoryInv, ~Over
  PROVE  /\ authorized = 0 /\ exported = "none" /\ \A f \in DOMAIN files : files[f] = NoReport
         /\ \A c \in Procs : pc[c] # "publish"
BY DEF StoryInv, AnswersWhenOver, PublishesReport

LEMMA LastIsSession ==
  ASSUME StoryInv, IsOpen
  PROVE  Last(history).s \in Sessions /\ OpenFor(Last(history).s)
<1>1. history \in Seq(Entries) /\ history # <<>>
  BY DEF StoryInv, HistoryTyped, IsOpen
<1>2. Len(history) \in DOMAIN history
  BY <1>1
<1>3. Last(history) \in Entries
  BY <1>1, <1>2 DEF Last
<1>4. QED
  BY <1>3 DEF OpenFor, Entries

\* The lease has one holder.
LEMMA Alone ==
  ASSUME IInv, NEW c \in Procs, NEW d \in Procs, c # d, pc[c] \notin Outside
  PROVE  pc[d] \in Outside
BY DEF IInv, OneController, Coordinating, Outside

LEMMA InitStory == Init => StoryInv
BY DEF Init, HistoryTyped, OneEntry, OnlyLastOpen, AliveIsOpen, WaitingIsOpen, PublishesReport, FilesTyped, AnswersWhenOver, PublishedIsFinal, DisturbedFails, ChildTyped, DisturbancesTyped, OwnersTyped, StoryInv, Entries, Files, Ended, IsOpen, Alive, OpenFor, Failed, WillFail, Children, Bare

LEMMA NextStory == IInv /\ StoryInv /\ [Next]_vars => StoryInv'
<1> SUFFICES ASSUME IInv, StoryInv, [Next]_vars PROVE StoryInv'
  OBVIOUS
<1>1. ASSUME NEW c \in Procs, Start(c) PROVE StoryInv'
  <2>1. /\ Report' = Report /\ (Over' <=> Over)
        /\ \A t \in Sessions : (OpenFor(t)' <=> OpenFor(t)) /\ (Failed(t)' <=> Failed(t))
    BY <1>1, StoryStands DEF Start, Go, Quiet, own
  <2>2. HistoryTyped'
    BY <1>1, StoryStands DEF Start, Go, Quiet, own
  <2>3. OneEntry'
    BY <1>1, StoryStands DEF Start, Go, Quiet, own
  <2>4. OnlyLastOpen'
    BY <1>1, StoryStands DEF Start, Go, Quiet, own
  <2>5. AliveIsOpen'
    BY <1>1, <2>1 DEF StoryInv, AliveIsOpen, Alive, Types, WaitingIsOpen, AtSession, IInv, Start,
         Go, Quiet, own
  <2>6. WaitingIsOpen'
    BY <1>1, <2>1 DEF StoryInv, WaitingIsOpen, Types, AtSession, IInv, Start, Go, Quiet, own
  <2>7. PublishesReport'
    BY <1>1, <2>1 DEF StoryInv, PublishesReport, Types, DisturbancesTyped, IInv, Start, Go, Quiet, own
  <2>8. FilesTyped'
    BY <1>1, <2>1 DEF StoryInv, FilesTyped, IInv, Start, Go, Quiet, own
  <2>9. AnswersWhenOver'
    BY <1>1, <2>1 DEF StoryInv, AnswersWhenOver, IInv, Start, Go, Quiet, own
  <2>10. PublishedIsFinal'
    BY <1>1, <2>1 DEF StoryInv, PublishedIsFinal, IInv, Start, Go, Quiet, own
  <2>11. DisturbedFails'
    BY <1>1, <2>1 DEF StoryInv, DisturbedFails, WillFail, DisturbancesTyped, OwnersTyped, Types,
         AliveIsOpen, WaitingIsOpen, AtSession, Alive, Outside, Inside, OneController, Coordinating,
         IInv, Start, Go, Quiet, own
  <2>12. ChildTyped'
    BY <1>1, <2>1 DEF StoryInv, ChildTyped, IInv, Start, Go, Quiet, own
  <2>13. DisturbancesTyped'
    BY <1>1, <2>1 DEF StoryInv, DisturbancesTyped, IInv, Start, Go, Quiet, own
  <2>14. OwnersTyped'
    BY <1>1, <2>1 DEF StoryInv, OwnersTyped, Types, IInv, Start, Go, Quiet, own
  <2>15. QED
    BY <2>2, <2>3, <2>4, <2>5, <2>6, <2>7, <2>8, <2>9, <2>10, <2>11, <2>12, <2>13, <2>14 DEF
         StoryInv
<1>2. ASSUME NEW c \in Procs, Resume(c) PROVE StoryInv'
  <2>1. /\ Report' = Report /\ (Over' <=> Over)
        /\ \A t \in Sessions : (OpenFor(t)' <=> OpenFor(t)) /\ (Failed(t)' <=> Failed(t))
    BY <1>2, StoryStands DEF Resume, Go, Quiet, stored, own
  <2>2. HistoryTyped'
    BY <1>2, StoryStands DEF Resume, Go, Quiet, stored, own
  <2>3. OneEntry'
    BY <1>2, StoryStands DEF Resume, Go, Quiet, stored, own
  <2>4. OnlyLastOpen'
    BY <1>2, StoryStands DEF Resume, Go, Quiet, stored, own
  <2>5. AliveIsOpen'
    BY <1>2, <2>1 DEF StoryInv, AliveIsOpen, Alive, Types, WaitingIsOpen, AtSession, IInv, Resume,
         Go, Quiet, stored, own
  <2>6. WaitingIsOpen'
    BY <1>2, <2>1 DEF StoryInv, WaitingIsOpen, Types, AtSession, IInv, Resume, Go, Quiet, stored,
         own
  <2>7. PublishesReport'
    BY <1>2, <2>1 DEF StoryInv, PublishesReport, Types, DisturbancesTyped, IInv, Resume, Go, Quiet, stored,
         own
  <2>8. FilesTyped'
    BY <1>2, <2>1 DEF StoryInv, FilesTyped, IInv, Resume, Go, Quiet, stored, own
  <2>9. AnswersWhenOver'
    BY <1>2, <2>1 DEF StoryInv, AnswersWhenOver, IInv, Resume, Go, Quiet, stored, own
  <2>10. PublishedIsFinal'
    BY <1>2, <2>1 DEF StoryInv, PublishedIsFinal, IInv, Resume, Go, Quiet, stored, own
  <2>11. DisturbedFails'
    BY <1>2, <2>1 DEF StoryInv, DisturbedFails, WillFail, DisturbancesTyped, OwnersTyped, Types,
         AliveIsOpen, WaitingIsOpen, AtSession, Alive, Outside, Inside, OneController, Coordinating,
         IInv, Resume, Go, Quiet, stored, own
  <2>12. ChildTyped'
    BY <1>2, <2>1 DEF StoryInv, ChildTyped, IInv, Resume, Go, Quiet, stored, own
  <2>13. DisturbancesTyped'
    BY <1>2, <2>1 DEF StoryInv, DisturbancesTyped, IInv, Resume, Go, Quiet, stored, own
  <2>14. OwnersTyped'
    BY <1>2, <2>1 DEF StoryInv, OwnersTyped, Types, IInv, Resume, Go, Quiet, stored, own
  <2>15. QED
    BY <2>2, <2>3, <2>4, <2>5, <2>6, <2>7, <2>8, <2>9, <2>10, <2>11, <2>12, <2>13, <2>14 DEF
         StoryInv
<1>3. ASSUME NEW c \in Procs, Ensure(c) PROVE StoryInv'
  <2>1. /\ Report' = Report /\ (Over' <=> Over)
        /\ \A t \in Sessions : (OpenFor(t)' <=> OpenFor(t)) /\ (Failed(t)' <=> Failed(t))
    BY <1>3, StoryStands DEF Ensure, Go, Quiet, own
  <2>2. HistoryTyped'
    BY <1>3, StoryStands DEF Ensure, Go, Quiet, own
  <2>3. OneEntry'
    BY <1>3, StoryStands DEF Ensure, Go, Quiet, own
  <2>4. OnlyLastOpen'
    BY <1>3, StoryStands DEF Ensure, Go, Quiet, own
  <2>5. AliveIsOpen'
    BY <1>3, <2>1 DEF StoryInv, AliveIsOpen, Alive, Types, WaitingIsOpen, AtSession, IInv, Ensure,
         Go, Quiet, own
  <2>6. WaitingIsOpen'
    BY <1>3, <2>1 DEF StoryInv, WaitingIsOpen, Types, AtSession, IInv, Ensure, Go, Quiet, own
  <2>7. PublishesReport'
    BY <1>3, <2>1 DEF StoryInv, PublishesReport, Types, DisturbancesTyped, IInv, Ensure, Go, Quiet, own
  <2>8. FilesTyped'
    BY <1>3, <2>1 DEF StoryInv, FilesTyped, IInv, Ensure, Go, Quiet, own
  <2>9. AnswersWhenOver'
    BY <1>3, <2>1 DEF StoryInv, AnswersWhenOver, IInv, Ensure, Go, Quiet, own
  <2>10. PublishedIsFinal'
    BY <1>3, <2>1 DEF StoryInv, PublishedIsFinal, IInv, Ensure, Go, Quiet, own
  <2>11. DisturbedFails'
    BY <1>3, <2>1 DEF StoryInv, DisturbedFails, WillFail, DisturbancesTyped, OwnersTyped, Types,
         AliveIsOpen, WaitingIsOpen, AtSession, Alive, Outside, Inside, OneController, Coordinating,
         IInv, Ensure, Go, Quiet, own
  <2>12. ChildTyped'
    BY <1>3, <2>1 DEF StoryInv, ChildTyped, IInv, Ensure, Go, Quiet, own
  <2>13. DisturbancesTyped'
    BY <1>3, <2>1 DEF StoryInv, DisturbancesTyped, IInv, Ensure, Go, Quiet, own
  <2>14. OwnersTyped'
    BY <1>3, <2>1 DEF StoryInv, OwnersTyped, Types, IInv, Ensure, Go, Quiet, own
  <2>15. QED
    BY <2>2, <2>3, <2>4, <2>5, <2>6, <2>7, <2>8, <2>9, <2>10, <2>11, <2>12, <2>13, <2>14 DEF
         StoryInv
<1>4. ASSUME NEW c \in Procs, Enter(c) PROVE StoryInv'
  <2>1. /\ Report' = Report /\ (Over' <=> Over)
        /\ \A t \in Sessions : (OpenFor(t)' <=> OpenFor(t)) /\ (Failed(t)' <=> Failed(t))
    BY <1>4, StoryStands DEF Enter, Coordinating, Go, Leave, Quiet, stored, own
  <2>2. HistoryTyped'
    BY <1>4, StoryStands DEF Enter, Coordinating, Go, Leave, Quiet, stored, own
  <2>3. OneEntry'
    BY <1>4, StoryStands DEF Enter, Coordinating, Go, Leave, Quiet, stored, own
  <2>4. OnlyLastOpen'
    BY <1>4, StoryStands DEF Enter, Coordinating, Go, Leave, Quiet, stored, own
  <2>5. AliveIsOpen'
    BY <1>4, <2>1 DEF StoryInv, AliveIsOpen, Alive, Types, WaitingIsOpen, AtSession, IInv, Enter,
         Coordinating, Go, Leave, Quiet, stored, own
  <2>6. WaitingIsOpen'
    BY <1>4, <2>1 DEF StoryInv, WaitingIsOpen, Types, AtSession, IInv, Enter, Coordinating, Go,
         Leave, Quiet, stored, own
  <2>7. PublishesReport'
    BY <1>4, <2>1 DEF StoryInv, PublishesReport, Types, DisturbancesTyped, IInv, Enter, Coordinating, Go,
         Leave, Quiet, stored, own
  <2>8. FilesTyped'
    BY <1>4, <2>1 DEF StoryInv, FilesTyped, IInv, Enter, Coordinating, Go, Leave, Quiet, stored, own
  <2>9. AnswersWhenOver'
    BY <1>4, <2>1 DEF StoryInv, AnswersWhenOver, IInv, Enter, Coordinating, Go, Leave, Quiet,
         stored, own
  <2>10. PublishedIsFinal'
    BY <1>4, <2>1 DEF StoryInv, PublishedIsFinal, IInv, Enter, Coordinating, Go, Leave, Quiet,
         stored, own
  <2>11. DisturbedFails'
    BY <1>4, <2>1 DEF StoryInv, DisturbedFails, WillFail, DisturbancesTyped, OwnersTyped, Types,
         AliveIsOpen, WaitingIsOpen, AtSession, Alive, Outside, Inside, OneController, Coordinating,
         IInv, Enter, Coordinating, Go, Leave, Quiet, stored, own
  <2>12. ChildTyped'
    BY <1>4, <2>1 DEF StoryInv, ChildTyped, IInv, Enter, Coordinating, Go, Leave, Quiet, stored, own
  <2>13. DisturbancesTyped'
    BY <1>4, <2>1 DEF StoryInv, DisturbancesTyped, IInv, Enter, Coordinating, Go, Leave, Quiet, stored, own
  <2>14. OwnersTyped'
    BY <1>4, <2>1 DEF StoryInv, OwnersTyped, Types, IInv, Enter, Coordinating, Go, Leave, Quiet,
         stored, own
  <2>15. QED
    BY <2>2, <2>3, <2>4, <2>5, <2>6, <2>7, <2>8, <2>9, <2>10, <2>11, <2>12, <2>13, <2>14 DEF
         StoryInv
<1>5. ASSUME NEW c \in Procs, Refused(c) PROVE StoryInv'
  <2>1. /\ Report' = Report /\ (Over' <=> Over)
        /\ \A t \in Sessions : (OpenFor(t)' <=> OpenFor(t)) /\ (Failed(t)' <=> Failed(t))
    BY <1>5, StoryStands DEF Refused, Leave, Go, Quiet, stored, own
  <2>2. HistoryTyped'
    BY <1>5, StoryStands DEF Refused, Leave, Go, Quiet, stored, own
  <2>3. OneEntry'
    BY <1>5, StoryStands DEF Refused, Leave, Go, Quiet, stored, own
  <2>4. OnlyLastOpen'
    BY <1>5, StoryStands DEF Refused, Leave, Go, Quiet, stored, own
  <2>5. AliveIsOpen'
    BY <1>5, <2>1 DEF StoryInv, AliveIsOpen, Alive, Types, WaitingIsOpen, AtSession, IInv, Refused,
         Leave, Go, Quiet, stored, own
  <2>6. WaitingIsOpen'
    BY <1>5, <2>1 DEF StoryInv, WaitingIsOpen, Types, AtSession, IInv, Refused, Leave, Go, Quiet,
         stored, own
  <2>7. PublishesReport'
    BY <1>5, <2>1 DEF StoryInv, PublishesReport, Types, DisturbancesTyped, IInv, Refused, Leave, Go, Quiet,
         stored, own
  <2>8. FilesTyped'
    BY <1>5, <2>1 DEF StoryInv, FilesTyped, IInv, Refused, Leave, Go, Quiet, stored, own
  <2>9. AnswersWhenOver'
    BY <1>5, <2>1 DEF StoryInv, AnswersWhenOver, IInv, Refused, Leave, Go, Quiet, stored, own
  <2>10. PublishedIsFinal'
    BY <1>5, <2>1 DEF StoryInv, PublishedIsFinal, IInv, Refused, Leave, Go, Quiet, stored, own
  <2>11. DisturbedFails'
    BY <1>5, <2>1 DEF StoryInv, DisturbedFails, WillFail, DisturbancesTyped, OwnersTyped, Types,
         AliveIsOpen, WaitingIsOpen, AtSession, Alive, Outside, Inside, OneController, Coordinating,
         IInv, Refused, Leave, Go, Quiet, stored, own
  <2>12. ChildTyped'
    BY <1>5, <2>1 DEF StoryInv, ChildTyped, IInv, Refused, Leave, Go, Quiet, stored, own
  <2>13. DisturbancesTyped'
    BY <1>5, <2>1 DEF StoryInv, DisturbancesTyped, IInv, Refused, Leave, Go, Quiet, stored, own
  <2>14. OwnersTyped'
    BY <1>5, <2>1 DEF StoryInv, OwnersTyped, Types, IInv, Refused, Leave, Go, Quiet, stored, own
  <2>15. QED
    BY <2>2, <2>3, <2>4, <2>5, <2>6, <2>7, <2>8, <2>9, <2>10, <2>11, <2>12, <2>13, <2>14 DEF
         StoryInv
<1>6. ASSUME NEW c \in Procs, Check(c) PROVE StoryInv'
  <2>1. /\ Report' = Report /\ (Over' <=> Over)
        /\ \A t \in Sessions : (OpenFor(t)' <=> OpenFor(t)) /\ (Failed(t)' <=> Failed(t))
    BY <1>6, StoryStands DEF Check, Go, Quiet, stored, own
  <2>2. HistoryTyped'
    BY <1>6, StoryStands DEF Check, Go, Quiet, stored, own
  <2>3. OneEntry'
    BY <1>6, StoryStands DEF Check, Go, Quiet, stored, own
  <2>4. OnlyLastOpen'
    BY <1>6, StoryStands DEF Check, Go, Quiet, stored, own
  <2>5. AliveIsOpen'
    BY <1>6, <2>1 DEF StoryInv, AliveIsOpen, Alive, Types, WaitingIsOpen, AtSession, IInv, Check,
         Go, Quiet, stored, own
  <2>6. WaitingIsOpen'
    BY <1>6, <2>1 DEF StoryInv, WaitingIsOpen, Types, AtSession, IInv, Check, Go, Quiet, stored, own
  <2>7. PublishesReport'
    BY <1>6, <2>1 DEF StoryInv, PublishesReport, Types, DisturbancesTyped, IInv, Check, Go, Quiet, stored,
         own
  <2>8. FilesTyped'
    BY <1>6, <2>1 DEF StoryInv, FilesTyped, IInv, Check, Go, Quiet, stored, own
  <2>9. AnswersWhenOver'
    BY <1>6, <2>1 DEF StoryInv, AnswersWhenOver, IInv, Check, Go, Quiet, stored, own
  <2>10. PublishedIsFinal'
    BY <1>6, <2>1 DEF StoryInv, PublishedIsFinal, IInv, Check, Go, Quiet, stored, own
  <2>11. DisturbedFails'
    BY <1>6, <2>1 DEF StoryInv, DisturbedFails, WillFail, DisturbancesTyped, OwnersTyped, Types,
         AliveIsOpen, WaitingIsOpen, AtSession, Alive, Outside, Inside, OneController, Coordinating,
         IInv, Check, Go, Quiet, stored, own
  <2>12. ChildTyped'
    BY <1>6, <2>1 DEF StoryInv, ChildTyped, IInv, Check, Go, Quiet, stored, own
  <2>13. DisturbancesTyped'
    BY <1>6, <2>1 DEF StoryInv, DisturbancesTyped, IInv, Check, Go, Quiet, stored, own
  <2>14. OwnersTyped'
    BY <1>6, <2>1 DEF StoryInv, OwnersTyped, Types, IInv, Check, Go, Quiet, stored, own
  <2>15. QED
    BY <2>2, <2>3, <2>4, <2>5, <2>6, <2>7, <2>8, <2>9, <2>10, <2>11, <2>12, <2>13, <2>14 DEF
         StoryInv
<1>7. ASSUME NEW c \in Procs, InitChild(c) PROVE StoryInv'
  <2>1. ~ChildFree(at[c]) \/ child[at[c]].stage # "absent" => UNCHANGED <<child, history>>
    BY <1>7 DEF IInv, Types, StoryInv, ChildTyped, Sessions, InitChild, Leave, Go, Quiet, own
  <2>2. UNCHANGED <<child, history>> \/ ~Over
    BY <1>7, <2>1 DEF IInv, Types, Over, Sessions, InitChild, Leave, Go, Quiet, own
  <2>3. UNCHANGED <<authorized, exported, files, history, disturbed, termed, record, owner>> /\ pc[c] = "init"
    BY <1>7 DEF InitChild, Leave, Go, Quiet, own
  <2>4. \/ /\ UNCHANGED <<child, history>>
           /\ Report' = Report /\ (Over' <=> Over)
           /\ \A t \in Sessions : (OpenFor(t)' <=> OpenFor(t)) /\ (Failed(t)' <=> Failed(t))
        \/ ~Over
    BY <2>2, StoryStands
  <2>5. \A t \in Sessions : (OpenFor(t)' <=> OpenFor(t)) /\ (Failed(t)' <=> Failed(t))
    BY <2>3 DEF OpenFor, IsOpen, Failed
  <2>6. pc' = pc \/ pc' = [pc EXCEPT ![c] = "idle"]
    BY <1>7 DEF InitChild, Leave, Go, Quiet, own
  <2>7. \A d \in Procs : d # c => at'[d] = at[d] /\ draft'[d] = draft[d] /\ pc'[d] = pc[d]
    BY <1>7 DEF IInv, Types, StoryInv, DisturbancesTyped, InitChild, Leave, Go, Quiet, own
  <2>8. HistoryTyped'
    BY <2>3 DEF StoryInv, HistoryTyped
  <2>9. OneEntry'
    BY <2>3 DEF StoryInv, OneEntry
  <2>10. OnlyLastOpen'
    BY <2>3 DEF StoryInv, OnlyLastOpen
  <2>11. AliveIsOpen'
    BY <2>3, <2>5 DEF StoryInv, AliveIsOpen, Alive
  <2>12. WaitingIsOpen'
    BY <2>3, <2>5, <2>6, <2>7 DEF StoryInv, WaitingIsOpen, IInv, Types, AtSession
  <2>13. PublishesReport'
    BY <2>3, <2>4, <2>6, <2>7, NotOver DEF StoryInv, PublishesReport, IInv, Types
  <2>14. FilesTyped'
    BY <2>3 DEF StoryInv, FilesTyped
  <2>15. AnswersWhenOver'
    BY <2>3, <2>4, NotOver DEF StoryInv, AnswersWhenOver
  <2>16. PublishedIsFinal'
    BY <2>3, <2>4, NotOver DEF StoryInv, PublishedIsFinal
  <2>17. DisturbedFails'
    <3>1. \A d \in Procs : d # c => forced'[d] = forced[d]
      BY <1>7 DEF InitChild, Leave, StoryInv, OwnersTyped
    <3>2. QED
      BY <2>3, <2>5, <2>6, <2>7, <3>1 DEF StoryInv, DisturbedFails, WillFail, DisturbancesTyped, IInv, Types
  <2>18. ChildTyped'
    <3> DEFINE x == at[c]
               now == IF child[x].stage = "absent" THEN Bare("empty") ELSE child[x]
    <3>1. x \in Sessions
      BY <1>7, NType DEF InitChild, IInv, Types, Sessions
    <3>2. now \in Children
      BY <3>1 DEF StoryInv, ChildTyped, Children, Bare
    <3>3. UNCHANGED child \/ child' = [child EXCEPT ![x] = now]
      BY <1>7 DEF InitChild
    <3> HIDE DEF x, now
    <3>4. child' \in [Sessions -> Children]
      BY <3>1, <3>2, <3>3 DEF StoryInv, ChildTyped
    <3>5. QED
      BY <3>4 DEF ChildTyped, Children, Sessions
  <2>19. DisturbancesTyped'
    BY <1>7 DEF StoryInv, DisturbancesTyped, InitChild, Leave, Go, Quiet, own
  <2>20. OwnersTyped'
    BY <1>7, <2>3 DEF StoryInv, OwnersTyped, InitChild, Leave
  <2>21. QED
    BY <2>8, <2>9, <2>10, <2>11, <2>12, <2>13, <2>14, <2>15, <2>16, <2>17, <2>18, <2>19, <2>20
         DEF StoryInv
<1>8. ASSUME NEW c \in Procs, Reconcile(c) PROVE StoryInv'
  <2>1. /\ pc[c] = "init" /\ UNCHANGED <<child, files, authorized, exported, disturbed, owner, termed, record>>
        /\ DOMAIN draft' = Procs
    BY <1>8 DEF Reconcile, Leave, own, Quiet, StoryInv, DisturbancesTyped
  <2>2. pc' = [pc EXCEPT ![c] = "idle"] \/ pc' = [pc EXCEPT ![c] = "next"]
    BY <1>8 DEF Reconcile, Leave, Go
  <2>3. UNCHANGED history \/ (IsOpen /\ EndWith("failed"))
    BY <1>8 DEF Reconcile
  <2>4. \A d \in Procs : d # c => pc[d] \in Outside
    BY <2>1, Alone DEF Outside
  <2>5. \A t \in Sessions : ~Alive(t)
    BY <2>1, NobodyAlive DEF Coordinating
  <2>6. UNCHANGED <<child, history>> \/ ~Over
    BY <2>1, <2>3 DEF Over
  <2>7. /\ HistoryTyped' /\ OneEntry' /\ OnlyLastOpen'
        /\ \A t \in Sessions : Failed(t) \/ WillFail(t) => Failed(t)' \/ WillFail(t)'
    <3>1. CASE UNCHANGED history
      BY <2>1, <2>2, <2>4, <3>1, StoryStands DEF WillFail, Outside, IInv, Types
    <3>2. CASE IsOpen /\ EndWith("failed")
      BY <3>2, EndsOpen DEF WillFail
    <3>3. QED
      BY <2>3, <3>1, <3>2
  <2>8. HistoryTyped'
    BY <2>7
  <2>9. OneEntry'
    BY <2>7
  <2>10. OnlyLastOpen'
    BY <2>7
  <2>11. AliveIsOpen'
    BY <2>1, <2>5 DEF AliveIsOpen, Alive
  <2>12. WaitingIsOpen'
    BY <2>2, <2>4 DEF WaitingIsOpen, IInv, Types, Outside
  <2>13. PublishesReport'
    BY <2>2, <2>4 DEF PublishesReport, IInv, Types, Outside
  <2>14. FilesTyped'
    BY <2>1 DEF StoryInv, FilesTyped
  <2>15. AnswersWhenOver'
    BY <2>1, <2>6, NotOver, StoryStands DEF StoryInv, AnswersWhenOver
  <2>16. PublishedIsFinal'
    BY <2>1, <2>6, NotOver, StoryStands DEF StoryInv, PublishedIsFinal
  <2>17. DisturbedFails'
    BY <2>1, <2>7 DEF StoryInv, DisturbedFails, DisturbancesTyped
  <2>18. ChildTyped'
    BY <2>1 DEF StoryInv, ChildTyped
  <2>19. DisturbancesTyped'
    BY <2>1 DEF StoryInv, DisturbancesTyped
  <2>20. OwnersTyped'
    BY <1>8, <2>1 DEF StoryInv, OwnersTyped, Reconcile, Leave
  <2>21. QED
    BY <2>8, <2>9, <2>10, <2>11, <2>12, <2>13, <2>14, <2>15, <2>16, <2>17, <2>18, <2>19, <2>20
         DEF StoryInv
<1>9. ASSUME NEW c \in Procs, Skip(c) PROVE StoryInv'
  <2>1. /\ Report' = Report /\ (Over' <=> Over)
        /\ \A t \in Sessions : (OpenFor(t)' <=> OpenFor(t)) /\ (Failed(t)' <=> Failed(t))
    BY <1>9, StoryStands DEF Skip, Quiet, stored, own
  <2>2. HistoryTyped'
    BY <1>9, StoryStands DEF Skip, Quiet, stored, own
  <2>3. OneEntry'
    BY <1>9, StoryStands DEF Skip, Quiet, stored, own
  <2>4. OnlyLastOpen'
    BY <1>9, StoryStands DEF Skip, Quiet, stored, own
  <2>5. AliveIsOpen'
    BY <1>9, <2>1 DEF StoryInv, AliveIsOpen, Alive, Types, WaitingIsOpen, AtSession, IInv, Skip,
         Quiet, stored, own
  <2>6. WaitingIsOpen'
    BY <1>9, <2>1 DEF StoryInv, WaitingIsOpen, Types, AtSession, IInv, Skip, Quiet, stored, own
  <2>7. PublishesReport'
    BY <1>9, <2>1 DEF StoryInv, PublishesReport, Types, DisturbancesTyped, IInv, Skip, Quiet, stored, own
  <2>8. FilesTyped'
    BY <1>9, <2>1 DEF StoryInv, FilesTyped, IInv, Skip, Quiet, stored, own
  <2>9. AnswersWhenOver'
    BY <1>9, <2>1 DEF StoryInv, AnswersWhenOver, IInv, Skip, Quiet, stored, own
  <2>10. PublishedIsFinal'
    BY <1>9, <2>1 DEF StoryInv, PublishedIsFinal, IInv, Skip, Quiet, stored, own
  <2>11. DisturbedFails'
    BY <1>9, <2>1 DEF StoryInv, DisturbedFails, WillFail, DisturbancesTyped, OwnersTyped, Types,
         AliveIsOpen, WaitingIsOpen, AtSession, Alive, Outside, Inside, OneController, Coordinating,
         IInv, Skip, Quiet, stored, own
  <2>12. ChildTyped'
    BY <1>9, <2>1 DEF StoryInv, ChildTyped, IInv, Skip, Quiet, stored, own
  <2>13. DisturbancesTyped'
    BY <1>9, <2>1 DEF StoryInv, DisturbancesTyped, IInv, Skip, Quiet, stored, own
  <2>14. OwnersTyped'
    BY <1>9, <2>1 DEF StoryInv, OwnersTyped, Types, IInv, Skip, Quiet, stored, own
  <2>15. QED
    BY <2>2, <2>3, <2>4, <2>5, <2>6, <2>7, <2>8, <2>9, <2>10, <2>11, <2>12, <2>13, <2>14 DEF
         StoryInv
<1>10. ASSUME NEW c \in Procs, PublishStart(c) PROVE StoryInv'
  <2>1. /\ pc[c] = "next" /\ at[c] \in Sessions /\ ~Ended(at[c]) /\ ~Over
        /\ UNCHANGED <<child, files, authorized, exported, disturbed, owner, termed, record>>
        /\ DOMAIN draft' = Procs
    BY <1>10, NType DEF PublishStart, Leave, own, Quiet, StoryInv, DisturbancesTyped, Sessions, IInv, Types, Over
  <2>2. \/ UNCHANGED history /\ pc' = [pc EXCEPT ![c] = "idle"]
        \/ /\ ~IsOpen /\ history' = Append(history, [s |-> at[c], end |-> "open"])
           /\ pc' = [pc EXCEPT ![c] = "spawn"] /\ UNCHANGED at
    BY <1>10 DEF PublishStart, Leave, Go, Startable
  <2>3. \A d \in Procs : d # c => pc[d] \in Outside
    BY <2>1, Alone DEF Outside
  <2>4. \A t \in Sessions : ~Alive(t)
    BY <2>1, NobodyAlive DEF Coordinating
  <2>5. /\ HistoryTyped' /\ OneEntry' /\ OnlyLastOpen'
        /\ \A t \in Sessions : pc'[c] = "spawn" /\ t = at'[c] => OpenFor(t)'
        /\ \A t \in Sessions : Failed(t) \/ WillFail(t) => Failed(t)' \/ WillFail(t)'
    <3>1. CASE UNCHANGED history /\ pc' = [pc EXCEPT ![c] = "idle"]
      BY <2>1, <2>3, <3>1, StoryStands DEF WillFail, Outside, IInv, Types
    <3>2. CASE /\ ~IsOpen /\ history' = Append(history, [s |-> at[c], end |-> "open"])
               /\ pc' = [pc EXCEPT ![c] = "spawn"] /\ UNCHANGED at
      <4>1. PICK x \in Sessions : x = at[c]
        BY <2>1
      <4>2. ~Ended(x) /\ history' = Append(history, [s |-> x, end |-> "open"])
        BY <2>1, <3>2, <4>1
      <4>3. /\ HistoryTyped' /\ OneEntry' /\ OnlyLastOpen' /\ OpenFor(x)'
            /\ \A t \in Sessions : Failed(t) => Failed(t)'
        BY <3>2, <4>2, StartsOpen
      <4>4. \A t \in Sessions : ~WillFail(t)
        BY <3>2 DEF WillFail, OpenFor
      <4>5. QED
        BY <3>2, <4>1, <4>3, <4>4
    <3>3. QED
      BY <2>2, <3>1, <3>2
  <2>6. HistoryTyped'
    BY <2>5
  <2>7. OneEntry'
    BY <2>5
  <2>8. OnlyLastOpen'
    BY <2>5
  <2>9. AliveIsOpen'
    BY <2>1, <2>4 DEF AliveIsOpen, Alive
  <2>10. WaitingIsOpen'
    <3>1. \A d \in Procs : pc'[d] \in {"spawn", "wait"} => d = c /\ pc'[c] = "spawn" /\ at'[c] \in Sessions
      BY <2>1, <2>2, <2>3 DEF IInv, Types, Outside
    <3>2. pc'[c] = "spawn" => OpenFor(at[c])'
      BY <2>5, <3>1
    <3>3. QED
      BY <3>1, <3>2 DEF WaitingIsOpen
  <2>11. PublishesReport'
    BY <2>2, <2>3 DEF PublishesReport, IInv, Types, Outside
  <2>12. FilesTyped'
    BY <2>1 DEF StoryInv, FilesTyped
  <2>13. AnswersWhenOver'
    BY <2>1, NotOver DEF AnswersWhenOver
  <2>14. PublishedIsFinal'
    BY <2>1, NotOver DEF PublishedIsFinal
  <2>15. DisturbedFails'
    BY <2>1, <2>5 DEF StoryInv, DisturbedFails, DisturbancesTyped
  <2>16. ChildTyped'
    BY <2>1 DEF StoryInv, ChildTyped
  <2>17. DisturbancesTyped'
    BY <2>1 DEF StoryInv, DisturbancesTyped
  <2>18. OwnersTyped'
    BY <1>10, <2>1 DEF StoryInv, OwnersTyped, PublishStart, Leave
  <2>19. QED
    BY <2>6, <2>7, <2>8, <2>9, <2>10, <2>11, <2>12, <2>13, <2>14, <2>15, <2>16, <2>17, <2>18 DEF
         StoryInv
<1>11. ASSUME NEW c \in Procs, EndLoop(c) PROVE StoryInv'
  <2>1. /\ Report' = Report /\ (Over' <=> Over)
        /\ \A t \in Sessions : (OpenFor(t)' <=> OpenFor(t)) /\ (Failed(t)' <=> Failed(t))
    BY <1>11, StoryStands DEF EndLoop, Go, Quiet, stored, own
  <2>2. HistoryTyped'
    BY <1>11, StoryStands DEF EndLoop, Go, Quiet, stored, own
  <2>3. OneEntry'
    BY <1>11, StoryStands DEF EndLoop, Go, Quiet, stored, own
  <2>4. OnlyLastOpen'
    BY <1>11, StoryStands DEF EndLoop, Go, Quiet, stored, own
  <2>5. AliveIsOpen'
    BY <1>11, <2>1 DEF StoryInv, AliveIsOpen, Alive, Types, WaitingIsOpen, AtSession, IInv, EndLoop,
         Go, Quiet, stored, own
  <2>6. WaitingIsOpen'
    BY <1>11, <2>1 DEF StoryInv, WaitingIsOpen, Types, AtSession, IInv, EndLoop, Go, Quiet, stored,
         own
  <2>7. PublishesReport'
    BY <1>11, <2>1 DEF StoryInv, PublishesReport, Types, DisturbancesTyped, IInv, EndLoop, Go, Quiet,
         stored, own
  <2>8. FilesTyped'
    BY <1>11, <2>1 DEF StoryInv, FilesTyped, IInv, EndLoop, Go, Quiet, stored, own
  <2>9. AnswersWhenOver'
    BY <1>11, <2>1 DEF StoryInv, AnswersWhenOver, IInv, EndLoop, Go, Quiet, stored, own
  <2>10. PublishedIsFinal'
    BY <1>11, <2>1 DEF StoryInv, PublishedIsFinal, IInv, EndLoop, Go, Quiet, stored, own
  <2>11. DisturbedFails'
    BY <1>11, <2>1 DEF StoryInv, DisturbedFails, WillFail, DisturbancesTyped, OwnersTyped, Types,
         AliveIsOpen, WaitingIsOpen, AtSession, Alive, Outside, Inside, OneController, Coordinating,
         IInv, EndLoop, Go, Quiet, stored, own
  <2>12. ChildTyped'
    BY <1>11, <2>1 DEF StoryInv, ChildTyped, IInv, EndLoop, Go, Quiet, stored, own
  <2>13. DisturbancesTyped'
    BY <1>11, <2>1 DEF StoryInv, DisturbancesTyped, IInv, EndLoop, Go, Quiet, stored, own
  <2>14. OwnersTyped'
    BY <1>11, <2>1 DEF StoryInv, OwnersTyped, Types, IInv, EndLoop, Go, Quiet, stored, own
  <2>15. QED
    BY <2>2, <2>3, <2>4, <2>5, <2>6, <2>7, <2>8, <2>9, <2>10, <2>11, <2>12, <2>13, <2>14 DEF
         StoryInv
<1>12. ASSUME NEW c \in Procs, Spawn(c) PROVE StoryInv'
  <2>1. /\ Report' = Report /\ (Over' <=> Over)
        /\ \A t \in Sessions : (OpenFor(t)' <=> OpenFor(t)) /\ (Failed(t)' <=> Failed(t))
    BY <1>12, StoryStands DEF Spawn, Go, stored
  <2>2. HistoryTyped'
    BY <1>12, StoryStands DEF Spawn, Go, stored
  <2>3. OneEntry'
    BY <1>12, StoryStands DEF Spawn, Go, stored
  <2>4. OnlyLastOpen'
    BY <1>12, StoryStands DEF Spawn, Go, stored
  <2>5. AliveIsOpen'
    BY <1>12, <2>1 DEF StoryInv, AliveIsOpen, Alive, Types, WaitingIsOpen, AtSession, IInv, Spawn,
         Go, stored
  <2>6. WaitingIsOpen'
    BY <1>12, <2>1 DEF StoryInv, WaitingIsOpen, Types, AtSession, IInv, Spawn, Go, Quiet, stored
  <2>7. PublishesReport'
    BY <1>12, <2>1 DEF StoryInv, PublishesReport, Types, DisturbancesTyped, IInv, Spawn, Go, Quiet, stored
  <2>8. FilesTyped'
    BY <1>12, <2>1 DEF StoryInv, FilesTyped, IInv, Spawn, Go, Quiet, stored
  <2>9. AnswersWhenOver'
    BY <1>12, <2>1 DEF StoryInv, AnswersWhenOver, IInv, Spawn, Go, Quiet, stored
  <2>10. PublishedIsFinal'
    BY <1>12, <2>1 DEF StoryInv, PublishedIsFinal, IInv, Spawn, Go, Quiet, stored
  <2>11. DisturbedFails'
    <3> SUFFICES ASSUME NEW t \in disturbed' PROVE Failed(t)' \/ WillFail(t)'
      BY DEF DisturbedFails
    <3>1. pc[c] = "spawn" /\ pc' = [pc EXCEPT ![c] = "wait"] /\ at[c] \in Sessions /\ OpenFor(at[c])
      BY <1>12 DEF Spawn, Go, IInv, AtSession, StoryInv, WaitingIsOpen
    <3>2. t \in disturbed
      BY <1>12 DEF Spawn, Quiet
    <3>3. QED
      BY <2>1, <3>1, <3>2 DEF StoryInv, DisturbedFails, DisturbancesTyped, WillFail
  <2>12. ChildTyped'
    BY <1>12, <2>1 DEF StoryInv, ChildTyped, IInv, Spawn, Go, Quiet, stored
  <2>13. DisturbancesTyped'
    BY <1>12 DEF Spawn, Quiet, IInv, AtSession, StoryInv, DisturbancesTyped
  <2>14. OwnersTyped'
    BY <1>12, <2>1 DEF StoryInv, OwnersTyped, Types, IInv, Spawn, Go, Quiet, stored
  <2>15. QED
    BY <2>2, <2>3, <2>4, <2>5, <2>6, <2>7, <2>8, <2>9, <2>10, <2>11, <2>12, <2>13, <2>14 DEF
         StoryInv
<1>13. ASSUME NEW c \in Procs, Close(c) PROVE StoryInv'
  <2>1. /\ pc[c] = "wait" /\ owner[at[c]] = "gone" /\ pc' = [pc EXCEPT ![c] = "after"]
        /\ UNCHANGED <<child, files, authorized, exported, at, draft, disturbed, owner, termed, record>>
    BY <1>13 DEF Close, Go, own, Quiet
  <2>2. PICK how \in {"committed", "failed"} :
          EndWith(how) /\ (how = "committed" => record[at[c]] = "committed" /\ termed[at[c]] # "seen" /\ ~forced[c])
    BY <1>13 DEF Close, Accepted
  <2>3. at[c] \in Sessions /\ OpenFor(at[c]) /\ IsOpen /\ ~Over
    BY <2>1 DEF StoryInv, WaitingIsOpen, IInv, AtSession, OpenFor, Over
  <2>4. /\ HistoryTyped' /\ OneEntry' /\ OnlyLastOpen' /\ ~IsOpen'
        /\ \A t \in Sessions : Failed(t) => Failed(t)'
        /\ \A t \in Sessions : OpenFor(t) /\ how = "failed" => Failed(t)'
    BY <2>2, <2>3, EndsOpen
  <2>5. \A d \in Procs : d # c => pc[d] \in Outside
    BY <2>1, Alone DEF Outside
  <2>6. \A t \in Sessions : ~Alive(t)
    BY <2>1 DEF IInv, OwnerIsAwaited, Coordinating, Alive
  <2>7. HistoryTyped'
    BY <2>4
  <2>8. OneEntry'
    BY <2>4
  <2>9. OnlyLastOpen'
    BY <2>4
  <2>10. AliveIsOpen'
    BY <2>1, <2>6 DEF AliveIsOpen, Alive
  <2>11. WaitingIsOpen'
    BY <2>1, <2>5 DEF WaitingIsOpen, IInv, Types, Outside
  <2>12. PublishesReport'
    BY <2>1, <2>5 DEF PublishesReport, IInv, Types, Outside
  <2>13. FilesTyped'
    BY <2>1 DEF StoryInv, FilesTyped
  <2>14. AnswersWhenOver'
    BY <2>1, <2>3, NotOver DEF AnswersWhenOver
  <2>15. PublishedIsFinal'
    BY <2>1, <2>3, NotOver DEF PublishedIsFinal
  <2>16. DisturbedFails'
    <3> SUFFICES ASSUME NEW t \in disturbed PROVE Failed(t)'
      BY <2>1 DEF DisturbedFails
    <3>1. CASE Failed(t)
      BY <2>4, <3>1 DEF StoryInv, DisturbancesTyped
    <3>2. CASE WillFail(t)
      <4>1. t = at[c]
        BY <2>3, <3>2 DEF WillFail, OpenFor
      <4>2. how = "failed"
        BY <2>1, <2>2, <3>2, <4>1 DEF WillFail
      <4>3. QED
        BY <2>4, <3>2, <4>2 DEF WillFail, StoryInv, DisturbancesTyped
    <3>3. QED
      BY <3>1, <3>2 DEF StoryInv, DisturbedFails
  <2>17. ChildTyped'
    BY <2>1 DEF StoryInv, ChildTyped
  <2>18. DisturbancesTyped'
    BY <2>1 DEF StoryInv, DisturbancesTyped
  <2>19. OwnersTyped'
    BY <1>13, <2>1 DEF StoryInv, OwnersTyped, Close
  <2>20. QED
    BY <2>7, <2>8, <2>9, <2>10, <2>11, <2>12, <2>13, <2>14, <2>15, <2>16, <2>17, <2>18, <2>19
         DEF StoryInv
<1>14. ASSUME NEW c \in Procs, After(c) PROVE StoryInv'
  <2>1. /\ Report' = Report /\ (Over' <=> Over)
        /\ \A t \in Sessions : (OpenFor(t)' <=> OpenFor(t)) /\ (Failed(t)' <=> Failed(t))
    BY <1>14, StoryStands DEF After, Leave, Go, Quiet, stored, own
  <2>2. HistoryTyped'
    BY <1>14, StoryStands DEF After, Leave, Go, Quiet, stored, own
  <2>3. OneEntry'
    BY <1>14, StoryStands DEF After, Leave, Go, Quiet, stored, own
  <2>4. OnlyLastOpen'
    BY <1>14, StoryStands DEF After, Leave, Go, Quiet, stored, own
  <2>5. AliveIsOpen'
    BY <1>14, <2>1 DEF StoryInv, AliveIsOpen, Alive, Types, WaitingIsOpen, AtSession, IInv, After,
         Leave, Go, Quiet, stored, own
  <2>6. WaitingIsOpen'
    BY <1>14, <2>1 DEF StoryInv, WaitingIsOpen, Types, AtSession, IInv, After, Leave, Go, Quiet,
         stored, own
  <2>7. PublishesReport'
    BY <1>14, <2>1 DEF StoryInv, PublishesReport, Types, DisturbancesTyped, IInv, After, Leave, Go, Quiet,
         stored, own
  <2>8. FilesTyped'
    BY <1>14, <2>1 DEF StoryInv, FilesTyped, IInv, After, Leave, Go, Quiet, stored, own
  <2>9. AnswersWhenOver'
    BY <1>14, <2>1 DEF StoryInv, AnswersWhenOver, IInv, After, Leave, Go, Quiet, stored, own
  <2>10. PublishedIsFinal'
    BY <1>14, <2>1 DEF StoryInv, PublishedIsFinal, IInv, After, Leave, Go, Quiet, stored, own
  <2>11. DisturbedFails'
    BY <1>14, <2>1 DEF StoryInv, DisturbedFails, WillFail, DisturbancesTyped, OwnersTyped, Types,
         AliveIsOpen, WaitingIsOpen, AtSession, Alive, Outside, Inside, OneController, Coordinating,
         IInv, After, Leave, Go, Quiet, stored, own
  <2>12. ChildTyped'
    BY <1>14, <2>1 DEF StoryInv, ChildTyped, IInv, After, Leave, Go, Quiet, stored, own
  <2>13. DisturbancesTyped'
    BY <1>14, <2>1 DEF StoryInv, DisturbancesTyped, IInv, After, Leave, Go, Quiet, stored, own
  <2>14. OwnersTyped'
    BY <1>14, <2>1 DEF StoryInv, OwnersTyped, Types, IInv, After, Leave, Go, Quiet, stored, own
  <2>15. QED
    BY <2>2, <2>3, <2>4, <2>5, <2>6, <2>7, <2>8, <2>9, <2>10, <2>11, <2>12, <2>13, <2>14 DEF
         StoryInv
<1>15. ASSUME NEW c \in Procs, Derive(c) PROVE StoryInv'
  <2>1. /\ Report' = Report /\ (Over' <=> Over)
        /\ \A t \in Sessions : (OpenFor(t)' <=> OpenFor(t)) /\ (Failed(t)' <=> Failed(t))
    BY <1>15, StoryStands DEF Derive, Go, Leave, Quiet, stored, own
  <2>2. HistoryTyped'
    BY <1>15, StoryStands DEF Derive, Go, Leave, Quiet, stored, own
  <2>3. OneEntry'
    BY <1>15, StoryStands DEF Derive, Go, Leave, Quiet, stored, own
  <2>4. OnlyLastOpen'
    BY <1>15, StoryStands DEF Derive, Go, Leave, Quiet, stored, own
  <2>5. AliveIsOpen'
    BY <1>15, <2>1 DEF StoryInv, AliveIsOpen, Alive, Types, WaitingIsOpen, AtSession, IInv, Derive,
         Go, Leave, Quiet, stored, own
  <2>6. WaitingIsOpen'
    BY <1>15, <2>1 DEF StoryInv, WaitingIsOpen, Types, AtSession, IInv, Derive, Go, Leave, Quiet,
         stored, own
  <2>7. PublishesReport'
    <3>1. Readable /\ (\A s \in Sessions : Ended(s)) => Over
      BY ReadableIsOver
    <3>2. QED
      BY <1>15, <2>1, <3>1 DEF StoryInv, PublishesReport, DisturbancesTyped, IInv, Types, Derive, Go, Leave, Quiet
  <2>8. FilesTyped'
    BY <1>15, <2>1 DEF StoryInv, FilesTyped, IInv, Derive, Go, Leave, Quiet, stored, own
  <2>9. AnswersWhenOver'
    BY <1>15, <2>1 DEF StoryInv, AnswersWhenOver, IInv, Derive, Go, Leave, Quiet, stored, own
  <2>10. PublishedIsFinal'
    BY <1>15, <2>1 DEF StoryInv, PublishedIsFinal, IInv, Derive, Go, Leave, Quiet, stored, own
  <2>11. DisturbedFails'
    BY <1>15, <2>1 DEF StoryInv, DisturbedFails, WillFail, DisturbancesTyped, OwnersTyped, Types,
         AliveIsOpen, WaitingIsOpen, AtSession, Alive, Outside, Inside, OneController, Coordinating,
         IInv, Derive, Go, Leave, Quiet, stored, own
  <2>12. ChildTyped'
    BY <1>15, <2>1 DEF StoryInv, ChildTyped, IInv, Derive, Go, Leave, Quiet, stored, own
  <2>13. DisturbancesTyped'
    BY <1>15, <2>1 DEF StoryInv, DisturbancesTyped, IInv, Derive, Go, Leave, Quiet, stored, own
  <2>14. OwnersTyped'
    BY <1>15, <2>1 DEF StoryInv, OwnersTyped, Types, IInv, Derive, Go, Leave, Quiet, stored, own
  <2>15. QED
    BY <2>2, <2>3, <2>4, <2>5, <2>6, <2>7, <2>8, <2>9, <2>10, <2>11, <2>12, <2>13, <2>14 DEF
         StoryInv
<1>16. ASSUME NEW c \in Procs, PutFile(c) PROVE StoryInv'
  <2>1. /\ Report' = Report /\ (Over' <=> Over)
        /\ \A t \in Sessions : (OpenFor(t)' <=> OpenFor(t)) /\ (Failed(t)' <=> Failed(t))
    BY <1>16, StoryStands DEF PutFile, Leave, Go, Quiet, own
  <2>2. pc[c] = "publish" /\ draft[c] = Report /\ at[c] \in 1..3 /\ Over
    BY <1>16 DEF StoryInv, PublishesReport, PutFile
  <2>3. files' = files \/ files' = [files EXCEPT ![Files[at[c]]] = Report]
    BY <1>16, <2>2 DEF PutFile
  <2>4. \/ pc' = [pc EXCEPT ![c] = "idle"]
        \/ at[c] < 3 /\ at' = [at EXCEPT ![c] = at[c] + 1] /\ UNCHANGED <<pc, draft>>
    <3>1. Len(Files) = 3
      BY DEF Files
    <3>2. QED
      BY <1>16, <2>2, <3>1 DEF PutFile, Leave, Go
  <2>5. \A d \in Procs : d # c => at'[d] = at[d] /\ draft'[d] = draft[d]
    BY <1>16 DEF IInv, Types, StoryInv, DisturbancesTyped, PutFile, Leave
  <2>6. HistoryTyped'
    BY <1>16, StoryStands DEF PutFile, Leave, Go, Quiet, own
  <2>7. OneEntry'
    BY <1>16, StoryStands DEF PutFile, Leave, Go, Quiet, own
  <2>8. OnlyLastOpen'
    BY <1>16, StoryStands DEF PutFile, Leave, Go, Quiet, own
  <2>9. AliveIsOpen'
    BY <1>16, <2>1 DEF StoryInv, AliveIsOpen, Alive, Types, WaitingIsOpen, AtSession, IInv, PutFile,
         Leave, Go, Quiet, own
  <2>10. WaitingIsOpen'
    BY <1>16, <2>1 DEF StoryInv, WaitingIsOpen, Types, AtSession, IInv, PutFile, Leave, Go, Quiet,
         own
  <2>11. PublishesReport'
    BY <2>1, <2>2, <2>4, <2>5 DEF StoryInv, PublishesReport, IInv, Types, DisturbancesTyped
  <2>12. FilesTyped'
    BY <1>16, <2>1 DEF StoryInv, FilesTyped, IInv, PutFile, Leave, Go, Quiet, own
  <2>13. AnswersWhenOver'
    BY <2>1, <2>2 DEF AnswersWhenOver
  <2>14. PublishedIsFinal'
    BY <1>16, <2>1, <2>3 DEF StoryInv, PublishedIsFinal, PutFile, Quiet
  <2>15. DisturbedFails'
    BY <1>16, <2>1 DEF StoryInv, DisturbedFails, WillFail, DisturbancesTyped, OwnersTyped, Types,
         AliveIsOpen, WaitingIsOpen, AtSession, Alive, Outside, Inside, OneController, Coordinating,
         IInv, PutFile, Leave, Go, Quiet, own
  <2>16. ChildTyped'
    BY <1>16, <2>1 DEF StoryInv, ChildTyped, IInv, PutFile, Leave, Go, Quiet, own
  <2>17. DisturbancesTyped'
    BY <1>16, <2>1 DEF StoryInv, DisturbancesTyped, IInv, PutFile, Leave, Go, Quiet, own
  <2>18. OwnersTyped'
    BY <1>16, <2>1 DEF StoryInv, OwnersTyped, Types, IInv, PutFile, Leave, Go, Quiet, own
  <2>19. QED
    BY <2>6, <2>7, <2>8, <2>9, <2>10, <2>11, <2>12, <2>13, <2>14, <2>15, <2>16, <2>17, <2>18 DEF
         StoryInv
<1>17. ASSUME NEW c \in Procs, Abort(c) PROVE StoryInv'
  <2>1. /\ Report' = Report /\ (Over' <=> Over)
        /\ \A t \in Sessions : (OpenFor(t)' <=> OpenFor(t)) /\ (Failed(t)' <=> Failed(t))
    BY <1>17, StoryStands DEF Abort, Coordinating, Tell, Quiet, stored
  <2>2. HistoryTyped'
    BY <1>17, StoryStands DEF Abort, Coordinating, Tell, Quiet, stored
  <2>3. OneEntry'
    BY <1>17, StoryStands DEF Abort, Coordinating, Tell, Quiet, stored
  <2>4. OnlyLastOpen'
    BY <1>17, StoryStands DEF Abort, Coordinating, Tell, Quiet, stored
  <2>5. AliveIsOpen'
    BY <1>17, <2>1 DEF StoryInv, AliveIsOpen, Alive, Types, WaitingIsOpen, AtSession, IInv, Abort,
         Coordinating, Tell, Quiet, stored
  <2>6. WaitingIsOpen'
    BY <1>17, <2>1 DEF StoryInv, WaitingIsOpen, Types, AtSession, IInv, Abort, Coordinating, Tell,
         stored
  <2>7. PublishesReport'
    BY <1>17, <2>1 DEF StoryInv, PublishesReport, Types, DisturbancesTyped, IInv, Abort, Coordinating, Tell,
         stored
  <2>8. FilesTyped'
    BY <1>17, <2>1 DEF StoryInv, FilesTyped, IInv, Abort, Coordinating, Tell, Quiet, stored
  <2>9. AnswersWhenOver'
    BY <1>17, <2>1 DEF StoryInv, AnswersWhenOver, IInv, Abort, Coordinating, Tell, Quiet, stored
  <2>10. PublishedIsFinal'
    BY <1>17, <2>1 DEF StoryInv, PublishedIsFinal, IInv, Abort, Coordinating, Tell, Quiet, stored
  <2>11. DisturbedFails'
    <3> SUFFICES ASSUME NEW t \in disturbed' PROVE Failed(t)' \/ WillFail(t)'
      BY DEF DisturbedFails
    <3>1. UNCHANGED <<pc, owner, record, forced, disturbed>>
      BY <1>17 DEF Abort, Quiet
    <3>2. \A u \in Sessions : termed[u] = "seen" => termed'[u] = "seen"
      BY <1>17 DEF Abort, Tell, Told, StoryInv, OwnersTyped
    <3>3. QED
      BY <2>1, <3>1, <3>2 DEF StoryInv, DisturbedFails, DisturbancesTyped, WillFail
  <2>12. ChildTyped'
    BY <1>17, <2>1 DEF StoryInv, ChildTyped, IInv, Abort, Coordinating, Tell, Quiet, stored
  <2>13. DisturbancesTyped'
    BY <1>17 DEF Abort, Tell, Quiet, IInv, AtSession, StoryInv, DisturbancesTyped
  <2>14. OwnersTyped'
    BY <1>17, <2>1 DEF StoryInv, OwnersTyped, Types, IInv, Abort, Coordinating, Tell, Quiet, stored
  <2>15. QED
    BY <2>2, <2>3, <2>4, <2>5, <2>6, <2>7, <2>8, <2>9, <2>10, <2>11, <2>12, <2>13, <2>14 DEF
         StoryInv
<1>18. ASSUME NEW c \in Procs, Deadline(c) PROVE StoryInv'
  <2>1. /\ Report' = Report /\ (Over' <=> Over)
        /\ \A t \in Sessions : (OpenFor(t)' <=> OpenFor(t)) /\ (Failed(t)' <=> Failed(t))
    BY <1>18, StoryStands DEF Deadline, Tell, stored
  <2>2. HistoryTyped'
    BY <1>18, StoryStands DEF Deadline, Tell, stored
  <2>3. OneEntry'
    BY <1>18, StoryStands DEF Deadline, Tell, stored
  <2>4. OnlyLastOpen'
    BY <1>18, StoryStands DEF Deadline, Tell, stored
  <2>5. AliveIsOpen'
    BY <1>18, <2>1 DEF StoryInv, AliveIsOpen, Alive, Types, WaitingIsOpen, AtSession, IInv, Deadline,
         Tell, stored
  <2>6. WaitingIsOpen'
    BY <1>18, <2>1 DEF StoryInv, WaitingIsOpen, Types, AtSession, IInv, Deadline, Tell, stored
  <2>7. PublishesReport'
    BY <1>18, <2>1 DEF StoryInv, PublishesReport, Types, DisturbancesTyped, IInv, Deadline, Tell, stored
  <2>8. FilesTyped'
    BY <1>18, <2>1 DEF StoryInv, FilesTyped, IInv, Deadline, Tell, stored
  <2>9. AnswersWhenOver'
    BY <1>18, <2>1 DEF StoryInv, AnswersWhenOver, IInv, Deadline, Tell, stored
  <2>10. PublishedIsFinal'
    BY <1>18, <2>1 DEF StoryInv, PublishedIsFinal, IInv, Deadline, Tell, stored
  <2>11. DisturbedFails'
    <3> SUFFICES ASSUME NEW t \in disturbed' PROVE Failed(t)' \/ WillFail(t)'
      BY DEF DisturbedFails
    <3>1. /\ forced' = [forced EXCEPT ![c] = TRUE] /\ pc[c] = "wait"
          /\ disturbed' = disturbed \union {at[c]} /\ UNCHANGED <<pc, owner, record>>
      BY <1>18 DEF Deadline
    <3>2. \A u \in Sessions : termed[u] = "seen" => termed'[u] = "seen"
      BY <1>18 DEF Deadline, Tell, Told, StoryInv, OwnersTyped
    <3>3. \A d \in Procs : forced[d] => forced'[d]
      BY <3>1 DEF StoryInv, OwnersTyped
    <3>4. CASE t \in disturbed
      BY <2>1, <3>1, <3>2, <3>3, <3>4 DEF StoryInv, DisturbedFails, DisturbancesTyped, WillFail
    <3>5. CASE t = at[c]
      <4>1. \A d \in Procs : d # c => pc[d] \in Outside
        BY <3>1, Alone DEF Outside
      <4>2. t \in Sessions /\ OpenFor(t)
        BY <3>1, <3>5 DEF IInv, AtSession, StoryInv, WaitingIsOpen
      <4>3. forced'[c]
        BY <3>1 DEF StoryInv, OwnersTyped
      <4>4. QED
        BY <2>1, <3>1, <4>1, <4>2, <4>3 DEF WillFail, Outside
    <3>6. QED
      BY <3>1, <3>4, <3>5
  <2>12. ChildTyped'
    BY <1>18, <2>1 DEF StoryInv, ChildTyped, IInv, Deadline, Tell, stored
  <2>13. DisturbancesTyped'
    BY <1>18 DEF Deadline, Tell, IInv, AtSession, StoryInv, DisturbancesTyped
  <2>14. OwnersTyped'
    BY <1>18, <2>1 DEF StoryInv, OwnersTyped, Types, IInv, Deadline, Tell, stored
  <2>15. QED
    BY <2>2, <2>3, <2>4, <2>5, <2>6, <2>7, <2>8, <2>9, <2>10, <2>11, <2>12, <2>13, <2>14 DEF
         StoryInv
<1>19. ASSUME NEW c \in Procs, Crash(c) PROVE StoryInv'
  <2>1. /\ Report' = Report /\ (Over' <=> Over)
        /\ \A t \in Sessions : (OpenFor(t)' <=> OpenFor(t)) /\ (Failed(t)' <=> Failed(t))
    BY <1>19, StoryStands DEF Crash, Leave, Go, Coordinating, stored, own
  <2>2. HistoryTyped'
    BY <1>19, StoryStands DEF Crash, Leave, Go, Coordinating, stored, own
  <2>3. OneEntry'
    BY <1>19, StoryStands DEF Crash, Leave, Go, Coordinating, stored, own
  <2>4. OnlyLastOpen'
    BY <1>19, StoryStands DEF Crash, Leave, Go, Coordinating, stored, own
  <2>5. AliveIsOpen'
    BY <1>19, <2>1 DEF StoryInv, AliveIsOpen, Alive, Types, WaitingIsOpen, AtSession, IInv, Crash,
         Leave, Go, Coordinating, stored, own
  <2>6. WaitingIsOpen'
    BY <1>19, <2>1 DEF StoryInv, WaitingIsOpen, Types, AtSession, IInv, Crash, Leave, Go,
         Coordinating, stored, own
  <2>7. PublishesReport'
    BY <1>19, <2>1 DEF StoryInv, PublishesReport, Types, DisturbancesTyped, IInv, Crash, Leave, Go,
         Coordinating, stored, own
  <2>8. FilesTyped'
    BY <1>19, <2>1 DEF StoryInv, FilesTyped, IInv, Crash, Leave, Go, Coordinating, stored, own
  <2>9. AnswersWhenOver'
    BY <1>19, <2>1 DEF StoryInv, AnswersWhenOver, IInv, Crash, Leave, Go, Coordinating, stored, own
  <2>10. PublishedIsFinal'
    BY <1>19, <2>1 DEF StoryInv, PublishedIsFinal, IInv, Crash, Leave, Go, Coordinating, stored, own
  <2>11. DisturbedFails'
    <3> SUFFICES ASSUME NEW t \in disturbed' PROVE Failed(t)' \/ WillFail(t)'
      BY DEF DisturbedFails
    <3>1. pc' = [pc EXCEPT ![c] = "idle"] /\ UNCHANGED <<termed, owner, record>>
      BY <1>19 DEF Crash, Leave, Go, own
    <3>2. CASE t \in disturbed
      <4>1. \A d \in Procs : d # c => forced'[d] = forced[d]
        BY <1>19 DEF Crash, Leave, StoryInv, OwnersTyped
      <4>2. QED
        BY <2>1, <3>1, <3>2, <4>1 DEF StoryInv, DisturbedFails, DisturbancesTyped, WillFail, IInv, Types
    <3>3. CASE t \notin disturbed
      <4>1. c \in Coordinating /\ IsOpen /\ t = Last(history).s
        BY <1>19, <3>3 DEF Crash
      <4>2. \A d \in Procs : d # c => pc[d] \in Outside
        BY <4>1, Alone DEF Coordinating, Outside
      <4>3. t \in Sessions /\ OpenFor(t)
        BY <4>1, LastIsSession
      <4>4. QED
        BY <2>1, <3>1, <4>2, <4>3 DEF WillFail, Outside, IInv, Types
    <3>4. QED
      BY <3>2, <3>3
  <2>12. ChildTyped'
    BY <1>19, <2>1 DEF StoryInv, ChildTyped, IInv, Crash, Leave, Go, Coordinating, stored, own
  <2>13. DisturbancesTyped'
    BY <1>19, LastIsSession DEF Crash, Leave, StoryInv, DisturbancesTyped
  <2>14. OwnersTyped'
    BY <1>19, <2>1 DEF StoryInv, OwnersTyped, Types, IInv, Crash, Leave, Go, Coordinating, stored,
         own
  <2>15. QED
    BY <2>2, <2>3, <2>4, <2>5, <2>6, <2>7, <2>8, <2>9, <2>10, <2>11, <2>12, <2>13, <2>14 DEF
         StoryInv
<1>20. ASSUME NEW c \in Procs, Authorize(c) PROVE StoryInv'
  <2>1. /\ Report' = Report /\ (Over' <=> Over)
        /\ \A t \in Sessions : (OpenFor(t)' <=> OpenFor(t)) /\ (Failed(t)' <=> Failed(t))
    BY <1>20, StoryStands DEF Authorize, Coordinating, stored, ctl, own
  <2>2. HistoryTyped'
    BY <1>20, StoryStands DEF Authorize, Coordinating, stored, ctl, own
  <2>3. OneEntry'
    BY <1>20, StoryStands DEF Authorize, Coordinating, stored, ctl, own
  <2>4. OnlyLastOpen'
    BY <1>20, StoryStands DEF Authorize, Coordinating, stored, ctl, own
  <2>5. AliveIsOpen'
    BY <1>20, <2>1 DEF StoryInv, AliveIsOpen, Alive, Types, WaitingIsOpen, AtSession, IInv,
         Authorize, Coordinating, stored, ctl, own
  <2>6. WaitingIsOpen'
    BY <1>20, <2>1 DEF StoryInv, WaitingIsOpen, Types, AtSession, IInv, Authorize, Coordinating,
         stored, ctl, own
  <2>7. PublishesReport'
    BY <1>20, <2>1 DEF StoryInv, PublishesReport, Types, DisturbancesTyped, IInv, Authorize, Coordinating,
         stored, ctl, own
  <2>8. FilesTyped'
    BY <1>20, <2>1 DEF StoryInv, FilesTyped, IInv, Authorize, Coordinating, stored, ctl, own
  <2>9. AnswersWhenOver'
    <3>1. Over
      BY <1>20, CompleteIsOver, CandidateIsComplete DEF Authorize
    <3>2. QED
      BY <2>1, <3>1 DEF AnswersWhenOver
  <2>10. PublishedIsFinal'
    BY <1>20, <2>1 DEF StoryInv, PublishedIsFinal, IInv, Authorize, Coordinating, stored, ctl, own
  <2>11. DisturbedFails'
    BY <1>20, <2>1 DEF StoryInv, DisturbedFails, WillFail, DisturbancesTyped, OwnersTyped, Types,
         AliveIsOpen, WaitingIsOpen, AtSession, Alive, Outside, Inside, OneController, Coordinating,
         IInv, Authorize, Coordinating, stored, ctl, own
  <2>12. ChildTyped'
    BY <1>20, <2>1 DEF StoryInv, ChildTyped, IInv, Authorize, Coordinating, stored, ctl, own
  <2>13. DisturbancesTyped'
    BY <1>20, <2>1 DEF StoryInv, DisturbancesTyped, IInv, Authorize, Coordinating, stored, ctl, own
  <2>14. OwnersTyped'
    BY <1>20, <2>1 DEF StoryInv, OwnersTyped, Types, IInv, Authorize, Coordinating, stored, ctl, own
  <2>15. QED
    BY <2>2, <2>3, <2>4, <2>5, <2>6, <2>7, <2>8, <2>9, <2>10, <2>11, <2>12, <2>13, <2>14 DEF
         StoryInv
<1>21. ASSUME NEW c \in Procs, Export(c) PROVE StoryInv'
  <2>1. /\ Report' = Report /\ (Over' <=> Over)
        /\ \A t \in Sessions : (OpenFor(t)' <=> OpenFor(t)) /\ (Failed(t)' <=> Failed(t))
    BY <1>21, StoryStands DEF Export, Coordinating, stored, ctl, own
  <2>2. HistoryTyped'
    BY <1>21, StoryStands DEF Export, Coordinating, stored, ctl, own
  <2>3. OneEntry'
    BY <1>21, StoryStands DEF Export, Coordinating, stored, ctl, own
  <2>4. OnlyLastOpen'
    BY <1>21, StoryStands DEF Export, Coordinating, stored, ctl, own
  <2>5. AliveIsOpen'
    BY <1>21, <2>1 DEF StoryInv, AliveIsOpen, Alive, Types, WaitingIsOpen, AtSession, IInv, Export,
         Coordinating, stored, ctl, own
  <2>6. WaitingIsOpen'
    BY <1>21, <2>1 DEF StoryInv, WaitingIsOpen, Types, AtSession, IInv, Export, Coordinating, stored,
         ctl, own
  <2>7. PublishesReport'
    BY <1>21, <2>1 DEF StoryInv, PublishesReport, Types, DisturbancesTyped, IInv, Export, Coordinating,
         stored, ctl, own
  <2>8. FilesTyped'
    BY <1>21, <2>1 DEF StoryInv, FilesTyped, IInv, Export, Coordinating, stored, ctl, own
  <2>9. AnswersWhenOver'
    <3>1. Over
      BY <1>21, CompleteIsOver, CandidateIsComplete DEF Export
    <3>2. QED
      BY <2>1, <3>1 DEF AnswersWhenOver
  <2>10. PublishedIsFinal'
    BY <1>21, <2>1 DEF StoryInv, PublishedIsFinal, IInv, Export, Coordinating, stored, ctl, own
  <2>11. DisturbedFails'
    BY <1>21, <2>1 DEF StoryInv, DisturbedFails, WillFail, DisturbancesTyped, OwnersTyped, Types,
         AliveIsOpen, WaitingIsOpen, AtSession, Alive, Outside, Inside, OneController, Coordinating,
         IInv, Export, Coordinating, stored, ctl, own
  <2>12. ChildTyped'
    BY <1>21, <2>1 DEF StoryInv, ChildTyped, IInv, Export, Coordinating, stored, ctl, own
  <2>13. DisturbancesTyped'
    BY <1>21, <2>1 DEF StoryInv, DisturbancesTyped, IInv, Export, Coordinating, stored, ctl, own
  <2>14. OwnersTyped'
    BY <1>21, <2>1 DEF StoryInv, OwnersTyped, Types, IInv, Export, Coordinating, stored, ctl, own
  <2>15. QED
    BY <2>2, <2>3, <2>4, <2>5, <2>6, <2>7, <2>8, <2>9, <2>10, <2>11, <2>12, <2>13, <2>14 DEF
         StoryInv
<1>22. ASSUME NEW s \in Sessions, OwnerRefuses(s) PROVE StoryInv'
  <2>1. /\ Report' = Report /\ (Over' <=> Over)
        /\ \A t \in Sessions : (OpenFor(t)' <=> OpenFor(t)) /\ (Failed(t)' <=> Failed(t))
    BY <1>22, StoryStands DEF OwnerRefuses, Becomes, Records, ByOwner, ctl
  <2>2. HistoryTyped'
    BY <1>22, StoryStands DEF OwnerRefuses, Becomes, Records, ByOwner, ctl
  <2>3. OneEntry'
    BY <1>22, StoryStands DEF OwnerRefuses, Becomes, Records, ByOwner, ctl
  <2>4. OnlyLastOpen'
    BY <1>22, StoryStands DEF OwnerRefuses, Becomes, Records, ByOwner, ctl
  <2>5. AliveIsOpen'
    BY <1>22, <2>1 DEF StoryInv, AliveIsOpen, Alive, Types, WaitingIsOpen, AtSession, IInv,
         OwnerRefuses, Becomes, Records, ByOwner, ctl
  <2>6. WaitingIsOpen'
    BY <1>22, <2>1 DEF StoryInv, WaitingIsOpen, Types, AtSession, IInv, OwnerRefuses, Becomes,
         Records, ByOwner, ctl
  <2>7. PublishesReport'
    BY <1>22, <2>1 DEF StoryInv, PublishesReport, Types, DisturbancesTyped, IInv, OwnerRefuses, Becomes,
         Records, ByOwner, ctl
  <2>8. FilesTyped'
    BY <1>22, <2>1 DEF StoryInv, FilesTyped, IInv, OwnerRefuses, Becomes, Records, ByOwner, ctl
  <2>9. AnswersWhenOver'
    BY <1>22, <2>1 DEF StoryInv, AnswersWhenOver, IInv, OwnerRefuses, Becomes, Records, ByOwner, ctl
  <2>10. PublishedIsFinal'
    BY <1>22, <2>1 DEF StoryInv, PublishedIsFinal, IInv, OwnerRefuses, Becomes, Records, ByOwner, ctl
  <2>11. DisturbedFails'
    BY <1>22, <2>1 DEF StoryInv, DisturbedFails, WillFail, DisturbancesTyped, OwnersTyped, Types,
         AliveIsOpen, WaitingIsOpen, AtSession, Alive, Outside, Inside, OneController, Coordinating,
         IInv, OwnerRefuses, Becomes, Records, ByOwner, ctl
  <2>12. ChildTyped'
    BY <1>22, <2>1 DEF StoryInv, ChildTyped, IInv, OwnerRefuses, Becomes, Records, ByOwner, ctl
  <2>13. DisturbancesTyped'
    BY <1>22, <2>1 DEF StoryInv, DisturbancesTyped, IInv, OwnerRefuses, Becomes, Records, ByOwner, ctl
  <2>14. OwnersTyped'
    BY <1>22, <2>1 DEF StoryInv, OwnersTyped, Types, IInv, OwnerRefuses, Becomes, Records, ByOwner,
         ctl
  <2>15. QED
    BY <2>2, <2>3, <2>4, <2>5, <2>6, <2>7, <2>8, <2>9, <2>10, <2>11, <2>12, <2>13, <2>14 DEF
         StoryInv
<1>23. ASSUME NEW s \in Sessions, OwnerMeasures(s) PROVE StoryInv'
  <2>1. /\ Report' = Report /\ (Over' <=> Over)
        /\ \A t \in Sessions : (OpenFor(t)' <=> OpenFor(t)) /\ (Failed(t)' <=> Failed(t))
    BY <1>23, StoryStands DEF OwnerMeasures, Becomes, ByOwner, ctl
  <2>2. HistoryTyped'
    BY <1>23, StoryStands DEF OwnerMeasures, Becomes, ByOwner, ctl
  <2>3. OneEntry'
    BY <1>23, StoryStands DEF OwnerMeasures, Becomes, ByOwner, ctl
  <2>4. OnlyLastOpen'
    BY <1>23, StoryStands DEF OwnerMeasures, Becomes, ByOwner, ctl
  <2>5. AliveIsOpen'
    BY <1>23, <2>1 DEF StoryInv, AliveIsOpen, Alive, Types, WaitingIsOpen, AtSession, IInv,
         OwnerMeasures, Becomes, ByOwner, ctl
  <2>6. WaitingIsOpen'
    BY <1>23, <2>1 DEF StoryInv, WaitingIsOpen, Types, AtSession, IInv, OwnerMeasures, Becomes,
         ByOwner, ctl
  <2>7. PublishesReport'
    BY <1>23, <2>1 DEF StoryInv, PublishesReport, Types, DisturbancesTyped, IInv, OwnerMeasures, Becomes,
         ByOwner, ctl
  <2>8. FilesTyped'
    BY <1>23, <2>1 DEF StoryInv, FilesTyped, IInv, OwnerMeasures, Becomes, ByOwner, ctl
  <2>9. AnswersWhenOver'
    BY <1>23, <2>1 DEF StoryInv, AnswersWhenOver, IInv, OwnerMeasures, Becomes, ByOwner, ctl
  <2>10. PublishedIsFinal'
    BY <1>23, <2>1 DEF StoryInv, PublishedIsFinal, IInv, OwnerMeasures, Becomes, ByOwner, ctl
  <2>11. DisturbedFails'
    BY <1>23, <2>1 DEF StoryInv, DisturbedFails, WillFail, DisturbancesTyped, OwnersTyped, Types,
         AliveIsOpen, WaitingIsOpen, AtSession, Alive, Outside, Inside, OneController, Coordinating,
         IInv, OwnerMeasures, Becomes, ByOwner, ctl
  <2>12. ChildTyped'
    BY <1>23, <2>1 DEF StoryInv, ChildTyped, IInv, OwnerMeasures, Becomes, ByOwner, ctl
  <2>13. DisturbancesTyped'
    BY <1>23, <2>1 DEF StoryInv, DisturbancesTyped, IInv, OwnerMeasures, Becomes, ByOwner, ctl
  <2>14. OwnersTyped'
    BY <1>23, <2>1 DEF StoryInv, OwnersTyped, Types, IInv, OwnerMeasures, Becomes, ByOwner, ctl
  <2>15. QED
    BY <2>2, <2>3, <2>4, <2>5, <2>6, <2>7, <2>8, <2>9, <2>10, <2>11, <2>12, <2>13, <2>14 DEF
         StoryInv
<1>24. ASSUME NEW s \in Sessions, OwnerCommits(s) PROVE StoryInv'
  <2>1. /\ Alive(s) /\ owner' = [owner EXCEPT ![s] = "committed"] /\ record' = [record EXCEPT ![s] = "committed"]
        /\ UNCHANGED <<history, files, authorized, exported, pc, at, draft, disturbed, termed, forced>>
    BY <1>24 DEF OwnerCommits, Becomes, Records, ByOwner, ctl, Alive
  <2>2. ~Over
    BY <2>1 DEF StoryInv, AliveIsOpen, Over, OpenFor
  <2>3. \A t \in Sessions : (OpenFor(t)' <=> OpenFor(t)) /\ (Failed(t)' <=> Failed(t))
    BY <2>1 DEF OpenFor, IsOpen, Failed
  <2>4. HistoryTyped'
    BY <2>1 DEF StoryInv, HistoryTyped
  <2>5. OneEntry'
    BY <2>1 DEF StoryInv, OneEntry
  <2>6. OnlyLastOpen'
    BY <2>1 DEF StoryInv, OnlyLastOpen
  <2>7. AliveIsOpen'
    BY <2>1, <2>3 DEF StoryInv, AliveIsOpen, Alive, IInv, Types
  <2>8. WaitingIsOpen'
    BY <2>1, <2>3 DEF StoryInv, WaitingIsOpen, IInv, AtSession
  <2>9. PublishesReport'
    BY <2>1, <2>2, NotOver DEF PublishesReport
  <2>10. FilesTyped'
    BY <2>1 DEF StoryInv, FilesTyped
  <2>11. AnswersWhenOver'
    BY <2>1, <2>2, NotOver DEF AnswersWhenOver
  <2>12. PublishedIsFinal'
    BY <2>1, <2>2, NotOver DEF PublishedIsFinal
  <2>13. DisturbedFails'
    BY <2>1, <2>3 DEF StoryInv, DisturbedFails, WillFail, DisturbancesTyped, OwnersTyped, IInv, Types, Alive
  <2>14. ChildTyped'
    <3>1. PICK usable \in BOOLEAN, hits \in 0..MaxHits :
            child' = [child EXCEPT ![s] = [stage |-> "complete", usable |-> usable, hits |-> hits]]
      BY <1>24 DEF OwnerCommits
    <3>2. [stage |-> "complete", usable |-> usable, hits |-> hits] \in Children
      <4>1. usable \in {TRUE, FALSE}
        OBVIOUS
      <4>2. hits \in Nat
        OBVIOUS
      <4>3. QED
        BY <4>1, <4>2 DEF Children
    <3>3. child' \in [Sessions -> Children]
      BY <3>1, <3>2 DEF StoryInv, ChildTyped
    <3>4. QED
      BY <3>3 DEF ChildTyped, Children, Sessions
  <2>15. DisturbancesTyped'
    BY <2>1 DEF StoryInv, DisturbancesTyped
  <2>16. OwnersTyped'
    BY <1>24, <2>1 DEF StoryInv, OwnersTyped, OwnerCommits, ByOwner, ctl
  <2>17. QED
    BY <2>4, <2>5, <2>6, <2>7, <2>8, <2>9, <2>10, <2>11, <2>12, <2>13, <2>14, <2>15, <2>16 DEF
         StoryInv
<1>25. ASSUME NEW s \in Sessions, OwnerGivesUp(s) PROVE StoryInv'
  <2>1. /\ Report' = Report /\ (Over' <=> Over)
        /\ \A t \in Sessions : (OpenFor(t)' <=> OpenFor(t)) /\ (Failed(t)' <=> Failed(t))
    BY <1>25, StoryStands DEF OwnerGivesUp, Becomes, Records, ByOwner, ctl
  <2>2. HistoryTyped'
    BY <1>25, StoryStands DEF OwnerGivesUp, Becomes, Records, ByOwner, ctl
  <2>3. OneEntry'
    BY <1>25, StoryStands DEF OwnerGivesUp, Becomes, Records, ByOwner, ctl
  <2>4. OnlyLastOpen'
    BY <1>25, StoryStands DEF OwnerGivesUp, Becomes, Records, ByOwner, ctl
  <2>5. AliveIsOpen'
    BY <1>25, <2>1 DEF StoryInv, AliveIsOpen, Alive, Types, WaitingIsOpen, AtSession, IInv,
         OwnerGivesUp, Becomes, Records, ByOwner, ctl
  <2>6. WaitingIsOpen'
    BY <1>25, <2>1 DEF StoryInv, WaitingIsOpen, Types, AtSession, IInv, OwnerGivesUp, Becomes,
         Records, ByOwner, ctl
  <2>7. PublishesReport'
    BY <1>25, <2>1 DEF StoryInv, PublishesReport, Types, DisturbancesTyped, IInv, OwnerGivesUp, Becomes,
         Records, ByOwner, ctl
  <2>8. FilesTyped'
    BY <1>25, <2>1 DEF StoryInv, FilesTyped, IInv, OwnerGivesUp, Becomes, Records, ByOwner, ctl
  <2>9. AnswersWhenOver'
    BY <1>25, <2>1 DEF StoryInv, AnswersWhenOver, IInv, OwnerGivesUp, Becomes, Records, ByOwner, ctl
  <2>10. PublishedIsFinal'
    BY <1>25, <2>1 DEF StoryInv, PublishedIsFinal, IInv, OwnerGivesUp, Becomes, Records, ByOwner, ctl
  <2>11. DisturbedFails'
    BY <1>25, <2>1 DEF StoryInv, DisturbedFails, WillFail, DisturbancesTyped, OwnersTyped, Types,
         AliveIsOpen, WaitingIsOpen, AtSession, Alive, Outside, Inside, OneController, Coordinating,
         IInv, OwnerGivesUp, Becomes, Records, ByOwner, ctl
  <2>12. ChildTyped'
    BY <1>25, <2>1 DEF StoryInv, ChildTyped, IInv, OwnerGivesUp, Becomes, Records, ByOwner, ctl
  <2>13. DisturbancesTyped'
    BY <1>25, <2>1 DEF StoryInv, DisturbancesTyped, IInv, OwnerGivesUp, Becomes, Records, ByOwner, ctl
  <2>14. OwnersTyped'
    BY <1>25, <2>1 DEF StoryInv, OwnersTyped, Types, IInv, OwnerGivesUp, Becomes, Records, ByOwner,
         ctl
  <2>15. QED
    BY <2>2, <2>3, <2>4, <2>5, <2>6, <2>7, <2>8, <2>9, <2>10, <2>11, <2>12, <2>13, <2>14 DEF
         StoryInv
<1>26. ASSUME NEW s \in Sessions, OwnerExits(s) PROVE StoryInv'
  <2>1. /\ Report' = Report /\ (Over' <=> Over)
        /\ \A t \in Sessions : (OpenFor(t)' <=> OpenFor(t)) /\ (Failed(t)' <=> Failed(t))
    BY <1>26, StoryStands DEF OwnerExits, Becomes, ByOwner, ctl
  <2>2. HistoryTyped'
    BY <1>26, StoryStands DEF OwnerExits, Becomes, ByOwner, ctl
  <2>3. OneEntry'
    BY <1>26, StoryStands DEF OwnerExits, Becomes, ByOwner, ctl
  <2>4. OnlyLastOpen'
    BY <1>26, StoryStands DEF OwnerExits, Becomes, ByOwner, ctl
  <2>5. AliveIsOpen'
    BY <1>26, <2>1 DEF StoryInv, AliveIsOpen, Alive, Types, WaitingIsOpen, AtSession, IInv,
         OwnerExits, Becomes, ByOwner, ctl
  <2>6. WaitingIsOpen'
    BY <1>26, <2>1 DEF StoryInv, WaitingIsOpen, Types, AtSession, IInv, OwnerExits, Becomes, ByOwner,
         ctl
  <2>7. PublishesReport'
    BY <1>26, <2>1 DEF StoryInv, PublishesReport, Types, DisturbancesTyped, IInv, OwnerExits, Becomes,
         ByOwner, ctl
  <2>8. FilesTyped'
    BY <1>26, <2>1 DEF StoryInv, FilesTyped, IInv, OwnerExits, Becomes, ByOwner, ctl
  <2>9. AnswersWhenOver'
    BY <1>26, <2>1 DEF StoryInv, AnswersWhenOver, IInv, OwnerExits, Becomes, ByOwner, ctl
  <2>10. PublishedIsFinal'
    BY <1>26, <2>1 DEF StoryInv, PublishedIsFinal, IInv, OwnerExits, Becomes, ByOwner, ctl
  <2>11. DisturbedFails'
    BY <1>26, <2>1 DEF StoryInv, DisturbedFails, WillFail, DisturbancesTyped, OwnersTyped, Types,
         AliveIsOpen, WaitingIsOpen, AtSession, Alive, Outside, Inside, OneController, Coordinating,
         IInv, OwnerExits, Becomes, ByOwner, ctl
  <2>12. ChildTyped'
    BY <1>26, <2>1 DEF StoryInv, ChildTyped, IInv, OwnerExits, Becomes, ByOwner, ctl
  <2>13. DisturbancesTyped'
    BY <1>26, <2>1 DEF StoryInv, DisturbancesTyped, IInv, OwnerExits, Becomes, ByOwner, ctl
  <2>14. OwnersTyped'
    BY <1>26, <2>1 DEF StoryInv, OwnersTyped, Types, IInv, OwnerExits, Becomes, ByOwner, ctl
  <2>15. QED
    BY <2>2, <2>3, <2>4, <2>5, <2>6, <2>7, <2>8, <2>9, <2>10, <2>11, <2>12, <2>13, <2>14 DEF
         StoryInv
<1>27. ASSUME NEW s \in Sessions, OrphanDrains(s) PROVE StoryInv'
  <2>1. /\ Report' = Report /\ (Over' <=> Over)
        /\ \A t \in Sessions : (OpenFor(t)' <=> OpenFor(t)) /\ (Failed(t)' <=> Failed(t))
    BY <1>27, StoryStands DEF OrphanDrains, ByOwner, ctl
  <2>2. HistoryTyped'
    BY <1>27, StoryStands DEF OrphanDrains, ByOwner, ctl
  <2>3. OneEntry'
    BY <1>27, StoryStands DEF OrphanDrains, ByOwner, ctl
  <2>4. OnlyLastOpen'
    BY <1>27, StoryStands DEF OrphanDrains, ByOwner, ctl
  <2>5. AliveIsOpen'
    BY <1>27, <2>1 DEF StoryInv, AliveIsOpen, Alive, Types, WaitingIsOpen, AtSession, IInv,
         OrphanDrains, ByOwner, ctl
  <2>6. WaitingIsOpen'
    BY <1>27, <2>1 DEF StoryInv, WaitingIsOpen, Types, AtSession, IInv, OrphanDrains, ByOwner, ctl
  <2>7. PublishesReport'
    BY <1>27, <2>1 DEF StoryInv, PublishesReport, Types, DisturbancesTyped, IInv, OrphanDrains, ByOwner, ctl
  <2>8. FilesTyped'
    BY <1>27, <2>1 DEF StoryInv, FilesTyped, IInv, OrphanDrains, ByOwner, ctl
  <2>9. AnswersWhenOver'
    BY <1>27, <2>1 DEF StoryInv, AnswersWhenOver, IInv, OrphanDrains, ByOwner, ctl
  <2>10. PublishedIsFinal'
    BY <1>27, <2>1 DEF StoryInv, PublishedIsFinal, IInv, OrphanDrains, ByOwner, ctl
  <2>11. DisturbedFails'
    BY <1>27, <2>1 DEF StoryInv, DisturbedFails, WillFail, DisturbancesTyped, OwnersTyped, Types,
         AliveIsOpen, WaitingIsOpen, AtSession, Alive, Outside, Inside, OneController, Coordinating,
         IInv, OrphanDrains, ByOwner, ctl
  <2>12. ChildTyped'
    BY <1>27, <2>1 DEF StoryInv, ChildTyped, IInv, OrphanDrains, ByOwner, ctl
  <2>13. DisturbancesTyped'
    BY <1>27, <2>1 DEF StoryInv, DisturbancesTyped, IInv, OrphanDrains, ByOwner, ctl
  <2>14. OwnersTyped'
    BY <1>27, <2>1 DEF StoryInv, OwnersTyped, Types, IInv, OrphanDrains, ByOwner, ctl
  <2>15. QED
    BY <2>2, <2>3, <2>4, <2>5, <2>6, <2>7, <2>8, <2>9, <2>10, <2>11, <2>12, <2>13, <2>14 DEF
         StoryInv
<1>28. ASSUME NEW s \in Sessions, OwnerKilled(s) PROVE StoryInv'
  <2>1. /\ Report' = Report /\ (Over' <=> Over)
        /\ \A t \in Sessions : (OpenFor(t)' <=> OpenFor(t)) /\ (Failed(t)' <=> Failed(t))
    BY <1>28, StoryStands DEF OwnerKilled, Becomes, Records, ByOwner, ctl
  <2>2. HistoryTyped'
    BY <1>28, StoryStands DEF OwnerKilled, Becomes, Records, ByOwner, ctl
  <2>3. OneEntry'
    BY <1>28, StoryStands DEF OwnerKilled, Becomes, Records, ByOwner, ctl
  <2>4. OnlyLastOpen'
    BY <1>28, StoryStands DEF OwnerKilled, Becomes, Records, ByOwner, ctl
  <2>5. AliveIsOpen'
    BY <1>28, <2>1 DEF StoryInv, AliveIsOpen, Alive, Types, WaitingIsOpen, AtSession, IInv,
         OwnerKilled, Becomes, Records, ByOwner, ctl
  <2>6. WaitingIsOpen'
    BY <1>28, <2>1 DEF StoryInv, WaitingIsOpen, Types, AtSession, IInv, OwnerKilled, Becomes,
         Records, ByOwner, ctl
  <2>7. PublishesReport'
    BY <1>28, <2>1 DEF StoryInv, PublishesReport, Types, DisturbancesTyped, IInv, OwnerKilled, Becomes,
         Records, ByOwner, ctl
  <2>8. FilesTyped'
    BY <1>28, <2>1 DEF StoryInv, FilesTyped, IInv, OwnerKilled, Becomes, Records, ByOwner, ctl
  <2>9. AnswersWhenOver'
    BY <1>28, <2>1 DEF StoryInv, AnswersWhenOver, IInv, OwnerKilled, Becomes, Records, ByOwner, ctl
  <2>10. PublishedIsFinal'
    BY <1>28, <2>1 DEF StoryInv, PublishedIsFinal, IInv, OwnerKilled, Becomes, Records, ByOwner, ctl
  <2>11. DisturbedFails'
    <3> SUFFICES ASSUME NEW t \in disturbed' PROVE Failed(t)' \/ WillFail(t)'
      BY DEF DisturbedFails
    <3>1. /\ Alive(s) /\ owner' = [owner EXCEPT ![s] = "gone"] /\ record' = [record EXCEPT ![s] = "none"]
          /\ disturbed' = disturbed \union {s} /\ UNCHANGED <<pc, termed, forced>>
      BY <1>28 DEF OwnerKilled, Becomes, Records, ByOwner, ctl
    <3>2. \A u \in Sessions : owner[u] = "gone" /\ record[u] # "committed" =>
                                owner'[u] = "gone" /\ record'[u] # "committed"
      BY <3>1 DEF IInv, Types, StoryInv, OwnersTyped
    <3>3. CASE t \in disturbed
      BY <2>1, <3>1, <3>2, <3>3 DEF StoryInv, DisturbedFails, DisturbancesTyped, WillFail
    <3>4. CASE t = s
      <4>1. OpenFor(s) /\ \A d \in Procs : pc[d] # "spawn"
        BY <3>1 DEF StoryInv, AliveIsOpen, IInv, OwnerIsAwaited, Coordinating
      <4>2. owner'[s] = "gone" /\ record'[s] # "committed"
        BY <3>1 DEF IInv, Types, StoryInv, OwnersTyped
      <4>3. QED
        BY <2>1, <3>1, <3>4, <4>1, <4>2 DEF WillFail
    <3>5. QED
      BY <3>1, <3>3, <3>4
  <2>12. ChildTyped'
    BY <1>28, <2>1 DEF StoryInv, ChildTyped, IInv, OwnerKilled, Becomes, Records, ByOwner, ctl
  <2>13. DisturbancesTyped'
    BY <1>28, <2>1 DEF StoryInv, DisturbancesTyped, IInv, OwnerKilled, Becomes, Records, ByOwner, ctl
  <2>14. OwnersTyped'
    BY <1>28, <2>1 DEF StoryInv, OwnersTyped, Types, IInv, OwnerKilled, Becomes, Records, ByOwner,
         ctl
  <2>15. QED
    BY <2>2, <2>3, <2>4, <2>5, <2>6, <2>7, <2>8, <2>9, <2>10, <2>11, <2>12, <2>13, <2>14 DEF
         StoryInv
<1>29. CASE Reboot
  <2>1. /\ Report' = Report /\ (Over' <=> Over)
        /\ \A t \in Sessions : (OpenFor(t)' <=> OpenFor(t)) /\ (Failed(t)' <=> Failed(t))
    BY <1>29, StoryStands DEF Reboot, stored
  <2>2. HistoryTyped'
    BY <1>29, StoryStands DEF Reboot, stored
  <2>3. OneEntry'
    BY <1>29, StoryStands DEF Reboot, stored
  <2>4. OnlyLastOpen'
    BY <1>29, StoryStands DEF Reboot, stored
  <2>5. AliveIsOpen'
    BY <1>29, <2>1 DEF StoryInv, AliveIsOpen, Alive, Types, WaitingIsOpen, AtSession, IInv, Reboot,
         stored
  <2>6. WaitingIsOpen'
    BY <1>29, <2>1 DEF StoryInv, WaitingIsOpen, Types, AtSession, IInv, Reboot, stored
  <2>7. PublishesReport'
    BY <1>29, <2>1 DEF StoryInv, PublishesReport, Types, DisturbancesTyped, IInv, Reboot, stored
  <2>8. FilesTyped'
    BY <1>29, <2>1 DEF StoryInv, FilesTyped, IInv, Reboot, stored
  <2>9. AnswersWhenOver'
    BY <1>29, <2>1 DEF StoryInv, AnswersWhenOver, IInv, Reboot, stored
  <2>10. PublishedIsFinal'
    BY <1>29, <2>1 DEF StoryInv, PublishedIsFinal, IInv, Reboot, stored
  <2>11. DisturbedFails'
    <3> SUFFICES ASSUME NEW t \in disturbed' PROVE Failed(t)' \/ WillFail(t)'
      BY DEF DisturbedFails
    <3>1. pc' = [d \in Procs |-> "idle"]
      BY <1>29 DEF Reboot
    <3>2. t \in disturbed \/ (t \in Sessions /\ OpenFor(t))
      BY <1>29, LastIsSession DEF Reboot
    <3>3. QED
      BY <2>1, <3>1, <3>2 DEF StoryInv, DisturbedFails, DisturbancesTyped, WillFail
  <2>12. ChildTyped'
    BY <1>29, <2>1 DEF StoryInv, ChildTyped, IInv, Reboot, stored
  <2>13. DisturbancesTyped'
    BY <1>29, LastIsSession DEF Reboot, StoryInv, DisturbancesTyped
  <2>14. OwnersTyped'
    BY <1>29, <2>1 DEF StoryInv, OwnersTyped, Types, IInv, Reboot, stored
  <2>15. QED
    BY <2>2, <2>3, <2>4, <2>5, <2>6, <2>7, <2>8, <2>9, <2>10, <2>11, <2>12, <2>13, <2>14 DEF
         StoryInv
<1>30. CASE UNCHANGED vars
  <2>1. /\ Report' = Report /\ (Over' <=> Over)
       /\ \A t \in Sessions : (OpenFor(t)' <=> OpenFor(t)) /\ (Failed(t)' <=> Failed(t))
    BY <1>30, StoryStands DEF vars, stored
  <2>2. HistoryTyped'
    BY <1>30, StoryStands DEF vars, stored
  <2>3. OneEntry'
    BY <1>30, StoryStands DEF vars, stored
  <2>4. OnlyLastOpen'
    BY <1>30, StoryStands DEF vars, stored
  <2>5. AliveIsOpen'
    BY <1>30, <2>1 DEF vars, stored, own, ctl, ghost, StoryInv, AliveIsOpen, Alive, Types,
         AtSession
  <2>6. WaitingIsOpen'
    BY <1>30, <2>1 DEF vars, stored, own, ctl, ghost, StoryInv, WaitingIsOpen, Types, AtSession,
         IInv
  <2>7. PublishesReport'
    BY <1>30, <2>1 DEF vars, stored, own, ctl, ghost, StoryInv, PublishesReport, Types,
         DisturbancesTyped
  <2>8. FilesTyped'
    BY <1>30, <2>1 DEF vars, stored, own, ctl, ghost, StoryInv, FilesTyped
  <2>9. AnswersWhenOver'
    BY <1>30, <2>1 DEF vars, stored, own, ctl, ghost, StoryInv, AnswersWhenOver
  <2>10. PublishedIsFinal'
    BY <1>30, <2>1 DEF vars, stored, own, ctl, ghost, StoryInv, PublishedIsFinal
  <2>11. DisturbedFails'
    BY <1>30, <2>1 DEF vars, stored, own, ctl, ghost, StoryInv, DisturbedFails, WillFail,
         DisturbancesTyped, Types, AtSession, Alive
  <2>12. ChildTyped'
    BY <1>30, <2>1 DEF vars, stored, own, ctl, ghost, StoryInv, ChildTyped
  <2>13. DisturbancesTyped'
    BY <1>30, <2>1 DEF vars, stored, own, ctl, ghost, StoryInv, DisturbancesTyped
  <2>14. OwnersTyped'
    BY <1>30, <2>1 DEF vars, stored, own, ctl, ghost, StoryInv, OwnersTyped, Types
  <2>15. QED
    BY <2>2, <2>3, <2>4, <2>5, <2>6, <2>7, <2>8, <2>9, <2>10, <2>11, <2>12, <2>13, <2>14 DEF
         StoryInv
<1>31. ASSUME NEW s \in Sessions, OwnerNotices(s) PROVE StoryInv'
  <2>1. /\ Report' = Report /\ (Over' <=> Over)
        /\ \A t \in Sessions : (OpenFor(t)' <=> OpenFor(t)) /\ (Failed(t)' <=> Failed(t))
    BY <1>31, StoryStands DEF OwnerNotices, ByOwner
  <2>2. /\ UNCHANGED <<child, history, files, authorized, exported, owner, record>>
        /\ UNCHANGED <<pc, at, draft, aborted, forced>>
    BY <1>31 DEF OwnerNotices, ByOwner, ctl
  <2>3. HistoryTyped' /\ OneEntry' /\ OnlyLastOpen' /\ FilesTyped' /\ ChildTyped'
    BY <2>2 DEF StoryInv, HistoryTyped, OneEntry, OnlyLastOpen, FilesTyped, ChildTyped
  <2>4. AliveIsOpen' /\ WaitingIsOpen'
    BY <2>1, <2>2 DEF StoryInv, AliveIsOpen, Alive, WaitingIsOpen, IInv, AtSession
  <2>5. PublishesReport'
    BY <2>1, <2>2 DEF StoryInv, PublishesReport
  <2>6. AnswersWhenOver'
    BY <2>1, <2>2 DEF StoryInv, AnswersWhenOver
  <2>7. PublishedIsFinal'
    BY <2>1, <2>2 DEF StoryInv, PublishedIsFinal
  <2>8. DisturbedFails'
    <3> SUFFICES ASSUME NEW t \in disturbed' PROVE Failed(t)' \/ WillFail(t)'
      BY DEF DisturbedFails
    <3>1. /\ Alive(s) /\ termed' = [termed EXCEPT ![s] = "seen"]
          /\ disturbed' = disturbed \union {s}
      BY <1>31 DEF OwnerNotices, Alive
    <3>2. \A u \in Sessions : termed[u] = "seen" => termed'[u] = "seen"
      BY <3>1 DEF StoryInv, OwnersTyped
    <3>3. CASE t \in disturbed
      BY <2>1, <2>2, <3>2, <3>3 DEF StoryInv, DisturbedFails, DisturbancesTyped, WillFail
    <3>4. CASE t = s
      <4>1. OpenFor(s) /\ \A d \in Coordinating : pc[d] = "wait" /\ at[d] = s
        BY <3>1 DEF StoryInv, AliveIsOpen, IInv, OwnerIsAwaited
      <4>2. \A d \in Procs : pc[d] # "spawn"
        BY <4>1 DEF Coordinating
      <4>3. termed'[s] = "seen"
        BY <3>1 DEF StoryInv, OwnersTyped
      <4>4. QED
        BY <2>1, <2>2, <3>4, <4>1, <4>2, <4>3 DEF WillFail
    <3>5. QED
      BY <3>1, <3>3, <3>4
  <2>9. DisturbancesTyped' /\ OwnersTyped'
    BY <1>31, <2>2 DEF OwnerNotices, StoryInv, DisturbancesTyped, OwnersTyped
  <2>10. QED
    BY <2>3, <2>4, <2>5, <2>6, <2>7, <2>8, <2>9 DEF StoryInv
<1>32. QED
  BY <1>1, <1>2, <1>3, <1>4, <1>5, <1>6, <1>7, <1>8, <1>9, <1>10, <1>11, <1>12, <1>13, <1>14,
       <1>15, <1>16, <1>17, <1>18, <1>19, <1>20, <1>21, <1>22, <1>23, <1>24, <1>25, <1>26,
       <1>27, <1>28, <1>29, <1>30, <1>31 DEF Next, Controller, Owner

LEMMA AlwaysStory == Spec => []StoryInv
BY InitIInv, NextIInv, InitStory, NextStory, PTL DEF Spec

-----------------------------------------------------------------------------
(* One answer: what is published of the report, the candidate a confirmation *)
(* was let run for and the status of an archived screen are those of what    *)
(* the collection holds now.                                                 *)
THEOREM OneAnswer == Spec => []PublishedIsFinal
BY AlwaysStory, PTL DEF StoryInv

(* A candidate comes from a screen that nobody and nothing interfered with.  *)
THEOREM CandidatesUndisturbed == Spec => []CandidateIsUndisturbed
<1>1. StoryInv => CandidateIsUndisturbed
  <2> SUFFICES ASSUME StoryInv, authorized # 0 \/ \E f \in DOMAIN files : files[f].candidate # 0,
                      NEW s \in disturbed
               PROVE  FALSE
    BY DEF CandidateIsUndisturbed
  <2>1. NoReport.candidate = 0
    BY DEF NoReport
  <2>2. Report.candidate # 0
    BY <2>1 DEF StoryInv, PublishedIsFinal
  <2>3. Over
    BY <2>1 DEF StoryInv, AnswersWhenOver
  <2>4. ~Failed(s)
    BY <2>2, CandidateIsComplete DEF Contaminated, Failed
  <2>5. ~WillFail(s)
    BY <2>3 DEF Over, WillFail, OpenFor
  <2>6. QED
    BY <2>4, <2>5 DEF StoryInv, DisturbedFails
<1>2. QED
  BY <1>1, AlwaysStory, PTL

-----------------------------------------------------------------------------
(* Runs and archives. *)
RunPlaces    == {"idle", "made", "opened", "settling", "between", "attempt", "concluded",
              "recorded", "stated", "removed", "done", "dead"}
AtWork   == {"opened", "settling", "between", "attempt"}
Concluded == {"concluded", "recorded", "stated", "removed", "done"}
Journals  == [manifest : {TRUE, FALSE}, done : Nat, error : {TRUE, FALSE},
              end : R!Statuses \union {"none"}]
SessionEnds      == [type : {"none", "session", "error"}, status : R!Statuses \union {"none"},
              committed : {TRUE, FALSE}, code : {"none", "other", "cancel"}, shown : Nat]
RunEvents    == [second : SessionEnds, end : R!Statuses \union {"none"}]
Creating  == {"copying", "linked", "vouching"}

RunsTyped ==
  /\ kind \in [Runs -> {"none", "fixed", "confirmation"}] /\ controller \in [Runs -> RunPlaces]
  /\ state \in [Runs -> R!Statuses \union {"none"}] /\ final \in [Runs -> R!Statuses \union {"none"}]
  /\ unsynced \in [Runs -> SUBSET {"events", "state", "active"}]
JournalTyped == journal \in [Runs -> Journals]
EventsTyped == events \in [Runs -> RunEvents]
RunFlagsTyped ==
  /\ active \in [Runs -> {TRUE, FALSE}] /\ working \in [Runs -> {TRUE, FALSE}]
  /\ cancelled \in [Runs -> {TRUE, FALSE}] /\ held \in [Runs -> {TRUE, FALSE}]
PreparersTyped ==
  /\ pp \in [Preparers -> {"idle", "archiving", "linking"} \union Creating]
  /\ \A p \in Preparers : pp[p] # "idle" => job[p].run \in Runs /\ job[p].stamp \in Stamps
  /\ job = [p \in Preparers |-> job[p]] /\ temp = [p \in Preparers |-> temp[p]]
  /\ archive = [n \in Stamps |-> archive[n]] /\ checksum = [n \in Stamps |-> checksum[n]]

\* How far a run has come tells what it has left behind.
FilesFollow ==
  \A r \in Runs :
    /\ controller[r] = "idle" <=> kind[r] = "none"
    /\ controller[r] \in {"idle", "made"} => ~working[r]
    /\ controller[r] \in {"idle", "made"} \union AtWork \union {"concluded", "recorded"} => state[r] = "none"
    /\ controller[r] \in AtWork \union {"concluded", "recorded", "stated"} => active[r]
    /\ controller[r] \in {"removed", "done"} => ~active[r]
    /\ controller[r] \in {"idle", "made", "opened"} => ~journal[r].manifest
    /\ controller[r] = "done" => unsynced[r] = {}

\* The last event says how the session ended, as a preparer will check it.
EndsWell(r) ==
  LET e == events[r].second
  IN  /\ e.status = final[r] /\ e.status \in R!Statuses
      /\ \/ /\ e.type = "session" /\ e.committed = (e.status = "complete")
            /\ e.shown = journal[r].done
         \/ /\ e.type = "error" /\ e.status # "complete"
            /\ (journal[r].manifest /\ held[r] /\ e.status = "interrupted") => e.code = "cancel"
EndIsTold ==
  \A r \in Runs :
    /\ controller[r] \in Concluded => EndsWell(r)
    /\ controller[r] \in {"recorded", "stated", "removed", "done"} =>
         events[r].end = final[r] /\ journal[r].end = final[r]
    /\ controller[r] \in {"stated", "removed", "done"} => state[r] = final[r]

\* A status is that of the session's end, and on the disk before the marker goes.
StatusIsFinal ==
  \A r \in Runs : state[r] # "none" =>
    state[r] = final[r] /\ (~active[r] => unsynced[r] \subseteq {"active"})

\* A run of which nothing changes any more.
Sealed(r) ==
  /\ controller[r] \in {"done", "dead"} /\ ~working[r] /\ state[r] # "none" /\ state[r] = final[r]
  /\ unsynced[r] \subseteq {"active"}
PreparersSeal == \A p \in Preparers : pp[p] # "idle" => Sealed(job[p].run)

\* Who created an archive that is not vouched for yet.
CreatorsAlone ==
  \A p, q \in Preparers :
    pp[p] \in Creating /\ pp[q] \in Creating /\ job[p].stamp = job[q].stamp => p = q
CreatedStands ==
  \A p \in Preparers :
    /\ pp[p] \in {"linking"} \union Creating => temp[p] = R!Content(job[p].run)
    /\ pp[p] = "copying" => archive[job[p].stamp] = R!Partial
    /\ pp[p] \in {"linked", "vouching"} => archive[job[p].stamp] = temp[p]
    /\ pp[p] \in {"copying", "linked"} => checksum[job[p].stamp] = R!Nothing
    /\ pp[p] = "vouching" => checksum[job[p].stamp] = R!Partial

\* A name that is being prepared has no checksum before it has an archive.
NothingUnvouched ==
  \A p \in Preparers : pp[p] # "idle" /\ archive[job[p].stamp] = R!Nothing =>
    checksum[job[p].stamp] = R!Nothing

\* A checksum is of a sealed run, on the disk or not yet, and no power cut has
\* parted it from its archive.
Digest(c)   == c \notin {R!Nothing, R!Partial}
OfSealed(c) == \E r \in Runs : Sealed(r) /\ c = R!Content(r)
ChecksumsSealed ==
  \A n \in Stamps : \A c \in checksumWas[n] \union {checksum[n]} : Digest(c) => OfSealed(c)
VouchedStands ==
  \A n \in Stamps : Digest(checksum[n]) /\ n \notin cut => archive[n] = checksum[n]
VouchedIsSealed == ChecksumsSealed /\ VouchedStands

\* One confirmation of a screen is under way, or leaves a workload behind.
Confirming(r) == kind[r] = "confirmation" /\ (~R!Ended(r) \/ working[r])
OneConfirmation == \A r, q \in Runs : Confirming(r) /\ Confirming(q) => r = q

RunInv == /\ RunsTyped /\ JournalTyped /\ EventsTyped /\ RunFlagsTyped /\ PreparersTyped
        /\ FilesFollow /\ EndIsTold /\ StatusIsFinal /\ PreparersSeal /\ CreatorsAlone
        /\ CreatedStands /\ NothingUnvouched /\ VouchedIsSealed /\ OneConfirmation
-----------------------------------------------------------------------------
(* Preservation. *)
\* A sealed run is archived as something, and not as a partial copy.
LEMMA ContentsShow ==
  ASSUME RunInv
  PROVE  /\ \A r \in Runs : Sealed(r) => R!Content(r) # R!Nothing /\ R!Content(r) # R!Partial
         /\ R!Partial # R!Nothing
<1>1. R!Partial.status = "partial" /\ R!Nothing.status = "none"
  BY DEF R!Partial, R!Nothing
<1>2. ASSUME NEW r \in Runs, Sealed(r) PROVE R!Content(r) # R!Nothing /\ R!Content(r) # R!Partial
  <2>1. R!Content(r).status = state[r]
    BY DEF R!Content
  <2>2. state[r] # "none" /\ state[r] # "partial"
    BY <1>2 DEF Sealed, RunInv, RunsTyped, R!Statuses
  <2>3. QED
    BY <1>1, <2>1, <2>2
<1>3. QED
  BY <1>1, <1>2

\* A step that keeps sealed runs as they are, and is no preparer's, keeps what
\* the preparers have made of them.
LEMMA SealedStay ==
  ASSUME RunInv, \A q \in Runs : Sealed(q) => Sealed(q)' /\ R!Content(q)' = R!Content(q),
         UNCHANGED <<pp, job, temp, archive, checksum, checksumWas, cut>>
  PROVE  PreparersSeal' /\ CreatedStands' /\ VouchedIsSealed'
<1>1. PreparersSeal'
  BY DEF RunInv, PreparersTyped, PreparersSeal
<1>2. CreatedStands'
  <2>1. \A p \in Preparers : pp[p] \in {"linking"} \union Creating =>
          R!Content(job[p].run)' = R!Content(job[p].run)
    BY DEF RunInv, PreparersTyped, PreparersSeal, Creating
  <2>2. QED
    BY <2>1 DEF RunInv, CreatedStands, R!Partial, R!Nothing
<1>3. ChecksumsSealed'
  BY DEF RunInv, VouchedIsSealed, ChecksumsSealed, OfSealed, Digest, R!Nothing, R!Partial
<1>4. VouchedStands'
  BY DEF RunInv, VouchedIsSealed, VouchedStands, Digest, R!Nothing, R!Partial
<1>5. QED
  BY <1>1, <1>2, <1>3, <1>4 DEF VouchedIsSealed

\* A preparer's step that leaves the runs alone, and writes no checksum but a
\* sealed run's.
LEMMA ChecksumsStay ==
  ASSUME RunInv, \A q \in Runs : R!Content(q)' = R!Content(q) /\ (Sealed(q)' <=> Sealed(q)),
         R!Unsynchronised,
         \A n \in Stamps : \/ checksum'[n] \in {checksum[n], R!Nothing, R!Partial}
                           \/ OfSealed(checksum'[n])
  PROVE  ChecksumsSealed'
<1>1. \A c : OfSealed(c) => OfSealed(c)'
  BY DEF OfSealed
<1> SUFFICES ASSUME NEW n \in Stamps, NEW c \in checksumWas'[n] \union {checksum'[n]}, Digest(c)
             PROVE  OfSealed(c)'
  BY DEF ChecksumsSealed, Digest, R!Nothing, R!Partial
<1>2. checksumWas'[n] \subseteq checksumWas[n] \union {checksum[n], R!Partial}
  BY DEF R!Unsynchronised, R!Was
<1>3. c \in checksumWas[n] \union {checksum[n]} \/ OfSealed(c)
  BY <1>2 DEF Digest
<1>4. QED
  BY <1>1, <1>3 DEF RunInv, VouchedIsSealed, ChecksumsSealed

LEMMA ConcludesTyped ==
  ASSUME EventsTyped, NEW r \in Runs, NEW type \in {"session", "error"},
         NEW committed \in {TRUE, FALSE}, NEW code \in {"none", "other", "cancel"},
         journal'[r].done \in Nat, R!Concludes(r, type, committed, code)
  PROVE  EventsTyped'
<1> DEFINE lost   == type = "session" /\ ~held[r]
           status == IF type = "session" /\ committed /\ ~lost THEN "complete"
                     ELSE IF cancelled[r] THEN "interrupted" ELSE "operational-incomplete"
           e == [type |-> IF lost THEN "error" ELSE type, status |-> status,
                 committed |-> committed /\ ~lost,
                 code |-> IF lost THEN "other" ELSE code, shown |-> journal'[r].done]
<1>1. events' = [events EXCEPT ![r].second = e]
  BY DEF R!Concludes
<1>2. /\ status \in R!Statuses /\ (IF lost THEN "error" ELSE type) \in {"session", "error"}
      /\ (IF lost THEN "other" ELSE code) \in {"none", "other", "cancel"}
  BY DEF R!Statuses
<1>3. (committed /\ ~lost) \in {TRUE, FALSE}
  OBVIOUS
<1> HIDE DEF lost, status
<1>4. e \in SessionEnds
  BY <1>2, <1>3 DEF SessionEnds
<1> HIDE DEF e
<1>5. QED
  BY <1>1, <1>4 DEF EventsTyped, RunEvents

LEMMA EndIsStatus == ASSUME RunInv, NEW r \in Runs PROVE events[r].second.status \in R!Statuses \union {"none"}
BY DEF RunInv, EventsTyped, RunEvents, SessionEnds

LEMMA JournalPut ==
  ASSUME JournalTyped, NEW r \in Runs, NEW s \in R!Statuses \union {"none"},
         journal' = [journal EXCEPT ![r].end = s]
  PROVE  JournalTyped'
BY DEF JournalTyped, Journals

LEMMA EventPut ==
  ASSUME EventsTyped, NEW r \in Runs, NEW s \in R!Statuses \union {"none"},
         events' = [events EXCEPT ![r].end = s]
  PROVE  EventsTyped'
BY DEF EventsTyped, RunEvents

LEMMA JournalCounts ==
  ASSUME JournalTyped, NEW r \in Runs, journal' = [journal EXCEPT ![r].done = @ + 1]
  PROVE  JournalTyped'
<1>0. journal[r].done \in Nat
  BY DEF JournalTyped, Journals
<1>1. journal[r].done + 1 \in Nat
  BY <1>0
<1> DEFINE next == journal[r].done + 1
<1>2. journal' = [journal EXCEPT ![r].done = next]
  OBVIOUS
<1> HIDE DEF next
<1>3. QED
  BY <1>1, <1>2 DEF JournalTyped, Journals, next

LEMMA InitRun == R!Init => RunInv
BY DEF R!Init, RunInv, RunsTyped, JournalTyped, EventsTyped, CreatedStands, NothingUnvouched, ChecksumsSealed, VouchedStands, Digest, R!Nothing, R!Partial, R!Content, RunFlagsTyped, PreparersTyped, FilesFollow, EndIsTold, EndsWell, StatusIsFinal, PreparersSeal, Sealed, CreatorsAlone, VouchedIsSealed, OneConfirmation, Confirming, R!Ended, RunPlaces, AtWork, Concluded, Journals, SessionEnds, RunEvents, Creating, R!NoEvent, R!NoJournal, R!Statuses, R!NoJob

LEMMA NextRun == RunInv /\ [R!Next]_R!vars => RunInv'
<1> SUFFICES ASSUME RunInv, [R!Next]_R!vars PROVE RunInv'
  OBVIOUS
<1>1. ASSUME NEW r \in Runs, NEW k \in {"fixed", "confirmation"}, R!Begin(r, k) PROVE RunInv'
  <2>1. \A q \in Runs : Sealed(q) => Sealed(q)' /\ R!Content(q)' = R!Content(q)
    BY <1>1 DEF RunInv, RunsTyped, JournalTyped, RunFlagsTyped, FilesFollow, R!Ended, Sealed, R!Content,
         R!Begin, R!Go, R!file, R!prep
  <2>2. RunsTyped'
    BY <1>1, <2>1 DEF RunInv, R!Begin, R!ScreenFree, R!Ended, R!Preparing, R!Go, R!Calm, R!file, R!prep,
         RunsTyped, RunPlaces, R!Statuses, RunFlagsTyped
  <2>3. FilesFollow'
    BY <1>1, <2>1 DEF RunInv, R!Begin, R!ScreenFree, R!Ended, R!Preparing, R!Go, R!Calm, R!file, R!prep,
         FilesFollow, AtWork, RunsTyped, RunPlaces, R!Statuses, RunFlagsTyped, JournalTyped, Journals
  <2>4. EndIsTold'
    BY <1>1, <2>1 DEF RunInv, R!Begin, R!ScreenFree, R!Ended, R!Preparing, R!Go, R!Calm, R!file, R!prep,
         EndIsTold, Concluded, EndsWell, R!Statuses, RunsTyped, RunPlaces, RunFlagsTyped, FilesFollow,
         AtWork, JournalTyped, Journals, EventsTyped, RunEvents, SessionEnds
  <2>5. PreparersSeal'
    BY <1>1, <2>1, SealedStay DEF RunInv, R!prep, R!was, R!Begin
  <2>6. CreatedStands'
    BY <1>1, <2>1, SealedStay DEF RunInv, R!prep, R!was, R!Begin
  <2>7. NothingUnvouched'
    BY <1>1, <2>1 DEF RunInv, R!Begin, R!ScreenFree, R!Ended, R!Preparing, R!Go, R!Calm, R!file, R!prep,
         NothingUnvouched, R!Nothing, R!run, PreparersTyped, Creating, CreatorsAlone, CreatedStands,
         R!Partial, R!Content
  <2>8. VouchedIsSealed'
    BY <1>1, <2>1, SealedStay DEF RunInv, R!prep, R!was, R!Begin
  <2>9. OneConfirmation'
    BY <1>1, <2>1 DEF RunInv, R!Begin, R!ScreenFree, R!Ended, R!Preparing, R!Go, R!Calm, R!file, R!prep,
         OneConfirmation, Confirming, RunsTyped, RunPlaces, R!Statuses, RunFlagsTyped, FilesFollow,
         AtWork
  <2>10. JournalTyped'
    BY <1>1 DEF RunInv, R!Begin, R!Calm, R!file, R!prep, JournalTyped
  <2>11. EventsTyped'
    BY <1>1 DEF RunInv, R!Begin, R!Calm, R!file, R!prep, EventsTyped
  <2>12. RunFlagsTyped'
    BY <1>1 DEF RunInv, R!Begin, R!Calm, R!file, R!prep, RunFlagsTyped
  <2>13. PreparersTyped'
    BY <1>1 DEF RunInv, R!Begin, R!Calm, R!file, R!prep, PreparersTyped
  <2>14. StatusIsFinal'
    BY <1>1 DEF RunInv, R!Begin, R!Calm, R!file, R!prep, StatusIsFinal
  <2>15. CreatorsAlone'
    BY <1>1 DEF RunInv, R!Begin, R!Calm, R!file, R!prep, CreatorsAlone
  <2>16. QED
    BY <2>2, <2>3, <2>4, <2>5, <2>6, <2>7, <2>8, <2>9, <2>10, <2>11, <2>12, <2>13, <2>14, <2>15
         DEF RunInv
<1>2. ASSUME NEW r \in Runs, R!Open(r) PROVE RunInv'
  <2>1. \A q \in Runs : Sealed(q) => Sealed(q)' /\ R!Content(q)' = R!Content(q)
    BY <1>2 DEF RunInv, RunsTyped, JournalTyped, RunFlagsTyped, FilesFollow, R!Ended, Sealed, R!Content,
         R!Open, R!Go, R!prep
  <2>2. RunsTyped'
    BY <1>2, <2>1 DEF RunInv, R!Open, R!LeafFree, R!Retains, R!Preparing, R!Go, R!Calm, R!prep, RunsTyped,
         RunPlaces, R!Statuses, RunFlagsTyped
  <2>3. RunFlagsTyped'
    BY <1>2, <2>1 DEF RunInv, R!Open, R!LeafFree, R!Retains, R!Preparing, R!Go, R!Calm, R!prep, RunFlagsTyped
  <2>4. FilesFollow'
    BY <1>2, <2>1 DEF RunInv, R!Open, R!LeafFree, R!Retains, R!Preparing, R!Go, R!Calm, R!prep, FilesFollow,
         AtWork, RunsTyped, RunPlaces, R!Statuses, RunFlagsTyped, JournalTyped, Journals
  <2>5. EndIsTold'
    BY <1>2, <2>1 DEF RunInv, R!Open, R!LeafFree, R!Retains, R!Preparing, R!Go, R!Calm, R!prep, EndIsTold,
         Concluded, EndsWell, R!Statuses, RunsTyped, RunPlaces, RunFlagsTyped, FilesFollow, AtWork,
         JournalTyped, Journals, EventsTyped, RunEvents, SessionEnds
  <2>6. StatusIsFinal'
    BY <1>2, <2>1 DEF RunInv, R!Open, R!LeafFree, R!Retains, R!Preparing, R!Go, R!Calm, R!prep, StatusIsFinal,
         RunsTyped, RunPlaces, R!Statuses, RunFlagsTyped, FilesFollow, AtWork, EndIsTold, Concluded,
         EndsWell
  <2>7. PreparersSeal'
    BY <1>2, <2>1, SealedStay DEF RunInv, R!prep, R!was, R!Open
  <2>8. CreatedStands'
    BY <1>2, <2>1, SealedStay DEF RunInv, R!prep, R!was, R!Open
  <2>9. NothingUnvouched'
    BY <1>2, <2>1 DEF RunInv, R!Open, R!LeafFree, R!Retains, R!Preparing, R!Go, R!Calm, R!prep,
         NothingUnvouched, R!Nothing, R!run, PreparersTyped, Creating, CreatorsAlone, CreatedStands,
         R!Partial, R!Content
  <2>10. VouchedIsSealed'
    BY <1>2, <2>1, SealedStay DEF RunInv, R!prep, R!was, R!Open
  <2>11. OneConfirmation'
    BY <1>2, <2>1 DEF RunInv, R!Open, R!LeafFree, R!Retains, R!Preparing, R!Go, R!Calm, R!prep, OneConfirmation,
         Confirming, R!Ended, RunsTyped, RunPlaces, R!Statuses, RunFlagsTyped, FilesFollow, AtWork
  <2>12. JournalTyped'
    BY <1>2 DEF RunInv, R!Open, R!Calm, R!prep, JournalTyped
  <2>13. EventsTyped'
    BY <1>2 DEF RunInv, R!Open, R!Calm, R!prep, EventsTyped
  <2>14. PreparersTyped'
    BY <1>2 DEF RunInv, R!Open, R!Calm, R!prep, PreparersTyped
  <2>15. CreatorsAlone'
    BY <1>2 DEF RunInv, R!Open, R!Calm, R!prep, CreatorsAlone
  <2>16. QED
    BY <2>2, <2>3, <2>4, <2>5, <2>6, <2>7, <2>8, <2>9, <2>10, <2>11, <2>12, <2>13, <2>14, <2>15
         DEF RunInv
<1>3. ASSUME NEW r \in Runs, R!BindManifest(r) PROVE RunInv'
  <2>1. \A q \in Runs : Sealed(q) => Sealed(q)' /\ R!Content(q)' = R!Content(q)
    BY <1>3 DEF RunInv, RunsTyped, JournalTyped, RunFlagsTyped, FilesFollow, R!Ended, Sealed, R!Content,
         R!BindManifest, R!Go, R!prep
  <2>2. RunsTyped'
    BY <1>3, <2>1 DEF RunInv, R!BindManifest, R!Go, R!Calm, R!prep, RunsTyped, RunPlaces, R!Statuses,
         RunFlagsTyped
  <2>3. JournalTyped'
    BY <1>3, <2>1 DEF RunInv, R!BindManifest, R!Go, R!Calm, R!prep, JournalTyped, Journals, R!Statuses
  <2>4. FilesFollow'
    BY <1>3, <2>1 DEF RunInv, R!BindManifest, R!Go, R!Calm, R!prep, FilesFollow, AtWork, RunsTyped,
         RunPlaces, R!Statuses, RunFlagsTyped, JournalTyped, Journals
  <2>5. EndIsTold'
    BY <1>3, <2>1 DEF RunInv, R!BindManifest, R!Go, R!Calm, R!prep, EndIsTold, Concluded, EndsWell,
         R!Statuses, RunsTyped, RunPlaces, RunFlagsTyped, FilesFollow, AtWork, JournalTyped, Journals,
         EventsTyped, RunEvents, SessionEnds
  <2>6. PreparersSeal'
    BY <1>3, <2>1, SealedStay DEF RunInv, R!prep, R!was, R!BindManifest
  <2>7. CreatedStands'
    BY <1>3, <2>1, SealedStay DEF RunInv, R!prep, R!was, R!BindManifest
  <2>8. NothingUnvouched'
    BY <1>3, <2>1 DEF RunInv, R!BindManifest, R!Go, R!Calm, R!prep, NothingUnvouched, R!Nothing, R!run,
         PreparersTyped, Creating, CreatorsAlone, CreatedStands, R!Partial, R!Content
  <2>9. VouchedIsSealed'
    BY <1>3, <2>1, SealedStay DEF RunInv, R!prep, R!was, R!BindManifest
  <2>10. OneConfirmation'
    BY <1>3, <2>1 DEF RunInv, R!BindManifest, R!Go, R!Calm, R!prep, OneConfirmation, Confirming, R!Ended,
         RunsTyped, RunPlaces, R!Statuses, RunFlagsTyped, FilesFollow, AtWork
  <2>11. EventsTyped'
    BY <1>3 DEF RunInv, R!BindManifest, R!Calm, R!prep, EventsTyped
  <2>12. RunFlagsTyped'
    BY <1>3 DEF RunInv, R!BindManifest, R!Calm, R!prep, RunFlagsTyped
  <2>13. PreparersTyped'
    BY <1>3 DEF RunInv, R!BindManifest, R!Calm, R!prep, PreparersTyped
  <2>14. StatusIsFinal'
    BY <1>3 DEF RunInv, R!BindManifest, R!Calm, R!prep, StatusIsFinal
  <2>15. CreatorsAlone'
    BY <1>3 DEF RunInv, R!BindManifest, R!Calm, R!prep, CreatorsAlone
  <2>16. QED
    BY <2>2, <2>3, <2>4, <2>5, <2>6, <2>7, <2>8, <2>9, <2>10, <2>11, <2>12, <2>13, <2>14, <2>15
         DEF RunInv
<1>4. ASSUME NEW r \in Runs, R!Settle(r) PROVE RunInv'
  <2>1. \A q \in Runs : Sealed(q) => Sealed(q)' /\ R!Content(q)' = R!Content(q)
    BY <1>4 DEF RunInv, RunsTyped, JournalTyped, RunFlagsTyped, FilesFollow, R!Ended, Sealed, R!Content,
         R!Settle, R!Concludes, R!Writes, R!Go, R!prep
  <2>2. RunsTyped'
    BY <1>4, <2>1 DEF RunInv, R!Settle, R!Concludes, R!Writes, R!Go, R!Calm, R!prep, RunsTyped, RunPlaces,
         R!Statuses, RunFlagsTyped
  <2>3. JournalTyped'
    BY <1>4, <2>1 DEF RunInv, R!Settle, R!Concludes, R!Writes, R!Go, R!Calm, R!prep, JournalTyped, Journals,
         R!Statuses
  <2>4. EventsTyped'
    BY <1>4, ConcludesTyped DEF RunInv, RunFlagsTyped, JournalTyped, Journals, EventsTyped, R!Settle
  <2>5. RunFlagsTyped'
    BY <1>4, <2>1 DEF RunInv, R!Settle, R!Concludes, R!Writes, R!Go, R!Calm, R!prep, RunFlagsTyped
  <2>6. FilesFollow'
    BY <1>4, <2>1 DEF RunInv, R!Settle, R!Concludes, R!Writes, R!Go, R!Calm, R!prep, FilesFollow, AtWork,
         RunsTyped, RunPlaces, R!Statuses, RunFlagsTyped, JournalTyped, Journals
  <2>7. EndIsTold'
    <3>1. CASE cancelled[r] \/ ~held[r]
      <4>1. R!Concludes(r, "error", FALSE, IF cancelled[r] THEN "cancel" ELSE "other") /\ UNCHANGED <<journal, held, state>>
        BY <1>4, <3>1 DEF R!Settle
      <4>2. events'[r].second.status = final'[r] /\ final'[r] \in R!Statuses /\ final'[r] # "complete"
        BY <4>1 DEF R!Concludes, RunInv, RunsTyped, EventsTyped, RunEvents, SessionEnds, R!Statuses
      <4>3. events'[r].second.type = "error" /\ (final'[r] = "interrupted" => events'[r].second.code = "cancel")
        BY <4>1 DEF R!Concludes, RunInv, RunsTyped, EventsTyped, RunEvents, SessionEnds, R!Statuses
      <4>4. controller' = [controller EXCEPT ![r] = "concluded"] /\ \A q \in Runs \ {r} : events'[q] = events[q] /\ final'[q] = final[q]
        BY <4>1 DEF R!Concludes, R!Go, RunInv, RunsTyped, EventsTyped
      <4>5. \A q \in Runs : controller'[q] \in Concluded => EndsWell(q)'
        BY <4>1, <4>2, <4>3, <4>4 DEF RunInv, EndIsTold, EndsWell, Concluded, RunsTyped
      <4>6. QED
        BY <4>1, <4>4, <4>5 DEF RunInv, EndIsTold, RunsTyped, Concluded
    <3>2. CASE ~(cancelled[r] \/ ~held[r])
      BY <1>4, <3>2 DEF R!Settle, R!Go, RunInv, EndIsTold, EndsWell, RunsTyped, Concluded
    <3>3. QED
      BY <3>1, <3>2
  <2>8. StatusIsFinal'
    BY <1>4, <2>1 DEF RunInv, R!Settle, R!Concludes, R!Writes, R!Go, R!Calm, R!prep, StatusIsFinal, RunsTyped,
         RunPlaces, R!Statuses, RunFlagsTyped, FilesFollow, AtWork, EndIsTold, Concluded, EndsWell
  <2>9. PreparersSeal'
    BY <1>4, <2>1, SealedStay DEF RunInv, R!prep, R!was, R!Settle
  <2>10. CreatedStands'
    BY <1>4, <2>1, SealedStay DEF RunInv, R!prep, R!was, R!Settle
  <2>11. NothingUnvouched'
    BY <1>4, <2>1 DEF RunInv, R!Settle, R!Concludes, R!Writes, R!Go, R!Calm, R!prep, NothingUnvouched,
         R!Nothing, R!run, PreparersTyped, Creating, CreatorsAlone, CreatedStands, R!Partial, R!Content
  <2>12. VouchedIsSealed'
    BY <1>4, <2>1, SealedStay DEF RunInv, R!prep, R!was, R!Settle
  <2>13. OneConfirmation'
    BY <1>4, <2>1 DEF RunInv, R!Settle, R!Concludes, R!Writes, R!Go, R!Calm, R!prep, OneConfirmation,
         Confirming, R!Ended, RunsTyped, RunPlaces, R!Statuses, RunFlagsTyped, FilesFollow, AtWork
  <2>14. PreparersTyped'
    BY <1>4 DEF RunInv, R!Settle, R!Calm, R!prep, PreparersTyped
  <2>15. CreatorsAlone'
    BY <1>4 DEF RunInv, R!Settle, R!Calm, R!prep, CreatorsAlone
  <2>16. QED
    BY <2>2, <2>3, <2>4, <2>5, <2>6, <2>7, <2>8, <2>9, <2>10, <2>11, <2>12, <2>13, <2>14, <2>15
         DEF RunInv
<1>5. ASSUME NEW r \in Runs, R!StartAttempt(r) PROVE RunInv'
  <2>1. \A q \in Runs : Sealed(q) => Sealed(q)' /\ R!Content(q)' = R!Content(q)
    BY <1>5 DEF RunInv, RunsTyped, JournalTyped, RunFlagsTyped, FilesFollow, R!Ended, Sealed, R!Content,
         R!StartAttempt, R!Go, R!file, R!prep
  <2>2. RunsTyped'
    BY <1>5, <2>1 DEF RunInv, R!StartAttempt, R!Stopping, R!Go, R!Calm, R!file, R!prep, RunsTyped, RunPlaces,
         R!Statuses, RunFlagsTyped
  <2>3. FilesFollow'
    BY <1>5, <2>1 DEF RunInv, R!StartAttempt, R!Stopping, R!Go, R!Calm, R!file, R!prep, FilesFollow, AtWork,
         RunsTyped, RunPlaces, R!Statuses, RunFlagsTyped, JournalTyped, Journals
  <2>4. EndIsTold'
    BY <1>5, <2>1 DEF RunInv, R!StartAttempt, R!Stopping, R!Go, R!Calm, R!file, R!prep, EndIsTold, Concluded,
         EndsWell, R!Statuses, RunsTyped, RunPlaces, RunFlagsTyped, FilesFollow, AtWork, JournalTyped,
         Journals, EventsTyped, RunEvents, SessionEnds
  <2>5. PreparersSeal'
    BY <1>5, <2>1, SealedStay DEF RunInv, R!prep, R!was, R!StartAttempt
  <2>6. CreatedStands'
    BY <1>5, <2>1, SealedStay DEF RunInv, R!prep, R!was, R!StartAttempt
  <2>7. NothingUnvouched'
    BY <1>5, <2>1 DEF RunInv, R!StartAttempt, R!Stopping, R!Go, R!Calm, R!file, R!prep, NothingUnvouched,
         R!Nothing, R!run, PreparersTyped, Creating, CreatorsAlone, CreatedStands, R!Partial, R!Content
  <2>8. VouchedIsSealed'
    BY <1>5, <2>1, SealedStay DEF RunInv, R!prep, R!was, R!StartAttempt
  <2>9. OneConfirmation'
    BY <1>5, <2>1 DEF RunInv, R!StartAttempt, R!Stopping, R!Go, R!Calm, R!file, R!prep, OneConfirmation,
         Confirming, R!Ended, RunsTyped, RunPlaces, R!Statuses, RunFlagsTyped, FilesFollow, AtWork
  <2>10. JournalTyped'
    BY <1>5 DEF RunInv, R!StartAttempt, R!Calm, R!file, R!prep, JournalTyped
  <2>11. EventsTyped'
    BY <1>5 DEF RunInv, R!StartAttempt, R!Calm, R!file, R!prep, EventsTyped
  <2>12. RunFlagsTyped'
    BY <1>5 DEF RunInv, R!StartAttempt, R!Calm, R!file, R!prep, RunFlagsTyped
  <2>13. PreparersTyped'
    BY <1>5 DEF RunInv, R!StartAttempt, R!Calm, R!file, R!prep, PreparersTyped
  <2>14. StatusIsFinal'
    BY <1>5 DEF RunInv, R!StartAttempt, R!Calm, R!file, R!prep, StatusIsFinal
  <2>15. CreatorsAlone'
    BY <1>5 DEF RunInv, R!StartAttempt, R!Calm, R!file, R!prep, CreatorsAlone
  <2>16. QED
    BY <2>2, <2>3, <2>4, <2>5, <2>6, <2>7, <2>8, <2>9, <2>10, <2>11, <2>12, <2>13, <2>14, <2>15
         DEF RunInv
<1>6. ASSUME NEW r \in Runs, R!AttemptValid(r) PROVE RunInv'
  <2>1. \A q \in Runs : Sealed(q) => Sealed(q)' /\ R!Content(q)' = R!Content(q)
    BY <1>6 DEF RunInv, RunsTyped, JournalTyped, RunFlagsTyped, FilesFollow, R!Ended, Sealed, R!Content,
         R!AttemptValid, R!Go, R!prep
  <2>2. RunsTyped'
    BY <1>6, <2>1 DEF RunInv, R!AttemptValid, R!Go, R!Calm, R!prep, RunsTyped, RunPlaces, R!Statuses,
         RunFlagsTyped
  <2>3. JournalTyped'
    BY <1>6, JournalCounts DEF RunInv, R!AttemptValid
  <2>4. FilesFollow'
    BY <1>6, <2>1 DEF RunInv, R!AttemptValid, R!Go, R!Calm, R!prep, FilesFollow, AtWork, RunsTyped,
         RunPlaces, R!Statuses, RunFlagsTyped, JournalTyped, Journals
  <2>5. EndIsTold'
    BY <1>6, <2>1 DEF RunInv, R!AttemptValid, R!Go, R!Calm, R!prep, EndIsTold, Concluded, EndsWell,
         R!Statuses, RunsTyped, RunPlaces, RunFlagsTyped, FilesFollow, AtWork, JournalTyped, Journals,
         EventsTyped, RunEvents, SessionEnds
  <2>6. PreparersSeal'
    BY <1>6, <2>1, SealedStay DEF RunInv, R!prep, R!was, R!AttemptValid
  <2>7. CreatedStands'
    BY <1>6, <2>1, SealedStay DEF RunInv, R!prep, R!was, R!AttemptValid
  <2>8. NothingUnvouched'
    BY <1>6, <2>1 DEF RunInv, R!AttemptValid, R!Go, R!Calm, R!prep, NothingUnvouched, R!Nothing, R!run,
         PreparersTyped, Creating, CreatorsAlone, CreatedStands, R!Partial, R!Content
  <2>9. VouchedIsSealed'
    BY <1>6, <2>1, SealedStay DEF RunInv, R!prep, R!was, R!AttemptValid
  <2>10. OneConfirmation'
    BY <1>6, <2>1 DEF RunInv, R!AttemptValid, R!Go, R!Calm, R!prep, OneConfirmation, Confirming, R!Ended,
         RunsTyped, RunPlaces, R!Statuses, RunFlagsTyped, FilesFollow, AtWork
  <2>11. EventsTyped'
    BY <1>6 DEF RunInv, R!AttemptValid, R!Calm, R!prep, EventsTyped
  <2>12. RunFlagsTyped'
    BY <1>6 DEF RunInv, R!AttemptValid, R!Calm, R!prep, RunFlagsTyped
  <2>13. PreparersTyped'
    BY <1>6 DEF RunInv, R!AttemptValid, R!Calm, R!prep, PreparersTyped
  <2>14. StatusIsFinal'
    BY <1>6 DEF RunInv, R!AttemptValid, R!Calm, R!prep, StatusIsFinal
  <2>15. CreatorsAlone'
    BY <1>6 DEF RunInv, R!AttemptValid, R!Calm, R!prep, CreatorsAlone
  <2>16. QED
    BY <2>2, <2>3, <2>4, <2>5, <2>6, <2>7, <2>8, <2>9, <2>10, <2>11, <2>12, <2>13, <2>14, <2>15
         DEF RunInv
<1>7. ASSUME NEW r \in Runs, R!SessionCommits(r) PROVE RunInv'
  <2>1. \A q \in Runs : Sealed(q) => Sealed(q)' /\ R!Content(q)' = R!Content(q)
    BY <1>7 DEF RunInv, RunsTyped, JournalTyped, RunFlagsTyped, FilesFollow, R!Ended, Sealed, R!Content,
         R!SessionCommits, R!Concludes, R!Writes, R!Go, R!prep
  <2>2. RunsTyped'
    BY <1>7, <2>1 DEF RunInv, R!SessionCommits, R!Concludes, R!Writes, R!Go, R!Calm, R!prep, RunsTyped,
         RunPlaces, R!Statuses, RunFlagsTyped
  <2>3. JournalTyped'
    BY <1>7, <2>1 DEF RunInv, R!SessionCommits, R!Concludes, R!Writes, R!Go, R!Calm, R!prep, JournalTyped,
         Journals, R!Statuses
  <2>4. EventsTyped'
    BY <1>7, ConcludesTyped DEF RunInv, RunFlagsTyped, JournalTyped, Journals, EventsTyped, R!SessionCommits
  <2>5. RunFlagsTyped'
    BY <1>7, <2>1 DEF RunInv, R!SessionCommits, R!Concludes, R!Writes, R!Go, R!Calm, R!prep, RunFlagsTyped
  <2>6. FilesFollow'
    BY <1>7, <2>1 DEF RunInv, R!SessionCommits, R!Concludes, R!Writes, R!Go, R!Calm, R!prep, FilesFollow,
         AtWork, RunsTyped, RunPlaces, R!Statuses, RunFlagsTyped, JournalTyped, Journals
  <2>7. EndIsTold'
    BY <1>7, <2>1 DEF RunInv, R!SessionCommits, R!Concludes, R!Writes, R!Go, R!Calm, R!prep, EndIsTold,
         Concluded, EndsWell, R!Statuses, RunsTyped, RunPlaces, RunFlagsTyped, FilesFollow, AtWork,
         JournalTyped, Journals, EventsTyped, RunEvents, SessionEnds
  <2>8. StatusIsFinal'
    BY <1>7, <2>1 DEF RunInv, R!SessionCommits, R!Concludes, R!Writes, R!Go, R!Calm, R!prep, StatusIsFinal,
         RunsTyped, RunPlaces, R!Statuses, RunFlagsTyped, FilesFollow, AtWork, EndIsTold, Concluded,
         EndsWell
  <2>9. PreparersSeal'
    BY <1>7, <2>1, SealedStay DEF RunInv, R!prep, R!was, R!SessionCommits
  <2>10. CreatedStands'
    BY <1>7, <2>1, SealedStay DEF RunInv, R!prep, R!was, R!SessionCommits
  <2>11. NothingUnvouched'
    BY <1>7, <2>1 DEF RunInv, R!SessionCommits, R!Concludes, R!Writes, R!Go, R!Calm, R!prep, NothingUnvouched,
         R!Nothing, R!run, PreparersTyped, Creating, CreatorsAlone, CreatedStands, R!Partial, R!Content
  <2>12. VouchedIsSealed'
    BY <1>7, <2>1, SealedStay DEF RunInv, R!prep, R!was, R!SessionCommits
  <2>13. OneConfirmation'
    BY <1>7, <2>1 DEF RunInv, R!SessionCommits, R!Concludes, R!Writes, R!Go, R!Calm, R!prep, OneConfirmation,
         Confirming, R!Ended, RunsTyped, RunPlaces, R!Statuses, RunFlagsTyped, FilesFollow, AtWork
  <2>14. PreparersTyped'
    BY <1>7 DEF RunInv, R!SessionCommits, R!Calm, R!prep, PreparersTyped
  <2>15. CreatorsAlone'
    BY <1>7 DEF RunInv, R!SessionCommits, R!Calm, R!prep, CreatorsAlone
  <2>16. QED
    BY <2>2, <2>3, <2>4, <2>5, <2>6, <2>7, <2>8, <2>9, <2>10, <2>11, <2>12, <2>13, <2>14, <2>15
         DEF RunInv
<1>8. ASSUME NEW r \in Runs, R!RecordEnd(r) PROVE RunInv'
  <2>1. \A q \in Runs : Sealed(q) => Sealed(q)' /\ R!Content(q)' = R!Content(q)
    BY <1>8 DEF RunInv, RunsTyped, JournalTyped, RunFlagsTyped, FilesFollow, R!Ended, Sealed, R!Content,
         R!RecordEnd, R!Go, R!prep
  <2>2. RunsTyped'
    BY <1>8, <2>1 DEF RunInv, R!RecordEnd, R!Go, R!Calm, R!prep, RunsTyped, RunPlaces, R!Statuses, RunFlagsTyped
  <2>3. JournalTyped'
    BY <1>8, EndIsStatus, JournalPut DEF RunInv, R!RecordEnd
  <2>4. EventsTyped'
    BY <1>8, EndIsStatus, EventPut DEF RunInv, R!RecordEnd
  <2>5. FilesFollow'
    BY <1>8, <2>1 DEF RunInv, R!RecordEnd, R!Go, R!Calm, R!prep, FilesFollow, AtWork, RunsTyped, RunPlaces,
         R!Statuses, RunFlagsTyped, JournalTyped, Journals
  <2>6. EndIsTold'
    BY <1>8, <2>1 DEF RunInv, R!RecordEnd, R!Go, R!Calm, R!prep, EndIsTold, Concluded, EndsWell, R!Statuses,
         RunsTyped, RunPlaces, RunFlagsTyped, FilesFollow, AtWork, JournalTyped, Journals,
         EventsTyped, RunEvents, SessionEnds
  <2>7. PreparersSeal'
    BY <1>8, <2>1, SealedStay DEF RunInv, R!prep, R!was, R!RecordEnd
  <2>8. CreatedStands'
    BY <1>8, <2>1, SealedStay DEF RunInv, R!prep, R!was, R!RecordEnd
  <2>9. NothingUnvouched'
    BY <1>8, <2>1 DEF RunInv, R!RecordEnd, R!Go, R!Calm, R!prep, NothingUnvouched, R!Nothing, R!run,
         PreparersTyped, Creating, CreatorsAlone, CreatedStands, R!Partial, R!Content
  <2>10. VouchedIsSealed'
    BY <1>8, <2>1, SealedStay DEF RunInv, R!prep, R!was, R!RecordEnd
  <2>11. OneConfirmation'
    BY <1>8, <2>1 DEF RunInv, R!RecordEnd, R!Go, R!Calm, R!prep, OneConfirmation, Confirming, R!Ended,
         RunsTyped, RunPlaces, R!Statuses, RunFlagsTyped, FilesFollow, AtWork
  <2>12. RunFlagsTyped'
    BY <1>8 DEF RunInv, R!RecordEnd, R!Calm, R!prep, RunFlagsTyped
  <2>13. PreparersTyped'
    BY <1>8 DEF RunInv, R!RecordEnd, R!Calm, R!prep, PreparersTyped
  <2>14. StatusIsFinal'
    BY <1>8 DEF RunInv, R!RecordEnd, R!Calm, R!prep, StatusIsFinal
  <2>15. CreatorsAlone'
    BY <1>8 DEF RunInv, R!RecordEnd, R!Calm, R!prep, CreatorsAlone
  <2>16. QED
    BY <2>2, <2>3, <2>4, <2>5, <2>6, <2>7, <2>8, <2>9, <2>10, <2>11, <2>12, <2>13, <2>14, <2>15
         DEF RunInv
<1>9. ASSUME NEW r \in Runs, R!WriteState(r) PROVE RunInv'
  <2>1. \A q \in Runs : Sealed(q) => Sealed(q)' /\ R!Content(q)' = R!Content(q)
    BY <1>9 DEF RunInv, RunsTyped, JournalTyped, RunFlagsTyped, FilesFollow, R!Ended, Sealed, R!Content,
         R!WriteState, R!Go, R!prep
  <2>2. events[r].end \in R!Statuses \union {"none"}
    BY DEF RunInv, EventsTyped, RunEvents
  <2>3. RunsTyped'
    BY <1>9, <2>2 DEF R!WriteState, R!Go, RunInv, RunsTyped, RunPlaces
  <2>4. FilesFollow'
    BY <1>9, <2>1, <2>2 DEF RunInv, R!WriteState, R!Go, R!Calm, R!prep, FilesFollow, AtWork, RunsTyped,
         RunPlaces, R!Statuses, RunFlagsTyped, JournalTyped, Journals
  <2>5. EndIsTold'
    BY <1>9, <2>1, <2>2 DEF RunInv, R!WriteState, R!Go, R!Calm, R!prep, EndIsTold, Concluded, EndsWell,
         R!Statuses, RunsTyped, RunPlaces, RunFlagsTyped, FilesFollow, AtWork, JournalTyped, Journals,
         EventsTyped, RunEvents, SessionEnds
  <2>6. StatusIsFinal'
    BY <1>9, <2>1, <2>2 DEF RunInv, R!WriteState, R!Go, R!Calm, R!prep, StatusIsFinal, RunsTyped, RunPlaces,
         R!Statuses, RunFlagsTyped, FilesFollow, AtWork, EndIsTold, Concluded, EndsWell
  <2>7. PreparersSeal'
    BY <1>9, <2>1, SealedStay DEF RunInv, R!prep, R!was, R!WriteState
  <2>8. CreatedStands'
    BY <1>9, <2>1, SealedStay DEF RunInv, R!prep, R!was, R!WriteState
  <2>9. NothingUnvouched'
    BY <1>9, <2>1, <2>2 DEF RunInv, R!WriteState, R!Go, R!Calm, R!prep, NothingUnvouched, R!Nothing, R!run,
         PreparersTyped, Creating, CreatorsAlone, CreatedStands, R!Partial, R!Content
  <2>10. VouchedIsSealed'
    BY <1>9, <2>1, SealedStay DEF RunInv, R!prep, R!was, R!WriteState
  <2>11. OneConfirmation'
    BY <1>9, <2>1, <2>2 DEF RunInv, R!WriteState, R!Go, R!Calm, R!prep, OneConfirmation, Confirming,
         R!Ended, RunsTyped, RunPlaces, R!Statuses, RunFlagsTyped, FilesFollow, AtWork
  <2>12. JournalTyped'
    BY <1>9 DEF RunInv, R!WriteState, R!Calm, R!prep, JournalTyped
  <2>13. EventsTyped'
    BY <1>9 DEF RunInv, R!WriteState, R!Calm, R!prep, EventsTyped
  <2>14. RunFlagsTyped'
    BY <1>9 DEF RunInv, R!WriteState, R!Calm, R!prep, RunFlagsTyped
  <2>15. PreparersTyped'
    BY <1>9 DEF RunInv, R!WriteState, R!Calm, R!prep, PreparersTyped
  <2>16. CreatorsAlone'
    BY <1>9 DEF RunInv, R!WriteState, R!Calm, R!prep, CreatorsAlone
  <2>17. QED
    BY <2>3, <2>4, <2>5, <2>6, <2>7, <2>8, <2>9, <2>10, <2>11, <2>12, <2>13, <2>14, <2>15, <2>16
         DEF RunInv
<1>10. ASSUME NEW r \in Runs, R!RemoveActive(r) PROVE RunInv'
  <2>1. \A q \in Runs : Sealed(q) => Sealed(q)' /\ R!Content(q)' = R!Content(q)
    BY <1>10 DEF RunInv, RunsTyped, JournalTyped, RunFlagsTyped, FilesFollow, R!Ended, Sealed, R!Content,
         R!RemoveActive, R!Go, R!prep
  <2>2. RunsTyped'
    BY <1>10, <2>1 DEF RunInv, R!RemoveActive, R!Go, R!Calm, R!prep, RunsTyped, RunPlaces, R!Statuses,
         RunFlagsTyped
  <2>3. RunFlagsTyped'
    BY <1>10, <2>1 DEF RunInv, R!RemoveActive, R!Go, R!Calm, R!prep, RunFlagsTyped
  <2>4. FilesFollow'
    BY <1>10, <2>1 DEF RunInv, R!RemoveActive, R!Go, R!Calm, R!prep, FilesFollow, AtWork, RunsTyped,
         RunPlaces, R!Statuses, RunFlagsTyped, JournalTyped, Journals
  <2>5. EndIsTold'
    BY <1>10, <2>1 DEF RunInv, R!RemoveActive, R!Go, R!Calm, R!prep, EndIsTold, Concluded, EndsWell,
         R!Statuses, RunsTyped, RunPlaces, RunFlagsTyped, FilesFollow, AtWork, JournalTyped, Journals,
         EventsTyped, RunEvents, SessionEnds
  <2>6. StatusIsFinal'
    BY <1>10, <2>1 DEF RunInv, R!RemoveActive, R!Go, R!Calm, R!prep, StatusIsFinal, RunsTyped, RunPlaces,
         R!Statuses, RunFlagsTyped, FilesFollow, AtWork, EndIsTold, Concluded, EndsWell
  <2>7. PreparersSeal'
    BY <1>10, <2>1, SealedStay DEF RunInv, R!prep, R!was, R!RemoveActive
  <2>8. CreatedStands'
    BY <1>10, <2>1, SealedStay DEF RunInv, R!prep, R!was, R!RemoveActive
  <2>9. NothingUnvouched'
    BY <1>10, <2>1 DEF RunInv, R!RemoveActive, R!Go, R!Calm, R!prep, NothingUnvouched, R!Nothing, R!run,
         PreparersTyped, Creating, CreatorsAlone, CreatedStands, R!Partial, R!Content
  <2>10. VouchedIsSealed'
    BY <1>10, <2>1, SealedStay DEF RunInv, R!prep, R!was, R!RemoveActive
  <2>11. OneConfirmation'
    BY <1>10, <2>1 DEF RunInv, R!RemoveActive, R!Go, R!Calm, R!prep, OneConfirmation, Confirming, R!Ended,
         RunsTyped, RunPlaces, R!Statuses, RunFlagsTyped, FilesFollow, AtWork
  <2>12. JournalTyped'
    BY <1>10 DEF RunInv, R!RemoveActive, R!Calm, R!prep, JournalTyped
  <2>13. EventsTyped'
    BY <1>10 DEF RunInv, R!RemoveActive, R!Calm, R!prep, EventsTyped
  <2>14. PreparersTyped'
    BY <1>10 DEF RunInv, R!RemoveActive, R!Calm, R!prep, PreparersTyped
  <2>15. CreatorsAlone'
    BY <1>10 DEF RunInv, R!RemoveActive, R!Calm, R!prep, CreatorsAlone
  <2>16. QED
    BY <2>2, <2>3, <2>4, <2>5, <2>6, <2>7, <2>8, <2>9, <2>10, <2>11, <2>12, <2>13, <2>14, <2>15
         DEF RunInv
<1>11. ASSUME NEW r \in Runs, R!Return(r) PROVE RunInv'
  <2>1. \A q \in Runs : Sealed(q) => Sealed(q)' /\ R!Content(q)' = R!Content(q)
    BY <1>11 DEF RunInv, RunsTyped, JournalTyped, RunFlagsTyped, FilesFollow, R!Ended, Sealed, R!Content,
         R!Return, R!Go, R!prep
  <2>2. RunsTyped'
    BY <1>11, <2>1 DEF RunInv, R!Return, R!Go, R!Calm, R!prep, RunsTyped, RunPlaces, R!Statuses, RunFlagsTyped
  <2>3. FilesFollow'
    BY <1>11, <2>1 DEF RunInv, R!Return, R!Go, R!Calm, R!prep, FilesFollow, AtWork, RunsTyped, RunPlaces,
         R!Statuses, RunFlagsTyped, JournalTyped, Journals
  <2>4. EndIsTold'
    BY <1>11, <2>1 DEF RunInv, R!Return, R!Go, R!Calm, R!prep, EndIsTold, Concluded, EndsWell, R!Statuses,
         RunsTyped, RunPlaces, RunFlagsTyped, FilesFollow, AtWork, JournalTyped, Journals,
         EventsTyped, RunEvents, SessionEnds
  <2>5. StatusIsFinal'
    BY <1>11, <2>1 DEF RunInv, R!Return, R!Go, R!Calm, R!prep, StatusIsFinal, RunsTyped, RunPlaces, R!Statuses,
         RunFlagsTyped, FilesFollow, AtWork, EndIsTold, Concluded, EndsWell
  <2>6. PreparersSeal'
    BY <1>11, <2>1, SealedStay DEF RunInv, R!prep, R!was, R!Return
  <2>7. CreatedStands'
    BY <1>11, <2>1, SealedStay DEF RunInv, R!prep, R!was, R!Return
  <2>8. NothingUnvouched'
    BY <1>11, <2>1 DEF RunInv, R!Return, R!Go, R!Calm, R!prep, NothingUnvouched, R!Nothing, R!run,
         PreparersTyped, Creating, CreatorsAlone, CreatedStands, R!Partial, R!Content
  <2>9. VouchedIsSealed'
    BY <1>11, <2>1, SealedStay DEF RunInv, R!prep, R!was, R!Return
  <2>10. OneConfirmation'
    BY <1>11, <2>1 DEF RunInv, R!Return, R!Go, R!Calm, R!prep, OneConfirmation, Confirming, R!Ended,
         RunsTyped, RunPlaces, R!Statuses, RunFlagsTyped, FilesFollow, AtWork
  <2>11. JournalTyped'
    BY <1>11 DEF RunInv, R!Return, R!Calm, R!prep, JournalTyped
  <2>12. EventsTyped'
    BY <1>11 DEF RunInv, R!Return, R!Calm, R!prep, EventsTyped
  <2>13. RunFlagsTyped'
    BY <1>11 DEF RunInv, R!Return, R!Calm, R!prep, RunFlagsTyped
  <2>14. PreparersTyped'
    BY <1>11 DEF RunInv, R!Return, R!Calm, R!prep, PreparersTyped
  <2>15. CreatorsAlone'
    BY <1>11 DEF RunInv, R!Return, R!Calm, R!prep, CreatorsAlone
  <2>16. QED
    BY <2>2, <2>3, <2>4, <2>5, <2>6, <2>7, <2>8, <2>9, <2>10, <2>11, <2>12, <2>13, <2>14, <2>15
         DEF RunInv
<1>12. ASSUME NEW r \in Runs, R!SessionStops(r) PROVE RunInv'
  <2>1. \A q \in Runs : Sealed(q) => Sealed(q)' /\ R!Content(q)' = R!Content(q)
    BY <1>12 DEF RunInv, RunsTyped, JournalTyped, RunFlagsTyped, FilesFollow, R!Ended, Sealed, R!Content,
         R!SessionStops, R!Concludes, R!Writes, R!Go, R!prep
  <2>2. RunsTyped'
    BY <1>12, <2>1 DEF RunInv, R!SessionStops, R!Stopping, R!Calm, R!Fault, R!Concludes, R!Writes, R!Go, R!prep,
         RunsTyped, RunPlaces, R!Statuses, RunFlagsTyped
  <2>3. JournalTyped'
    BY <1>12, <2>1 DEF RunInv, R!SessionStops, R!Stopping, R!Calm, R!Fault, R!Concludes, R!Writes, R!Go, R!prep,
         JournalTyped, Journals, R!Statuses
  <2>4. EventsTyped'
    BY <1>12, ConcludesTyped DEF RunInv, RunFlagsTyped, JournalTyped, Journals, EventsTyped, R!SessionStops
  <2>5. RunFlagsTyped'
    BY <1>12, <2>1 DEF RunInv, R!SessionStops, R!Stopping, R!Calm, R!Fault, R!Concludes, R!Writes, R!Go, R!prep,
         RunFlagsTyped
  <2>6. FilesFollow'
    BY <1>12, <2>1 DEF RunInv, R!SessionStops, R!Stopping, R!Calm, R!Fault, R!Concludes, R!Writes, R!Go, R!prep,
         FilesFollow, AtWork, RunsTyped, RunPlaces, R!Statuses, RunFlagsTyped, JournalTyped, Journals
  <2>7. EndIsTold'
    BY <1>12, <2>1 DEF RunInv, R!SessionStops, R!Stopping, R!Calm, R!Fault, R!Concludes, R!Writes, R!Go, R!prep,
         EndIsTold, Concluded, EndsWell, R!Statuses, RunsTyped, RunPlaces, RunFlagsTyped, FilesFollow,
         AtWork, JournalTyped, Journals, EventsTyped, RunEvents, SessionEnds
  <2>8. StatusIsFinal'
    BY <1>12, <2>1 DEF RunInv, R!SessionStops, R!Stopping, R!Calm, R!Fault, R!Concludes, R!Writes, R!Go, R!prep,
         StatusIsFinal, RunsTyped, RunPlaces, R!Statuses, RunFlagsTyped, FilesFollow, AtWork,
         EndIsTold, Concluded, EndsWell
  <2>9. PreparersSeal'
    BY <1>12, <2>1, SealedStay DEF RunInv, R!prep, R!was, R!SessionStops
  <2>10. CreatedStands'
    BY <1>12, <2>1, SealedStay DEF RunInv, R!prep, R!was, R!SessionStops
  <2>11. NothingUnvouched'
    BY <1>12, <2>1 DEF RunInv, R!SessionStops, R!Stopping, R!Calm, R!Fault, R!Concludes, R!Writes, R!Go, R!prep,
         NothingUnvouched, R!Nothing, R!run, PreparersTyped, Creating, CreatorsAlone, CreatedStands,
         R!Partial, R!Content
  <2>12. VouchedIsSealed'
    BY <1>12, <2>1, SealedStay DEF RunInv, R!prep, R!was, R!SessionStops
  <2>13. OneConfirmation'
    BY <1>12, <2>1 DEF RunInv, R!SessionStops, R!Stopping, R!Calm, R!Fault, R!Concludes, R!Writes, R!Go, R!prep,
         OneConfirmation, Confirming, R!Ended, RunsTyped, RunPlaces, R!Statuses, RunFlagsTyped,
         FilesFollow, AtWork
  <2>14. PreparersTyped'
    BY <1>12 DEF RunInv, R!SessionStops, R!Calm, R!prep, PreparersTyped
  <2>15. CreatorsAlone'
    BY <1>12 DEF RunInv, R!SessionStops, R!Calm, R!prep, CreatorsAlone
  <2>16. QED
    BY <2>2, <2>3, <2>4, <2>5, <2>6, <2>7, <2>8, <2>9, <2>10, <2>11, <2>12, <2>13, <2>14, <2>15
         DEF RunInv
<1>13. ASSUME NEW r \in Runs, R!AttemptInvalid(r) PROVE RunInv'
  <2>1. \A q \in Runs : Sealed(q) => Sealed(q)' /\ R!Content(q)' = R!Content(q)
    BY <1>13 DEF RunInv, RunsTyped, JournalTyped, RunFlagsTyped, FilesFollow, R!Ended, Sealed, R!Content,
         R!AttemptInvalid, R!Concludes, R!Writes, R!Go, R!prep
  <2>2. RunsTyped'
    BY <1>13, <2>1 DEF RunInv, R!AttemptInvalid, R!Stopping, R!Calm, R!Fault, R!Concludes, R!Writes, R!Go, R!prep,
         RunsTyped, RunPlaces, R!Statuses, RunFlagsTyped
  <2>3. JournalTyped'
    BY <1>13, JournalCounts DEF RunInv, R!AttemptInvalid
  <2>4. EventsTyped'
    BY <1>13, <2>3, ConcludesTyped DEF RunInv, RunFlagsTyped, JournalTyped, Journals, EventsTyped, R!AttemptInvalid
  <2>5. RunFlagsTyped'
    BY <1>13, <2>1 DEF RunInv, R!AttemptInvalid, R!Stopping, R!Calm, R!Fault, R!Concludes, R!Writes, R!Go, R!prep,
         RunFlagsTyped
  <2>6. FilesFollow'
    BY <1>13, <2>1 DEF RunInv, R!AttemptInvalid, R!Stopping, R!Calm, R!Fault, R!Concludes, R!Writes, R!Go, R!prep,
         FilesFollow, AtWork, RunsTyped, RunPlaces, R!Statuses, RunFlagsTyped, JournalTyped, Journals
  <2>7. EndIsTold'
    BY <1>13, <2>1 DEF RunInv, R!AttemptInvalid, R!Stopping, R!Calm, R!Fault, R!Concludes, R!Writes, R!Go, R!prep,
         EndIsTold, Concluded, EndsWell, R!Statuses, RunsTyped, RunPlaces, RunFlagsTyped, FilesFollow,
         AtWork, JournalTyped, Journals, EventsTyped, RunEvents, SessionEnds
  <2>8. StatusIsFinal'
    BY <1>13, <2>1 DEF RunInv, R!AttemptInvalid, R!Stopping, R!Calm, R!Fault, R!Concludes, R!Writes, R!Go, R!prep,
         StatusIsFinal, RunsTyped, RunPlaces, R!Statuses, RunFlagsTyped, FilesFollow, AtWork,
         EndIsTold, Concluded, EndsWell
  <2>9. PreparersSeal'
    BY <1>13, <2>1, SealedStay DEF RunInv, R!prep, R!was, R!AttemptInvalid
  <2>10. CreatedStands'
    BY <1>13, <2>1, SealedStay DEF RunInv, R!prep, R!was, R!AttemptInvalid
  <2>11. NothingUnvouched'
    BY <1>13, <2>1 DEF RunInv, R!AttemptInvalid, R!Stopping, R!Calm, R!Fault, R!Concludes, R!Writes, R!Go, R!prep,
         NothingUnvouched, R!Nothing, R!run, PreparersTyped, Creating, CreatorsAlone, CreatedStands,
         R!Partial, R!Content
  <2>12. VouchedIsSealed'
    BY <1>13, <2>1, SealedStay DEF RunInv, R!prep, R!was, R!AttemptInvalid
  <2>13. OneConfirmation'
    BY <1>13, <2>1 DEF RunInv, R!AttemptInvalid, R!Stopping, R!Calm, R!Fault, R!Concludes, R!Writes, R!Go, R!prep,
         OneConfirmation, Confirming, R!Ended, RunsTyped, RunPlaces, R!Statuses, RunFlagsTyped,
         FilesFollow, AtWork
  <2>14. PreparersTyped'
    BY <1>13 DEF RunInv, R!AttemptInvalid, R!Calm, R!prep, PreparersTyped
  <2>15. CreatorsAlone'
    BY <1>13 DEF RunInv, R!AttemptInvalid, R!Calm, R!prep, CreatorsAlone
  <2>16. QED
    BY <2>2, <2>3, <2>4, <2>5, <2>6, <2>7, <2>8, <2>9, <2>10, <2>11, <2>12, <2>13, <2>14, <2>15
         DEF RunInv
<1>14. ASSUME NEW r \in Runs, R!AttemptFails(r) PROVE RunInv'
  <2>1. \A q \in Runs : Sealed(q) => Sealed(q)' /\ R!Content(q)' = R!Content(q)
    BY ZenonT(60), <1>14 DEF RunInv, RunsTyped, JournalTyped, RunFlagsTyped, FilesFollow, R!Ended, Sealed, R!Content,
         R!AttemptFails, R!Concludes, R!Writes, R!Go, R!prep
  <2>2. RunsTyped'
    BY <1>14, <2>1 DEF RunInv, R!AttemptFails, R!Fault, R!Calm, R!Concludes, R!Writes, R!Go, R!prep, RunsTyped,
         RunPlaces, R!Statuses, RunFlagsTyped
  <2>3. JournalTyped'
    BY <1>14, <2>1 DEF RunInv, R!AttemptFails, R!Fault, R!Calm, R!Concludes, R!Writes, R!Go, R!prep,
         JournalTyped, Journals, R!Statuses
  <2>4. EventsTyped'
    BY <1>14, <2>3, ConcludesTyped DEF RunInv, RunFlagsTyped, JournalTyped, Journals, EventsTyped, R!AttemptFails
  <2>5. RunFlagsTyped'
    BY <1>14, <2>1 DEF RunInv, R!AttemptFails, R!Fault, R!Calm, R!Concludes, R!Writes, R!Go, R!prep, RunFlagsTyped
  <2>6. FilesFollow'
    BY <1>14, <2>1 DEF RunInv, R!AttemptFails, R!Fault, R!Calm, R!Concludes, R!Writes, R!Go, R!prep,
         FilesFollow, AtWork, RunsTyped, RunPlaces, R!Statuses, RunFlagsTyped, JournalTyped, Journals
  <2>7. EndIsTold'
    BY <1>14, <2>1 DEF RunInv, R!AttemptFails, R!Fault, R!Calm, R!Concludes, R!Writes, R!Go, R!prep, EndIsTold,
         Concluded, EndsWell, R!Statuses, RunsTyped, RunPlaces, RunFlagsTyped, FilesFollow, AtWork,
         JournalTyped, Journals, EventsTyped, RunEvents, SessionEnds
  <2>8. StatusIsFinal'
    BY <1>14, <2>1 DEF RunInv, R!AttemptFails, R!Fault, R!Calm, R!Concludes, R!Writes, R!Go, R!prep,
         StatusIsFinal, RunsTyped, RunPlaces, R!Statuses, RunFlagsTyped, FilesFollow, AtWork,
         EndIsTold, Concluded, EndsWell
  <2>9. PreparersSeal'
    BY <1>14, <2>1, SealedStay DEF RunInv, R!prep, R!was, R!AttemptFails
  <2>10. CreatedStands'
    BY <1>14, <2>1, SealedStay DEF RunInv, R!prep, R!was, R!AttemptFails
  <2>11. NothingUnvouched'
    BY <1>14, <2>1 DEF RunInv, R!AttemptFails, R!Fault, R!Calm, R!Concludes, R!Writes, R!Go, R!prep,
         NothingUnvouched, R!Nothing, R!run, PreparersTyped, Creating, CreatorsAlone, CreatedStands,
         R!Partial, R!Content
  <2>12. VouchedIsSealed'
    BY <1>14, <2>1, SealedStay DEF RunInv, R!prep, R!was, R!AttemptFails
  <2>13. OneConfirmation'
    BY <1>14, <2>1 DEF RunInv, R!AttemptFails, R!Fault, R!Calm, R!Concludes, R!Writes, R!Go, R!prep,
         OneConfirmation, Confirming, R!Ended, RunsTyped, RunPlaces, R!Statuses, RunFlagsTyped,
         FilesFollow, AtWork
  <2>14. PreparersTyped'
    BY <1>14 DEF RunInv, R!AttemptFails, R!Calm, R!prep, PreparersTyped
  <2>15. CreatorsAlone'
    BY <1>14 DEF RunInv, R!AttemptFails, R!Calm, R!prep, CreatorsAlone
  <2>16. QED
    BY <2>2, <2>3, <2>4, <2>5, <2>6, <2>7, <2>8, <2>9, <2>10, <2>11, <2>12, <2>13, <2>14, <2>15
         DEF RunInv
<1>15. ASSUME NEW r \in Runs, R!WorkloadsFail(r) PROVE RunInv'
  <2>1. \A q \in Runs : Sealed(q) => Sealed(q)' /\ R!Content(q)' = R!Content(q)
    BY <1>15 DEF RunInv, RunsTyped, JournalTyped, RunFlagsTyped, FilesFollow, R!Ended, Sealed, R!Content,
         R!WorkloadsFail, R!Concludes, R!Writes, R!Go, R!prep
  <2>2. RunsTyped'
    BY <1>15, <2>1 DEF RunInv, R!WorkloadsFail, R!Fault, R!Concludes, R!Writes, R!Go, R!prep, RunsTyped,
         RunPlaces, R!Statuses, RunFlagsTyped
  <2>3. JournalTyped'
    BY <1>15, <2>1 DEF RunInv, R!WorkloadsFail, R!Fault, R!Concludes, R!Writes, R!Go, R!prep, JournalTyped,
         Journals, R!Statuses
  <2>4. EventsTyped'
    BY <1>15, ConcludesTyped DEF RunInv, RunFlagsTyped, JournalTyped, Journals, EventsTyped, R!WorkloadsFail
  <2>5. FilesFollow'
    BY <1>15, <2>1 DEF RunInv, R!WorkloadsFail, R!Fault, R!Concludes, R!Writes, R!Go, R!prep, FilesFollow,
         AtWork, RunsTyped, RunPlaces, R!Statuses, RunFlagsTyped, JournalTyped, Journals
  <2>6. EndIsTold'
    BY <1>15, <2>1 DEF RunInv, R!WorkloadsFail, R!Fault, R!Concludes, R!Writes, R!Go, R!prep, EndIsTold,
         Concluded, EndsWell, R!Statuses, RunsTyped, RunPlaces, RunFlagsTyped, FilesFollow, AtWork,
         JournalTyped, Journals, EventsTyped, RunEvents, SessionEnds
  <2>7. StatusIsFinal'
    BY <1>15, <2>1 DEF RunInv, R!WorkloadsFail, R!Fault, R!Concludes, R!Writes, R!Go, R!prep, StatusIsFinal,
         RunsTyped, RunPlaces, R!Statuses, RunFlagsTyped, FilesFollow, AtWork, EndIsTold, Concluded,
         EndsWell
  <2>8. PreparersSeal'
    BY <1>15, <2>1, SealedStay DEF RunInv, R!prep, R!was, R!WorkloadsFail
  <2>9. CreatedStands'
    BY <1>15, <2>1, SealedStay DEF RunInv, R!prep, R!was, R!WorkloadsFail
  <2>10. NothingUnvouched'
    BY <1>15, <2>1 DEF RunInv, R!WorkloadsFail, R!Fault, R!Concludes, R!Writes, R!Go, R!prep,
         NothingUnvouched, R!Nothing, R!run, PreparersTyped, Creating, CreatorsAlone, CreatedStands,
         R!Partial, R!Content
  <2>11. VouchedIsSealed'
    BY <1>15, <2>1, SealedStay DEF RunInv, R!prep, R!was, R!WorkloadsFail
  <2>12. OneConfirmation'
    BY <1>15, <2>1 DEF RunInv, R!WorkloadsFail, R!Fault, R!Concludes, R!Writes, R!Go, R!prep, OneConfirmation,
         Confirming, R!Ended, RunsTyped, RunPlaces, R!Statuses, RunFlagsTyped, FilesFollow, AtWork
  <2>13. RunFlagsTyped'
    BY <1>15 DEF RunInv, R!WorkloadsFail, R!prep, RunFlagsTyped
  <2>14. PreparersTyped'
    BY <1>15 DEF RunInv, R!WorkloadsFail, R!prep, PreparersTyped
  <2>15. CreatorsAlone'
    BY <1>15 DEF RunInv, R!WorkloadsFail, R!prep, CreatorsAlone
  <2>16. QED
    BY <2>2, <2>3, <2>4, <2>5, <2>6, <2>7, <2>8, <2>9, <2>10, <2>11, <2>12, <2>13, <2>14, <2>15
         DEF RunInv
<1>16. ASSUME NEW r \in Runs, R!OrphanDrains(r) PROVE RunInv'
  <2>1. \A q \in Runs : Sealed(q) => Sealed(q)' /\ R!Content(q)' = R!Content(q)
    BY <1>16 DEF RunInv, RunsTyped, JournalTyped, RunFlagsTyped, FilesFollow, R!Ended, Sealed, R!Content,
         R!OrphanDrains, R!file, R!prep
  <2>2. RunFlagsTyped'
    BY <1>16, <2>1 DEF RunInv, R!OrphanDrains, R!Calm, R!file, R!prep, RunFlagsTyped
  <2>3. FilesFollow'
    BY <1>16, <2>1 DEF RunInv, R!OrphanDrains, R!Calm, R!file, R!prep, FilesFollow, AtWork, RunsTyped,
         RunPlaces, R!Statuses, RunFlagsTyped, JournalTyped, Journals
  <2>4. PreparersSeal'
    BY <1>16, <2>1, SealedStay DEF RunInv, R!prep, R!was, R!OrphanDrains
  <2>5. CreatedStands'
    BY <1>16, <2>1, SealedStay DEF RunInv, R!prep, R!was, R!OrphanDrains
  <2>6. NothingUnvouched'
    BY <1>16, <2>1 DEF RunInv, R!OrphanDrains, R!Calm, R!file, R!prep, NothingUnvouched, R!Nothing, R!run,
         PreparersTyped, Creating, CreatorsAlone, CreatedStands, R!Partial, R!Content
  <2>7. VouchedIsSealed'
    BY <1>16, <2>1, SealedStay DEF RunInv, R!prep, R!was, R!OrphanDrains
  <2>8. OneConfirmation'
    BY <1>16, <2>1 DEF RunInv, R!OrphanDrains, R!Calm, R!file, R!prep, OneConfirmation, Confirming, R!Ended,
         RunsTyped, RunPlaces, R!Statuses, RunFlagsTyped, FilesFollow, AtWork
  <2>9. RunsTyped'
    BY <1>16 DEF RunInv, R!OrphanDrains, R!Calm, R!file, R!prep, RunsTyped
  <2>10. JournalTyped'
    BY <1>16 DEF RunInv, R!OrphanDrains, R!Calm, R!file, R!prep, JournalTyped
  <2>11. EventsTyped'
    BY <1>16 DEF RunInv, R!OrphanDrains, R!Calm, R!file, R!prep, EventsTyped
  <2>12. PreparersTyped'
    BY <1>16 DEF RunInv, R!OrphanDrains, R!Calm, R!file, R!prep, PreparersTyped
  <2>13. EndIsTold'
    BY <1>16 DEF RunInv, R!OrphanDrains, R!Calm, R!file, R!prep, EndIsTold, EndsWell
  <2>14. StatusIsFinal'
    BY <1>16 DEF RunInv, R!OrphanDrains, R!Calm, R!file, R!prep, StatusIsFinal
  <2>15. CreatorsAlone'
    BY <1>16 DEF RunInv, R!OrphanDrains, R!Calm, R!file, R!prep, CreatorsAlone
  <2>16. QED
    BY <2>2, <2>3, <2>4, <2>5, <2>6, <2>7, <2>8, <2>9, <2>10, <2>11, <2>12, <2>13, <2>14, <2>15
         DEF RunInv
<1>17. ASSUME NEW r \in Runs, R!Interrupt(r) PROVE RunInv'
  <2>1. RunFlagsTyped'
    BY <1>17 DEF RunInv, R!Interrupt, R!Fault, R!file, R!prep, RunFlagsTyped
  <2>2. CreatedStands'
    BY <1>17 DEF RunInv, R!Interrupt, R!Fault, R!file, R!prep, CreatedStands, R!Partial, R!Nothing, R!run,
         R!Content, RunsTyped, RunPlaces, R!Statuses, RunFlagsTyped, PreparersTyped, Creating,
         PreparersSeal, Sealed, CreatorsAlone, NothingUnvouched
  <2>3. NothingUnvouched'
    BY <1>17 DEF RunInv, R!Interrupt, R!Fault, R!file, R!prep, NothingUnvouched, R!Nothing, R!run,
         PreparersTyped, Creating, CreatorsAlone, CreatedStands, R!Partial, R!Content
  <2>4. VouchedIsSealed'
    <3>1. \A q \in Runs : Sealed(q) => Sealed(q)' /\ R!Content(q)' = R!Content(q)
      BY <1>17 DEF R!Interrupt, R!file, Sealed, R!Content
    <3>2. QED
      BY <1>17, <3>1, SealedStay DEF RunInv, R!Interrupt, R!prep, R!was
  <2>5. RunsTyped'
    BY <1>17 DEF RunInv, R!Interrupt, R!file, R!prep, RunsTyped
  <2>6. JournalTyped'
    BY <1>17 DEF RunInv, R!Interrupt, R!file, R!prep, JournalTyped
  <2>7. EventsTyped'
    BY <1>17 DEF RunInv, R!Interrupt, R!file, R!prep, EventsTyped
  <2>8. PreparersTyped'
    BY <1>17 DEF RunInv, R!Interrupt, R!file, R!prep, PreparersTyped
  <2>9. FilesFollow'
    BY <1>17 DEF RunInv, R!Interrupt, R!file, R!prep, FilesFollow
  <2>10. EndIsTold'
    BY <1>17 DEF RunInv, R!Interrupt, R!file, R!prep, EndIsTold, EndsWell
  <2>11. StatusIsFinal'
    BY <1>17 DEF RunInv, R!Interrupt, R!file, R!prep, StatusIsFinal
  <2>12. PreparersSeal'
    BY <1>17 DEF RunInv, R!Interrupt, R!file, R!prep, PreparersSeal, Sealed
  <2>13. CreatorsAlone'
    BY <1>17 DEF RunInv, R!Interrupt, R!file, R!prep, CreatorsAlone
  <2>14. OneConfirmation'
    BY <1>17 DEF RunInv, R!Interrupt, R!file, R!prep, OneConfirmation, Confirming, R!Ended
  <2>15. QED
    BY <2>1, <2>2, <2>3, <2>4, <2>5, <2>6, <2>7, <2>8, <2>9, <2>10, <2>11, <2>12, <2>13, <2>14
         DEF RunInv
<1>18. ASSUME NEW r \in Runs, R!Deadline(r) PROVE RunInv'
  <2>1. CreatedStands'
    BY <1>18 DEF RunInv, R!Deadline, R!Fault, R!file, R!prep, CreatedStands, R!Partial, R!Nothing, R!run,
         R!Content, RunsTyped, RunPlaces, R!Statuses, RunFlagsTyped, PreparersTyped, Creating,
         PreparersSeal, Sealed, CreatorsAlone, NothingUnvouched
  <2>2. NothingUnvouched'
    BY <1>18 DEF RunInv, R!Deadline, R!Fault, R!file, R!prep, NothingUnvouched, R!Nothing, R!run,
         PreparersTyped, Creating, CreatorsAlone, CreatedStands, R!Partial, R!Content
  <2>3. VouchedIsSealed'
    <3>1. \A q \in Runs : Sealed(q) => Sealed(q)' /\ R!Content(q)' = R!Content(q)
      BY <1>18 DEF R!Deadline, R!file, Sealed, R!Content
    <3>2. QED
      BY <1>18, <3>1, SealedStay DEF RunInv, R!Deadline, R!prep, R!was
  <2>4. RunsTyped'
    BY <1>18 DEF RunInv, R!Deadline, R!file, R!prep, RunsTyped
  <2>5. JournalTyped'
    BY <1>18 DEF RunInv, R!Deadline, R!file, R!prep, JournalTyped
  <2>6. EventsTyped'
    BY <1>18 DEF RunInv, R!Deadline, R!file, R!prep, EventsTyped
  <2>7. RunFlagsTyped'
    BY <1>18 DEF RunInv, R!Deadline, R!file, R!prep, RunFlagsTyped
  <2>8. PreparersTyped'
    BY <1>18 DEF RunInv, R!Deadline, R!file, R!prep, PreparersTyped
  <2>9. FilesFollow'
    BY <1>18 DEF RunInv, R!Deadline, R!file, R!prep, FilesFollow
  <2>10. EndIsTold'
    BY <1>18 DEF RunInv, R!Deadline, R!file, R!prep, EndIsTold, EndsWell
  <2>11. StatusIsFinal'
    BY <1>18 DEF RunInv, R!Deadline, R!file, R!prep, StatusIsFinal
  <2>12. PreparersSeal'
    BY <1>18 DEF RunInv, R!Deadline, R!file, R!prep, PreparersSeal, Sealed
  <2>13. CreatorsAlone'
    BY <1>18 DEF RunInv, R!Deadline, R!file, R!prep, CreatorsAlone
  <2>14. OneConfirmation'
    BY <1>18 DEF RunInv, R!Deadline, R!file, R!prep, OneConfirmation, Confirming, R!Ended
  <2>15. QED
    BY <2>1, <2>2, <2>3, <2>4, <2>5, <2>6, <2>7, <2>8, <2>9, <2>10, <2>11, <2>12, <2>13, <2>14
         DEF RunInv
<1>19. ASSUME NEW r \in Runs, R!LoseAuthorization(r) PROVE RunInv'
  <2>1. RunFlagsTyped'
    BY <1>19 DEF RunInv, R!LoseAuthorization, R!Ended, R!Fault, R!file, R!prep, RunFlagsTyped
  <2>2. EndIsTold'
    BY <1>19 DEF RunInv, R!LoseAuthorization, R!Ended, R!Fault, R!file, R!prep, EndIsTold, Concluded,
         EndsWell, R!Statuses, RunsTyped, RunPlaces, RunFlagsTyped, FilesFollow, AtWork, JournalTyped,
         Journals, EventsTyped, RunEvents, SessionEnds
  <2>3. CreatedStands'
    BY <1>19 DEF RunInv, R!LoseAuthorization, R!Ended, R!Fault, R!file, R!prep, CreatedStands, R!Partial,
         R!Nothing, R!run, R!Content, RunsTyped, RunPlaces, R!Statuses, RunFlagsTyped, PreparersTyped,
         Creating, PreparersSeal, Sealed, CreatorsAlone, NothingUnvouched
  <2>4. NothingUnvouched'
    BY <1>19 DEF RunInv, R!LoseAuthorization, R!Ended, R!Fault, R!file, R!prep, NothingUnvouched, R!Nothing,
         R!run, PreparersTyped, Creating, CreatorsAlone, CreatedStands, R!Partial, R!Content
  <2>5. VouchedIsSealed'
    <3>1. \A q \in Runs : Sealed(q) => Sealed(q)' /\ R!Content(q)' = R!Content(q)
      BY <1>19 DEF R!LoseAuthorization, R!file, Sealed, R!Content
    <3>2. QED
      BY <1>19, <3>1, SealedStay DEF RunInv, R!LoseAuthorization, R!prep, R!was
  <2>6. RunsTyped'
    BY <1>19 DEF RunInv, R!LoseAuthorization, R!file, R!prep, RunsTyped
  <2>7. JournalTyped'
    BY <1>19 DEF RunInv, R!LoseAuthorization, R!file, R!prep, JournalTyped
  <2>8. EventsTyped'
    BY <1>19 DEF RunInv, R!LoseAuthorization, R!file, R!prep, EventsTyped
  <2>9. PreparersTyped'
    BY <1>19 DEF RunInv, R!LoseAuthorization, R!file, R!prep, PreparersTyped
  <2>10. FilesFollow'
    BY <1>19 DEF RunInv, R!LoseAuthorization, R!file, R!prep, FilesFollow
  <2>11. StatusIsFinal'
    BY <1>19 DEF RunInv, R!LoseAuthorization, R!file, R!prep, StatusIsFinal
  <2>12. PreparersSeal'
    BY <1>19 DEF RunInv, R!LoseAuthorization, R!file, R!prep, PreparersSeal, Sealed
  <2>13. CreatorsAlone'
    BY <1>19 DEF RunInv, R!LoseAuthorization, R!file, R!prep, CreatorsAlone
  <2>14. OneConfirmation'
    BY <1>19 DEF RunInv, R!LoseAuthorization, R!file, R!prep, OneConfirmation, Confirming, R!Ended
  <2>15. QED
    BY <2>1, <2>2, <2>3, <2>4, <2>5, <2>6, <2>7, <2>8, <2>9, <2>10, <2>11, <2>12, <2>13, <2>14
         DEF RunInv
<1>20. ASSUME NEW r \in Runs, R!Killed(r) PROVE RunInv'
  <2>1. \A q \in Runs : Sealed(q) => Sealed(q)' /\ R!Content(q)' = R!Content(q)
    BY <1>20 DEF RunInv, RunsTyped, JournalTyped, RunFlagsTyped, FilesFollow, R!Ended, Sealed, R!Content,
         R!Killed, R!Go, R!file, R!prep
  <2>2. RunsTyped'
    BY <1>20, <2>1 DEF RunInv, R!Killed, R!Ended, R!Fault, R!Go, R!file, R!prep, RunsTyped, RunPlaces, R!Statuses,
         RunFlagsTyped
  <2>3. FilesFollow'
    BY <1>20, <2>1 DEF RunInv, R!Killed, R!Ended, R!Fault, R!Go, R!file, R!prep, FilesFollow, AtWork,
         RunsTyped, RunPlaces, R!Statuses, RunFlagsTyped, JournalTyped, Journals
  <2>4. EndIsTold'
    BY <1>20, <2>1 DEF RunInv, R!Killed, R!Ended, R!Fault, R!Go, R!file, R!prep, EndIsTold, Concluded,
         EndsWell, R!Statuses, RunsTyped, RunPlaces, RunFlagsTyped, FilesFollow, AtWork, JournalTyped,
         Journals, EventsTyped, RunEvents, SessionEnds
  <2>5. PreparersSeal'
    BY <1>20, <2>1, SealedStay DEF RunInv, R!prep, R!was, R!Killed
  <2>6. CreatedStands'
    BY <1>20, <2>1, SealedStay DEF RunInv, R!prep, R!was, R!Killed
  <2>7. NothingUnvouched'
    BY <1>20, <2>1 DEF RunInv, R!Killed, R!Ended, R!Fault, R!Go, R!file, R!prep, NothingUnvouched, R!Nothing,
         R!run, PreparersTyped, Creating, CreatorsAlone, CreatedStands, R!Partial, R!Content
  <2>8. VouchedIsSealed'
    BY <1>20, <2>1, SealedStay DEF RunInv, R!prep, R!was, R!Killed
  <2>9. OneConfirmation'
    BY <1>20, <2>1 DEF RunInv, R!Killed, R!Ended, R!Fault, R!Go, R!file, R!prep, OneConfirmation, Confirming,
         RunsTyped, RunPlaces, R!Statuses, RunFlagsTyped, FilesFollow, AtWork
  <2>10. JournalTyped'
    BY <1>20 DEF RunInv, R!Killed, R!file, R!prep, JournalTyped
  <2>11. EventsTyped'
    BY <1>20 DEF RunInv, R!Killed, R!file, R!prep, EventsTyped
  <2>12. RunFlagsTyped'
    BY <1>20 DEF RunInv, R!Killed, R!file, R!prep, RunFlagsTyped
  <2>13. PreparersTyped'
    BY <1>20 DEF RunInv, R!Killed, R!file, R!prep, PreparersTyped
  <2>14. StatusIsFinal'
    BY <1>20 DEF RunInv, R!Killed, R!file, R!prep, StatusIsFinal
  <2>15. CreatorsAlone'
    BY <1>20 DEF RunInv, R!Killed, R!file, R!prep, CreatorsAlone
  <2>16. QED
    BY <2>2, <2>3, <2>4, <2>5, <2>6, <2>7, <2>8, <2>9, <2>10, <2>11, <2>12, <2>13, <2>14, <2>15
         DEF RunInv
<1>21. ASSUME NEW p \in Preparers, NEW r \in Runs, NEW n \in Stamps, R!Take(p, r, n) PROVE RunInv'
  <2>1. \A q \in Runs : R!Content(q)' = R!Content(q) /\ (Sealed(q)' <=> Sealed(q))
    BY <1>21 DEF R!Content, Sealed, R!Take, R!run, R!file, R!Moves, R!Calm
  <2>2. Sealed(r)
    <3>1. /\ controller[r] \in {"made", "done", "dead"} /\ ~active[r] /\ state[r] \in R!Statuses /\ kind[r] \in {"fixed", "confirmation"}
      BY <1>21 DEF R!Take, RunInv, RunsTyped, FilesFollow, R!LeafFree, R!Inspectable, R!Agrees
    <3>2. ~working[r]
      BY <1>21, <3>1 DEF R!Take, R!LeafFree, R!Retains, R!ScreenFree
    <3>3. controller[r] # "made" /\ state[r] # "none"
      BY <3>1 DEF R!Statuses, RunInv, FilesFollow
    <3>4. QED
      BY <3>1, <3>2, <3>3 DEF RunInv, StatusIsFinal, Sealed
  <2>3. PreparersTyped'
    BY <1>21, <2>1, <2>2 DEF RunInv, R!Take, R!LeafFree, R!Retains, R!Preparing, R!Inspectable, R!Agrees,
         R!Statuses, R!ScreenFree, R!Ended, R!Nothing, R!run, R!Moves, R!Calm, R!file, PreparersTyped, Creating
  <2>4. PreparersSeal'
    BY <1>21, <2>1, <2>2, ContentsShow DEF RunInv, PreparersTyped, PreparersSeal, CreatorsAlone,
         CreatedStands, NothingUnvouched, VouchedIsSealed, Creating, R!Take, R!Moves
  <2>5. CreatorsAlone'
    BY <1>21, <2>1, <2>2, ContentsShow DEF RunInv, PreparersTyped, PreparersSeal, CreatorsAlone,
         CreatedStands, NothingUnvouched, VouchedIsSealed, Creating, R!Take, R!Moves
  <2>6. CreatedStands'
    BY <1>21, <2>1, <2>2, ContentsShow DEF RunInv, PreparersTyped, PreparersSeal, CreatorsAlone,
         CreatedStands, NothingUnvouched, VouchedIsSealed, Creating, R!Take, R!Moves
  <2>7. RunsTyped'
    BY <1>21 DEF RunInv, R!Take, R!run, R!Calm, R!file, RunsTyped
  <2>8. JournalTyped'
    BY <1>21 DEF RunInv, R!Take, R!run, R!Calm, R!file, JournalTyped
  <2>9. EventsTyped'
    BY <1>21 DEF RunInv, R!Take, R!run, R!Calm, R!file, EventsTyped
  <2>10. RunFlagsTyped'
    BY <1>21 DEF RunInv, R!Take, R!run, R!Calm, R!file, RunFlagsTyped
  <2>11. FilesFollow'
    BY <1>21 DEF RunInv, R!Take, R!run, R!Calm, R!file, FilesFollow
  <2>12. EndIsTold'
    BY <1>21 DEF RunInv, R!Take, R!run, R!Calm, R!file, EndIsTold, EndsWell
  <2>13. StatusIsFinal'
    BY <1>21 DEF RunInv, R!Take, R!run, R!Calm, R!file, StatusIsFinal
  <2>14. NothingUnvouched'
    BY <1>21 DEF RunInv, R!Take, R!Moves, PreparersTyped, NothingUnvouched
  <2>15. VouchedIsSealed'
    <3>1. ChecksumsSealed'
      BY <1>21, <2>1 DEF RunInv, R!Take, VouchedIsSealed, ChecksumsSealed, OfSealed, Digest,
           R!Nothing, R!Partial
    <3>2. VouchedStands'
      BY <1>21 DEF RunInv, R!Take, VouchedIsSealed, VouchedStands, Digest, R!Nothing, R!Partial
    <3>3. QED
      BY <3>1, <3>2 DEF VouchedIsSealed
  <2>16. OneConfirmation'
    BY <1>21 DEF RunInv, R!Take, R!run, R!Calm, R!file, OneConfirmation, Confirming, R!Ended
  <2>17. QED
    BY <2>3, <2>4, <2>5, <2>6, <2>7, <2>8, <2>9, <2>10, <2>11, <2>12, <2>13, <2>14, <2>15, <2>16
         DEF RunInv
<1>22. ASSUME NEW p \in Preparers, R!Tar(p) PROVE RunInv'
  <2>1. \A q \in Runs : R!Content(q)' = R!Content(q) /\ (Sealed(q)' <=> Sealed(q))
    BY <1>22 DEF R!Content, Sealed, R!Tar, R!run, R!file, R!Moves, R!Calm
  <2>2. PreparersTyped'
    BY <1>22, <2>1 DEF RunInv, R!Tar, R!Inspectable, R!Agrees, R!Statuses, R!Moves, R!Calm, R!run, R!file,
         PreparersTyped, Creating
  <2>3. PreparersSeal'
    BY <1>22, <2>1, ContentsShow DEF RunInv, PreparersTyped, PreparersSeal, CreatorsAlone,
         CreatedStands, NothingUnvouched, Creating, R!Tar, R!Moves
  <2>4. CreatorsAlone'
    BY <1>22, <2>1, ContentsShow DEF RunInv, PreparersTyped, PreparersSeal, CreatorsAlone,
         CreatedStands, NothingUnvouched, Creating, R!Tar, R!Moves
  <2>5. CreatedStands'
    BY <1>22, <2>1, ContentsShow DEF RunInv, PreparersTyped, PreparersSeal, CreatorsAlone,
         CreatedStands, NothingUnvouched, Creating, R!Tar, R!Moves
  <2>6. RunsTyped'
    BY <1>22 DEF RunInv, R!Tar, R!Calm, R!run, R!file, RunsTyped
  <2>7. JournalTyped'
    BY <1>22 DEF RunInv, R!Tar, R!Calm, R!run, R!file, JournalTyped
  <2>8. EventsTyped'
    BY <1>22 DEF RunInv, R!Tar, R!Calm, R!run, R!file, EventsTyped
  <2>9. RunFlagsTyped'
    BY <1>22 DEF RunInv, R!Tar, R!Calm, R!run, R!file, RunFlagsTyped
  <2>10. FilesFollow'
    BY <1>22 DEF RunInv, R!Tar, R!Calm, R!run, R!file, FilesFollow
  <2>11. EndIsTold'
    BY <1>22 DEF RunInv, R!Tar, R!Calm, R!run, R!file, EndIsTold, EndsWell
  <2>12. StatusIsFinal'
    BY <1>22 DEF RunInv, R!Tar, R!Calm, R!run, R!file, StatusIsFinal
  <2>13. NothingUnvouched'
    BY <1>22 DEF RunInv, R!Tar, R!Moves, PreparersTyped, NothingUnvouched
  <2>14. VouchedIsSealed'
    <3>1. ChecksumsSealed'
      BY <1>22, <2>1 DEF RunInv, R!Tar, R!was, VouchedIsSealed, ChecksumsSealed, OfSealed, Digest,
           R!Nothing, R!Partial
    <3>2. VouchedStands'
      BY <1>22 DEF RunInv, R!Tar, R!was, VouchedIsSealed, VouchedStands, Digest, R!Nothing, R!Partial
    <3>3. QED
      BY <3>1, <3>2 DEF VouchedIsSealed
  <2>15. OneConfirmation'
    BY <1>22 DEF RunInv, R!Tar, R!Calm, R!run, R!file, OneConfirmation, Confirming, R!Ended
  <2>16. QED
    BY <2>2, <2>3, <2>4, <2>5, <2>6, <2>7, <2>8, <2>9, <2>10, <2>11, <2>12, <2>13, <2>14, <2>15
         DEF RunInv
<1>23. ASSUME NEW p \in Preparers, R!Link(p) PROVE RunInv'
  <2>1. \A q \in Runs : R!Content(q)' = R!Content(q) /\ (Sealed(q)' <=> Sealed(q))
    BY <1>23 DEF R!Content, Sealed, R!Link, R!run, R!file, R!Moves, R!Idle, R!Calm
  <2>2. PreparersTyped'
    BY <1>23, <2>1 DEF RunInv, R!Link, R!Nothing, R!run, R!Content, R!Moves, R!Idle, R!NoJob, R!Calm, R!file,
         PreparersTyped, Creating
  <2>3. PreparersSeal'
    BY <1>23, <2>1, ContentsShow DEF RunInv, PreparersTyped, PreparersSeal, CreatorsAlone,
         CreatedStands, NothingUnvouched, Creating, R!Link, R!Moves, R!Idle
  <2>4. CreatorsAlone'
    BY <1>23, <2>1, ContentsShow DEF RunInv, PreparersTyped, PreparersSeal, CreatorsAlone,
         CreatedStands, NothingUnvouched, Creating, R!Link, R!Moves, R!Idle
  <2>5. CreatedStands'
    BY <1>23, <2>1, ContentsShow DEF RunInv, PreparersTyped, PreparersSeal, CreatorsAlone,
         CreatedStands, NothingUnvouched, Creating, R!Link, R!Moves, R!Idle
  <2>6. NothingUnvouched'
    BY <1>23, <2>1, ContentsShow DEF RunInv, PreparersTyped, PreparersSeal, CreatorsAlone,
         CreatedStands, NothingUnvouched, Creating, R!Link, R!Moves, R!Idle
  <2>7. VouchedIsSealed'
    <3>1. \A n \in Stamps : \/ checksum'[n] \in {checksum[n], R!Nothing, R!Partial}
                             \/ OfSealed(checksum'[n])
      BY <1>23 DEF RunInv, PreparersTyped, PreparersSeal, CreatedStands, Creating, OfSealed,
           R!Link, R!Idle
    <3>2. ChecksumsSealed'
      BY <1>23, <2>1, <3>1, ChecksumsStay DEF R!Link
    <3>3. VouchedStands'
      BY <1>23 DEF RunInv, PreparersTyped, CreatedStands, NothingUnvouched, VouchedIsSealed,
           VouchedStands, Digest, Creating, R!Link, R!Unsynchronised, R!Moves, R!Idle
    <3>4. QED
      BY <3>2, <3>3 DEF VouchedIsSealed
  <2>8. RunsTyped'
    BY <1>23 DEF RunInv, R!Link, R!run, R!Calm, R!file, RunsTyped
  <2>9. JournalTyped'
    BY <1>23 DEF RunInv, R!Link, R!run, R!Calm, R!file, JournalTyped
  <2>10. EventsTyped'
    BY <1>23 DEF RunInv, R!Link, R!run, R!Calm, R!file, EventsTyped
  <2>11. RunFlagsTyped'
    BY <1>23 DEF RunInv, R!Link, R!run, R!Calm, R!file, RunFlagsTyped
  <2>12. FilesFollow'
    BY <1>23 DEF RunInv, R!Link, R!run, R!Calm, R!file, FilesFollow
  <2>13. EndIsTold'
    BY <1>23 DEF RunInv, R!Link, R!run, R!Calm, R!file, EndIsTold, EndsWell
  <2>14. StatusIsFinal'
    BY <1>23 DEF RunInv, R!Link, R!run, R!Calm, R!file, StatusIsFinal
  <2>15. OneConfirmation'
    BY <1>23 DEF RunInv, R!Link, R!run, R!Calm, R!file, OneConfirmation, Confirming, R!Ended
  <2>16. QED
    BY <2>2, <2>3, <2>4, <2>5, <2>6, <2>7, <2>8, <2>9, <2>10, <2>11, <2>12, <2>13, <2>14, <2>15
         DEF RunInv
<1>24. ASSUME NEW p \in Preparers, R!CopyBegins(p) PROVE RunInv'
  <2>1. \A q \in Runs : R!Content(q)' = R!Content(q) /\ (Sealed(q)' <=> Sealed(q))
    BY <1>24 DEF R!Content, Sealed, R!CopyBegins, R!run, R!file, R!Moves, R!Calm
  <2>2. PreparersTyped'
    BY <1>24, <2>1 DEF RunInv, R!CopyBegins, R!Nothing, R!run, R!Partial, R!Moves, R!Calm, R!file,
         PreparersTyped, Creating
  <2>3. PreparersSeal'
    BY <1>24, <2>1, ContentsShow DEF RunInv, PreparersTyped, PreparersSeal, CreatorsAlone,
         CreatedStands, NothingUnvouched, Creating, R!CopyBegins, R!Moves
  <2>4. CreatorsAlone'
    BY <1>24, <2>1, ContentsShow DEF RunInv, PreparersTyped, PreparersSeal, CreatorsAlone,
         CreatedStands, NothingUnvouched, Creating, R!CopyBegins, R!Moves
  <2>5. CreatedStands'
    <3>1. /\ temp' = temp /\ checksum' = checksum
          /\ checksum[job[p].stamp] = R!Nothing
      BY <1>24 DEF R!CopyBegins, RunInv, NothingUnvouched
    <3>2. \A q \in Preparers : q # p /\ pp[q] \in Creating => job[q].stamp # job[p].stamp
      BY <1>24, ContentsShow DEF R!CopyBegins, RunInv, CreatedStands, PreparersTyped, PreparersSeal, Creating
    <3>3. /\ pp'[p] = "copying" /\ archive'[job[p].stamp] = R!Partial /\ job' = job
          /\ temp[p] = R!Content(job[p].run)
      BY <1>24 DEF RunInv, PreparersTyped, CreatedStands, R!CopyBegins, R!Moves
    <3>4. \A q \in Preparers : q # p =>
            pp'[q] = pp[q] /\ (pp[q] \in Creating => archive'[job[q].stamp] = archive[job[q].stamp])
      BY <1>24, <3>2 DEF RunInv, PreparersTyped, Creating, R!CopyBegins, R!Moves
    <3>5. \A q \in Preparers : pp'[q] # "idle" => R!Content(job[q].run)' = R!Content(job[q].run)
      BY <1>24, <2>1, <3>3, <3>4 DEF RunInv, PreparersTyped, R!CopyBegins
    <3>6. \A q \in Preparers : pp'[q] \in {"linking"} \union Creating =>
            temp'[q] = R!Content(job[q].run)'
      BY <3>1, <3>3, <3>4, <3>5 DEF RunInv, CreatedStands, Creating
    <3>7. \A q \in Preparers :
            /\ pp'[q] = "copying" => archive'[job'[q].stamp] = R!Partial
            /\ pp'[q] \in {"linked", "vouching"} => archive'[job'[q].stamp] = temp'[q]
            /\ pp'[q] \in {"copying", "linked"} => checksum'[job'[q].stamp] = R!Nothing
            /\ pp'[q] = "vouching" => checksum'[job'[q].stamp] = R!Partial
      BY <3>1, <3>3, <3>4 DEF RunInv, CreatedStands, Creating
    <3>8. QED
      BY <3>6, <3>7 DEF CreatedStands, R!Nothing, R!Partial
  <2>6. NothingUnvouched'
    BY <1>24, <2>1, ContentsShow DEF RunInv, PreparersTyped, PreparersSeal, CreatorsAlone,
         CreatedStands, NothingUnvouched, Creating, R!CopyBegins, R!Moves
  <2>7. VouchedIsSealed'
    <3>1. \A n \in Stamps : \/ checksum'[n] \in {checksum[n], R!Nothing, R!Partial}
                             \/ OfSealed(checksum'[n])
      BY <1>24 DEF RunInv, PreparersTyped, PreparersSeal, CreatedStands, Creating, OfSealed,
           R!CopyBegins
    <3>2. ChecksumsSealed'
      BY <1>24, <2>1, <3>1, ChecksumsStay DEF R!CopyBegins
    <3>3. VouchedStands'
      BY <1>24 DEF RunInv, PreparersTyped, CreatedStands, NothingUnvouched, VouchedIsSealed,
           VouchedStands, Digest, Creating, R!CopyBegins, R!Unsynchronised, R!Moves
    <3>4. QED
      BY <3>2, <3>3 DEF VouchedIsSealed
  <2>8. RunsTyped'
    BY <1>24 DEF RunInv, R!CopyBegins, R!run, R!Calm, R!file, RunsTyped
  <2>9. JournalTyped'
    BY <1>24 DEF RunInv, R!CopyBegins, R!run, R!Calm, R!file, JournalTyped
  <2>10. EventsTyped'
    BY <1>24 DEF RunInv, R!CopyBegins, R!run, R!Calm, R!file, EventsTyped
  <2>11. RunFlagsTyped'
    BY <1>24 DEF RunInv, R!CopyBegins, R!run, R!Calm, R!file, RunFlagsTyped
  <2>12. FilesFollow'
    BY <1>24 DEF RunInv, R!CopyBegins, R!run, R!Calm, R!file, FilesFollow
  <2>13. EndIsTold'
    BY <1>24 DEF RunInv, R!CopyBegins, R!run, R!Calm, R!file, EndIsTold, EndsWell
  <2>14. StatusIsFinal'
    BY <1>24 DEF RunInv, R!CopyBegins, R!run, R!Calm, R!file, StatusIsFinal
  <2>15. OneConfirmation'
    BY <1>24 DEF RunInv, R!CopyBegins, R!run, R!Calm, R!file, OneConfirmation, Confirming, R!Ended
  <2>16. QED
    BY <2>2, <2>3, <2>4, <2>5, <2>6, <2>7, <2>8, <2>9, <2>10, <2>11, <2>12, <2>13, <2>14, <2>15
         DEF RunInv
<1>25. ASSUME NEW p \in Preparers, R!CopyEnds(p) PROVE RunInv'
  <2>1. \A q \in Runs : R!Content(q)' = R!Content(q) /\ (Sealed(q)' <=> Sealed(q))
    BY <1>25 DEF R!Content, Sealed, R!CopyEnds, R!run, R!file, R!Moves, R!Calm
  <2>2. PreparersTyped'
    BY <1>25, <2>1 DEF RunInv, R!CopyEnds, R!Content, R!run, R!Moves, R!Calm, R!file, PreparersTyped, Creating
  <2>3. PreparersSeal'
    BY <1>25, <2>1, ContentsShow DEF RunInv, PreparersTyped, PreparersSeal, CreatorsAlone,
         CreatedStands, NothingUnvouched, Creating, R!CopyEnds, R!Moves
  <2>4. CreatorsAlone'
    BY <1>25, <2>1, ContentsShow DEF RunInv, PreparersTyped, PreparersSeal, CreatorsAlone,
         CreatedStands, NothingUnvouched, Creating, R!CopyEnds, R!Moves
  <2>5. CreatedStands'
    BY <1>25, <2>1, ContentsShow DEF RunInv, PreparersTyped, PreparersSeal, CreatorsAlone,
         CreatedStands, NothingUnvouched, Creating, R!CopyEnds, R!Moves
  <2>6. NothingUnvouched'
    BY <1>25, <2>1, ContentsShow DEF RunInv, PreparersTyped, PreparersSeal, CreatorsAlone,
         CreatedStands, NothingUnvouched, Creating, R!CopyEnds, R!Moves
  <2>7. VouchedIsSealed'
    <3>1. \A n \in Stamps : \/ checksum'[n] \in {checksum[n], R!Nothing, R!Partial}
                             \/ OfSealed(checksum'[n])
      BY <1>25 DEF RunInv, PreparersTyped, PreparersSeal, CreatedStands, Creating, OfSealed,
           R!CopyEnds
    <3>2. ChecksumsSealed'
      BY <1>25, <2>1, <3>1, ChecksumsStay DEF R!CopyEnds
    <3>3. VouchedStands'
      BY <1>25 DEF RunInv, PreparersTyped, CreatedStands, NothingUnvouched, VouchedIsSealed,
           VouchedStands, Digest, Creating, R!CopyEnds, R!Unsynchronised, R!Moves
    <3>4. QED
      BY <3>2, <3>3 DEF VouchedIsSealed
  <2>8. RunsTyped'
    BY <1>25 DEF RunInv, R!CopyEnds, R!run, R!Calm, R!file, RunsTyped
  <2>9. JournalTyped'
    BY <1>25 DEF RunInv, R!CopyEnds, R!run, R!Calm, R!file, JournalTyped
  <2>10. EventsTyped'
    BY <1>25 DEF RunInv, R!CopyEnds, R!run, R!Calm, R!file, EventsTyped
  <2>11. RunFlagsTyped'
    BY <1>25 DEF RunInv, R!CopyEnds, R!run, R!Calm, R!file, RunFlagsTyped
  <2>12. FilesFollow'
    BY <1>25 DEF RunInv, R!CopyEnds, R!run, R!Calm, R!file, FilesFollow
  <2>13. EndIsTold'
    BY <1>25 DEF RunInv, R!CopyEnds, R!run, R!Calm, R!file, EndIsTold, EndsWell
  <2>14. StatusIsFinal'
    BY <1>25 DEF RunInv, R!CopyEnds, R!run, R!Calm, R!file, StatusIsFinal
  <2>15. OneConfirmation'
    BY <1>25 DEF RunInv, R!CopyEnds, R!run, R!Calm, R!file, OneConfirmation, Confirming, R!Ended
  <2>16. QED
    BY <2>2, <2>3, <2>4, <2>5, <2>6, <2>7, <2>8, <2>9, <2>10, <2>11, <2>12, <2>13, <2>14, <2>15
         DEF RunInv
<1>26. ASSUME NEW p \in Preparers, R!Vouch(p) PROVE RunInv'
  <2>1. \A q \in Runs : R!Content(q)' = R!Content(q) /\ (Sealed(q)' <=> Sealed(q))
    BY <1>26 DEF R!Content, Sealed, R!Vouch, R!run, R!file, R!Moves, R!Calm
  <2>2. PreparersTyped'
    BY <1>26, <2>1 DEF RunInv, R!Vouch, R!Moves, R!Calm, R!run, R!file, PreparersTyped, Creating
  <2>3. PreparersSeal'
    BY <1>26, <2>1, ContentsShow DEF RunInv, PreparersTyped, PreparersSeal, CreatorsAlone,
         CreatedStands, NothingUnvouched, Creating, R!Vouch, R!Moves
  <2>4. CreatorsAlone'
    BY <1>26, <2>1, ContentsShow DEF RunInv, PreparersTyped, PreparersSeal, CreatorsAlone,
         CreatedStands, NothingUnvouched, Creating, R!Vouch, R!Moves
  <2>5. CreatedStands'
    BY <1>26, <2>1, ContentsShow DEF RunInv, PreparersTyped, PreparersSeal, CreatorsAlone,
         CreatedStands, NothingUnvouched, Creating, R!Vouch, R!Moves
  <2>6. NothingUnvouched'
    BY <1>26, <2>1, ContentsShow DEF RunInv, PreparersTyped, PreparersSeal, CreatorsAlone,
         CreatedStands, NothingUnvouched, Creating, R!Vouch, R!Moves
  <2>7. VouchedIsSealed'
    <3>1. \A n \in Stamps : \/ checksum'[n] \in {checksum[n], R!Nothing, R!Partial}
                             \/ OfSealed(checksum'[n])
      BY <1>26 DEF RunInv, PreparersTyped, PreparersSeal, CreatedStands, Creating, OfSealed,
           R!Vouch
    <3>2. ChecksumsSealed'
      BY <1>26, <2>1, <3>1, ChecksumsStay DEF R!Vouch
    <3>3. VouchedStands'
      BY <1>26 DEF RunInv, PreparersTyped, CreatedStands, NothingUnvouched, VouchedIsSealed,
           VouchedStands, Digest, Creating, R!Vouch, R!Unsynchronised, R!Moves
    <3>4. QED
      BY <3>2, <3>3 DEF VouchedIsSealed
  <2>8. RunsTyped'
    BY <1>26 DEF RunInv, R!Vouch, R!Calm, R!run, R!file, RunsTyped
  <2>9. JournalTyped'
    BY <1>26 DEF RunInv, R!Vouch, R!Calm, R!run, R!file, JournalTyped
  <2>10. EventsTyped'
    BY <1>26 DEF RunInv, R!Vouch, R!Calm, R!run, R!file, EventsTyped
  <2>11. RunFlagsTyped'
    BY <1>26 DEF RunInv, R!Vouch, R!Calm, R!run, R!file, RunFlagsTyped
  <2>12. FilesFollow'
    BY <1>26 DEF RunInv, R!Vouch, R!Calm, R!run, R!file, FilesFollow
  <2>13. EndIsTold'
    BY <1>26 DEF RunInv, R!Vouch, R!Calm, R!run, R!file, EndIsTold, EndsWell
  <2>14. StatusIsFinal'
    BY <1>26 DEF RunInv, R!Vouch, R!Calm, R!run, R!file, StatusIsFinal
  <2>15. OneConfirmation'
    BY <1>26 DEF RunInv, R!Vouch, R!Calm, R!run, R!file, OneConfirmation, Confirming, R!Ended
  <2>16. QED
    BY <2>2, <2>3, <2>4, <2>5, <2>6, <2>7, <2>8, <2>9, <2>10, <2>11, <2>12, <2>13, <2>14, <2>15
         DEF RunInv
<1>27. ASSUME NEW p \in Preparers, R!Vouched(p) PROVE RunInv'
  <2>1. \A q \in Runs : R!Content(q)' = R!Content(q) /\ (Sealed(q)' <=> Sealed(q))
    BY <1>27 DEF R!Content, Sealed, R!Vouched, R!run, R!file, R!Idle, R!Moves, R!Calm
  <2>2. PreparersTyped'
    BY <1>27, <2>1 DEF RunInv, R!Vouched, R!Idle, R!Moves, R!NoJob, R!run, R!Calm, R!file, PreparersTyped,
         Creating
  <2>3. PreparersSeal'
    BY <1>27, <2>1, ContentsShow DEF RunInv, PreparersTyped, PreparersSeal, CreatorsAlone,
         CreatedStands, NothingUnvouched, Creating, R!Vouched, R!Idle, R!Moves
  <2>4. CreatorsAlone'
    BY <1>27, <2>1, ContentsShow DEF RunInv, PreparersTyped, PreparersSeal, CreatorsAlone,
         CreatedStands, NothingUnvouched, Creating, R!Vouched, R!Idle, R!Moves
  <2>5. CreatedStands'
    BY <1>27, <2>1, ContentsShow DEF RunInv, PreparersTyped, PreparersSeal, CreatorsAlone,
         CreatedStands, NothingUnvouched, Creating, R!Vouched, R!Idle, R!Moves
  <2>6. NothingUnvouched'
    BY <1>27, <2>1, ContentsShow DEF RunInv, PreparersTyped, PreparersSeal, CreatorsAlone,
         CreatedStands, NothingUnvouched, Creating, R!Vouched, R!Idle, R!Moves
  <2>7. VouchedIsSealed'
    <3>1. \A n \in Stamps : \/ checksum'[n] \in {checksum[n], R!Nothing, R!Partial}
                             \/ OfSealed(checksum'[n])
      BY <1>27 DEF RunInv, PreparersTyped, PreparersSeal, CreatedStands, Creating, OfSealed,
           R!Vouched, R!Idle
    <3>2. ChecksumsSealed'
      BY <1>27, <2>1, <3>1, ChecksumsStay DEF R!Vouched
    <3>3. VouchedStands'
      BY <1>27 DEF RunInv, PreparersTyped, CreatedStands, NothingUnvouched, VouchedIsSealed,
           VouchedStands, Digest, Creating, R!Vouched, R!Unsynchronised, R!Moves, R!Idle
    <3>4. QED
      BY <3>2, <3>3 DEF VouchedIsSealed
  <2>8. RunsTyped'
    BY <1>27 DEF RunInv, R!Vouched, R!run, R!Calm, R!file, RunsTyped
  <2>9. JournalTyped'
    BY <1>27 DEF RunInv, R!Vouched, R!run, R!Calm, R!file, JournalTyped
  <2>10. EventsTyped'
    BY <1>27 DEF RunInv, R!Vouched, R!run, R!Calm, R!file, EventsTyped
  <2>11. RunFlagsTyped'
    BY <1>27 DEF RunInv, R!Vouched, R!run, R!Calm, R!file, RunFlagsTyped
  <2>12. FilesFollow'
    BY <1>27 DEF RunInv, R!Vouched, R!run, R!Calm, R!file, FilesFollow
  <2>13. EndIsTold'
    BY <1>27 DEF RunInv, R!Vouched, R!run, R!Calm, R!file, EndIsTold, EndsWell
  <2>14. StatusIsFinal'
    BY <1>27 DEF RunInv, R!Vouched, R!run, R!Calm, R!file, StatusIsFinal
  <2>15. OneConfirmation'
    BY <1>27 DEF RunInv, R!Vouched, R!run, R!Calm, R!file, OneConfirmation, Confirming, R!Ended
  <2>16. QED
    BY <2>2, <2>3, <2>4, <2>5, <2>6, <2>7, <2>8, <2>9, <2>10, <2>11, <2>12, <2>13, <2>14, <2>15
         DEF RunInv
<1>28. ASSUME NEW p \in Preparers, R!PrepareFails(p) PROVE RunInv'
  <2>1. \A q \in Runs : R!Content(q)' = R!Content(q) /\ (Sealed(q)' <=> Sealed(q))
    BY <1>28 DEF R!Content, Sealed, R!PrepareFails, R!run, R!file, R!CleanUp, R!Idle, R!Moves
  <2>2. PreparersTyped'
    BY <1>28, <2>1 DEF RunInv, R!PrepareFails, R!Fault, R!CleanUp, R!Nothing, R!run, R!Idle, R!Moves, R!NoJob,
         R!file, PreparersTyped, Creating
  <2>3. PreparersSeal'
    BY <1>28, <2>1, ContentsShow DEF RunInv, PreparersTyped, PreparersSeal, CreatorsAlone,
         CreatedStands, NothingUnvouched, Creating, R!PrepareFails, R!CleanUp, R!Idle,
         R!Moves
  <2>4. CreatorsAlone'
    BY <1>28, <2>1, ContentsShow DEF RunInv, PreparersTyped, PreparersSeal, CreatorsAlone,
         CreatedStands, NothingUnvouched, Creating, R!PrepareFails, R!CleanUp, R!Idle,
         R!Moves
  <2>5. CreatedStands'
    <3> SUFFICES ASSUME NEW q \in Preparers, pp'[q] \in {"linking"} \union Creating
                 PROVE  /\ temp'[q] = R!Content(job'[q].run)
                        /\ pp'[q] = "copying" => archive'[job'[q].stamp] = R!Partial
                        /\ pp'[q] \in {"linked", "vouching"} => archive'[job'[q].stamp] = temp'[q]
                        /\ pp'[q] \in {"copying", "linked"} => checksum'[job'[q].stamp] = R!Nothing
                        /\ pp'[q] = "vouching" => checksum'[job'[q].stamp] = R!Partial
      BY <1>28, <2>1 DEF CreatedStands, Creating, RunInv, PreparersTyped, R!PrepareFails, R!Idle, R!Moves,
           R!Nothing, R!Partial
    <3>1. q # p /\ pp'[q] = pp[q] /\ job'[q] = job[q] /\ temp'[q] = temp[q] /\ job[q].stamp \in Stamps
      BY <1>28 DEF R!PrepareFails, R!Idle, R!Moves, RunInv, PreparersTyped, Creating
    <3>2. pp[q] \in Creating =>
            archive'[job[q].stamp] = archive[job[q].stamp] /\ checksum'[job[q].stamp] = checksum[job[q].stamp]
      BY <1>28, <3>1 DEF R!PrepareFails, R!CleanUp, RunInv, PreparersTyped, CreatorsAlone, Creating
    <3>3. QED
      BY <3>1, <3>2 DEF RunInv, CreatedStands, Creating
  <2>6. NothingUnvouched'
    BY <1>28, <2>1, ContentsShow DEF RunInv, PreparersTyped, PreparersSeal, CreatorsAlone,
         CreatedStands, NothingUnvouched, Creating, R!PrepareFails, R!CleanUp, R!Idle,
         R!Moves
  <2>7. VouchedIsSealed'
    <3>1. \A n \in Stamps : \/ checksum'[n] \in {checksum[n], R!Nothing, R!Partial}
                             \/ OfSealed(checksum'[n])
      BY <1>28 DEF RunInv, PreparersTyped, PreparersSeal, CreatedStands, Creating, OfSealed,
           R!PrepareFails, R!CleanUp, R!Idle
    <3>2. ChecksumsSealed'
      BY <1>28, <2>1, <3>1, ChecksumsStay DEF R!PrepareFails
    <3>3. VouchedStands'
      BY <1>28 DEF RunInv, PreparersTyped, CreatedStands, NothingUnvouched, VouchedIsSealed,
           VouchedStands, Digest, Creating, R!PrepareFails, R!Unsynchronised, R!Moves, R!CleanUp, R!Idle
    <3>4. QED
      BY <3>2, <3>3 DEF VouchedIsSealed
  <2>8. RunsTyped'
    BY <1>28 DEF RunInv, R!PrepareFails, R!run, R!file, RunsTyped
  <2>9. JournalTyped'
    BY <1>28 DEF RunInv, R!PrepareFails, R!run, R!file, JournalTyped
  <2>10. EventsTyped'
    BY <1>28 DEF RunInv, R!PrepareFails, R!run, R!file, EventsTyped
  <2>11. RunFlagsTyped'
    BY <1>28 DEF RunInv, R!PrepareFails, R!run, R!file, RunFlagsTyped
  <2>12. FilesFollow'
    BY <1>28 DEF RunInv, R!PrepareFails, R!run, R!file, FilesFollow
  <2>13. EndIsTold'
    BY <1>28 DEF RunInv, R!PrepareFails, R!run, R!file, EndIsTold, EndsWell
  <2>14. StatusIsFinal'
    BY <1>28 DEF RunInv, R!PrepareFails, R!run, R!file, StatusIsFinal
  <2>15. OneConfirmation'
    BY <1>28 DEF RunInv, R!PrepareFails, R!run, R!file, OneConfirmation, Confirming, R!Ended
  <2>16. QED
    BY <2>2, <2>3, <2>4, <2>5, <2>6, <2>7, <2>8, <2>9, <2>10, <2>11, <2>12, <2>13, <2>14, <2>15
         DEF RunInv
<1>29. ASSUME NEW p \in Preparers, R!PreparerKilled(p) PROVE RunInv'
  <2>1. \A q \in Runs : R!Content(q)' = R!Content(q) /\ (Sealed(q)' <=> Sealed(q))
    BY <1>29 DEF R!Content, Sealed, R!PreparerKilled, R!run, R!file, R!Idle, R!Moves
  <2>2. PreparersTyped'
    BY <1>29, <2>1 DEF RunInv, R!PreparerKilled, R!Fault, R!Idle, R!Moves, R!NoJob, R!run, R!file,
         PreparersTyped, Creating
  <2>3. PreparersSeal'
    BY <1>29, <2>1, ContentsShow DEF RunInv, PreparersTyped, PreparersSeal, CreatorsAlone,
         CreatedStands, NothingUnvouched, Creating, R!PreparerKilled, R!Idle, R!Moves
  <2>4. CreatorsAlone'
    BY <1>29, <2>1, ContentsShow DEF RunInv, PreparersTyped, PreparersSeal, CreatorsAlone,
         CreatedStands, NothingUnvouched, Creating, R!PreparerKilled, R!Idle, R!Moves
  <2>5. CreatedStands'
    BY <1>29, <2>1, ContentsShow DEF RunInv, PreparersTyped, PreparersSeal, CreatorsAlone,
         CreatedStands, NothingUnvouched, Creating, R!PreparerKilled, R!Idle, R!Moves
  <2>6. RunsTyped'
    BY <1>29 DEF RunInv, R!PreparerKilled, R!run, R!file, RunsTyped
  <2>7. JournalTyped'
    BY <1>29 DEF RunInv, R!PreparerKilled, R!run, R!file, JournalTyped
  <2>8. EventsTyped'
    BY <1>29 DEF RunInv, R!PreparerKilled, R!run, R!file, EventsTyped
  <2>9. RunFlagsTyped'
    BY <1>29 DEF RunInv, R!PreparerKilled, R!run, R!file, RunFlagsTyped
  <2>10. FilesFollow'
    BY <1>29 DEF RunInv, R!PreparerKilled, R!run, R!file, FilesFollow
  <2>11. EndIsTold'
    BY <1>29 DEF RunInv, R!PreparerKilled, R!run, R!file, EndIsTold, EndsWell
  <2>12. StatusIsFinal'
    BY <1>29 DEF RunInv, R!PreparerKilled, R!run, R!file, StatusIsFinal
  <2>13. NothingUnvouched'
    BY <1>29 DEF RunInv, R!PreparerKilled, R!Moves, R!Idle, PreparersTyped, NothingUnvouched
  <2>14. VouchedIsSealed'
    <3>1. ChecksumsSealed'
      BY <1>29, <2>1 DEF RunInv, R!PreparerKilled, R!was, VouchedIsSealed, ChecksumsSealed, OfSealed, Digest,
           R!Nothing, R!Partial
    <3>2. VouchedStands'
      BY <1>29 DEF RunInv, R!PreparerKilled, R!was, VouchedIsSealed, VouchedStands, Digest, R!Nothing, R!Partial
    <3>3. QED
      BY <3>1, <3>2 DEF VouchedIsSealed
  <2>15. OneConfirmation'
    BY <1>29 DEF RunInv, R!PreparerKilled, R!run, R!file, OneConfirmation, Confirming, R!Ended
  <2>16. QED
    BY <2>2, <2>3, <2>4, <2>5, <2>6, <2>7, <2>8, <2>9, <2>10, <2>11, <2>12, <2>13, <2>14, <2>15
         DEF RunInv
<1>30. CASE R!PowerCut
  <2>1. PICK lost \in SUBSET (Runs \X {"events", "state", "active"}) :
         /\ \A r \in Runs, what \in {"events", "state", "active"} :
              <<r, what>> \in lost => what \in unsynced[r]
         /\ events' = [r \in Runs |-> IF <<r, "events">> \in lost
                                      THEN [second |-> R!NoEvent, end |-> "none"] ELSE events[r]]
         /\ state' = [r \in Runs |-> IF <<r, "state">> \in lost THEN "none" ELSE state[r]]
         /\ active' = [r \in Runs |-> active[r] \/ <<r, "active">> \in lost]
    BY <1>30 DEF R!PowerCut
  <2>2. \A r \in Runs : /\ state'[r] = state[r] \/ (state'[r] = "none" /\ "state" \in unsynced[r])
                        /\ events'[r] = events[r] \/ "events" \in unsynced[r]
                        /\ active'[r] = active[r] \/ (active'[r] = TRUE /\ "active" \in unsynced[r])
    BY <2>1 DEF RunInv, RunFlagsTyped
  <2>3. \A q \in Runs : Sealed(q) => Sealed(q)' /\ R!Content(q)' = R!Content(q)
    <3> SUFFICES ASSUME NEW q \in Runs, Sealed(q) PROVE Sealed(q)' /\ R!Content(q)' = R!Content(q)
      OBVIOUS
    <3>1. state'[q] = state[q] /\ controller'[q] = controller[q] /\ working'[q] = FALSE /\ unsynced'[q] = {}
      BY <1>30, <2>2 DEF R!PowerCut, Sealed, R!Ended
    <3>2. QED
      BY <1>30, <3>1 DEF R!PowerCut, Sealed, R!Content
  <2>4. RunsTyped'
    BY <1>30, <2>1 DEF R!PowerCut, RunInv, RunsTyped, RunPlaces, R!Statuses
  <2>5. EventsTyped'
    BY <2>1 DEF RunInv, EventsTyped, RunEvents, SessionEnds, R!NoEvent
  <2>6. RunFlagsTyped'
    BY <1>30, <2>1 DEF R!PowerCut, RunInv, RunFlagsTyped
  <2>7. PreparersTyped'
    BY <1>30 DEF R!PowerCut, R!Survivors, PreparersTyped
  <2>8. FilesFollow'
    BY ZenonT(60), <1>30, <2>2 DEF R!PowerCut, RunInv, RunsTyped, RunFlagsTyped, FilesFollow, R!Ended, AtWork, RunPlaces
  <2>9. EndIsTold'
    <3> SUFFICES ASSUME NEW r \in Runs, controller'[r] \in Concluded
                PROVE  EndsWell(r)' /\ events'[r].end = final'[r] /\ journal'[r].end = final'[r] /\ state'[r] = final'[r]
      BY DEF EndIsTold, Concluded
    <3>1. controller[r] = "done" /\ unsynced[r] = {}
      BY <1>30 DEF R!PowerCut, RunInv, FilesFollow, R!Ended, Concluded
    <3>2. events'[r] = events[r] /\ state'[r] = state[r]
      BY <2>2, <3>1
    <3>3. QED
      BY <1>30, <3>1, <3>2 DEF R!PowerCut, RunInv, EndIsTold, EndsWell, Concluded
  <2>10. StatusIsFinal'
    BY <1>30, <2>2 DEF R!PowerCut, RunInv, RunsTyped, RunFlagsTyped, StatusIsFinal
  <2>11. PreparersSeal'
    BY <1>30 DEF R!PowerCut, PreparersSeal
  <2>12. CreatorsAlone'
    BY <1>30 DEF R!PowerCut, CreatorsAlone, Creating
  <2>13. CreatedStands'
    BY <1>30 DEF R!PowerCut, CreatedStands, Creating
  <2>14. NothingUnvouched'
    BY <1>30 DEF R!PowerCut, NothingUnvouched
  <2>15. VouchedIsSealed'
    <3>1. \A n \in Stamps : /\ checksum'[n] \in checksumWas[n] \union {checksum[n]}
                            /\ archive'[n] \in archiveWas[n] \union {archive[n]}
                            /\ checksumWas'[n] = {}
      BY <1>30 DEF R!PowerCut, R!Survivors
    <3>2. ChecksumsSealed'
      <4> SUFFICES ASSUME NEW n \in Stamps, NEW c \in checksumWas'[n] \union {checksum'[n]}, Digest(c)
                   PROVE  OfSealed(c)'
        BY DEF ChecksumsSealed, Digest, R!Nothing, R!Partial
      <4>1. OfSealed(c)
        BY <3>1 DEF RunInv, VouchedIsSealed, ChecksumsSealed
      <4>2. QED
        BY <2>3, <4>1 DEF OfSealed
    <3>3. VouchedStands'
      <4> SUFFICES ASSUME NEW n \in Stamps, Digest(checksum'[n]), n \notin cut'
                   PROVE  archive'[n] = checksum'[n]
        BY DEF VouchedStands, Digest, R!Nothing, R!Partial
      <4>1. n \notin cut /\ archiveWas[n] \union checksumWas[n] = {}
        BY <1>30 DEF R!PowerCut
      <4>2. archive'[n] = archive[n] /\ checksum'[n] = checksum[n]
        BY <3>1, <4>1
      <4>3. QED
        BY <4>1, <4>2 DEF RunInv, VouchedIsSealed, VouchedStands
    <3>4. QED
      BY <3>2, <3>3 DEF VouchedIsSealed
  <2>16. OneConfirmation'
    BY <1>30, <2>1, <2>2, <2>3 DEF RunInv, R!PowerCut, R!Fault, R!Ended, R!NoEvent, R!NoJob, R!run,
         OneConfirmation, Confirming, RunsTyped, RunPlaces, R!Statuses, RunFlagsTyped, FilesFollow,
         AtWork
  <2>17. JournalTyped'
    BY <1>30 DEF RunInv, R!PowerCut, R!run, JournalTyped
  <2>18. QED
    BY <2>4, <2>5, <2>6, <2>7, <2>8, <2>9, <2>10, <2>11, <2>12, <2>13, <2>14, <2>15, <2>16,
         <2>17 DEF RunInv
<1>31. CASE UNCHANGED R!vars
  <2>1. RunsTyped'
    BY <1>31 DEF R!vars, R!run, R!file, R!prep, RunInv, RunsTyped
  <2>2. JournalTyped'
    BY <1>31 DEF R!vars, R!run, R!file, R!prep, RunInv, JournalTyped
  <2>3. EventsTyped'
    BY <1>31 DEF R!vars, R!run, R!file, R!prep, RunInv, EventsTyped
  <2>4. RunFlagsTyped'
    BY <1>31 DEF R!vars, R!run, R!file, R!prep, RunInv, RunFlagsTyped
  <2>5. PreparersTyped'
    BY <1>31 DEF R!vars, R!run, R!file, R!prep, RunInv, PreparersTyped
  <2>6. FilesFollow'
    BY <1>31 DEF R!vars, R!run, R!file, R!prep, RunInv, FilesFollow
  <2>7. EndIsTold'
    BY <1>31 DEF R!vars, R!run, R!file, R!prep, RunInv, EndIsTold, EndsWell
  <2>8. StatusIsFinal'
    BY <1>31 DEF R!vars, R!run, R!file, R!prep, RunInv, StatusIsFinal
  <2>9. PreparersSeal'
    BY <1>31 DEF R!vars, R!run, R!file, R!prep, RunInv, PreparersSeal, Sealed
  <2>10. CreatorsAlone'
    BY <1>31 DEF R!vars, R!run, R!file, R!prep, RunInv, CreatorsAlone
  <2>11. CreatedStands'
    BY <1>31 DEF R!vars, R!run, R!file, R!prep, RunInv, CreatedStands, R!Content, R!run
  <2>12. NothingUnvouched'
    BY <1>31 DEF R!vars, R!run, R!file, R!prep, RunInv, NothingUnvouched
  <2>13. VouchedIsSealed'
    BY <1>31 DEF R!vars, R!run, R!file, R!prep, R!was, RunInv, VouchedIsSealed, ChecksumsSealed, VouchedStands,
         OfSealed, Digest, Sealed, R!Content
  <2>14. OneConfirmation'
    BY <1>31 DEF R!vars, R!run, R!file, R!prep, RunInv, OneConfirmation, Confirming, R!Ended
  <2>15. QED
    BY <2>1, <2>2, <2>3, <2>4, <2>5, <2>6, <2>7, <2>8, <2>9, <2>10, <2>11, <2>12, <2>13, <2>14
         DEF RunInv
<1>32. QED
  BY <1>1, <1>2, <1>3, <1>4, <1>5, <1>6, <1>7, <1>8, <1>9, <1>10, <1>11, <1>12, <1>13, <1>14,
       <1>15, <1>16, <1>17, <1>18, <1>19, <1>20, <1>21, <1>22, <1>23, <1>24, <1>25, <1>26,
       <1>27, <1>28, <1>29, <1>30, <1>31 DEF R!Next, R!Controller, R!Preparer
LEMMA RunInvariant == R!Spec => []RunInv
BY InitRun, NextRun, PTL DEF R!Spec

-----------------------------------------------------------------------------
(* What a checksum verifies is an archive of how its run's session ended,    *)
(* made of a run of which no workload is left: whoever else wants the        *)
(* archive's name, whatever is killed and whatever a power cut takes back of *)
(* the run, the archive and the checksum. The archive is missing, torn or    *)
(* another one only where a power cut found the two unsynchronised.          *)
THEOREM ArchivesAreFinal == R!Spec => []ArchiveIsFinal
<1>1. RunInv => ArchiveIsFinal
  <2> SUFFICES ASSUME RunInv, NEW n \in Stamps, Digest(checksum[n])
               PROVE  /\ archive[n] = checksum[n] =>
                           /\ archive[n] = R!Content(archive[n].run)
                           /\ archive[n].status = final[archive[n].run]
                           /\ ~working[archive[n].run]
                      /\ n \notin cut => archive[n] = checksum[n]
    BY DEF ArchiveIsFinal, R!ArchiveIsFinal, R!Digests, Digest
  <2>1. PICK r \in Runs : Sealed(r) /\ checksum[n] = R!Content(r)
    BY DEF RunInv, VouchedIsSealed, ChecksumsSealed, OfSealed
  <2>2. R!Content(r).run = r /\ R!Content(r).status = state[r]
    BY DEF R!Content
  <2>3. QED
    BY <2>1, <2>2 DEF Sealed, RunInv, VouchedIsSealed, VouchedStands
<1>2. QED
  BY <1>1, RunInvariant, PTL

(* A run that came to its end with a session begun can be archived, however  *)
(* it was failed, interrupted or late.                                       *)
THEOREM ReturnsAreExportable == R!Spec => []ReturnedIsExportable
<1>1. RunInv => ReturnedIsExportable
  <2> SUFFICES ASSUME RunInv, NEW r \in Runs, controller[r] = "done", journal[r].manifest, held[r]
               PROVE  R!Inspectable(r)
    BY DEF ReturnedIsExportable, R!ReturnedIsExportable
  <2>1. ~active[r]
    BY DEF RunInv, FilesFollow
  <2>2. EndsWell(r) /\ events[r].end = final[r] /\ journal[r].end = final[r] /\ state[r] = final[r]
    BY DEF RunInv, EndIsTold, Concluded
  <2>3. QED
    BY <2>1, <2>2 DEF R!Inspectable, R!Agrees, EndsWell
<1>2. QED
  BY <1>1, RunInvariant, PTL

(* At most one confirmation of a screen loads the machine.                   *)
THEOREM ConfirmationsRunAlone == R!Spec => []ConfirmationsAlone
<1>1. RunInv => ConfirmationsAlone
  BY DEF RunInv, OneConfirmation, Confirming, R!Loads, ConfirmationsAlone, R!ConfirmationsAlone
<1>2. QED
  BY <1>1, RunInvariant, PTL
=============================================================================
