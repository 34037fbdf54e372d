--------------------------- MODULE StateFilesProofs ---------------------------
(***************************************************************************)
(* Proofs about StateFiles, for any processes, names and contents: nothing *)
(* torn is ever published, and where every name that is committed again    *)
(* and again is outside the lease, recovery never meets a state it refuses *)
(* for good.                                                               *)
(***************************************************************************)
EXTENDS StateFiles, FiniteSetTheorems, TLAPS

Commits == {"write", "rename", "link", "unlink"}
Busy(p) == pc[p] \in Commits

\* A process that runs is doing something.
Running == \A p \in Pids : p \in live <=> pc[p] # "off"

\* Whoever lists, recovers, is ready or commits a leased name has the lease.
Holds == \A p \in Pids :
  (pc[p] \in {"list", "recover", "ready"} \/ (Busy(p) /\ op[p].name \in Known))
    => lease = p

\* A session is ready when nothing is left over, and a recovery knows all of it.
Listed == \A p \in Pids : /\ pc[p] = "ready" => Leftovers = {}
                          /\ pc[p] = "recover" => todo[p] = Leftovers

\* The temporary of a commit is there until the commit removes it.
OwnTemp == \A p \in Pids :
  Busy(p) => \E t \in temps : t.pid = p /\ t.name = op[p].name

\* The lease and the listings leave room for one temporary of a leased name.
Sole == \A t, u \in Leftovers : t = u

\* A temporary that looks ready is.
ReadyIsWhole == \A t \in Leftovers : t.stage = "ready" => t.value \in Values

\* The temporary is as far as the commit that works on it.
InStep == \A p \in Pids : Busy(p) /\ op[p].name \in Known => \A t \in Leftovers :
  /\ t.stage = "writing" <=> pc[p] \in {"write", "rename"}
  /\ pc[p] # "write" => t.value \in Values

IInv == /\ TypeOK /\ Running /\ Holds /\ Listed /\ OwnTemp /\ Sole
        /\ ReadyIsWhole /\ InStep /\ NothingTorn

\* A record and what is left of its commit agree about the publication.
Settled == \A t \in Leftovers : IF final[t.name] = Absent
                                THEN ~t.linked
                                ELSE t.stage = "ready" /\ t.linked

-----------------------------------------------------------------------------
\* The temporary a commit works on is its own.
LEMMA MineIs ==
  ASSUME NEW p \in Pids, OwnTemp, Busy(p)
  PROVE  Mine(p) \in temps /\ Mine(p).pid = p /\ Mine(p).name = op[p].name
  BY DEF OwnTemp, Mine

\* Initially there is nothing to disagree about.
LEMMA InitIInv == Init => IInv /\ Settled
<1>1. NoOp \in {NoOp} /\ Nobody \in Pids \union {Nobody}
  OBVIOUS
<1>2. Init => TypeOK
  BY <1>1 DEF Init, TypeOK, Temporary, Absent
<1>3. Init => Leftovers = {}
  BY DEF Init, Leftovers
<1>4. Init => Running /\ Holds /\ Listed /\ OwnTemp
  BY <1>3 DEF Init, Running, Holds, Listed, OwnTemp, Busy, Commits
<1>5. Init => Sole /\ ReadyIsWhole /\ InStep /\ NothingTorn /\ Settled
  BY <1>3 DEF Init, Sole, ReadyIsWhole, InStep, NothingTorn, Settled, Absent, Torn
<1>6. QED
  BY <1>2, <1>4, <1>5 DEF IInv

\* Starting, opening, closing and dying leave the directory as it is.
LEMMA SessionKeeps ==
  ASSUME IInv, NEW p \in Pids,
         StartProcess(p) \/ OpenSession(p) \/ CloseSession(p) \/ Exit(p)
  PROVE  IInv' /\ (Settled => Settled')
<1> USE DEF IInv
<1>1. temps' = temps /\ final' = final /\ Leftovers' = Leftovers
  BY DEF StartProcess, OpenSession, CloseSession, Exit, Leftovers
<1>2. TypeOK' /\ Running'
  <2>1. CASE StartProcess(p)
    BY <2>1 DEF StartProcess, TypeOK, Running
  <2>2. CASE OpenSession(p)
    BY <2>2 DEF OpenSession, TypeOK, Running, Go
  <2>3. CASE CloseSession(p)
    BY <2>3 DEF CloseSession, TypeOK, Running
  <2>4. CASE Exit(p)
    <3>1. op' \in [Pids -> [name : Names, value : Values] \union {NoOp}]
      BY <2>4 DEF Exit, TypeOK
    <3>2. lease' \in Pids \union {Nobody} /\ todo' \in [Pids -> SUBSET Temporary]
      BY <2>4 DEF Exit, TypeOK
    <3>3. \A q \in Pids : op'[q] # NoOp <=> pc'[q] \in {"write", "rename", "link", "unlink"}
      BY <2>4 DEF Exit, TypeOK
    <3>4. QED
      BY <2>4, <3>1, <3>2, <3>3 DEF Exit, TypeOK, Running
  <2>5. QED
    BY <2>1, <2>2, <2>3, <2>4
<1>3. \A q \in Pids \ {p} : pc'[q] = pc[q] /\ op'[q] = op[q] /\ todo'[q] = todo[q]
  BY DEF StartProcess, OpenSession, CloseSession, Exit, TypeOK, Go
<1>4. pc'[p] \in {"idle", "list", "off"} /\ (pc'[p] = "list" => lease' = p)
  BY DEF StartProcess, OpenSession, CloseSession, Exit, TypeOK, Go
<1>5. \A q \in Pids \ {p} : lease = q => lease' = q
  BY MarksAssumption DEF StartProcess, OpenSession, CloseSession, Exit
<1>6. Holds' /\ Listed' /\ OwnTemp' /\ InStep'
  BY <1>1, <1>3, <1>4, <1>5 DEF Holds, Listed, OwnTemp, InStep, Busy, Commits
<1>7. Sole' /\ ReadyIsWhole' /\ NothingTorn' /\ (Settled => Settled')
  BY <1>1 DEF Sole, ReadyIsWhole, NothingTorn, Settled
<1>8. QED
  BY <1>2, <1>6, <1>7

\* A listing that finds nothing to refuse knows what to settle.
LEMMA ListingKeeps ==
  ASSUME IInv, NEW p \in Pids,
         PlanRecovery(p) \/ RefuseRecovery(p) \/ Recovered(p)
  PROVE  IInv' /\ (Settled => Settled')
<1> USE DEF IInv
<1>1. /\ temps' = temps /\ final' = final /\ Leftovers' = Leftovers
      /\ lease' = lease /\ op' = op
  BY DEF PlanRecovery, RefuseRecovery, Recovered, Leftovers
<1>2. TypeOK' /\ Running'
  <2>1. Leftovers \in SUBSET Temporary
    BY DEF TypeOK, Leftovers
  <2>2. QED
    BY <2>1 DEF PlanRecovery, RefuseRecovery, Recovered, TypeOK, Go, Running
<1>3. \A q \in Pids \ {p} : pc'[q] = pc[q] /\ todo'[q] = todo[q]
  BY DEF PlanRecovery, RefuseRecovery, Recovered, TypeOK, Go
<1>4. /\ pc[p] \in {"list", "recover"} /\ pc'[p] \in {"recover", "failed", "ready"}
      /\ pc'[p] = "recover" => todo'[p] = Leftovers
      /\ pc'[p] = "ready" => todo[p] = {} /\ pc[p] = "recover"
  BY DEF PlanRecovery, RefuseRecovery, Recovered, TypeOK, Go
<1>5. Holds' /\ Listed' /\ OwnTemp' /\ InStep'
  BY <1>1, <1>3, <1>4 DEF Holds, Listed, OwnTemp, InStep, Busy, Commits
<1>6. Sole' /\ ReadyIsWhole' /\ NothingTorn' /\ (Settled => Settled')
  BY <1>1 DEF Sole, ReadyIsWhole, NothingTorn, Settled
<1>7. QED
  BY <1>2, <1>5, <1>6

\* Recovery works on the one temporary there is, and nobody else has it.
LEMMA RecoveryKeeps ==
  ASSUME IInv, NEW p \in Pids, NEW t \in todo[p],
         PublishLeftover(p, t) \/ UnlinkLeftover(p, t)
  PROVE  IInv' /\ (Settled => Settled')
<1> USE DEF IInv
<1> DEFINE u == [t EXCEPT !.linked = TRUE]
<1>1. /\ pc[p] = "recover" /\ lease = p /\ todo[p] = Leftovers
      /\ t \in Leftovers /\ t \in temps /\ t.name \in Known
      /\ Leftovers = {t} /\ t \in Temporary
  BY DEF PublishLeftover, UnlinkLeftover, Holds, Listed, Sole, Leftovers, TypeOK
<1>2. /\ u \in Temporary /\ u.name = t.name /\ u.pid = t.pid /\ u.linked
      /\ u.stage = t.stage /\ u.value = t.value
  BY <1>1 DEF Temporary
<1>3. \A q \in Pids : Busy(q) => op[q].name \notin Known
  BY <1>1 DEF Holds, Busy, Commits
<1>4. lease' = lease /\ pc' = pc /\ op' = op
  BY DEF PublishLeftover, UnlinkLeftover
<1>5. \A q \in Pids \ {p} : todo'[q] = todo[q] /\ pc[q] \notin {"ready", "recover"}
  BY <1>1 DEF PublishLeftover, UnlinkLeftover, TypeOK, Holds
<1>6. CASE PublishLeftover(p, t)
  <2>1. /\ t.stage = "ready" /\ t.value \in Values /\ t.name \in Names
        /\ temps' = (temps \ {t}) \union {u}
        /\ final' = [final EXCEPT ![t.name] = t.value]
        /\ todo'[p] = (todo[p] \ {t}) \union {u}
    BY <1>1, <1>6 DEF PublishLeftover, Publishable, Replace, ReadyIsWhole, Temporary, TypeOK
  <2>2. Leftovers' = {u} /\ todo'[p] = {u}
    BY <1>1, <1>2, <2>1 DEF Leftovers
  <2>3. TypeOK' /\ Running'
    BY <1>1, <1>2, <1>6, <2>1 DEF PublishLeftover, TypeOK, Running
  <2>4. Holds' /\ Listed' /\ InStep'
    BY <1>1, <1>3, <1>4, <1>5, <2>2 DEF Holds, Listed, InStep, Busy, Commits
  <2>5. OwnTemp'
    <3>1. \A s \in temps : \E w \in temps' : w.pid = s.pid /\ w.name = s.name
      BY <1>2, <2>1
    <3>2. QED
      BY <1>4, <3>1 DEF OwnTemp, Busy
  <2>6. Sole' /\ ReadyIsWhole'
    BY <1>2, <2>1, <2>2 DEF Sole, ReadyIsWhole
  <2>7. NothingTorn' /\ Settled'
    <3>1. final'[t.name] = t.value /\ \A n \in Names \ {t.name} : final'[n] = final[n]
      BY <2>1 DEF TypeOK
    <3>2. QED
      BY <1>2, <2>1, <2>2, <3>1, MarksAssumption DEF NothingTorn, Settled
  <2>8. QED
    BY <2>3, <2>4, <2>5, <2>6, <2>7
<1>7. CASE UnlinkLeftover(p, t)
  <2>1. temps' = temps \ {t} /\ final' = final /\ todo'[p] = todo[p] \ {t}
    BY <1>7 DEF UnlinkLeftover, TypeOK
  <2>2. Leftovers' = {} /\ todo'[p] = {}
    BY <1>1, <2>1 DEF Leftovers
  <2>3. TypeOK' /\ Running'
    BY <1>7, <2>1 DEF UnlinkLeftover, TypeOK, Running
  <2>4. Holds' /\ Listed' /\ InStep'
    BY <1>1, <1>3, <1>4, <1>5, <2>2 DEF Holds, Listed, InStep, Busy, Commits
  <2>5. OwnTemp'
    BY <1>1, <1>3, <1>4, <2>1 DEF OwnTemp, Busy
  <2>6. Sole' /\ ReadyIsWhole' /\ NothingTorn' /\ Settled'
    BY <2>1, <2>2 DEF Sole, ReadyIsWhole, NothingTorn, Settled
  <2>7. QED
    BY <2>3, <2>4, <2>5, <2>6
<1>8. QED
  BY <1>6, <1>7

\* A new temporary of a leased name is the only one: its session is ready.
LEMMA OpenKeeps ==
  ASSUME IInv, NEW p \in Pids, NEW n \in Names, NEW v \in Values, CommitOpen(p, n, v)
  PROVE  IInv' /\ (Verified \subseteq Unleased /\ Settled => Settled')
<1> USE DEF IInv
<1> DEFINE u == [name |-> n, pid |-> p, stage |-> "writing", value |-> Torn, linked |-> FALSE]
<1>1. /\ live' = live /\ lease' = lease /\ todo' = todo /\ final' = final
      /\ temps' = temps \union {u} /\ u \in Temporary
      /\ pc[p] = Rest(n) /\ pc'[p] = "write" /\ op'[p] = [name |-> n, value |-> v]
  BY DEF CommitOpen, Go, TypeOK, Temporary
<1>2. \A q \in Pids \ {p} : pc'[q] = pc[q] /\ op'[q] = op[q]
  BY DEF CommitOpen, Go, TypeOK
<1>3. TypeOK' /\ Running'
  <2>1. op'[p] # NoOp
    BY <1>1, MarksAssumption DEF NoOp
  <2>2. Rest(n) # "off"
    BY DEF Rest
  <2>3. op' \in [Pids -> [name : Names, value : Values] \union {NoOp}]
    BY DEF CommitOpen, TypeOK
  <2>4. pc' \in [Pids -> {"off", "idle", "list", "recover", "ready", "failed",
                          "write", "rename", "link", "unlink"}]
    BY DEF CommitOpen, TypeOK, Go
  <2>5. QED
    BY <1>1, <1>2, <2>1, <2>2, <2>3, <2>4 DEF TypeOK, Running
<1>4. OwnTemp'
  BY <1>1, <1>2 DEF OwnTemp, Busy
<1>5. NothingTorn'
  BY <1>1 DEF NothingTorn
<1>6. CASE n \in Known
  <2>1. pc[p] = "ready" /\ lease = p /\ Leftovers = {}
    BY <1>1, <1>6, NamesAssumption DEF Rest, Holds, Listed
  <2>2. Leftovers' = {u}
    BY <1>1, <1>6, <2>1 DEF Leftovers
  <2>3. \A q \in Pids \ {p} : /\ pc[q] \notin {"ready", "recover"}
                              /\ Busy(q) => op[q].name \notin Known
    BY <2>1 DEF Holds
  <2>4. Holds' /\ Listed' /\ InStep'
    BY <1>1, <1>2, <2>1, <2>2, <2>3 DEF Holds, Listed, InStep, Busy
  <2>5. Sole' /\ ReadyIsWhole' /\ (Verified \subseteq Unleased => Settled')
    BY <1>1, <1>6, <2>2, NamesAssumption DEF Sole, ReadyIsWhole, Settled, CommitOpen
  <2>6. QED
    BY <1>3, <1>4, <1>5, <2>4, <2>5
<1>7. CASE n \notin Known
  <2>1. Leftovers' = Leftovers
    BY <1>1, <1>7 DEF Leftovers
  <2>2. Holds' /\ Listed' /\ InStep'
    BY <1>1, <1>2, <1>7, <2>1 DEF Holds, Listed, InStep, Busy
  <2>3. Sole' /\ ReadyIsWhole' /\ (Settled => Settled')
    BY <1>1, <2>1 DEF Sole, ReadyIsWhole, Settled
  <2>4. QED
    BY <1>3, <1>4, <1>5, <2>2, <2>3
<1>8. QED
  BY <1>6, <1>7

\* What a step that works on a temporary of its own finds and leaves alone.
LEMMA AtWork ==
  ASSUME IInv, NEW p \in Pids, Busy(p)
  PROVE  /\ Mine(p) \in temps /\ Mine(p) \in Temporary
         /\ Mine(p).pid = p /\ Mine(p).name = op[p].name
         /\ op[p] \in [name : Names, value : Values]
         /\ op[p].name \notin Known => Rest(op[p].name) = "idle"
         /\ op[p].name \in Known =>
              /\ lease = p /\ Leftovers = {Mine(p)} /\ Rest(op[p].name) = "ready"
              /\ \A q \in Pids \ {p} : /\ pc[q] \notin {"ready", "recover"}
                                       /\ Busy(q) => op[q].name \notin Known
<1> USE DEF IInv
<1>1. Mine(p) \in temps /\ Mine(p).pid = p /\ Mine(p).name = op[p].name
  BY MineIs
<1>2. Mine(p) \in Temporary /\ op[p] \in [name : Names, value : Values]
  BY <1>1 DEF TypeOK, Busy, Commits
<1>3. op[p].name \notin Known => Rest(op[p].name) = "idle"
  BY <1>2, NamesAssumption DEF Rest
<1>4. ASSUME op[p].name \in Known
      PROVE  /\ lease = p /\ Leftovers = {Mine(p)} /\ Rest(op[p].name) = "ready"
             /\ \A q \in Pids \ {p} : /\ pc[q] \notin {"ready", "recover"}
                                      /\ Busy(q) => op[q].name \notin Known
  <2>1. Mine(p) \in Leftovers /\ lease = p
    BY <1>1, <1>4 DEF Leftovers, Holds
  <2>2. Leftovers = {Mine(p)} /\ Rest(op[p].name) = "ready"
    BY <1>4, <2>1, NamesAssumption DEF Sole, Rest
  <2>3. QED
    BY <2>1, <2>2 DEF Holds
<1>5. QED
  BY <1>1, <1>2, <1>3, <1>4

\* The three calls that move the temporary on: written, ready, linked.
LEMMA AdvanceKeeps ==
  ASSUME IInv, NEW p \in Pids, CommitWrite(p) \/ CommitRename(p) \/ CommitLink(p)
  PROVE  IInv' /\ (Settled => Settled')
<1> USE DEF IInv
<1> DEFINE m == Mine(p)
           n == op[p].name
           u == IF pc[p] = "write" THEN [m EXCEPT !.value = op[p].value]
                ELSE IF pc[p] = "rename" THEN [m EXCEPT !.stage = "ready"]
                ELSE [m EXCEPT !.linked = TRUE]
<1>1. pc[p] \in {"write", "rename", "link"} /\ Busy(p)
  BY DEF CommitWrite, CommitRename, CommitLink, Go, Busy, Commits
<1>2. /\ m \in temps /\ m \in Temporary /\ m.pid = p /\ m.name = n
      /\ op[p] \in [name : Names, value : Values]
      /\ n \in Known => /\ lease = p /\ Leftovers = {m}
                        /\ \A q \in Pids \ {p} : /\ pc[q] \notin {"ready", "recover"}
                                                 /\ Busy(q) => op[q].name \notin Known
  BY <1>1, AtWork
<1>3. /\ live' = live /\ lease' = lease /\ op' = op /\ todo' = todo
      /\ temps' = (temps \ {m}) \union {u}
      /\ pc' = [pc EXCEPT ![p] = IF pc[p] = "write" THEN "rename"
                                 ELSE IF pc[p] = "rename" THEN "link" ELSE "unlink"]
  BY DEF CommitWrite, CommitRename, CommitLink, Go, Replace
<1>4. /\ u \in Temporary /\ u.pid = p /\ u.name = n
      /\ pc[p] = "write" => u.stage = m.stage /\ u.value \in Values /\ u.linked = m.linked
      /\ pc[p] = "rename" => u.stage = "ready" /\ u.value = m.value /\ u.linked = m.linked
      /\ pc[p] = "link" => u.stage = m.stage /\ u.value = m.value /\ u.linked
  BY <1>1, <1>2 DEF Temporary
<1>5. /\ pc[p] # "link" => final' = final
      /\ pc[p] = "link" => final[n] = Absent /\ final' = [final EXCEPT ![n] = op[p].value]
  BY DEF CommitWrite, CommitRename, CommitLink, Go
<1>6. TypeOK' /\ Running'
  <2>1. temps' \subseteq Temporary
    BY <1>3, <1>4 DEF TypeOK
  <2>2. final' \in [Names -> Values \union {Torn, Absent}]
    BY <1>2, <1>5 DEF TypeOK
  <2>3. pc' \in [Pids -> {"off", "idle", "list", "recover", "ready", "failed",
                          "write", "rename", "link", "unlink"}]
    BY <1>3 DEF TypeOK
  <2>4. \A q \in Pids : /\ pc'[q] \in Commits <=> pc[q] \in Commits
                        /\ pc'[q] = "off" <=> pc[q] = "off"
    BY <1>1, <1>3 DEF TypeOK, Commits
  <2>5. QED
    BY <1>3, <2>1, <2>2, <2>3, <2>4 DEF TypeOK, Running, Commits
<1>7. OwnTemp'
  <2>1. \A s \in temps : \E w \in temps' : w.pid = s.pid /\ w.name = s.name
    BY <1>2, <1>3, <1>4
  <2>2. \A q \in Pids : Busy(q)' => Busy(q)
    BY <1>1, <1>3 DEF TypeOK, Busy, Commits
  <2>3. QED
    BY <1>3, <2>1, <2>2 DEF OwnTemp
<1>8. NothingTorn'
  BY <1>2, <1>5, MarksAssumption DEF NothingTorn, TypeOK
<1>9. \A q \in Pids \ {p} : pc'[q] = pc[q]
  BY <1>3 DEF TypeOK
<1>10. pc'[p] = IF pc[p] = "write" THEN "rename" ELSE IF pc[p] = "rename" THEN "link" ELSE "unlink"
  BY <1>3 DEF TypeOK
<1>11. CASE n \in Known
  <2>1. Leftovers' = {u}
    BY <1>2, <1>3, <1>4, <1>11 DEF Leftovers
  <2>2. Holds' /\ Listed'
    BY <1>1, <1>2, <1>3, <1>9, <1>10, <1>11 DEF Holds, Listed, Busy, Commits
  <2>3. /\ m.stage = "writing" <=> pc[p] \in {"write", "rename"}
        /\ pc[p] # "write" => m.value \in Values
    BY <1>1, <1>2, <1>11 DEF InStep
  <2>4. InStep'
    <3>1. /\ u.stage = "writing" <=> pc'[p] \in {"write", "rename"}
          /\ u.value \in Values
      BY <1>1, <1>4, <1>10, <2>3
    <3>2. \A q \in Pids \ {p} : Busy(q)' => op'[q].name \notin Known
      <4>1. op' = op
        BY <1>3
      <4>2. SUFFICES ASSUME NEW q \in Pids \ {p}, Busy(q)' PROVE op[q].name \notin Known
        BY <4>1
      <4>3. Busy(q)
        BY <1>9, <4>2 DEF Busy
      <4>4. QED
        BY <1>2, <1>11, <4>2, <4>3 DEF Busy
    <3>3. QED
      BY <2>1, <3>1, <3>2 DEF InStep
  <2>5. Sole' /\ ReadyIsWhole'
    BY <1>1, <1>4, <2>1, <2>3 DEF Sole, ReadyIsWhole
  <2>6. Settled => Settled'
    <3>1. pc[p] = "link" => final'[n] \in Values /\ u.stage = "ready"
      BY <1>2, <1>4, <1>5, <2>3 DEF TypeOK, Temporary
    <3>2. HAVE Settled
    <3>3. IF final[n] = Absent THEN ~m.linked ELSE m.stage = "ready" /\ m.linked
      BY <1>2, <1>11, <3>2 DEF Settled
    <3>4. pc[p] \in {"write", "rename"} => final'[n] = Absent /\ ~u.linked
      BY <1>4, <1>5, <2>3, <3>3
    <3>5. pc[p] = "link" => final'[n] # Absent /\ u.stage = "ready" /\ u.linked
      BY <1>4, <3>1, MarksAssumption
    <3>6. u.name = n
      BY <1>4
    <3>7. QED
      BY <1>1, <2>1, <3>4, <3>5, <3>6 DEF Settled
  <2>7. QED
    BY <1>6, <1>7, <1>8, <2>2, <2>4, <2>5, <2>6
<1>12. CASE n \notin Known
  <2>1. Leftovers' = Leftovers
    BY <1>2, <1>3, <1>4, <1>12 DEF Leftovers
  <2>2. \A k \in Known : final'[k] = final[k]
    BY <1>5, <1>12, NamesAssumption DEF TypeOK
  <2>3. Holds' /\ Listed' /\ InStep'
    BY <1>1, <1>3, <1>9, <1>10, <1>12, <2>1 DEF Holds, Listed, InStep, Busy, Commits
  <2>4. Sole' /\ ReadyIsWhole' /\ (Settled => Settled')
    BY <2>1, <2>2 DEF Sole, ReadyIsWhole, Settled, Leftovers
  <2>5. QED
    BY <1>6, <1>7, <1>8, <2>3, <2>4
<1>13. QED
  BY <1>11, <1>12

\* The ends of a commit: the temporary goes, or an error leaves it behind.
LEMMA EndKeeps ==
  ASSUME IInv, NEW p \in Pids, CommitExists(p) \/ CommitUnlink(p) \/ CommitFails(p)
  PROVE  IInv' /\ (Settled => Settled')
<1> USE DEF IInv
<1> DEFINE m == Mine(p)
           n == op[p].name
<1>1. Busy(p)
  BY DEF CommitExists, CommitUnlink, CommitFails, Busy, Commits
<1>2. /\ m \in temps /\ m.pid = p /\ m.name = n
      /\ n \notin Known => Rest(n) = "idle"
      /\ n \in Known => /\ lease = p /\ Leftovers = {m} /\ Rest(n) = "ready"
                        /\ \A q \in Pids \ {p} : /\ pc[q] \notin {"ready", "recover"}
                                                 /\ Busy(q) => op[q].name \notin Known
  BY <1>1, AtWork
<1>3. /\ live' = live /\ lease' = lease /\ final' = final /\ todo' = todo
      /\ op' = [op EXCEPT ![p] = NoOp]
      /\ temps' = temps \/ temps' = temps \ {m}
  BY DEF CommitExists, CommitUnlink, CommitFails
<1>4. \/ pc' = [pc EXCEPT ![p] = "failed"]
      \/ pc' = [pc EXCEPT ![p] = Rest(n)] /\ temps' = temps \ {m}
  BY DEF CommitExists, CommitUnlink, CommitFails
<1>5. \A q \in Pids \ {p} : pc'[q] = pc[q] /\ op'[q] = op[q]
  BY <1>3, <1>4 DEF TypeOK
<1>6. pc'[p] = "failed" \/ (pc'[p] = Rest(n) /\ temps' = temps \ {m})
  BY <1>4 DEF TypeOK
<1>7. pc'[p] \in {"failed", "idle", "ready"}
  BY <1>6 DEF Rest
<1>8. TypeOK' /\ Running'
  <2>1. op' \in [Pids -> [name : Names, value : Values] \union {NoOp}] /\ op'[p] = NoOp
    BY <1>3 DEF TypeOK
  <2>2. pc' \in [Pids -> {"off", "idle", "list", "recover", "ready", "failed",
                          "write", "rename", "link", "unlink"}]
    BY <1>4 DEF TypeOK, Rest
  <2>3. QED
    BY <1>1, <1>3, <1>5, <1>7, <2>1, <2>2 DEF TypeOK, Running, Busy, Commits
<1>9. OwnTemp'
  BY <1>2, <1>3, <1>5, <1>7 DEF OwnTemp, Busy, Commits
<1>10. NothingTorn'
  BY <1>3 DEF NothingTorn
<1>11. Leftovers' = Leftovers \/ Leftovers' = Leftovers \ {m}
  BY <1>3 DEF Leftovers
<1>12. Sole' /\ ReadyIsWhole' /\ (Settled => Settled')
  BY <1>3, <1>11 DEF Sole, ReadyIsWhole, Settled
<1>13. InStep'
  BY <1>3, <1>5, <1>7, <1>11 DEF InStep, Busy, Commits
<1>14. Holds' /\ Listed'
  <2>1. CASE n \in Known
    <3>1. pc'[p] = "ready" => Leftovers' = {}
      BY <1>2, <1>6, <2>1 DEF Leftovers
    <3>2. QED
      BY <1>2, <1>3, <1>5, <1>7, <2>1, <3>1 DEF Holds, Listed, Busy, Commits
  <2>2. CASE n \notin Known
    <3>1. Leftovers' = Leftovers /\ pc'[p] \in {"failed", "idle"}
      BY <1>2, <1>3, <1>6, <2>2 DEF Leftovers
    <3>2. QED
      BY <1>3, <1>5, <3>1 DEF Holds, Listed, Busy, Commits
  <2>3. QED
    BY <2>1, <2>2
<1>15. QED
  BY <1>8, <1>9, <1>10, <1>12, <1>13, <1>14

\* A record is removed only when nothing is left over.
LEMMA RemoveKeeps ==
  ASSUME IInv, NEW p \in Pids, NEW n \in Known, Remove(p, n)
  PROVE  IInv' /\ (Settled => Settled')
<1> USE DEF IInv
<1>1. /\ Leftovers = {} /\ Leftovers' = {} /\ n \in Names
      /\ live' = live /\ lease' = lease /\ pc' = pc /\ op' = op /\ todo' = todo /\ temps' = temps
      /\ final' = [final EXCEPT ![n] = Absent]
  BY NamesAssumption DEF Remove, Listed, Leftovers
<1>2. TypeOK' /\ Running' /\ NothingTorn'
  BY <1>1 DEF TypeOK, Running, NothingTorn, Absent, Torn
<1>3. Holds' /\ Listed' /\ OwnTemp'
  BY <1>1 DEF Holds, Listed, OwnTemp, Busy
<1>4. Sole' /\ ReadyIsWhole' /\ InStep' /\ Settled'
  BY <1>1 DEF Sole, ReadyIsWhole, InStep, Settled
<1>5. QED
  BY <1>2, <1>3, <1>4

\* Every step keeps the invariant, and with it what is left settleable.
LEMMA NextIInv ==
  IInv /\ [Next]_vars => IInv' /\ (Verified \subseteq Unleased /\ Settled => Settled')
<1> SUFFICES ASSUME IInv, [Next]_vars
             PROVE  IInv' /\ (Verified \subseteq Unleased /\ Settled => Settled')
  OBVIOUS
<1>1. CASE UNCHANGED vars
  BY <1>1 DEF vars, IInv, TypeOK, Running, Holds, Listed, OwnTemp, Sole, ReadyIsWhole,
              InStep, NothingTorn, Settled, Leftovers, Busy
<1>2. CASE Next
  <2>1. PICK p \in Pids :
          \/ StartProcess(p) \/ OpenSession(p) \/ CloseSession(p) \/ Exit(p)
          \/ PlanRecovery(p) \/ RefuseRecovery(p) \/ Recovered(p)
          \/ \E t \in todo[p] : PublishLeftover(p, t) \/ UnlinkLeftover(p, t)
          \/ \E n \in Names, v \in Values : CommitOpen(p, n, v)
          \/ CommitWrite(p) \/ CommitRename(p) \/ CommitLink(p) \/ CommitExists(p)
          \/ CommitUnlink(p) \/ CommitFails(p)
          \/ \E n \in Known : Remove(p, n)
    BY <1>2 DEF Next
  <2>2. CASE StartProcess(p) \/ OpenSession(p) \/ CloseSession(p) \/ Exit(p)
    BY <2>2, SessionKeeps
  <2>3. CASE PlanRecovery(p) \/ RefuseRecovery(p) \/ Recovered(p)
    BY <2>3, ListingKeeps
  <2>4. CASE \E t \in todo[p] : PublishLeftover(p, t) \/ UnlinkLeftover(p, t)
    BY <2>4, RecoveryKeeps
  <2>5. CASE \E n \in Names, v \in Values : CommitOpen(p, n, v)
    BY <2>5, OpenKeeps
  <2>6. CASE CommitWrite(p) \/ CommitRename(p) \/ CommitLink(p)
    BY <2>6, AdvanceKeeps
  <2>7. CASE CommitExists(p) \/ CommitUnlink(p) \/ CommitFails(p)
    BY <2>7, EndKeeps
  <2>8. CASE \E n \in Known : Remove(p, n)
    BY <2>8, RemoveKeeps
  <2>9. QED
    BY <2>1, <2>2, <2>3, <2>4, <2>5, <2>6, <2>7, <2>8
<1>3. QED
  BY <1>1, <1>2

-----------------------------------------------------------------------------
\* The types, and that a commit is under way exactly between its system calls
\* (commitStateFile), for any processes, names and contents.
THEOREM FilesTyped == Spec => []TypeOK
<1>1. IInv => TypeOK
  BY DEF IInv
<1>2. QED
  BY <1>1, InitIInv, NextIInv, PTL DEF Spec

\* Neither commitStateFile nor the recovery ever publishes part of a record.
THEOREM NothingTornEver == Spec => []NothingTorn
<1>1. IInv => NothingTorn
  BY DEF IInv
<1>2. QED
  BY <1>1, InitIInv, NextIInv, PTL DEF Spec

\* With one temporary left, its record has two links exactly when it is linked.
LEMMA SettledIsSettleable ==
  ASSUME Sole, Settled, NEW t \in Leftovers
  PROVE  Settleable(t)
<1>1. CASE final[t.name] = Absent
  BY <1>1 DEF Settled, Settleable
<1>2. CASE final[t.name] # Absent
  <2>1. t.stage = "ready" /\ t.linked
    BY <1>2 DEF Settled
  <2>2. {s \in Temps(t.name) : s.linked} = {t}
    BY <2>1 DEF Temps, Leftovers, Sole
  <2>3. Cardinality({t}) = 1
    BY FS_Singleton
  <2>4. Links(t.name) = 2
    BY <2>2, <2>3 DEF Links
  <2>5. QED
    BY <1>2, <2>1, <2>4 DEF Settleable
<1>3. QED
  BY <1>1, <1>2

\* Where only unleased names are committed again over a published record, the
\* next listing (recoverInterruptedStateCommits) settles whatever dead writers
\* and dead recoveries have left.
THEOREM RecoveryIsNeverStuck ==
  ASSUME Verified \subseteq Unleased
  PROVE  Spec => []RecoveryNeverStuck
<1>1. IInv /\ Settled => RecoveryNeverStuck
  <2>1. ASSUME IInv, Settled PROVE RecoveryNeverStuck
    BY <2>1, SettledIsSettleable DEF IInv, Sole, RecoveryNeverStuck, Recoverable
  <2>2. QED
    BY <2>1
<1>2. IInv /\ Settled /\ [Next]_vars => IInv' /\ Settled'
  BY NextIInv
<1>3. QED
  BY <1>1, <1>2, InitIInv, PTL DEF Spec

\* After a listing every published record of a leased name has one link again,
\* which readStableStateFile insists on.
THEOREM ReadableAfterListing == Spec => []ReadableOnceListed
<1>1. IInv => ReadableOnceListed
  <2>1. ASSUME IInv, NEW p \in Pids, NEW n \in Known, pc[p] = "ready" PROVE Links(n) = 1
    <3>1. {t \in Temps(n) : t.linked} = {}
      BY <2>1 DEF IInv, Listed, Leftovers, Temps
    <3>2. QED
      BY <3>1, FS_EmptySet DEF Links
  <2>2. QED
    BY <2>1 DEF ReadableOnceListed
<1>2. QED
  BY <1>1, InitIInv, NextIInv, PTL DEF Spec

=============================================================================
