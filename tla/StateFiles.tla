----------------------------- MODULE StateFiles -----------------------------
(***************************************************************************)
(* The durable no-clobber state adapter (diagnose-lib/pinned-protocol.mjs, *)
(* createFileStateAdapter) on one private directory, system call by system *)
(* call.  A record is written to ".<name>.<pid>.<random>.writing.tmp",     *)
(* renamed to ".ready.tmp", hard-linked to its name, and the temporary is  *)
(* unlinked.  A process may die or fail between any two calls.  Listing    *)
(* the directory first settles what dead writers left behind.              *)
(*                                                                         *)
(* Processes work on leased names in a session that holds the directory    *)
(* lease and lists before it writes.  Unleased names (campaign report      *)
(* artifacts) are committed outside any session.  A process that exits may *)
(* have its PID reused, so an old temporary can look live again.           *)
(* Directory operations take effect in program order: power loss is a      *)
(* crash at some prefix of them (fsync orders the data before the rename). *)
(***************************************************************************)
EXTENDS Naturals, FiniteSets

CONSTANTS Pids,        \* process identifiers, reused after an exit
          Names,       \* record names
          Unleased,    \* names committed without the lease
          Known,       \* names in STATE_COMMIT_TEMP_RE
          Collection,  \* names whose ready temporaries recovery publishes
          Verified,    \* names committed by commitOrVerify, published or not
          Values       \* record contents

ASSUME NamesAssumption == /\ Unleased \subseteq Names
                          /\ Known = Names \ Unleased
                          /\ Collection \subseteq Known
                          /\ Unleased \subseteq Verified
                          /\ Verified \subseteq Names

VARIABLES live,   \* the running processes
          lease,  \* the process that holds the directory lease
          pc,     \* what each process is doing
          op,     \* the record each process is committing
          todo,   \* temporaries its recovery has still to settle
          temps,  \* temporary files in the directory
          final   \* published records

vars == <<live, lease, pc, op, todo, temps, final>>

Absent == "absent"     \* no such record
Torn   == "torn"       \* a file that was not written to its end
Nobody == "nobody"
NoOp   == [name |-> Absent, value |-> Absent]

ASSUME MarksAssumption == /\ Absent \notin Names \union Values
                          /\ Torn \notin Values
                          /\ Nobody \notin Pids

Temporary == [name : Names, pid : Pids, stage : {"writing", "ready"},
              value : Values \union {Torn}, linked : BOOLEAN]

Temps(n) == {t \in temps : t.name = n}
Links(n) == 1 + Cardinality({t \in Temps(n) : t.linked})
Mine(p)  == CHOOSE t \in temps : t.pid = p /\ t.name = op[p].name

Go(p, from, to) == pc[p] = from /\ pc' = [pc EXCEPT ![p] = to]
Replace(t, u) == temps' = (temps \ {t}) \union {u}

-----------------------------------------------------------------------------
(* Processes and sessions. *)

StartProcess(p) == /\ p \notin live
                   /\ live' = live \union {p}
                   /\ pc' = [pc EXCEPT ![p] = "idle"]
                   /\ UNCHANGED <<lease, op, todo, temps, final>>

\* Mutant: the session writes without listing first.
OpenUnlisted(p) == /\ lease = Nobody
                   /\ Go(p, "idle", "ready")
                   /\ lease' = p
                   /\ UNCHANGED <<live, op, todo, temps, final>>

OpenSession(p) == /\ lease = Nobody
                  /\ Go(p, "idle", "list")
                  /\ lease' = p
                  /\ UNCHANGED <<live, op, todo, temps, final>>

CloseSession(p) == /\ lease = p
                   /\ pc[p] \in {"ready", "failed"}
                   /\ pc' = [pc EXCEPT ![p] = "idle"]
                   /\ lease' = Nobody
                   /\ UNCHANGED <<live, op, todo, temps, final>>

\* The process exits or dies, at any point; what it had on disk stays.
Exit(p) == /\ p \in live
           /\ live' = live \ {p}
           /\ lease' = IF lease = p THEN Nobody ELSE lease
           /\ pc' = [pc EXCEPT ![p] = "off"]
           /\ op' = [op EXCEPT ![p] = NoOp]
           /\ todo' = [todo EXCEPT ![p] = {}]
           /\ UNCHANGED <<temps, final>>

-----------------------------------------------------------------------------
(* recoverInterruptedStateCommits. *)

Leftovers == {t \in temps : t.name \in Known}

\* What recovery insists on before it touches anything.
Settleable(t) == IF final[t.name] = Absent
                 THEN ~t.linked
                 ELSE t.stage = "ready" /\ t.linked /\ Links(t.name) = 2

Recoverable == /\ \A t, u \in Leftovers : t.name = u.name => t = u
               /\ \A t \in Leftovers : t.pid \notin live
               /\ \A t \in Leftovers : Settleable(t)

PlanRecovery(p) == /\ Recoverable
                   /\ Go(p, "list", "recover")
                   /\ todo' = [todo EXCEPT ![p] = Leftovers]
                   /\ UNCHANGED <<live, lease, op, temps, final>>

RefuseRecovery(p) == /\ ~Recoverable
                     /\ Go(p, "list", "failed")
                     /\ UNCHANGED <<live, lease, op, todo, temps, final>>

\* Mutants: any temporary is published, whether its writer finished or not;
\* only a publication that was begun is completed.
PublishableTorn(t) == t.name \in Collection /\ final[t.name] = Absent
PublishableBegun(t) == t.name \in Collection /\ t.linked /\ final[t.name] = Absent

\* A complete, synchronised temporary of a collection record is published.
Publishable(t) == /\ t.name \in Collection
                  /\ t.stage = "ready"
                  /\ final[t.name] = Absent

\* Mutant: the temporary of a completed publication is left in place.
PublishKeepsTemp(p, t) == /\ pc[p] = "recover"
                          /\ Publishable(t)
                          /\ final' = [final EXCEPT ![t.name] = t.value]
                          /\ Replace(t, [t EXCEPT !.linked = TRUE])
                          /\ todo' = [todo EXCEPT ![p] = @ \ {t}]
                          /\ UNCHANGED <<live, lease, pc, op>>

PublishLeftover(p, t) == /\ pc[p] = "recover"
                         /\ Publishable(t)
                         /\ final' = [final EXCEPT ![t.name] = t.value]
                         /\ Replace(t, [t EXCEPT !.linked = TRUE])
                         /\ todo' = [todo EXCEPT ![p] =
                              (@ \ {t}) \union {[t EXCEPT !.linked = TRUE]}]
                         /\ UNCHANGED <<live, lease, pc, op>>

UnlinkLeftover(p, t) == /\ pc[p] = "recover"
                        /\ ~Publishable(t)
                        /\ temps' = temps \ {t}
                        /\ todo' = [todo EXCEPT ![p] = @ \ {t}]
                        /\ UNCHANGED <<live, lease, pc, op, final>>

Recovered(p) == /\ todo[p] = {}
                /\ Go(p, "recover", "ready")
                /\ UNCHANGED <<live, lease, op, todo, temps, final>>

-----------------------------------------------------------------------------
(* commitStateFile. *)

\* Where a commit may start and where the process is once it has returned.
Rest(n) == IF n \in Unleased THEN "idle" ELSE "ready"

\* Other callers commit a name only after a listing that did not show it.
CommitOpen(p, n, v) == /\ Go(p, Rest(n), "write")
                       /\ n \notin Verified => final[n] = Absent
                       /\ op' = [op EXCEPT ![p] = [name |-> n, value |-> v]]
                       /\ temps' = temps \union
                            {[name |-> n, pid |-> p, stage |-> "writing",
                              value |-> Torn, linked |-> FALSE]}
                       /\ UNCHANGED <<live, lease, todo, final>>

CommitWrite(p) == /\ Go(p, "write", "rename")
                  /\ Replace(Mine(p), [Mine(p) EXCEPT !.value = op[p].value])
                  /\ UNCHANGED <<live, lease, op, todo, final>>

CommitRename(p) == /\ Go(p, "rename", "link")
                   /\ Replace(Mine(p), [Mine(p) EXCEPT !.stage = "ready"])
                   /\ UNCHANGED <<live, lease, op, todo, final>>

\* Mutant: the record is renamed over whatever has its name.
CommitOverwrites(p) == /\ Go(p, "link", "unlink")
                       /\ final' = [final EXCEPT ![op[p].name] = op[p].value]
                       /\ Replace(Mine(p), [Mine(p) EXCEPT !.linked = TRUE])
                       /\ UNCHANGED <<live, lease, op, todo>>

\* link(2) never replaces an existing name.
CommitLink(p) == /\ Go(p, "link", "unlink")
                 /\ final[op[p].name] = Absent
                 /\ final' = [final EXCEPT ![op[p].name] = op[p].value]
                 /\ Replace(Mine(p), [Mine(p) EXCEPT !.linked = TRUE])
                 /\ UNCHANGED <<live, lease, op, todo>>

CommitExists(p) == /\ pc[p] = "link"
                   /\ final[op[p].name] # Absent
                   /\ pc' = [pc EXCEPT ![p] = Rest(op[p].name)]
                   /\ temps' = temps \ {Mine(p)}
                   /\ op' = [op EXCEPT ![p] = NoOp]
                   /\ UNCHANGED <<live, lease, todo, final>>

CommitUnlink(p) == /\ pc[p] = "unlink"
                   /\ pc' = [pc EXCEPT ![p] = Rest(op[p].name)]
                   /\ temps' = temps \ {Mine(p)}
                   /\ op' = [op EXCEPT ![p] = NoOp]
                   /\ UNCHANGED <<live, lease, todo, final>>

\* An I/O error ends the session, or the command that has none.  Before the
\* link the temporary is removed if that succeeds; after it, it is left.
CommitFails(p) == /\ pc[p] \in {"write", "rename", "link", "unlink"}
                  /\ pc' = [pc EXCEPT ![p] = "failed"]
                  /\ temps' \in {temps} \union
                       IF pc[p] = "unlink" THEN {} ELSE {temps \ {Mine(p)}}
                  /\ op' = [op EXCEPT ![p] = NoOp]
                  /\ UNCHANGED <<live, lease, todo, final>>

-----------------------------------------------------------------------------
(* removeStateFile: only a single-linked record of a leased name. *)

Remove(p, n) == /\ pc[p] = "ready"
                /\ final[n] # Absent
                /\ Links(n) = 1
                /\ final' = [final EXCEPT ![n] = Absent]
                /\ UNCHANGED <<live, lease, pc, op, todo, temps>>

-----------------------------------------------------------------------------
Init == /\ live = {}
        /\ lease = Nobody
        /\ pc = [p \in Pids |-> "off"]
        /\ op = [p \in Pids |-> NoOp]
        /\ todo = [p \in Pids |-> {}]
        /\ temps = {}
        /\ final = [n \in Names |-> Absent]

Next == \E p \in Pids :
  \/ StartProcess(p) \/ OpenSession(p) \/ CloseSession(p) \/ Exit(p)
  \/ PlanRecovery(p) \/ RefuseRecovery(p) \/ Recovered(p)
  \/ \E t \in todo[p] : PublishLeftover(p, t) \/ UnlinkLeftover(p, t)
  \/ \E n \in Names, v \in Values : CommitOpen(p, n, v)
  \/ CommitWrite(p) \/ CommitRename(p) \/ CommitLink(p) \/ CommitExists(p)
  \/ CommitUnlink(p) \/ CommitFails(p)
  \/ \E n \in Known : Remove(p, n)

Spec == Init /\ [][Next]_vars

-----------------------------------------------------------------------------
(* Properties. *)

\* Every variable keeps its type, and a commit is under way exactly between
\* its first system call and its last.
TypeOK == /\ live \subseteq Pids
          /\ lease \in Pids \union {Nobody}
          /\ pc \in [Pids -> {"off", "idle", "list", "recover", "ready", "failed",
                              "write", "rename", "link", "unlink"}]
          /\ op \in [Pids -> [name : Names, value : Values] \union {NoOp}]
          /\ \A p \in Pids : op[p] # NoOp <=> pc[p] \in {"write", "rename", "link", "unlink"}
          /\ todo \in [Pids -> SUBSET Temporary]
          /\ temps \subseteq Temporary
          /\ final \in [Names -> Values \union {Torn, Absent}]

\* No published record is ever a prefix of what its writer meant to write,
\* whether the writer linked it or recovery did.
NothingTorn == \A n \in Names : final[n] # Torn

\* A published record keeps its content until the lease holder removes it:
\* neither a racing writer nor a recovery replaces or drops it.
NeverClobbered ==
  [][\A n \in Names : final[n] # Absent /\ final'[n] # final[n] =>
       final'[n] = Absent /\ lease # Nobody /\ pc[lease] = "ready"]_vars

\* Wherever the writers died, recoveries included, what they left in the
\* leased names is a state the next listing settles instead of refusing; a
\* reused PID only puts it off until that process exits.
RecoveryNeverStuck ==
  (\A t \in Leftovers : t.pid \notin live) => Recoverable

\* After a listing every published leased record has exactly one link again,
\* so readStableStateFile accepts it.
ReadableOnceListed ==
  \A p \in Pids, n \in Known :
    pc[p] = "ready" /\ final[n] # Absent => Links(n) = 1

\* A collection record that was written and synchronised in full is never
\* lost to recovery: discovery has no other copy of its plan.
CollectionSurvives ==
  [][\A t \in temps \ temps' :
       t.name \in Collection /\ t.stage = "ready" /\ t.pid \notin live
         => final'[t.name] # Absent]_vars
=============================================================================
