----------------------------- MODULE AttemptLog -----------------------------
(***************************************************************************)
(* What the debugger store promises: a log of whole attempts that only     *)
(* grows, one attempt at a time, and stops at the run or capture limit.    *)
(***************************************************************************)
EXTENDS Naturals, Sequences, FiniteSets

CONSTANTS MaxRuns, MaxCaptures, Attempt

VARIABLE log          \* committed attempts and whether they captured a fault

Captures(l) == Cardinality({i \in DOMAIN l : l[i].captured})

Init == log = <<>>

Append1 == \E a \in Attempt, c \in BOOLEAN :
  /\ Len(log) < MaxRuns /\ Captures(log) < MaxCaptures
  /\ \A i \in DOMAIN log : log[i].attempt # a
  /\ log' = Append(log, [attempt |-> a, captured |-> c])

Spec == Init /\ [][Append1]_log
=============================================================================
