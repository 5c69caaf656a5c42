--------------------------- MODULE ReplayContract ---------------------------
(***************************************************************************)
(* What one run promises, with the channels, the tasks and the counters    *)
(* left out (src/src/executor/admission.rs, the header of                  *)
(* src/src/executor/session.rs, section 10 of src/ARCHITECTURE.md).        *)
(*                                                                         *)
(* The units of a workload are started in declaration order, never more    *)
(* than the window at once.  An open unit attempts its rounds one after the*)
(* other.  Each attempt is recorded at most once, in the order of the      *)
(* rounds of its unit.  The run completes only when every unit has been    *)
(* closed and every attempt has been recorded.                             *)
(***************************************************************************)
EXTENDS Naturals, FiniteSets

CONSTANTS
  N,        \* number of workload units; unit u is row u of the trace
  Jobs      \* the runs: rounds[u] of unit u, and window, the most units open at once

VARIABLES
  job,       \* the run at hand
  started,   \* units started so far
  opened,    \* the units started and not yet closed
  attempted, \* attempted[u]: rounds of unit u submitted or skipped so far
  recorded,  \* recorded[u]: records of unit u folded into the summary
  complete   \* the run summary has been built

contractVars == <<job, started, opened, attempted, recorded, complete>>

Init ==
  /\ job \in Jobs
  /\ started = 0
  /\ opened = {}
  /\ attempted = [u \in 1 .. N |-> 0]
  /\ recorded = [u \in 1 .. N |-> 0]
  /\ complete = FALSE

Start ==
  /\ started < N /\ Cardinality(opened) < job.window
  /\ started' = started + 1
  /\ opened' = opened \cup {started'}
  /\ UNCHANGED <<job, attempted, recorded, complete>>

Attempt(u) ==
  /\ u \in opened /\ attempted[u] < job.rounds[u]
  /\ attempted' = [attempted EXCEPT ![u] = @ + 1]
  /\ UNCHANGED <<job, started, opened, recorded, complete>>

Record(u) ==
  /\ recorded[u] < attempted[u]
  /\ recorded' = [recorded EXCEPT ![u] = @ + 1]
  /\ UNCHANGED <<job, started, opened, attempted, complete>>

Close(u) ==
  /\ u \in opened
  /\ opened' = opened \ {u}
  /\ UNCHANGED <<job, started, attempted, recorded, complete>>

Complete ==
  /\ started = N /\ opened = {} /\ recorded = attempted
  /\ complete' = TRUE
  /\ UNCHANGED <<job, started, opened, attempted, recorded>>

Next ==
  \/ Start
  \/ \E u \in 1 .. N : Attempt(u) \/ Record(u) \/ Close(u)
  \/ Complete

Spec == Init /\ [][Next]_contractVars

=============================================================================
