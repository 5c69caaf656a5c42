---------------------------- MODULE ReplayProofs ----------------------------
(***************************************************************************)
(* Theorems about one run (module Replay), for every number of units, every*)
(* workload, every capacity and every choice of faults.                    *)
(*                                                                         *)
(* ControlInv is inductive: where the runner is says what the dispatcher   *)
(* and the writers have done, and what a unit's task is doing says what was*)
(* attempted.  EveryRoundRecordedOnce is inductive on top of it, and both  *)
(* give the step simulation of ReplayContract.  The invariant of the       *)
(* timeline path is not proved again: every step of a run is a step or a   *)
(* stutter of module TimelinePipe.  What a run reports comes last: where   *)
(* its sessions stop, and that its summary is built from all its records.  *)
(***************************************************************************)
EXTENDS Replay, TimelineProofs

-----------------------------------------------------------------------------
(* The inductive invariant. *)

\* Rows are admitted in order; a row admitted and no longer in the JoinSet has
\* resolved; after drive_bounded every row was admitted and joined.
Admission ==
  /\ \A u \in Units : pc[u] = "unborn" <=> u >= next
  /\ \A u \in active : u < next
  /\ \A u \in Units : u < next /\ u \notin active => pc[u] \in Gone
  /\ runner # "drive" => next = N + 1 /\ active = {}

\* A unit never attempts more rounds than it has.
Rounds ==
  \A u \in Units :
    /\ round[u] <= plan.rounds[u]
    /\ pc[u] \in {"unborn", "arriving"} => round[u] = 0
    /\ pc[u] = "ready" => round[u] < plan.rounds[u]
    /\ pc[u] \in {"inflight", "logging", "counting", "pausing"} => round[u] >= 1

\* The writers end after the dispatcher, the runner goes on after the writers.
Shutdown ==
  /\ logger = "done" => runner # "drive" /\ logq = <<>>
  /\ logger = "panicked" => logq = <<>>
  /\ runner \in {"await_status", "await_timeline", "done"} => logger = "done"
  /\ runner \in {"await_timeline", "done"} => status = "exited"
  /\ runner = "done" /\ plan.timeline => writer = "finished"
  /\ ~open => runner # "drive"

FinishedUnits == {u \in Units : pc[u] = "ended"}

UnitsAreCounted ==
  /\ stats.finished = Cardinality(FinishedUnits)
  /\ status = "exited" => FinishedUnits = Units

ControlInv == RunTypes /\ Admission /\ Rounds /\ Shutdown /\ UnitsAreCounted

-----------------------------------------------------------------------------

\* A unit has at least one round and the window is at least one.
LEMMA PlanFacts ==
  ASSUME RunTypes
  PROVE  /\ plan.window \in Nat \ {0} /\ plan.stop \in BOOLEAN
         /\ plan.timeline \in BOOLEAN /\ plan.skips \in BOOLEAN
         /\ \A u \in Units : plan.rounds[u] \in 1 .. MaxRounds
<1>1. plan \in PlanType
  BY ReplayAssumption DEF RunTypes
<1> QED BY <1>1 DEF PlanType

\* A run starts in the invariant.
LEMMA ControlInit == Init => ControlInv
<1> SUFFICES ASSUME Init PROVE ControlInv
  OBVIOUS
<1>1. RunTypes
  BY ReplayAssumption DEF Init, RunTypes, Units, Verdicts
<1>2. \A u \in Units : plan.rounds[u] \in 1 .. MaxRounds
  BY <1>1, PlanFacts
<1>3. Admission /\ Rounds
  BY <1>2, ReplayAssumption DEF Init, Admission, Rounds, Units
<1>4. Shutdown
  BY DEF Init, Shutdown, TlInit
<1>5. FinishedUnits = {}
  BY DEF Init, FinishedUnits
<1>6. UnitsAreCounted
  BY <1>5, FS_EmptySet DEF Init, UnitsAreCounted
<1> QED BY <1>1, <1>3, <1>4, <1>6 DEF ControlInv

\* What the steps of the timeline path do to the two variables the runner
\* depends on.
LEMMA TimelineEffects ==
  /\ Close => open' = FALSE /\ writer' = writer
  /\ \A r \in Units \X (1 .. MaxRounds), n \in 0 .. MaxEvents :
       Offer(r, n) => UNCHANGED <<open, writer>>
  /\ WriterStep => open' = open /\ writer # "finished"
<1>1. Close => open' = FALSE /\ writer' = writer
  BY DEF Close
<1>2. \A r \in Units \X (1 .. MaxRounds), n \in 0 .. MaxEvents :
        Offer(r, n) => UNCHANGED <<open, writer>>
  BY DEF Offer
<1>3. WriterStep => open' = open /\ writer # "finished"
  BY DEF WriterStep, OpenFile, OpenFails, Receive, ReceiveAndFlush,
         ReceiveAndFailToFlush, Drain, FinishDraining, FinishWriting
<1> QED BY <1>1, <1>2, <1>3

\* Every step of a run keeps the invariant.
LEMMA ControlStep ==
  ASSUME ControlInv, [Next]_vars
  PROVE  ControlInv'
<1> USE ReplayAssumption DEF ControlInv, Units
<1> USE DEF taskVars, logVars, tlVars
<1>0. \A u \in Units : plan.rounds[u] \in 1 .. MaxRounds
  BY PlanFacts
<1>1. CASE Admit
  <2>1. RunTypes'
    BY <1>1 DEF Admit, RunTypes
  <2>2. Admission'
    BY <1>1 DEF Admit, Admission, RunTypes
  <2>3. Rounds'
    BY <1>1 DEF Admit, Rounds, RunTypes, Admission
  <2>4. Shutdown'
    BY <1>1 DEF Admit, Shutdown
  <2>5. FinishedUnits' = FinishedUnits
    BY <1>1 DEF Admit, FinishedUnits, RunTypes, Admission
  <2>6. UnitsAreCounted'
    BY <1>1, <2>5 DEF Admit, UnitsAreCounted
  <2> QED BY <2>1, <2>2, <2>3, <2>4, <2>6
<1>2. ASSUME NEW u \in Units, Join(u) PROVE ControlInv'
  <2>1. UNCHANGED <<plan, runner, next, pc, round, verdict, stats, logq, logger, folded, status, open, writer>>
    BY <1>2 DEF Join
  <2>2. RunTypes'
    BY <1>2 DEF Join, RunTypes
  <2>3. Admission'
    BY <1>2 DEF Join, Admission, RunTypes
  <2>4. FinishedUnits' = FinishedUnits
    BY <2>1 DEF FinishedUnits
  <2> QED BY <2>1, <2>2, <2>3, <2>4 DEF Rounds, Shutdown, UnitsAreCounted
<1>3. CASE DriveEnds
  <2>1. RunTypes' /\ Admission'
    BY <1>3 DEF DriveEnds, RunTypes, Admission
  <2>2. Shutdown'
    BY <1>3, TimelineEffects DEF DriveEnds, Shutdown
  <2>3. UNCHANGED <<plan, pc, round, stats, status>>
    BY <1>3 DEF DriveEnds
  <2> QED BY <2>1, <2>2, <2>3 DEF Rounds, UnitsAreCounted, FinishedUnits
<1>4. CASE AwaitLog
  <2>1. RunTypes' /\ Admission'
    BY <1>4 DEF AwaitLog, RunTypes, Admission
  <2>2. Shutdown'
    BY <1>4 DEF AwaitLog, Shutdown
  <2>3. UNCHANGED <<plan, pc, round, stats, status>>
    BY <1>4 DEF AwaitLog
  <2> QED BY <2>1, <2>2, <2>3 DEF Rounds, UnitsAreCounted, FinishedUnits
<1>5. CASE AwaitStatus
  <2>1. RunTypes' /\ Admission'
    BY <1>5 DEF AwaitStatus, RunTypes, Admission
  <2>2. Shutdown'
    BY <1>5 DEF AwaitStatus, Shutdown
  <2>3. UNCHANGED <<plan, pc, round, stats, status>>
    BY <1>5 DEF AwaitStatus
  <2> QED BY <2>1, <2>2, <2>3 DEF Rounds, UnitsAreCounted, FinishedUnits
<1>6. CASE AwaitTimeline
  <2>1. RunTypes' /\ Admission'
    BY <1>6 DEF AwaitTimeline, RunTypes, Admission
  <2>2. Shutdown'
    BY <1>6 DEF AwaitTimeline, Shutdown
  <2>3. UNCHANGED <<plan, pc, round, stats, status>>
    BY <1>6 DEF AwaitTimeline
  <2> QED BY <2>1, <2>2, <2>3 DEF Rounds, UnitsAreCounted, FinishedUnits
<1>7. ASSUME NEW u \in Units, Arrive(u) PROVE ControlInv'
  <2>1. RunTypes'
    BY <1>7, <1>0 DEF Arrive, GoTo, RunTypes, Rounds
  <2>2. Admission'
    BY <1>7 DEF Arrive, GoTo, RunTypes, Admission, Gone
  <2>3. Rounds'
    BY <1>7, <1>0 DEF Arrive, GoTo, RunTypes, Rounds
  <2>4. Shutdown'
    BY <1>7 DEF Arrive, GoTo, Shutdown, RunTypes, Admission, Gone
  <2>5. FinishedUnits' = FinishedUnits
    BY <1>7 DEF Arrive, GoTo, RunTypes, FinishedUnits
  <2>6. UnitsAreCounted'
    BY <1>7, <2>5 DEF Arrive, GoTo, UnitsAreCounted, RunTypes
  <2> QED BY <2>1, <2>2, <2>3, <2>4, <2>6
<1>8. ASSUME NEW u \in Units, Panic(u) PROVE ControlInv'
  <2>1. RunTypes'
    BY <1>8, <1>0 DEF Panic, GoTo, RunTypes, Rounds
  <2>2. Admission'
    BY <1>8 DEF Panic, GoTo, RunTypes, Admission, Gone
  <2>3. Rounds'
    BY <1>8, <1>0 DEF Panic, GoTo, RunTypes, Rounds
  <2>4. Shutdown'
    BY <1>8 DEF Panic, GoTo, Shutdown, RunTypes, Admission, Gone
  <2>5. FinishedUnits' = FinishedUnits
    BY <1>8 DEF Panic, GoTo, RunTypes, FinishedUnits
  <2>6. UnitsAreCounted'
    BY <1>8, <2>5 DEF Panic, GoTo, UnitsAreCounted, RunTypes
  <2> QED BY <2>1, <2>2, <2>3, <2>4, <2>6
<1>9. ASSUME NEW u \in Units, Submit(u) PROVE ControlInv'
  <2>1. RunTypes'
    <3>1. round[u] + 1 \in 0 .. MaxRounds /\ stats.submitted + 1 \in Nat
      <4>1. round[u] \in 0 .. MaxRounds /\ stats.submitted \in Nat
        BY DEF RunTypes
      <4>2. round[u] < plan.rounds[u]
        BY <1>9 DEF Submit, Submitted, Rounds
      <4> QED BY <1>0, <4>1, <4>2
    <3>2. round' \in [Units -> 0 .. MaxRounds]
      BY <1>9, <3>1 DEF Submit, Submitted, RunTypes
    <3>3. stats' \in [submitted : Nat, completed : Nat, failed : Nat, finished : Nat]
      BY <1>9, <3>1 DEF Submit, Submitted, RunTypes
    <3> QED BY <1>9, <3>2, <3>3 DEF Submit, Submitted, GoTo, RunTypes
  <2>2. Admission'
    BY <1>9 DEF Submit, Submitted, GoTo, RunTypes, Admission, Gone
  <2>3. Rounds'
    <3>1. round' = [round EXCEPT ![u] = round[u] + 1] /\ pc' = [pc EXCEPT ![u] = "inflight"]
          /\ pc[u] = "ready" /\ plan' = plan
      BY <1>9 DEF Submit, Submitted, GoTo
    <3>2. round[u] \in Nat /\ round[u] < plan.rounds[u] /\ plan.rounds[u] \in Nat
      BY <1>0, <3>1 DEF Rounds, RunTypes
    <3>3. /\ round'[u] = round[u] + 1 /\ pc'[u] = "inflight"
          /\ \A w \in Units : w # u => round'[w] = round[w] /\ pc'[w] = pc[w]
      BY <3>1 DEF RunTypes
    <3> QED BY <3>1, <3>2, <3>3 DEF Rounds
  <2>4. Shutdown'
    BY <1>9 DEF Submit, Submitted, GoTo, Shutdown, RunTypes, Admission, Gone
  <2>5. FinishedUnits' = FinishedUnits
    BY <1>9 DEF Submit, Submitted, GoTo, RunTypes, FinishedUnits
  <2>6. UnitsAreCounted'
    BY <1>9, <2>5 DEF Submit, Submitted, GoTo, UnitsAreCounted, RunTypes
  <2> QED BY <2>1, <2>2, <2>3, <2>4, <2>6
<1>10. ASSUME NEW u \in Units, Skip(u) PROVE ControlInv'
  <2>1. RunTypes'
    <3>1. round[u] + 1 \in 0 .. MaxRounds /\ stats.submitted + 1 \in Nat
      <4>1. round[u] \in 0 .. MaxRounds /\ stats.submitted \in Nat
        BY DEF RunTypes
      <4>2. round[u] < plan.rounds[u]
        BY <1>10 DEF Skip, Submitted, Rounds
      <4> QED BY <1>0, <4>1, <4>2
    <3>2. round' \in [Units -> 0 .. MaxRounds]
      BY <1>10, <3>1 DEF Skip, Submitted, RunTypes
    <3>3. stats' \in [submitted : Nat, completed : Nat, failed : Nat, finished : Nat]
      BY <1>10, <3>1 DEF Skip, Submitted, RunTypes
    <3> QED BY <1>10, <3>2, <3>3 DEF Skip, Submitted, GoTo, Verdicts, RunTypes
  <2>2. Admission'
    BY <1>10 DEF Skip, Submitted, GoTo, Verdicts, RunTypes, Admission, Gone
  <2>3. Rounds'
    <3>1. round' = [round EXCEPT ![u] = round[u] + 1] /\ pc' = [pc EXCEPT ![u] = "logging"]
          /\ pc[u] = "ready" /\ plan' = plan
      BY <1>10 DEF Skip, Submitted, GoTo
    <3>2. round[u] \in Nat /\ round[u] < plan.rounds[u] /\ plan.rounds[u] \in Nat
      BY <1>0, <3>1 DEF Rounds, RunTypes
    <3>3. /\ round'[u] = round[u] + 1 /\ pc'[u] = "logging"
          /\ \A w \in Units : w # u => round'[w] = round[w] /\ pc'[w] = pc[w]
      BY <3>1 DEF RunTypes
    <3> QED BY <3>1, <3>2, <3>3 DEF Rounds
  <2>4. Shutdown'
    BY <1>10 DEF Skip, Submitted, GoTo, Verdicts, Shutdown, RunTypes, Admission, Gone
  <2>5. FinishedUnits' = FinishedUnits
    BY <1>10 DEF Skip, Submitted, GoTo, Verdicts, RunTypes, FinishedUnits
  <2>6. UnitsAreCounted'
    BY <1>10, <2>5 DEF Skip, Submitted, GoTo, Verdicts, UnitsAreCounted, RunTypes
  <2> QED BY <2>1, <2>2, <2>3, <2>4, <2>6
<1>11. ASSUME NEW u \in Units, NEW v \in {"ok", "fail"}, NEW k \in 0 .. MaxEvents,
             Respond(u, v, k) PROVE ControlInv'
  <2>1. RunTypes'
    BY <1>11, <1>0 DEF Respond, GoTo, Verdicts, RunTypes, Rounds
  <2>2. Admission'
    BY <1>11 DEF Respond, GoTo, Verdicts, RunTypes, Admission, Gone
  <2>3. Rounds'
    BY <1>11, <1>0 DEF Respond, GoTo, Verdicts, RunTypes, Rounds
  <2>4. Shutdown'
    <3>1. <<u, round[u]>> \in Units \X (1 .. MaxRounds)
      <4>1. round[u] \in 0 .. MaxRounds
        BY <1>0 DEF RunTypes
      <4>2. pc[u] = "inflight"
        BY <1>11 DEF Respond
      <4>3. round[u] >= 1
        BY <1>0, <4>2 DEF Rounds
      <4> QED BY <4>1, <4>3, ReplayAssumption
    <3>2. UNCHANGED <<open, writer>>
      BY <1>11, <3>1, TimelineEffects DEF Respond
    <3> QED BY <1>11, <3>2 DEF Respond, Shutdown
  <2>5. FinishedUnits' = FinishedUnits
    BY <1>11 DEF Respond, GoTo, Verdicts, RunTypes, FinishedUnits
  <2>6. UnitsAreCounted'
    BY <1>11, <2>5 DEF Respond, GoTo, Verdicts, UnitsAreCounted, RunTypes
  <2> QED BY <2>1, <2>2, <2>3, <2>4, <2>6
<1>12. ASSUME NEW u \in Units, SendLog(u) PROVE ControlInv'
  <2>1. RunTypes'
    <3>1. <<u, verdict[u]>> \in Units \X Verdicts
      BY DEF RunTypes
    <3>2. logq' \in Seq(Units \X Verdicts) /\ Len(logq') <= LogCap
      <4>1. logq \in Seq(Units \X Verdicts) /\ Len(logq) <= LogCap
        BY DEF RunTypes
      <4>2. \/ logq' = logq
            \/ Len(logq) < LogCap /\ logq' = Append(logq, <<u, verdict[u]>>)
        BY <1>12 DEF SendLog
      <4>3. ASSUME Len(logq) < LogCap, logq' = Append(logq, <<u, verdict[u]>>)
            PROVE  logq' \in Seq(Units \X Verdicts) /\ Len(logq') = Len(logq) + 1
        BY <3>1, <4>1, <4>3
      <4>4. LogCap \in Nat /\ Len(logq) \in Nat
        BY <4>1, ReplayAssumption
      <4> QED BY <4>1, <4>2, <4>3, <4>4
    <3> QED BY <1>12, <3>2 DEF SendLog, GoTo, RunTypes
  <2>2. Admission'
    BY <1>12 DEF SendLog, GoTo, RunTypes, Admission, Gone
  <2>3. Rounds'
    BY <1>12, <1>0 DEF SendLog, GoTo, RunTypes, Rounds
  <2>4. Shutdown'
    <3>1. runner = "drive"
      <4>1. pc[u] # "unborn" /\ pc[u] \notin Gone
        BY <1>12 DEF SendLog, Gone
      <4>2. u < next /\ u \in active
        BY <4>1 DEF Admission, RunTypes
      <4> QED BY <4>2 DEF Admission
    <3> QED BY <1>12, <3>1 DEF SendLog, Shutdown
  <2>5. FinishedUnits' = FinishedUnits
    BY <1>12 DEF SendLog, GoTo, RunTypes, FinishedUnits
  <2>6. UnitsAreCounted'
    BY <1>12, <2>5 DEF SendLog, GoTo, UnitsAreCounted, RunTypes
  <2> QED BY <2>1, <2>2, <2>3, <2>4, <2>6
<1>13. ASSUME NEW u \in Units, RecordResult(u) PROVE ControlInv'
  <2>1. RunTypes'
    <3>1. stats.completed + 1 \in Nat /\ stats.failed + 1 \in Nat
      BY DEF RunTypes
    <3>2. stats' \in [submitted : Nat, completed : Nat, failed : Nat, finished : Nat]
      BY <1>13, <3>1 DEF RecordResult, Counted, RunTypes
    <3> QED BY <1>13, <3>2 DEF RecordResult, GoTo, RunTypes
  <2>2. Admission'
    BY <1>13 DEF RecordResult, Counted, GoTo, Stops, RunTypes, Admission, Gone
  <2>3. Rounds'
    BY <1>13, <1>0 DEF RecordResult, Counted, GoTo, Stops, RunTypes, Rounds
  <2>4. Shutdown'
    BY <1>13 DEF RecordResult, Counted, GoTo, Stops, Shutdown, RunTypes, Admission, Gone
  <2>5. FinishedUnits' = FinishedUnits
    BY <1>13 DEF RecordResult, Counted, GoTo, Stops, RunTypes, FinishedUnits
  <2>6. UnitsAreCounted'
    BY <1>13, <2>5 DEF RecordResult, Counted, GoTo, Stops, UnitsAreCounted, RunTypes
  <2> QED BY <2>1, <2>2, <2>3, <2>4, <2>6
<1>14. ASSUME NEW u \in Units, Resume(u) PROVE ControlInv'
  <2>1. RunTypes'
    BY <1>14, <1>0 DEF Resume, GoTo, RunTypes, Rounds
  <2>2. Admission'
    BY <1>14 DEF Resume, GoTo, RunTypes, Admission, Gone
  <2>3. Rounds'
    BY <1>14, <1>0 DEF Resume, GoTo, RunTypes, Rounds
  <2>4. Shutdown'
    BY <1>14 DEF Resume, GoTo, Shutdown, RunTypes, Admission, Gone
  <2>5. FinishedUnits' = FinishedUnits
    BY <1>14 DEF Resume, GoTo, RunTypes, FinishedUnits
  <2>6. UnitsAreCounted'
    BY <1>14, <2>5 DEF Resume, GoTo, UnitsAreCounted, RunTypes
  <2> QED BY <2>1, <2>2, <2>3, <2>4, <2>6
<1>15. ASSUME NEW u \in Units, UnitDone(u) PROVE ControlInv'
  <2>1. RunTypes'
    <3>1. stats.finished + 1 \in Nat
      BY DEF RunTypes
    <3>2. stats' \in [submitted : Nat, completed : Nat, failed : Nat, finished : Nat]
      BY <1>15, <3>1 DEF UnitDone, RunTypes
    <3> QED BY <1>15, <3>2 DEF UnitDone, GoTo, RunTypes
  <2>2. Admission'
    BY <1>15 DEF UnitDone, GoTo, RunTypes, Admission, Gone
  <2>3. Rounds'
    BY <1>15, <1>0 DEF UnitDone, GoTo, RunTypes, Rounds
  <2>4. Shutdown'
    BY <1>15 DEF UnitDone, GoTo, Shutdown, RunTypes, Admission, Gone
  <2>5. FinishedUnits' = FinishedUnits \cup {u} /\ u \notin FinishedUnits
    BY <1>15 DEF UnitDone, GoTo, RunTypes, FinishedUnits
  <2>6. IsFiniteSet(FinishedUnits)
    <3>1. IsFiniteSet(Units) /\ FinishedUnits \subseteq Units
      BY FS_Interval DEF FinishedUnits
    <3> QED BY <3>1, FS_Subset
  <2>7. Cardinality(FinishedUnits') = Cardinality(FinishedUnits) + 1
    BY <2>5, <2>6, FS_AddElement
  <2>8. UnitsAreCounted'
    BY <1>15, <2>5, <2>7 DEF UnitDone, GoTo, UnitsAreCounted, RunTypes
  <2> QED BY <2>1, <2>2, <2>3, <2>4, <2>8
<1>16. CASE LogOpen
  <2>1. RunTypes'
    BY <1>16 DEF LogOpen, RunTypes
  <2>2. Admission' /\ Rounds'
    BY <1>16 DEF LogOpen, Admission, Rounds
  <2>3. Shutdown'
    BY <1>16 DEF LogOpen, Shutdown, Admission
  <2>4. UnitsAreCounted'
    BY <1>16 DEF LogOpen, UnitsAreCounted, FinishedUnits
  <2> QED BY <2>1, <2>2, <2>3, <2>4
<1>17. CASE LogOpenPanics
  <2>1. RunTypes'
    BY <1>17 DEF LogOpenPanics, RunTypes
  <2>2. Admission' /\ Rounds'
    BY <1>17 DEF LogOpenPanics, Admission, Rounds
  <2>3. Shutdown'
    BY <1>17 DEF LogOpenPanics, Shutdown, Admission
  <2>4. UnitsAreCounted'
    BY <1>17 DEF LogOpenPanics, UnitsAreCounted, FinishedUnits
  <2> QED BY <2>1, <2>2, <2>3, <2>4
<1>18. CASE LogFold
  <2>1. RunTypes'
    <3>0. logq \in Seq(Units \X Verdicts) /\ logq # <<>> /\ Len(logq) <= LogCap
      BY <1>18 DEF LogFold, RunTypes
    <3>1. Head(logq) \in Units \X Verdicts /\ Tail(logq) \in Seq(Units \X Verdicts)
          /\ Len(Tail(logq)) <= LogCap
      BY <3>0
    <3>2. Head(logq)[1] \in Units /\ Head(logq)[2] \in Verdicts
      BY <3>1
    <3>3. folded' \in [Units -> Seq(Verdicts)]
      <4>1. folded' = [folded EXCEPT ![Head(logq)[1]] = Append(@, Head(logq)[2])]
        BY <1>18 DEF LogFold
      <4>2. folded \in [Units -> Seq(Verdicts)]
        BY DEF RunTypes
      <4>3. Append(folded[Head(logq)[1]], Head(logq)[2]) \in Seq(Verdicts)
        BY <3>2, <4>2
      <4> QED BY <4>1, <4>2, <4>3
    <3>4. /\ UNCHANGED <<plan, runner, next, active, pc, round, verdict, stats, logger, status>>
          /\ logq' = Tail(logq)
      BY <1>18 DEF LogFold
    <3> QED BY <3>1, <3>3, <3>4 DEF RunTypes
  <2>2. Admission' /\ Rounds'
    BY <1>18 DEF LogFold, Admission, Rounds
  <2>3. Shutdown'
    BY <1>18 DEF LogFold, Shutdown, Admission
  <2>4. UnitsAreCounted'
    BY <1>18 DEF LogFold, UnitsAreCounted, FinishedUnits
  <2> QED BY <2>1, <2>2, <2>3, <2>4
<1>19. CASE LogEnd
  <2>1. RunTypes'
    BY <1>19 DEF LogEnd, RunTypes
  <2>2. Admission' /\ Rounds'
    BY <1>19 DEF LogEnd, Admission, Rounds
  <2>3. Shutdown'
    BY <1>19 DEF LogEnd, Shutdown, Admission
  <2>4. UnitsAreCounted'
    BY <1>19 DEF LogEnd, UnitsAreCounted, FinishedUnits
  <2> QED BY <2>1, <2>2, <2>3, <2>4
<1>20. CASE StatusTick
  <2>1. RunTypes' /\ Admission' /\ Rounds' /\ Shutdown'
    BY <1>20 DEF StatusTick, RunTypes, Admission, Rounds, Shutdown
  <2>2. stats.finished >= N => FinishedUnits = Units
    <3>1. FinishedUnits \subseteq Units /\ IsFiniteSet(Units) /\ Cardinality(Units) = N
      BY FS_Interval DEF FinishedUnits
    <3>2. Cardinality(FinishedUnits) <= N
      BY <3>1, FS_Subset
    <3>3. stats.finished >= N => Cardinality(FinishedUnits) = Cardinality(Units)
      BY <3>1, <3>2 DEF UnitsAreCounted, RunTypes
    <3> QED BY <3>1, <3>3, FS_Subset
  <2>3. FinishedUnits' = FinishedUnits
    BY <1>20 DEF StatusTick, FinishedUnits
  <2>4. UnitsAreCounted'
    BY <1>20, <2>2, <2>3 DEF StatusTick, UnitsAreCounted
  <2> QED BY <2>1, <2>4
<1>21. CASE TimelineStep
  <2>1. RunTypes' /\ Admission' /\ Rounds' /\ UnitsAreCounted'
    BY <1>21 DEF TimelineStep, RunTypes, Admission, Rounds, UnitsAreCounted, FinishedUnits
  <2>2. Shutdown'
    BY <1>21, TimelineEffects DEF TimelineStep, Shutdown
  <2> QED BY <2>1, <2>2
<1>22. CASE UNCHANGED vars
  <2>1. UNCHANGED <<plan, runner, next, active, pc, round, verdict, stats, logq, logger,
                    folded, status, open, writer>>
    BY <1>22 DEF vars
  <2>2. RunTypes' /\ Admission'
    BY <2>1 DEF RunTypes, Admission
  <2>3. Rounds' /\ Shutdown' /\ UnitsAreCounted'
    BY <2>1 DEF Rounds, Shutdown, UnitsAreCounted, FinishedUnits
  <2> QED BY <2>2, <2>3
<1> QED
  BY <1>1, <1>2, <1>3, <1>4, <1>5, <1>6, <1>7, <1>8, <1>9, <1>10, <1>11, <1>12, <1>13, <1>14, <1>15, <1>16, <1>17, <1>18, <1>19, <1>20, <1>21, <1>22
  DEF Next, RunnerStep, TaskStep, LoggerStep, Terminated

-----------------------------------------------------------------------------
(* The timeline path inside a run takes only steps of its own specification,  *)
(* so its invariant holds in a run.                                           *)

\* Every step of a run is a step of the timeline path or leaves it alone.
LEMMA TimelineFollows ==
  ASSUME ControlInv, [Next]_vars
  PROVE  [TlNext]_tlVars
<1> USE DEF taskVars, logVars, tlVars, TlNext
<1>1. CASE DriveEnds
  BY <1>1 DEF DriveEnds
<1>2. ASSUME NEW u \in Units, NEW v \in {"ok", "fail"}, NEW k \in 0 .. MaxEvents,
             Respond(u, v, k)
      PROVE  [TlNext]_tlVars
  <2>1. \A w \in Units : plan.rounds[w] \in 1 .. MaxRounds
    BY PlanFacts DEF ControlInv
  <2>2. round[u] \in 0 .. MaxRounds /\ round[u] >= 1
    BY <1>2 DEF ControlInv, RunTypes, Rounds, Respond
  <2>3. <<u, round[u]>> \in Units \X (1 .. MaxRounds)
    BY <2>2, ReplayAssumption
  <2>4. Offer(<<u, round[u]>>, k) \/ UNCHANGED tlVars
    BY <1>2 DEF Respond
  <2> QED BY <2>3, <2>4, ReplayAssumption
<1>3. CASE TimelineStep
  BY <1>3 DEF TimelineStep
<1>4. CASE UNCHANGED tlVars
  BY <1>4
<1>5. \/ DriveEnds
      \/ \E u \in Units, v \in {"ok", "fail"}, k \in 0 .. MaxEvents : Respond(u, v, k)
      \/ TimelineStep
      \/ UNCHANGED tlVars
  BY DEF Next, RunnerStep, TaskStep, LoggerStep, Terminated, vars, Admit, Join, AwaitLog,
         AwaitStatus, AwaitTimeline, Arrive, Panic, Submit, Skip, Submitted, SendLog,
         RecordResult, Resume, UnitDone, LogOpen, LogOpenPanics, LogFold, LogEnd, StatusTick
<1> QED BY <1>1, <1>2, <1>3, <1>4, <1>5

\* The state of a run, its timeline path included, is always well formed and the
\* control invariant holds.
THEOREM ReplayInvariant == Spec => [](ControlInv /\ TimelineInv)
<1>1. Init => ControlInv /\ TimelineInv
  <2>1. ASSUME Init PROVE TlInit
    BY <2>1 DEF Init
  <2>2. TlInit => TimelineInv
    BY TimelineInvInit
  <2> QED BY <2>1, <2>2, ControlInit
<1>2. ControlInv /\ TimelineInv /\ [Next]_vars => (ControlInv /\ TimelineInv)'
  <2> SUFFICES ASSUME ControlInv, TimelineInv, [Next]_vars
               PROVE  ControlInv' /\ TimelineInv'
    OBVIOUS
  <2>1. [TlNext]_tlVars
    BY TimelineFollows
  <2>2. TimelineInv'
    BY <2>1, TimelineInvStep
  <2> QED BY <2>2, ControlStep
<1> QED BY <1>1, <1>2, PTL DEF Spec

\* Types hold in every reachable state of a run, for every number of units,
\* every workload, channel capacity and choice of faults.
THEOREM ReplayTypes == Spec => []TypeOK
<1>1. ControlInv /\ TimelineInv => TypeOK
  BY DEF ControlInv, TimelineInv, TypeOK
<1> QED BY <1>1, ReplayInvariant, PTL

\* A run counts the timelines it drops, through a full channel and through a file
\* that cannot be written.
THEOREM ReplayCountsDrops == Spec => []DroppedCountIsFinal
  BY TimelineCountsDrops, ReplayInvariant, PTL

\* A run whose timeline file takes everything has each timeline in it or counted.
THEOREM ReplayLosesNoTimeline == Spec => []NothingLostInSilence
  BY TimelineLosesNothing, ReplayInvariant, PTL

\* The reporter, and with it the runner, goes on only after the last unit.
THEOREM ReplayStatusExitsLast == Spec => []StatusExitsLast
<1>1. ControlInv => StatusExitsLast
  BY DEF ControlInv, UnitsAreCounted, FinishedUnits, StatusExitsLast
<1> QED BY <1>1, ReplayInvariant, PTL

\* No writer ends while a unit may still send to it.
THEOREM ReplayWritersOutliveExecutors == Spec => []WritersOutliveExecutors
<1>1. ControlInv /\ TimelineInv => WritersOutliveExecutors
  <2> SUFFICES ASSUME ControlInv, TimelineInv, NEW u \in Units, pc[u] \notin Gone
               PROVE  /\ logger # "done"
                      /\ plan.timeline => open /\ writer # "finished"
    BY DEF WritersOutliveExecutors
  <2>1. runner = "drive"
    <3>1. CASE u >= next
      BY <3>1, ReplayAssumption DEF ControlInv, Admission, RunTypes, Units
    <3>2. CASE u < next
      BY <3>2 DEF ControlInv, Admission
    <3> QED BY <3>1, <3>2 DEF ControlInv, RunTypes, Units
  <2>2. open /\ logger # "done"
    BY <2>1 DEF ControlInv, Shutdown
  <2>3. writer # "finished"
    BY <2>2 DEF TimelineInv, FinishedIsFinal
  <2> QED BY <2>2, <2>3
<1> QED BY <1>1, ReplayInvariant, PTL

-----------------------------------------------------------------------------
(* Records.  A set of positions of the log channel is moved by one when the   *)
(* head is taken, and gains at most the last position when a record is sent.  *)

ChannelOf(u) == {i \in DOMAIN logq : logq[i][1] = u}

\* The records of a unit in the channel can be counted.
LEMMA ChannelOfIsFinite ==
  ASSUME RunTypes, NEW u
  PROVE  /\ DOMAIN logq = 1 .. Len(logq) /\ Len(logq) \in Nat
         /\ IsFiniteSet(ChannelOf(u)) /\ Cardinality(ChannelOf(u)) \in Nat
<1>1. DOMAIN logq = 1 .. Len(logq) /\ Len(logq) \in Nat
  BY DEF RunTypes
<1>2. IsFiniteSet(1 .. Len(logq)) /\ ChannelOf(u) \subseteq 1 .. Len(logq)
  BY <1>1, FS_Interval DEF ChannelOf
<1> QED BY <1>1, <1>2, FS_Subset, FS_CardinalityType

\* A record put at the end of the channel is one more of its unit and of no other.
LEMMA SentRecord ==
  ASSUME RunTypes, NEW u \in Units, NEW v \in Verdicts, logq' = Append(logq, <<u, v>>),
         NEW w \in Units
  PROVE  InChannel(w)' = InChannel(w) + (IF w = u THEN 1 ELSE 0)
<1> DEFINE n == Len(logq)
<1>1. /\ n \in Nat /\ DOMAIN logq = 1 .. n /\ DOMAIN logq' = 1 .. n + 1
      /\ \A i \in 1 .. n : logq'[i] = logq[i]
      /\ logq'[n + 1] = <<u, v>>
  BY DEF RunTypes
<1>2. w = u => ChannelOf(w)' = ChannelOf(w) \cup {n + 1} /\ n + 1 \notin ChannelOf(w)
  BY <1>1 DEF ChannelOf
<1>3. w # u => ChannelOf(w)' = ChannelOf(w)
  BY <1>1 DEF ChannelOf
<1>4. IsFiniteSet(ChannelOf(w)) /\ Cardinality(ChannelOf(w)) \in Nat
  BY ChannelOfIsFinite
<1>5. w = u => Cardinality(ChannelOf(w)') = Cardinality(ChannelOf(w)) + 1
  BY <1>2, <1>4, FS_AddElement
<1>6. InChannel(w) = Cardinality(ChannelOf(w)) /\ InChannel(w)' = Cardinality(ChannelOf(w)')
  BY DEF InChannel, ChannelOf
<1> QED BY <1>3, <1>4, <1>5, <1>6

\* The record taken from the head of the channel is one less of its unit only.
LEMMA TakenRecord ==
  ASSUME RunTypes, logq # <<>>, logq' = Tail(logq), NEW w \in Units
  PROVE  /\ InChannel(w)' = InChannel(w) - (IF w = Head(logq)[1] THEN 1 ELSE 0)
         /\ w = Head(logq)[1] => InChannel(w) >= 1
<1> DEFINE n == Len(logq)
           S == ChannelOf(w) \ {1}
           T == ChannelOf(w)'
           f == [i \in S |-> i - 1]
<1>1. /\ n \in Nat /\ n >= 1 /\ Head(logq) = logq[1]
      /\ DOMAIN logq = 1 .. n /\ DOMAIN logq' = 1 .. n - 1
      /\ \A i \in 1 .. n - 1 : logq'[i] = logq[i + 1]
  BY DEF RunTypes
<1>2. \A i \in S : i \in 2 .. n /\ i - 1 \in 1 .. n - 1 /\ (i - 1) + 1 = i /\ logq[i][1] = w
  BY <1>1 DEF ChannelOf
<1>3. \A j \in T : j \in 1 .. n - 1 /\ j + 1 \in S /\ (j + 1) - 1 = j
  BY <1>1 DEF ChannelOf
<1>4. \A i \in S : i - 1 \in T
  BY <1>1, <1>2 DEF ChannelOf
<1>5. f \in [S -> T] /\ \A i, j \in S : f[i] = f[j] => i = j
  BY <1>2, <1>4
<1>6. \A j \in T : \E i \in S : f[i] = j
  BY <1>3
<1>7. f \in Bijection(S, T)
  BY <1>5, <1>6 DEF Bijection, Injection, Surjection, IsInjective
<1>8. IsFiniteSet(ChannelOf(w)) /\ Cardinality(ChannelOf(w)) \in Nat
  BY ChannelOfIsFinite
<1>9. /\ IsFiniteSet(S)
      /\ Cardinality(S) = IF 1 \in ChannelOf(w) THEN Cardinality(ChannelOf(w)) - 1
                                                 ELSE Cardinality(ChannelOf(w))
  BY <1>8, FS_RemoveElement
<1>10. Cardinality(T) = Cardinality(S) /\ Cardinality(S) \in Nat
  BY <1>7, <1>9, FS_Bijection, FS_CardinalityType DEF ExistsBijection
<1>11. 1 \in ChannelOf(w) <=> w = Head(logq)[1]
  BY <1>1 DEF ChannelOf
<1>12. InChannel(w) = Cardinality(ChannelOf(w)) /\ InChannel(w)' = Cardinality(T)
  BY DEF InChannel, ChannelOf
<1>13. 1 \in ChannelOf(w) => Cardinality(ChannelOf(w)) >= 1
  BY <1>8, <1>9, <1>10
<1> QED BY <1>8, <1>9, <1>10, <1>11, <1>12, <1>13

\* A step that changes neither the records nor what a unit still owes.
LEMMA RecordsUntouched ==
  ASSUME EveryRoundRecordedOnce, UNCHANGED <<round, logq, logger, folded>>,
         \A w \in Units : Unsent(w)' = Unsent(w)
  PROVE  EveryRoundRecordedOnce'
<1>1. \A w \in Units : InChannel(w)' = InChannel(w)
  BY DEF InChannel
<1> QED BY <1>1 DEF EveryRoundRecordedOnce

\* Nothing is attempted and nothing recorded when a run starts.
LEMMA RecordsInit == Init => EveryRoundRecordedOnce
<1> SUFFICES ASSUME Init, NEW u \in Units
             PROVE  round[u] = Len(folded[u]) + InChannel(u) + Unsent(u)
  BY DEF EveryRoundRecordedOnce
<1>1. {i \in DOMAIN logq : logq[i][1] = u} = {}
  BY DEF Init
<1>2. InChannel(u) = 0
  BY <1>1, FS_EmptySet DEF InChannel
<1>3. round[u] = 0 /\ Len(folded[u]) = 0 /\ Unsent(u) = 0
  BY DEF Init, Unsent
<1> QED BY <1>2, <1>3

\* Every step moves a record on, or leaves all of them where they are.
LEMMA RecordsStep ==
  ASSUME ControlInv, EveryRoundRecordedOnce, [Next]_vars
  PROVE  EveryRoundRecordedOnce'
<1> USE DEF ControlInv
<1> USE DEF taskVars, logVars, tlVars
<1>0. /\ \A w \in Units : InChannel(w) \in Nat /\ Len(folded[w]) \in Nat
      /\ \A w \in Units : Unsent(w) \in Nat /\ round[w] \in Nat
  <2>1. \A w \in Units : InChannel(w) = Cardinality(ChannelOf(w))
    BY DEF InChannel, ChannelOf
  <2>2. \A w \in Units : InChannel(w) \in Nat
    BY <2>1, ChannelOfIsFinite
  <2> QED BY <2>2 DEF RunTypes, Unsent
<1>1. CASE RunnerStep \/ LogOpen \/ LogEnd \/ StatusTick \/ TimelineStep \/ UNCHANGED vars
  <2>1. UNCHANGED <<round, logq, folded>> /\ (logger' = "panicked" <=> logger = "panicked")
    BY <1>1
    DEF RunnerStep, Admit, Join, DriveEnds, AwaitLog, AwaitStatus, AwaitTimeline,
        LogOpen, LogEnd, StatusTick, TimelineStep, vars
  <2>2. \A w \in Units : Unsent(w)' = Unsent(w)
    <3>1. CASE Admit
      <4>1. next \in Units /\ pc[next] = "unborn" /\ pc' = [pc EXCEPT ![next] = "arriving"]
        BY <3>1, ReplayAssumption DEF Admit, Admission, RunTypes, Units
      <4> QED BY <4>1 DEF RunTypes, Unsent
    <3>2. CASE ~Admit
      <4>1. pc' = pc
        BY <1>1, <3>2
        DEF RunnerStep, Join, DriveEnds, AwaitLog, AwaitStatus, AwaitTimeline, LogOpen,
            LogEnd, StatusTick, TimelineStep, vars
      <4> QED BY <4>1 DEF Unsent
    <3> QED BY <3>1, <3>2
  <2>3. \A w \in Units : InChannel(w)' = InChannel(w)
    BY <2>1 DEF InChannel
  <2> QED BY <2>1, <2>2, <2>3 DEF EveryRoundRecordedOnce
<1>2. ASSUME NEW u \in Units,
             \/ Arrive(u) \/ Panic(u) \/ RecordResult(u) \/ Resume(u) \/ UnitDone(u)
             \/ \E v \in {"ok", "fail"}, k \in 0 .. MaxEvents : Respond(u, v, k)
      PROVE  EveryRoundRecordedOnce'
  <2>1. UNCHANGED <<round, logq, logger, folded>>
    BY <1>2 DEF Arrive, Panic, RecordResult, Resume, UnitDone, Respond
  <2>2. \A w \in Units : Unsent(w)' = Unsent(w)
    BY <1>2 DEF Arrive, Panic, RecordResult, Resume, UnitDone, Respond, GoTo, RunTypes, Unsent
  <2> QED BY <2>1, <2>2, RecordsUntouched
<1>3. ASSUME NEW u \in Units, Submit(u) \/ Skip(u) PROVE EveryRoundRecordedOnce'
  <2>1. /\ UNCHANGED <<logq, logger, folded>> /\ pc[u] = "ready"
        /\ round' = [round EXCEPT ![u] = @ + 1]
    BY <1>3 DEF Submit, Skip, Submitted
  <2>2. \A w \in Units : Unsent(w)' = Unsent(w) + (IF w = u THEN 1 ELSE 0)
    BY <1>3, <2>1 DEF Submit, Skip, Submitted, GoTo, RunTypes, Unsent
  <2>3. \A w \in Units : round'[w] = round[w] + (IF w = u THEN 1 ELSE 0)
    BY <2>1, <1>0 DEF RunTypes
  <2>4. \A w \in Units : InChannel(w)' = InChannel(w)
    BY <2>1 DEF InChannel
  <2> QED BY <1>0, <2>1, <2>2, <2>3, <2>4 DEF EveryRoundRecordedOnce
<1>4. ASSUME NEW u \in Units, SendLog(u) PROVE EveryRoundRecordedOnce'
  <2>1. CASE logger = "panicked"
    BY <1>4, <2>1 DEF SendLog, EveryRoundRecordedOnce
  <2>2. CASE logger # "panicked"
    <3>1. /\ logq' = Append(logq, <<u, verdict[u]>>) /\ verdict[u] \in Verdicts
          /\ UNCHANGED <<round, folded, logger>>
      BY <1>4, <2>2 DEF SendLog, RunTypes
    <3>2. \A w \in Units : InChannel(w)' = InChannel(w) + (IF w = u THEN 1 ELSE 0)
      BY <3>1, SentRecord
    <3>3. \A w \in Units : Unsent(w)' = Unsent(w) - (IF w = u THEN 1 ELSE 0)
      BY <1>4 DEF SendLog, GoTo, RunTypes, Unsent
    <3>4. \A w \in Units : round[w] = Len(folded[w]) + InChannel(w) + Unsent(w)
      BY <2>2 DEF EveryRoundRecordedOnce
    <3>5. ASSUME NEW w \in Units
          PROVE  Len(folded[w]) + InChannel(w)' + Unsent(w)' = round[w]
      <4>1. /\ InChannel(w)' = InChannel(w) + (IF w = u THEN 1 ELSE 0)
            /\ Unsent(w)' = Unsent(w) - (IF w = u THEN 1 ELSE 0)
            /\ round[w] = Len(folded[w]) + InChannel(w) + Unsent(w)
            /\ InChannel(w) \in Nat /\ Len(folded[w]) \in Nat /\ Unsent(w) \in Nat
        BY <1>0, <3>2, <3>3, <3>4
      <4> QED BY <4>1
    <3> QED BY <3>1, <3>5 DEF EveryRoundRecordedOnce
  <2> QED BY <2>1, <2>2
<1>5. CASE LogOpenPanics
  BY <1>5 DEF LogOpenPanics, EveryRoundRecordedOnce
<1>6. CASE LogFold
  <2> DEFINE h == Head(logq)[1]
  <2>1. /\ logq # <<>> /\ logq' = Tail(logq) /\ UNCHANGED <<round, logger>>
        /\ folded' = [folded EXCEPT ![h] = Append(@, Head(logq)[2])]
    BY <1>6 DEF LogFold
  <2>2. Head(logq) \in Units \X Verdicts
    BY <2>1 DEF RunTypes
  <2>3. \A w \in Units : InChannel(w)' = InChannel(w) - (IF w = h THEN 1 ELSE 0)
    BY <2>1, TakenRecord
  <2>4. h \in Units /\ Head(logq)[2] \in Verdicts
    BY <2>2
  <2>5. \A w \in Units : Len(folded'[w]) = Len(folded[w]) + (IF w = h THEN 1 ELSE 0)
    BY <2>1, <2>4 DEF RunTypes
  <2>6. \A w \in Units : Unsent(w)' = Unsent(w)
    BY <1>6 DEF LogFold, Unsent
  <2>7. logger # "panicked"
    BY <1>6 DEF LogFold
  <2>8. ASSUME NEW w \in Units
        PROVE  Len(folded'[w]) + InChannel(w)' + Unsent(w)' = round[w]
    <3>1. /\ InChannel(w)' = InChannel(w) - (IF w = h THEN 1 ELSE 0)
          /\ Len(folded'[w]) = Len(folded[w]) + (IF w = h THEN 1 ELSE 0)
          /\ Unsent(w)' = Unsent(w)
          /\ round[w] = Len(folded[w]) + InChannel(w) + Unsent(w)
          /\ InChannel(w) \in Nat /\ Len(folded[w]) \in Nat /\ Unsent(w) \in Nat
      BY <1>0, <2>3, <2>5, <2>6, <2>7 DEF EveryRoundRecordedOnce
    <3> HIDE DEF h
    <3>2. CASE w = h
      BY <3>1, <3>2
    <3>3. CASE w # h
      BY <3>1, <3>3
    <3> QED BY <3>2, <3>3
  <2> QED BY <2>1, <2>8 DEF EveryRoundRecordedOnce
<1> QED
  BY <1>1, <1>2, <1>3, <1>4, <1>5, <1>6 DEF Next, TaskStep, LoggerStep, Terminated

RecordInv == ControlInv /\ EveryRoundRecordedOnce

\* The control invariant and the account of the records hold in every run.
LEMMA RecordInvariant == Spec => []RecordInv
<1>1. Init => RecordInv
  BY ControlInit, RecordsInit DEF RecordInv
<1>2. RecordInv /\ [Next]_vars => RecordInv'
  BY ControlStep, RecordsStep DEF RecordInv
<1> QED BY <1>1, <1>2, PTL DEF Spec

\* Until its writer dies the log loses no attempted round and repeats none.
THEOREM ReplayEveryRoundRecordedOnce == Spec => []EveryRoundRecordedOnce
<1>1. RecordInv => EveryRoundRecordedOnce
  BY DEF RecordInv
<1> QED BY <1>1, RecordInvariant, PTL

-----------------------------------------------------------------------------
(* The run implements its contract.                                           *)

Recorded == [u \in Units |-> Len(folded[u])]
Job == [rounds |-> plan.rounds, window |-> plan.window]

\* Only a unit whose task lives is open in the contract.
LEMMA LivingUnits ==
  ASSUME ControlInv, NEW u \in Units
  PROVE  u \in Living <=> pc[u] \notin {"unborn", "ended", "panicked"}
BY ReplayAssumption DEF ControlInv, Living, Admission, RunTypes, Units, Gone

\* The units whose task lives are finitely many, and no more than the JoinSet.
LEMMA LivingIsBounded ==
  ASSUME ControlInv
  PROVE  /\ Living \subseteq Units
         /\ Cardinality(Living) <= Cardinality(active)
         /\ Cardinality(Living) \in Nat /\ Cardinality(active) \in Nat
<1>1. Living \subseteq active /\ active \subseteq Units
  BY DEF Living, ControlInv, RunTypes
<1>2. IsFiniteSet(Units)
  BY FS_Interval, ReplayAssumption DEF Units
<1>3. IsFiniteSet(active)
  BY <1>1, <1>2, FS_Subset
<1>4. IsFiniteSet(Living) /\ Cardinality(Living) <= Cardinality(active)
  BY <1>1, <1>3, FS_Subset
<1> QED BY <1>1, <1>3, <1>4, FS_CardinalityType

\* A run starts where its contract starts.
LEMMA ContractInit == Init => Contract!Init
<1> SUFFICES ASSUME Init PROVE Contract!Init
  OBVIOUS
<1>1. Job \in {[rounds |-> p.rounds, window |-> p.window] : p \in Plans}
  BY DEF Init, Job
<1>2. Living = {} /\ next - 1 = 0 /\ runner # "done"
  BY DEF Init, Living
<1>3. round = [u \in 1 .. N |-> 0]
  BY DEF Init, Units
<1>4. Recorded = [u \in 1 .. N |-> 0]
  BY DEF Init, Recorded, Units
<1> QED BY <1>1, <1>2, <1>3, <1>4 DEF Contract!Init, Job, Recorded

\* A step that admits, attempts, records, closes and completes nothing.
LEMMA ContractStutter ==
  ASSUME UNCHANGED <<plan, next, round>>, Living' = Living, folded' = folded,
         (runner' = "done") = (runner = "done")
  PROVE  UNCHANGED Contract!contractVars
<1>1. Recorded' = Recorded /\ Job' = Job
  BY DEF Recorded, Job
<1> QED BY <1>1 DEF Contract!contractVars, Recorded, Job

\* Every step of a run is a step of its contract or changes nothing of it.
LEMMA ContractStep ==
  ASSUME RecordInv, RecordInv', [Next]_vars
  PROVE  [Contract!Next]_(Contract!contractVars)
<1> USE DEF RecordInv
<1> USE DEF taskVars, logVars, tlVars
<1>0. /\ next \in 1 .. N + 1 /\ N \in Nat
      /\ Job.window = plan.window /\ Job.rounds = plan.rounds
      /\ plan.window \in Nat
  BY ReplayAssumption, PlanFacts DEF ControlInv, RunTypes, Job
<1>1. CASE Admit
  <2>0. Contract!Cardinality(Living) = Cardinality(Living)
    BY DEF Cardinality, Contract!Cardinality
  <2>1. /\ next - 1 < N /\ Cardinality(Living) < Job.window
    BY <1>0, <1>1, LivingIsBounded DEF Admit
  <2>2. /\ next' - 1 = (next - 1) + 1
        /\ UNCHANGED <<plan, round, folded, runner>>
        /\ pc' = [pc EXCEPT ![next] = "arriving"] /\ next \in Units
    BY <1>0, <1>1 DEF Admit, Units
  <2>3. Living' = Living \cup {next' - 1}
    <3>1. active' = active \cup {next} /\ next \notin active /\ next' - 1 = next
      BY <1>0, <1>1 DEF Admit, ControlInv, Admission
    <3>2. pc'[next] = "arriving" /\ \A u \in Units : u # next => pc'[u] = pc[u]
      BY <2>2 DEF ControlInv, RunTypes
    <3> QED BY <3>1, <3>2 DEF Living, Gone, ControlInv, RunTypes
  <2>4. Recorded' = Recorded /\ Job' = Job
    BY <2>2 DEF Recorded, Job
  <2>5. (runner' = "done") = (runner = "done")
    BY <2>2
  <2>6. Contract!Start
    <3>1. (next - 1)' = (next - 1) + 1 /\ Living' = Living \cup {(next - 1)'}
      BY <2>2, <2>3
    <3> QED BY <2>0, <2>1, <2>2, <2>4, <2>5, <3>1 DEF Contract!Start, Recorded, Job
  <2> QED BY <2>6 DEF Contract!Next
<1>2. ASSUME NEW u \in Units, Join(u) PROVE UNCHANGED Contract!contractVars
  <2>1. UNCHANGED <<plan, next, round, folded, runner, pc>> /\ active' = active \ {u} /\ pc[u] \in Gone
    BY <1>2 DEF Join
  <2>2. Living' = Living
    BY <2>1 DEF Living
  <2> QED BY <2>1, <2>2, ContractStutter
<1>3. CASE DriveEnds \/ AwaitLog \/ AwaitStatus \/ LogOpen \/ LogOpenPanics \/ LogEnd
           \/ StatusTick \/ TimelineStep
  <2>1. /\ UNCHANGED <<plan, next, round, folded, pc, active>>
        /\ (runner' # "done" /\ runner # "done") \/ runner' = runner
    BY <1>3
    DEF DriveEnds, AwaitLog, AwaitStatus, LogOpen, LogOpenPanics, LogEnd, StatusTick,
        TimelineStep
  <2>2. Living' = Living
    BY <2>1 DEF Living
  <2>3. (runner' = "done") = (runner = "done")
    BY <2>1
  <2> QED BY <2>1, <2>2, <2>3, ContractStutter
<1>4. CASE AwaitTimeline
  <2>1. /\ UNCHANGED <<plan, next, round, folded, pc, active, logq>>
        /\ runner = "await_timeline" /\ runner' = "done"
    BY <1>4 DEF AwaitTimeline
  <2>2. logger = "done" /\ logq = <<>> /\ next = N + 1 /\ active = {}
    BY <2>1 DEF ControlInv, Shutdown, Admission
  <2>3. Living = {} /\ Living' = {} /\ next - 1 = N
    BY <1>0, <2>1, <2>2 DEF Living
  <2>4. ASSUME NEW u \in Units PROVE round[u] = Len(folded[u])
    <3>1. {i \in DOMAIN logq : logq[i][1] = u} = {}
      BY <2>2
    <3>2. InChannel(u) = 0
      BY <3>1, FS_EmptySet DEF InChannel
    <3>3. Unsent(u) = 0
      BY <2>3, LivingUnits DEF Unsent
    <3>4. round[u] = Len(folded[u]) + InChannel(u) + Unsent(u)
      BY <2>2 DEF EveryRoundRecordedOnce
    <3> QED BY <3>2, <3>3, <3>4 DEF ControlInv, RunTypes
  <2>5. Recorded = round
    BY <2>4 DEF Recorded, ControlInv, RunTypes
  <2>6. Recorded' = Recorded /\ Job' = Job
    BY <2>1 DEF Recorded, Job
  <2>7. Contract!Complete
    BY <2>1, <2>3, <2>5, <2>6 DEF Contract!Complete, Recorded, Job
  <2> QED BY <2>7 DEF Contract!Next
<1>5. ASSUME NEW u \in Units,
             \/ Arrive(u) \/ SendLog(u) \/ RecordResult(u) \/ Resume(u)
             \/ \E v \in {"ok", "fail"}, k \in 0 .. MaxEvents : Respond(u, v, k)
      PROVE  UNCHANGED Contract!contractVars
  <2>1. UNCHANGED <<plan, next, round, folded, runner, active>>
    BY <1>5 DEF Arrive, SendLog, RecordResult, Resume, Respond
  <2>2. /\ pc[u] \notin Gone /\ pc'[u] \notin Gone
        /\ \A w \in Units \ {u} : pc'[w] = pc[w]
    BY <1>5
    DEF Arrive, SendLog, RecordResult, Resume, Respond, GoTo, Gone, ControlInv, RunTypes
  <2>3. Living' = Living
    BY <2>1, <2>2 DEF Living, ControlInv, RunTypes
  <2> QED BY <2>1, <2>3, ContractStutter
<1>6. ASSUME NEW u \in Units, Submit(u) \/ Skip(u)
      PROVE  [Contract!Next]_(Contract!contractVars)
  <2>1. /\ UNCHANGED <<plan, next, folded, runner, active>>
        /\ round' = [round EXCEPT ![u] = @ + 1] /\ pc[u] = "ready"
    BY <1>6 DEF Submit, Skip, Submitted
  <2>2. /\ pc'[u] \notin Gone
        /\ \A w \in Units \ {u} : pc'[w] = pc[w]
    BY <1>6 DEF Submit, Skip, Submitted, GoTo, Gone, ControlInv, RunTypes
  <2>3. Living' = Living
    BY <2>1, <2>2 DEF Living, Gone, ControlInv, RunTypes
  <2>4. u \in Living /\ round[u] < Job.rounds[u]
    BY <1>0, <2>1, LivingUnits DEF ControlInv, Rounds
  <2>5. Recorded' = Recorded /\ Job' = Job
    BY <2>1 DEF Recorded, Job
  <2>6. Contract!Attempt(u)
    BY <2>1, <2>3, <2>4, <2>5 DEF Contract!Attempt, Recorded, Job
  <2> QED BY <2>6 DEF Contract!Next, Units
<1>7. ASSUME NEW u \in Units, Panic(u) \/ UnitDone(u)
      PROVE  [Contract!Next]_(Contract!contractVars)
  <2>1. /\ UNCHANGED <<plan, next, round, folded, runner, active>>
        /\ pc[u] \in {"arriving", "pausing", "leaving"}
    BY <1>7 DEF Panic, UnitDone
  <2>2. /\ pc'[u] \in Gone
        /\ \A w \in Units \ {u} : pc'[w] = pc[w]
    BY <1>7 DEF Panic, UnitDone, GoTo, Gone, ControlInv, RunTypes
  <2>3. u \in Living /\ Living' = Living \ {u}
    BY <2>1, <2>2, LivingUnits DEF Living, ControlInv, RunTypes
  <2>4. Recorded' = Recorded /\ Job' = Job
    BY <2>1 DEF Recorded, Job
  <2>5. Contract!Close(u)
    BY <2>1, <2>3, <2>4 DEF Contract!Close, Recorded, Job
  <2> QED BY <2>5 DEF Contract!Next, Units
<1>8. CASE LogFold
  <2> DEFINE h == Head(logq)[1]
  <2>1. /\ logq # <<>> /\ logq' = Tail(logq) /\ logger = "folding"
        /\ UNCHANGED <<plan, next, round, runner, active, pc>>
        /\ folded' = [folded EXCEPT ![h] = Append(@, Head(logq)[2])]
    BY <1>8 DEF LogFold
  <2>2. h \in Units /\ Head(logq)[2] \in Verdicts
    <3>1. logq \in Seq(Units \X Verdicts) /\ logq # <<>>
      BY <2>1 DEF ControlInv, RunTypes
    <3>2. Head(logq) \in Units \X Verdicts
      BY <3>1
    <3> QED BY <3>2
  <2>3. InChannel(h) >= 1 /\ InChannel(h) \in Nat
    <3>1. InChannel(h) = Cardinality(ChannelOf(h))
      BY DEF InChannel, ChannelOf
    <3> QED BY <2>1, <2>2, <3>1, TakenRecord, ChannelOfIsFinite DEF ControlInv
  <2>4. Len(folded[h]) < round[h]
    <3>1. round[h] = Len(folded[h]) + InChannel(h) + Unsent(h)
      BY <2>1, <2>2 DEF EveryRoundRecordedOnce
    <3>2. Len(folded[h]) \in Nat /\ Unsent(h) \in Nat
      BY <2>2 DEF ControlInv, RunTypes, Unsent
    <3> QED BY <2>3, <3>1, <3>2
  <2> HIDE DEF h
  <2>5. Recorded' = [Recorded EXCEPT ![h] = @ + 1]
    <3>1. folded \in [Units -> Seq(Verdicts)]
      BY DEF ControlInv, RunTypes
    <3>2. folded' = [folded EXCEPT ![h] = Append(folded[h], Head(logq)[2])]
      BY <2>1
    <3>3. Len(folded'[h]) = Len(folded[h]) + 1
      BY <2>2, <3>1, <3>2
    <3>4. \A w \in Units : w # h => Len(folded'[w]) = Len(folded[w])
      BY <2>2, <3>1, <3>2
    <3>5. \A w \in Units : Recorded'[w] = IF w = h THEN Recorded[w] + 1 ELSE Recorded[w]
      BY <3>3, <3>4 DEF Recorded
    <3> QED BY <2>2, <3>5 DEF Recorded
  <2>6. Living' = Living /\ Job' = Job
    BY <2>1 DEF Living, Job
  <2>7. PICK u \in Units : u = h
    BY <2>2
  <2>8. Contract!Record(u)
    BY <2>1, <2>2, <2>4, <2>5, <2>6, <2>7 DEF Contract!Record, Recorded, Job
  <2> QED BY <2>8 DEF Contract!Next, Units
<1>9. CASE UNCHANGED vars
  <2>1. UNCHANGED <<plan, next, round, folded, runner, active, pc>>
    BY <1>9 DEF vars
  <2>2. Living' = Living
    BY <2>1 DEF Living
  <2> QED BY <2>1, <2>2, ContractStutter
<1> QED
  BY <1>1, <1>2, <1>3, <1>4, <1>5, <1>6, <1>7, <1>8, <1>9
  DEF Next, RunnerStep, TaskStep, LoggerStep, Terminated

\* A run implements the contract of module ReplayContract: units start in order
\* under the window, their rounds are attempted in order, each is recorded at
\* most once, and a completed run has recorded every attempt.
THEOREM ReplayImplementsContract == Spec => ImplementsContract
<1>1. Init => Contract!Init
  BY ContractInit
<1>2. RecordInv /\ RecordInv' /\ [Next]_vars => [Contract!Next]_(Contract!contractVars)
  BY ContractStep
<1> QED BY <1>1, <1>2, RecordInvariant, PTL DEF Spec, ImplementsContract, Contract!Spec

-----------------------------------------------------------------------------
(* Where a session stops. *)

StopKind(v) == v = "skip" \/ (v # "ok" /\ plan.stop)

\* The task is past its last round, and that round stopped it.
HasStopped(u) == pc[u] \in {"counting", "leaving", "ended"} /\ StopKind(verdict[u])

\* A record of a verdict that stops is the last of its unit, in the file and in
\* the channel, and the unit attempts nothing after it.
StopInv ==
  \A u \in Units :
    /\ \A i \in DOMAIN folded[u] : StopKind(folded[u][i]) =>
         /\ i = Len(folded[u]) /\ HasStopped(u)
         /\ \A j \in DOMAIN logq : logq[j][1] # u
    /\ \A i \in DOMAIN logq : logq[i][1] = u /\ StopKind(logq[i][2]) =>
         /\ HasStopped(u)
         /\ \A j \in DOMAIN logq : j > i => logq[j][1] # u

\* Who leaves has attempted every round, or was stopped.
LeaveInv ==
  \A u \in Units : pc[u] \in {"leaving", "ended"} =>
    round[u] = plan.rounds[u] \/ StopKind(verdict[u])

LEMMA StopInit == Init => StopInv /\ LeaveInv
BY DEF Init, StopInv, LeaveInv

\* What the step of one task does to itself, and that it does nothing to others.
LEMMA OthersStay ==
  ASSUME RunTypes, NEW u \in Units, TaskStep(u) \/ Panic(u), NEW w \in Units, w # u
  PROVE  pc'[w] = pc[w] /\ round'[w] = round[w] /\ verdict'[w] = verdict[w]
BY DEF TaskStep, Panic, Arrive, Submit, Skip, Submitted, Respond, SendLog, RecordResult, Resume,
       UnitDone, GoTo, RunTypes

\* A task that has stopped stays where it is, or goes on to its end.
LEMMA StoppedForGood ==
  ASSUME RunTypes, NEW u \in Units, TaskStep(u) \/ Panic(u), NEW w \in Units, HasStopped(w)
  PROVE  HasStopped(w)' /\ plan' = plan
<1>1. CASE w # u
  <2>1. plan' = plan
    BY DEF TaskStep, Panic, Arrive, Submit, Skip, Submitted, Respond, SendLog, RecordResult,
           Resume, UnitDone
  <2> QED BY <1>1, <2>1, OthersStay DEF HasStopped, StopKind
<1>2. CASE w = u
  BY <1>2 DEF HasStopped, StopKind, Stops, TaskStep, Panic, Arrive, Submit, Skip, Submitted,
              Respond, SendLog, RecordResult, Resume, UnitDone, GoTo, RunTypes
<1> QED BY <1>1, <1>2

LEMMA LeaveStep ==
  ASSUME ControlInv, LeaveInv, [Next]_vars
  PROVE  LeaveInv'
<1> USE DEF taskVars, logVars, tlVars
<1>T. RunTypes /\ Rounds /\ Admission
  BY DEF ControlInv
<1>1. CASE UNCHANGED <<plan, pc, round, verdict>>
  BY <1>1 DEF LeaveInv, StopKind
<1>2. CASE Admit
  BY <1>2, <1>T, ReplayAssumption DEF Admit, LeaveInv, StopKind, RunTypes, Units
<1>3. ASSUME NEW u \in Units, TaskStep(u) \/ Panic(u) PROVE LeaveInv'
  <2>1. plan' = plan
    BY <1>3 DEF TaskStep, Panic, Arrive, Submit, Skip, Submitted, Respond, SendLog,
                RecordResult, Resume, UnitDone
  <2>2. pc'[u] \in {"leaving", "ended"} => round'[u] = plan.rounds[u] \/ StopKind(verdict'[u])
    <3>1. CASE RecordResult(u)
      BY <3>1, <1>T DEF RecordResult, GoTo, Stops, StopKind, RunTypes
    <3>2. CASE Resume(u)
      <4>1. round[u] <= plan.rounds[u] /\ round[u] \in Nat /\ plan.rounds[u] \in Nat
        BY <1>T, PlanFacts DEF Rounds, RunTypes
      <4> QED BY <3>2, <4>1, <1>T DEF Resume, GoTo, RunTypes
    <3>3. CASE UnitDone(u)
      BY <3>3, <1>T DEF UnitDone, GoTo, RunTypes, LeaveInv
    <3>4. CASE ~(RecordResult(u) \/ Resume(u) \/ UnitDone(u))
      BY <1>3, <3>4, <1>T DEF TaskStep, Panic, Arrive, Submit, Skip, Submitted, Respond,
                              SendLog, GoTo, RunTypes
    <3> QED BY <3>1, <3>2, <3>3, <3>4
  <2>3. ASSUME NEW w \in Units, w # u
        PROVE  pc'[w] \in {"leaving", "ended"} =>
                 round'[w] = plan.rounds[w] \/ StopKind(verdict'[w])
    BY <1>3, <1>T, <2>3, OthersStay DEF LeaveInv
  <2> QED BY <2>1, <2>2, <2>3 DEF LeaveInv, StopKind
<1>4. CASE RunnerStep /\ ~Admit
  BY <1>4, <1>1 DEF RunnerStep, Join, DriveEnds, AwaitLog, AwaitStatus, AwaitTimeline
<1>5. CASE LoggerStep \/ StatusTick \/ TimelineStep
  BY <1>5, <1>1 DEF LoggerStep, LogOpen, LogOpenPanics, LogFold, LogEnd, StatusTick,
                    TimelineStep
<1> QED BY <1>1, <1>2, <1>3, <1>4, <1>5 DEF Next, Terminated, vars

LEMMA StopStep ==
  ASSUME ControlInv, StopInv, [Next]_vars
  PROVE  StopInv'
<1> USE DEF taskVars, logVars, tlVars
<1>T. RunTypes /\ Admission
  BY DEF ControlInv
<1>D. /\ DOMAIN logq = 1 .. Len(logq) /\ Len(logq) \in Nat
      /\ \A i \in DOMAIN logq : logq[i] \in Units \X Verdicts
      /\ \A w \in Units : DOMAIN folded[w] = 1 .. Len(folded[w]) /\ Len(folded[w]) \in Nat
  BY <1>T DEF RunTypes
\* A step that leaves the records alone.
<1>1. ASSUME UNCHANGED <<plan, logq, folded>>, \A w \in Units : HasStopped(w) => HasStopped(w)'
      PROVE  StopInv'
  BY <1>1 DEF StopInv, StopKind
<1>2. CASE UNCHANGED <<plan, pc, verdict, logq, folded>>
  BY <1>1, <1>2 DEF HasStopped, StopKind
<1>3. CASE Admit
  <2>1. \A w \in Units : HasStopped(w) => HasStopped(w)'
    BY <1>3, <1>T, ReplayAssumption DEF Admit, Admission, HasStopped, StopKind, RunTypes, Units
  <2> QED BY <1>1, <1>3, <2>1 DEF Admit
<1>4. ASSUME NEW u \in Units, TaskStep(u) \/ Panic(u), ~SendLog(u) PROVE StopInv'
  <2>1. UNCHANGED <<logq, folded, plan>>
    BY <1>4 DEF TaskStep, Panic, Arrive, Submit, Skip, Submitted, Respond, RecordResult,
                Resume, UnitDone
  <2>2. \A w \in Units : HasStopped(w) => HasStopped(w)'
    BY <1>4, <1>T, StoppedForGood
  <2> QED BY <1>1, <2>1, <2>2
<1>5. ASSUME NEW u \in Units, SendLog(u) PROVE StopInv'
  <2>1. \A w \in Units : HasStopped(w) => HasStopped(w)'
    BY <1>5, <1>T, StoppedForGood DEF TaskStep
  <2>2. CASE UNCHANGED logq
    BY <1>1, <1>5, <2>1, <2>2 DEF SendLog
  <2>3. CASE logq' = Append(logq, <<u, verdict[u]>>)
    <3> DEFINE n == Len(logq)
    <3>1. /\ n \in Nat /\ DOMAIN logq = 1 .. n /\ DOMAIN logq' = 1 .. n + 1
          /\ \A i \in 1 .. n : logq'[i] = logq[i]
          /\ logq'[n + 1] = <<u, verdict[u]>>
      BY <2>3, <1>T DEF RunTypes
    <3>2. /\ pc[u] = "logging" /\ pc'[u] = "counting"
          /\ UNCHANGED <<plan, folded, verdict>>
      BY <1>5, <1>T DEF SendLog, GoTo, RunTypes
    <3>3. /\ ~HasStopped(u)
          /\ StopKind(verdict[u]) => HasStopped(u)'
      BY <3>2 DEF HasStopped, StopKind
    <3>4. ASSUME NEW w \in Units, NEW i \in DOMAIN folded'[w], StopKind(folded'[w][i])
          PROVE  /\ i = Len(folded'[w]) /\ HasStopped(w)'
                 /\ \A j \in DOMAIN logq' : logq'[j][1] # w
      <4>1. i \in DOMAIN folded[w] /\ StopKind(folded[w][i])
        BY <3>2, <3>3, <3>4
      <4>2. /\ i = Len(folded[w]) /\ HasStopped(w)
            /\ \A j \in DOMAIN logq : logq[j][1] # w
        BY <4>1 DEF StopInv
      <4>3. w # u
        BY <3>3, <4>2
      <4>4. \A j \in 1 .. n + 1 : logq'[j][1] # w
        BY <3>1, <4>2, <4>3
      <4> QED BY <2>1, <3>1, <3>2, <4>2, <4>4
    <3>5. ASSUME NEW w \in Units, NEW i \in DOMAIN logq', logq'[i][1] = w,
                 StopKind(logq'[i][2])
          PROVE  HasStopped(w)' /\ \A j \in DOMAIN logq' : j > i => logq'[j][1] # w
      <4>1. CASE i = n + 1
        BY <3>1, <3>3, <3>5, <4>1
      <4>2. CASE i \in 1 .. n
        <5>1. /\ HasStopped(w)
              /\ \A j \in DOMAIN logq : j > i => logq[j][1] # w
          BY <3>1, <3>3, <3>5, <4>2 DEF StopInv
        <5>2. w # u
          BY <3>3, <5>1
        <5>3. \A j \in 1 .. n + 1 : j > i => logq'[j][1] # w
          BY <3>1, <5>1, <5>2
        <5> QED BY <2>1, <3>1, <5>1, <5>3
      <4> QED BY <3>1, <3>5, <4>1, <4>2
    <3> HIDE DEF n
    <3> QED BY <3>2, <3>4, <3>5 DEF StopInv, StopKind
  <2> QED BY <1>5, <2>2, <2>3 DEF SendLog
<1>6. CASE LogFold
  <2> DEFINE n == Len(logq)
             h == logq[1][1]
             v == logq[1][2]
  <2>1. /\ n \in Nat /\ n >= 1 /\ Head(logq) = logq[1] /\ DOMAIN logq = 1 .. n
        /\ DOMAIN logq' = 1 .. n - 1
        /\ \A i \in 1 .. n - 1 : logq'[i] = logq[i + 1]
    BY <1>6, <1>T DEF LogFold, RunTypes
  <2>2. h \in Units /\ v \in Verdicts
    BY <2>1, <1>D
  <2>3. /\ folded' = [folded EXCEPT ![h] = Append(@, v)]
        /\ UNCHANGED <<plan, pc, verdict>>
    BY <1>6, <2>1 DEF LogFold
  <2>4. \A w \in Units : HasStopped(w)' <=> HasStopped(w)
    BY <2>3 DEF HasStopped, StopKind
  <2>5. /\ \A w \in Units : w # h => folded'[w] = folded[w]
        /\ DOMAIN folded'[h] = 1 .. Len(folded[h]) + 1
        /\ Len(folded'[h]) = Len(folded[h]) + 1
        /\ folded'[h][Len(folded[h]) + 1] = v
        /\ \A i \in 1 .. Len(folded[h]) : folded'[h][i] = folded[h][i]
    BY <2>2, <2>3, <1>T DEF RunTypes
  <2> HIDE DEF h, v
  <2>6. h = logq[1][1] /\ v = logq[1][2]
    BY DEF h, v
  <2>7. ASSUME NEW w \in Units, NEW i \in DOMAIN folded'[w], StopKind(folded'[w][i])
        PROVE  /\ i = Len(folded'[w]) /\ HasStopped(w)'
               /\ \A j \in DOMAIN logq' : logq'[j][1] # w
    <3>1. CASE w # h
      <4>1. /\ i = Len(folded[w]) /\ HasStopped(w)
            /\ \A j \in DOMAIN logq : logq[j][1] # w
        BY <2>4, <2>5, <2>7, <3>1 DEF StopInv
      <4>2. \A j \in 1 .. n - 1 : logq'[j][1] # w
        BY <2>1, <4>1
      <4> QED BY <2>1, <2>4, <2>5, <3>1, <4>1, <4>2
    <3>2. CASE w = h /\ i = Len(folded[h]) + 1
      <4>1. StopKind(v)
        BY <2>4, <2>5, <2>7, <3>2
      <4>2. HasStopped(h) /\ \A j \in DOMAIN logq : j > 1 => logq[j][1] # h
        BY <2>1, <2>2, <2>6, <4>1 DEF StopInv
      <4>3. \A j \in 1 .. n - 1 : logq'[j][1] # h
        BY <2>1, <4>2
      <4> QED BY <2>1, <2>4, <2>5, <3>2, <4>2, <4>3
    <3>3. CASE w = h /\ i \in 1 .. Len(folded[h])
      <4>1. i \in DOMAIN folded[h] /\ StopKind(folded[h][i])
        BY <1>D, <2>2, <2>4, <2>5, <2>7, <3>3
      <4>2. \A j \in DOMAIN logq : logq[j][1] # h
        BY <2>2, <4>1 DEF StopInv
      <4> QED BY <2>1, <2>6, <4>2
    <3>4. Len(folded[h]) \in Nat
      BY <1>D, <2>2
    <3> QED BY <2>5, <2>7, <3>1, <3>2, <3>3, <3>4
  <2>8. ASSUME NEW w \in Units, NEW i \in DOMAIN logq', logq'[i][1] = w,
               StopKind(logq'[i][2])
        PROVE  HasStopped(w)' /\ \A j \in DOMAIN logq' : j > i => logq'[j][1] # w
    <3>1. /\ i + 1 \in DOMAIN logq /\ logq[i + 1][1] = w /\ StopKind(logq[i + 1][2])
      BY <2>1, <2>4, <2>8
    <3>2. HasStopped(w) /\ \A j \in DOMAIN logq : j > i + 1 => logq[j][1] # w
      BY <3>1 DEF StopInv
    <3>3. \A j \in 1 .. n - 1 : j > i => logq'[j][1] # w
      BY <2>1, <2>8, <3>2
    <3> QED BY <2>1, <2>4, <3>2, <3>3
  <2> QED BY <2>3, <2>7, <2>8 DEF StopInv, StopKind
<1>7. CASE LogOpenPanics
  <2>1. /\ DOMAIN logq' = {} /\ UNCHANGED <<plan, pc, verdict, folded>>
    BY <1>7 DEF LogOpenPanics
  <2> QED BY <2>1 DEF StopInv, HasStopped, StopKind
<1>8. CASE RunnerStep /\ ~Admit
  BY <1>8, <1>2 DEF RunnerStep, Join, DriveEnds, AwaitLog, AwaitStatus, AwaitTimeline
<1>9. CASE LogOpen \/ LogEnd \/ StatusTick \/ TimelineStep
  BY <1>9, <1>2 DEF LogOpen, LogEnd, StatusTick, TimelineStep
<1> QED BY <1>2, <1>3, <1>4, <1>5, <1>6, <1>7, <1>8, <1>9
        DEF Next, LoggerStep, Terminated, vars

\* A session attempts nothing after a round that reached the context limit, and
\* under stop_session_on_error nothing after one that failed.
THEOREM ReplaySessionsStop == Spec => []SessionsStopWhereTheyShould
<1>1. ControlInv /\ StopInv => SessionsStopWhereTheyShould
  <2> SUFFICES ASSUME ControlInv, StopInv, NEW u \in Units,
                      NEW i \in 1 .. Len(folded[u]) - 1
               PROVE  folded[u][i] # "skip" /\ (plan.stop => folded[u][i] = "ok")
    BY DEF SessionsStopWhereTheyShould
  <2>1. DOMAIN folded[u] = 1 .. Len(folded[u]) /\ Len(folded[u]) \in Nat
    BY DEF ControlInv, RunTypes
  <2>2. i \in DOMAIN folded[u] /\ i # Len(folded[u])
    BY <2>1
  <2>3. ~StopKind(folded[u][i])
    BY <2>2 DEF StopInv
  <2> QED BY <2>3 DEF StopKind
<1>2. Init => ControlInv /\ StopInv
  BY ControlInit, StopInit
<1>3. ControlInv /\ StopInv /\ [Next]_vars => ControlInv' /\ StopInv'
  BY ControlStep, StopStep
<1> QED BY <1>1, <1>2, <1>3, PTL DEF Spec

\* A session that ended without a reason to stop has attempted all its rounds.
THEOREM ReplayNoRoundLeftOut == Spec => []NoRoundLeftOut
<1>1. LeaveInv => NoRoundLeftOut
  BY DEF LeaveInv, NoRoundLeftOut, StopKind, Stops
<1>2. Init => ControlInv /\ LeaveInv
  BY ControlInit, StopInit
<1>3. ControlInv /\ LeaveInv /\ [Next]_vars => ControlInv' /\ LeaveInv'
  BY ControlStep, LeaveStep
<1> QED BY <1>1, <1>2, <1>3, PTL DEF Spec
-----------------------------------------------------------------------------
(* The counters. *)

\* The units with a round that is submitted and not yet in a counter.
Pending == {u \in Units : pc[u] \in {"inflight", "logging", "counting"}}

\* Successful rounds: with a record that was sent and not yet counted, with one in
\* the channel, with one in the file.
OkCounting == {u \in Units : pc[u] = "counting" /\ verdict[u] = "ok"}
OkQueued == {i \in DOMAIN logq : logq[i][2] = "ok"}
OkFolded == {s \in Units \X (1 .. MaxRounds) :
               s[2] <= Len(folded[s[1]]) /\ folded[s[1]][s[2]] = "ok"}

CountInv ==
  /\ stats.submitted = stats.completed + stats.failed + Cardinality(Pending)
  /\ logger # "panicked" =>
       stats.completed + Cardinality(OkCounting)
         = Cardinality(OkFolded) + Cardinality(OkQueued)

LEMMA CountsAreFinite ==
  ASSUME RunTypes
  PROVE  /\ IsFiniteSet(Pending) /\ Cardinality(Pending) \in Nat
         /\ IsFiniteSet(OkCounting) /\ Cardinality(OkCounting) \in Nat
         /\ IsFiniteSet(OkQueued) /\ Cardinality(OkQueued) \in Nat
         /\ IsFiniteSet(OkFolded) /\ Cardinality(OkFolded) \in Nat
<1>1. IsFiniteSet(Units) /\ IsFiniteSet(1 .. MaxRounds)
  BY FS_Interval, ReplayAssumption DEF Units
<1>2. IsFiniteSet(Units \X (1 .. MaxRounds))
  BY <1>1, FS_Product
<1>3. IsFiniteSet(1 .. Len(logq)) /\ DOMAIN logq = 1 .. Len(logq)
  BY FS_Interval DEF RunTypes
<1>4. Pending \subseteq Units /\ OkCounting \subseteq Units
  BY DEF Pending, OkCounting
<1>5. OkQueued \subseteq 1 .. Len(logq)
  BY <1>3 DEF OkQueued
<1>6. OkFolded \subseteq Units \X (1 .. MaxRounds)
  BY DEF OkFolded
<1>7. IsFiniteSet(Pending) /\ IsFiniteSet(OkCounting)
  BY <1>1, <1>4, FS_Subset
<1>8. IsFiniteSet(OkQueued) /\ IsFiniteSet(OkFolded)
  BY <1>2, <1>3, <1>5, <1>6, FS_Subset
<1> QED BY <1>7, <1>8, FS_CardinalityType

LEMMA CountInit == Init => CountInv
<1> SUFFICES ASSUME Init PROVE CountInv
  OBVIOUS
<1>1. /\ Pending = {} /\ OkCounting = {} /\ OkQueued = {}
  BY DEF Init, Pending, OkCounting, OkQueued
<1>2. OkFolded = {}
  BY DEF Init, OkFolded
<1>3. /\ stats.submitted = 0 /\ stats.completed = 0 /\ stats.failed = 0
  BY DEF Init
<1>4. Cardinality({}) = 0
  BY FS_EmptySet
<1> QED BY <1>1, <1>2, <1>3, <1>4 DEF CountInv

\* A record at the end of the channel is one more success, or none.
LEMMA OkSent ==
  ASSUME RunTypes, NEW u \in Units, NEW v \in Verdicts, logq' = Append(logq, <<u, v>>)
  PROVE  Cardinality(OkQueued') = Cardinality(OkQueued) + (IF v = "ok" THEN 1 ELSE 0)
<1> DEFINE n == Len(logq)
<1>1. /\ n \in Nat /\ DOMAIN logq = 1 .. n /\ DOMAIN logq' = 1 .. n + 1
      /\ \A i \in 1 .. n : logq'[i] = logq[i]
      /\ logq'[n + 1] = <<u, v>>
  BY DEF RunTypes
<1>2. v = "ok" => OkQueued' = OkQueued \cup {n + 1} /\ n + 1 \notin OkQueued
  BY <1>1 DEF OkQueued
<1>3. v # "ok" => OkQueued' = OkQueued
  BY <1>1 DEF OkQueued
<1>4. IsFiniteSet(OkQueued) /\ Cardinality(OkQueued) \in Nat
  BY CountsAreFinite
<1>5. v = "ok" => Cardinality(OkQueued') = Cardinality(OkQueued) + 1
  BY <1>2, <1>4, FS_AddElement
<1> QED BY <1>3, <1>4, <1>5

\* The head that is taken from the channel is one success less, or none.
LEMMA OkTaken ==
  ASSUME RunTypes, logq # <<>>, logq' = Tail(logq)
  PROVE  Cardinality(OkQueued') = Cardinality(OkQueued) - (IF Head(logq)[2] = "ok" THEN 1 ELSE 0)
<1> DEFINE n == Len(logq)
           S == OkQueued \ {1}
           T == OkQueued'
           f == [i \in S |-> i - 1]
<1>1. /\ n \in Nat /\ n >= 1 /\ Head(logq) = logq[1]
      /\ DOMAIN logq = 1 .. n /\ DOMAIN logq' = 1 .. n - 1
      /\ \A i \in 1 .. n - 1 : logq'[i] = logq[i + 1]
  BY DEF RunTypes
<1>2. \A i \in S : i \in 2 .. n /\ i - 1 \in 1 .. n - 1 /\ (i - 1) + 1 = i /\ logq[i][2] = "ok"
  BY <1>1 DEF OkQueued
<1>3. \A j \in T : j \in 1 .. n - 1 /\ j + 1 \in S /\ (j + 1) - 1 = j
  BY <1>1 DEF OkQueued
<1>4. \A i \in S : i - 1 \in T
  BY <1>1, <1>2 DEF OkQueued
<1>5. f \in [S -> T] /\ \A i, j \in S : f[i] = f[j] => i = j
  BY <1>2, <1>4
<1>6. \A j \in T : \E i \in S : f[i] = j
  BY <1>3
<1>7. f \in Bijection(S, T)
  BY <1>5, <1>6 DEF Bijection, Injection, Surjection, IsInjective
<1>8. IsFiniteSet(OkQueued) /\ Cardinality(OkQueued) \in Nat
  BY CountsAreFinite
<1>9. /\ IsFiniteSet(S)
      /\ Cardinality(S) = IF 1 \in OkQueued THEN Cardinality(OkQueued) - 1
                                            ELSE Cardinality(OkQueued)
  BY <1>8, FS_RemoveElement
<1>10. Cardinality(T) = Cardinality(S) /\ Cardinality(S) \in Nat
  BY <1>7, <1>9, FS_Bijection, FS_CardinalityType DEF ExistsBijection
<1>11. 1 \in OkQueued <=> Head(logq)[2] = "ok"
  BY <1>1 DEF OkQueued
<1> QED BY <1>8, <1>9, <1>10, <1>11

\* What is folded next is one more success in the file, or none.
LEMMA OkRecorded ==
  ASSUME RunTypes, NEW u \in Units, NEW v \in Verdicts, Len(folded[u]) < MaxRounds,
         folded' = [folded EXCEPT ![u] = Append(@, v)]
  PROVE  Cardinality(OkFolded') = Cardinality(OkFolded) + (IF v = "ok" THEN 1 ELSE 0)
<1> DEFINE n == Len(folded[u])
           new == <<u, n + 1>>
<1>1. n \in Nat /\ n + 1 \in 1 .. MaxRounds /\ \A w \in Units : Len(folded[w]) \in Nat
  BY ReplayAssumption DEF RunTypes
<1>2. /\ \A w \in Units : w # u => folded'[w] = folded[w]
      /\ Len(folded'[u]) = n + 1 /\ folded'[u][n + 1] = v
      /\ \A i \in 1 .. n : folded'[u][i] = folded[u][i]
  BY DEF RunTypes
<1> HIDE DEF n
<1>3. n = Len(folded[u])
  BY DEF n
<1>4. ASSUME NEW w \in Units, NEW i \in 1 .. MaxRounds, <<w, i>> # new
      PROVE  <<w, i>> \in OkFolded' <=> <<w, i>> \in OkFolded
  <2>1. CASE w # u
    BY <1>2, <2>1 DEF OkFolded
  <2>2. CASE w = u
    <3>1. i # n + 1
      BY <1>4, <2>2
    <3>2. i <= Len(folded'[u]) <=> i <= n
      BY <1>1, <1>2, <3>1
    <3>3. i <= n => folded'[u][i] = folded[u][i]
      BY <1>1, <1>2
    <3> QED BY <1>3, <2>2, <3>2, <3>3 DEF OkFolded
  <2> QED BY <2>1, <2>2
<1>5. new \notin OkFolded /\ (new \in OkFolded' <=> v = "ok")
  BY <1>1, <1>2, <1>3 DEF OkFolded
<1>6. OkFolded \subseteq Units \X (1 .. MaxRounds) /\ OkFolded' \subseteq Units \X (1 .. MaxRounds)
  BY DEF OkFolded
<1> HIDE DEF new
<1>7. OkFolded' = IF v = "ok" THEN OkFolded \cup {new} ELSE OkFolded
  <2>1. \A s \in Units \X (1 .. MaxRounds) : s # new => (s \in OkFolded' <=> s \in OkFolded)
    <3> SUFFICES ASSUME NEW s \in Units \X (1 .. MaxRounds), s # new
                 PROVE  s \in OkFolded' <=> s \in OkFolded
      OBVIOUS
    <3>1. PICK w \in Units, i \in 1 .. MaxRounds : s = <<w, i>>
      OBVIOUS
    <3> QED BY <1>4, <3>1
  <2> QED BY <1>5, <1>6, <2>1
<1>8. IsFiniteSet(OkFolded) /\ Cardinality(OkFolded) \in Nat
  BY CountsAreFinite
<1>9. Cardinality(OkFolded \cup {new}) = Cardinality(OkFolded) + 1
  BY <1>5, <1>8, FS_AddElement
<1> QED BY <1>7, <1>8, <1>9

\* Every step of a run keeps the counters in step with the records.
LEMMA CountStep ==
  ASSUME RecordInv, CountInv, [Next]_vars
  PROVE  CountInv'
<1> USE DEF taskVars, logVars, tlVars
<1>T. RunTypes /\ Admission
  BY DEF RecordInv, ControlInv
<1>F. /\ IsFiniteSet(Pending) /\ Cardinality(Pending) \in Nat
      /\ IsFiniteSet(OkCounting) /\ Cardinality(OkCounting) \in Nat
      /\ Cardinality(OkQueued) \in Nat /\ Cardinality(OkFolded) \in Nat
  BY <1>T, CountsAreFinite
<1>N. /\ stats.submitted \in Nat /\ stats.completed \in Nat /\ stats.failed \in Nat
      /\ stats.submitted = stats.completed + stats.failed + Cardinality(Pending)
      /\ logger # "panicked" => stats.completed + Cardinality(OkCounting)
                                  = Cardinality(OkFolded) + Cardinality(OkQueued)
  BY <1>T DEF CountInv, RunTypes
\* A step that moves no round on.
<1>1. ASSUME UNCHANGED <<logq, folded>>, logger # "panicked" \/ logger' = "panicked",
             /\ stats'.submitted = stats.submitted /\ stats'.completed = stats.completed
             /\ stats'.failed = stats.failed,
             Pending' = Pending, OkCounting' = OkCounting
      PROVE  CountInv'
  BY <1>1, <1>N DEF CountInv, OkQueued, OkFolded
<1>2. CASE /\ UNCHANGED <<pc, verdict, stats, logq, folded>>
           /\ logger # "panicked" \/ logger' = "panicked"
  BY <1>1, <1>2 DEF Pending, OkCounting
<1>3. CASE Admit
  <2>1. next \in Units /\ pc[next] = "unborn"
    BY <1>3, <1>T, ReplayAssumption DEF Admit, Admission, RunTypes, Units
  <2>2. Pending' = Pending /\ OkCounting' = OkCounting
    BY <1>3, <1>T, <2>1 DEF Admit, Pending, OkCounting, RunTypes
  <2> QED BY <1>1, <1>3, <2>2 DEF Admit
<1>4. ASSUME NEW u \in Units, Arrive(u) \/ Panic(u) \/ Resume(u) \/ UnitDone(u)
      PROVE  CountInv'
  <2>1. Pending' = Pending
    BY <1>4, <1>T DEF Arrive, Panic, Resume, UnitDone, GoTo, Pending, RunTypes
  <2>2. OkCounting' = OkCounting
    BY <1>4, <1>T DEF Arrive, Panic, Resume, UnitDone, GoTo, OkCounting, RunTypes
  <2>3. /\ stats'.submitted = stats.submitted /\ stats'.completed = stats.completed
        /\ stats'.failed = stats.failed
    BY <1>4, <1>T DEF Arrive, Panic, Resume, UnitDone, RunTypes
  <2> QED BY <1>1, <1>4, <2>1, <2>2, <2>3 DEF Arrive, Panic, Resume, UnitDone
<1>5. ASSUME NEW u \in Units, Submit(u) \/ Skip(u) PROVE CountInv'
  <2>1. /\ pc[u] = "ready" /\ UNCHANGED <<logq, logger, folded>>
        /\ stats' = [stats EXCEPT !.submitted = @ + 1]
        /\ pc' \in {[pc EXCEPT ![u] = "inflight"], [pc EXCEPT ![u] = "logging"]}
        /\ \A w \in Units : w # u => verdict'[w] = verdict[w]
    BY <1>5, <1>T DEF Submit, Skip, Submitted, GoTo, RunTypes
  <2>2. Pending' = Pending \cup {u} /\ u \notin Pending
    BY <1>T, <2>1 DEF Pending, RunTypes
  <2>3. OkCounting' = OkCounting
    BY <1>T, <2>1 DEF OkCounting, RunTypes
  <2>4. /\ stats'.submitted = stats.submitted + 1 /\ stats'.completed = stats.completed
        /\ stats'.failed = stats.failed
    BY <1>T, <2>1 DEF RunTypes
  <2>5. Cardinality(Pending') = Cardinality(Pending) + 1
    BY <1>F, <2>2, FS_AddElement
  <2>6. OkQueued' = OkQueued /\ OkFolded' = OkFolded
    BY <2>1 DEF OkQueued, OkFolded
  <2> QED BY <1>F, <1>N, <2>1, <2>3, <2>4, <2>5, <2>6 DEF CountInv
<1>6. ASSUME NEW u \in Units, NEW v \in {"ok", "fail"}, NEW k \in 0 .. MaxEvents,
             Respond(u, v, k)
      PROVE  CountInv'
  <2>1. /\ pc[u] = "inflight" /\ pc' = [pc EXCEPT ![u] = "logging"]
        /\ verdict' = [verdict EXCEPT ![u] = v]
        /\ UNCHANGED <<stats, logq, logger, folded>>
    BY <1>6 DEF Respond, GoTo
  <2>2. Pending' = Pending
    BY <1>T, <2>1 DEF Pending, RunTypes
  <2>3. OkCounting' = OkCounting
    BY <1>T, <2>1 DEF OkCounting, RunTypes
  <2> QED BY <1>1, <2>1, <2>2, <2>3
<1>7. ASSUME NEW u \in Units, SendLog(u) PROVE CountInv'
  <2>1. /\ pc[u] = "logging" /\ pc' = [pc EXCEPT ![u] = "counting"]
        /\ UNCHANGED <<verdict, stats, logger, folded>> /\ verdict[u] \in Verdicts
        /\ logger # "panicked" => logq' = Append(logq, <<u, verdict[u]>>)
    BY <1>7, <1>T DEF SendLog, GoTo, RunTypes
  <2>2. Pending' = Pending
    BY <1>T, <2>1 DEF Pending, RunTypes
  <2>3. /\ verdict[u] = "ok" => OkCounting' = OkCounting \cup {u} /\ u \notin OkCounting
        /\ verdict[u] # "ok" => OkCounting' = OkCounting
    BY <1>T, <2>1 DEF OkCounting, RunTypes
  <2>4. Cardinality(OkCounting')
          = Cardinality(OkCounting) + (IF verdict[u] = "ok" THEN 1 ELSE 0)
    BY <1>F, <2>3, FS_AddElement
  <2>5. logger # "panicked" =>
          Cardinality(OkQueued') = Cardinality(OkQueued) + (IF verdict[u] = "ok" THEN 1 ELSE 0)
    BY <1>T, <2>1, OkSent
  <2>6. OkFolded' = OkFolded
    BY <2>1 DEF OkFolded
  <2>7. stats' = stats /\ logger' = logger
    BY <2>1
  <2>8. logger # "panicked" =>
          stats.completed + Cardinality(OkCounting')
            = Cardinality(OkFolded) + Cardinality(OkQueued')
    BY <1>F, <1>N, <2>4, <2>5
  <2> QED BY <1>N, <2>2, <2>6, <2>7, <2>8 DEF CountInv
<1>8. ASSUME NEW u \in Units, RecordResult(u) PROVE CountInv'
  <2>1. /\ pc[u] = "counting" /\ pc'[u] \in {"leaving", "pausing"}
        /\ \A w \in Units : w # u => pc'[w] = pc[w]
        /\ UNCHANGED <<verdict, logq, logger, folded>> /\ stats' = Counted(u)
    BY <1>8, <1>T DEF RecordResult, GoTo, RunTypes
  <2>2. Pending' = Pending \ {u} /\ u \in Pending
    BY <2>1 DEF Pending
  <2>3. /\ verdict[u] = "ok" => OkCounting' = OkCounting \ {u} /\ u \in OkCounting
        /\ verdict[u] # "ok" => OkCounting' = OkCounting
    BY <2>1 DEF OkCounting
  <2>4. Cardinality(Pending') = Cardinality(Pending) - 1
    BY <1>F, <2>2, FS_RemoveElement
  <2>5. Cardinality(OkCounting')
          = Cardinality(OkCounting) - (IF verdict[u] = "ok" THEN 1 ELSE 0)
    BY <1>F, <2>3, FS_RemoveElement
  <2>6. /\ stats'.submitted = stats.submitted
        /\ stats'.completed = stats.completed + (IF verdict[u] = "ok" THEN 1 ELSE 0)
        /\ stats'.failed = stats.failed + (IF verdict[u] = "ok" THEN 0 ELSE 1)
    BY <1>T, <2>1 DEF Counted, RunTypes
  <2>7. OkQueued' = OkQueued /\ OkFolded' = OkFolded
    BY <2>1 DEF OkQueued, OkFolded
  <2> QED BY <1>F, <1>N, <2>1, <2>4, <2>5, <2>6, <2>7 DEF CountInv
<1>9. CASE LogFold
  <2> DEFINE h == Head(logq)[1]
             v == Head(logq)[2]
  <2>1. /\ logq # <<>> /\ logq' = Tail(logq) /\ logger = "folding" /\ logger' = logger
        /\ UNCHANGED <<pc, verdict, stats>>
        /\ folded' = [folded EXCEPT ![h] = Append(@, v)]
    BY <1>9 DEF LogFold
  <2>2. h \in Units /\ v \in Verdicts
    <3>1. Head(logq) \in Units \X Verdicts
      BY <1>T, <2>1 DEF RunTypes
    <3> QED BY <3>1
  <2> HIDE DEF v
  <2>3. Len(folded[h]) < MaxRounds
    <3>1. /\ InChannel(h) >= 1 /\ InChannel(h) = Cardinality(ChannelOf(h))
      BY <1>T, <2>1, <2>2, TakenRecord DEF InChannel, ChannelOf
    <3>2. InChannel(h) \in Nat
      BY <1>T, <3>1, ChannelOfIsFinite
    <3>3. round[h] = Len(folded[h]) + InChannel(h) + Unsent(h)
      BY <2>1, <2>2 DEF RecordInv, EveryRoundRecordedOnce
    <3>4. Unsent(h) \in Nat /\ round[h] \in 0 .. MaxRounds /\ Len(folded[h]) \in Nat
      BY <1>T, <2>2 DEF Unsent, RunTypes
    <3> HIDE DEF h
    <3> QED BY <3>1, <3>2, <3>3, <3>4, ReplayAssumption
  <2> HIDE DEF h
  <2>4. Cardinality(OkFolded') = Cardinality(OkFolded) + (IF v = "ok" THEN 1 ELSE 0)
    BY <1>T, <2>1, <2>2, <2>3, OkRecorded
  <2>5. Cardinality(OkQueued') = Cardinality(OkQueued) - (IF v = "ok" THEN 1 ELSE 0)
    BY <1>T, <2>1, OkTaken DEF v
  <2>6. Pending' = Pending /\ OkCounting' = OkCounting
    BY <2>1 DEF Pending, OkCounting
  <2> QED BY <1>F, <1>N, <2>1, <2>4, <2>5, <2>6 DEF CountInv
<1>10. CASE LogOpenPanics
  <2>1. UNCHANGED <<pc, stats>> /\ logger' = "panicked"
    BY <1>10 DEF LogOpenPanics
  <2> QED BY <1>N, <2>1 DEF CountInv, Pending
<1>11. CASE RunnerStep /\ ~Admit
  BY <1>11, <1>2 DEF RunnerStep, Join, DriveEnds, AwaitLog, AwaitStatus, AwaitTimeline
<1>12. CASE LogOpen \/ LogEnd \/ StatusTick \/ TimelineStep \/ UNCHANGED vars
  BY <1>12, <1>2 DEF LogOpen, LogEnd, StatusTick, TimelineStep, vars
<1> QED BY <1>3, <1>4, <1>5, <1>6, <1>7, <1>8, <1>9, <1>10, <1>11, <1>12
        DEF Next, TaskStep, LoggerStep, Terminated

\* A completed run reports all of its units: each has ended, every attempted round
\* is in the file, the counters are those of the records, and both writers are at
\* their end.
THEOREM ReplaySummaryIsComplete == Spec => []SummaryIsComplete
<1>1. RecordInv /\ CountInv /\ TimelineInv => SummaryIsComplete
  <2> SUFFICES ASSUME RecordInv, CountInv, TimelineInv, runner = "done"
               PROVE  /\ \A u \in Units : pc[u] = "ended" /\ Len(folded[u]) = round[u]
                      /\ logq = <<>> /\ (plan.timeline => writer = "finished" /\ queue = <<>>)
                      /\ stats.completed + stats.failed = stats.submitted
                      /\ stats.completed = Cardinality(OkFolded)
    BY DEF SummaryIsComplete, OkFolded
  <2>T. RunTypes /\ Shutdown /\ UnitsAreCounted
    BY DEF RecordInv, ControlInv
  <2>1. logger = "done" /\ status = "exited" /\ logq = <<>>
    BY <2>T DEF Shutdown
  <2>2. \A u \in Units : pc[u] = "ended"
    BY <2>T, <2>1 DEF UnitsAreCounted, FinishedUnits
  <2>3. \A u \in Units : Len(folded[u]) = round[u]
    <3> TAKE u \in Units
    <3>1. ChannelOf(u) = {}
      BY <2>1 DEF ChannelOf
    <3>2. InChannel(u) = 0
      BY <3>1, FS_EmptySet DEF InChannel, ChannelOf
    <3>3. Unsent(u) = 0
      BY <2>2 DEF Unsent
    <3>4. round[u] = Len(folded[u]) + InChannel(u) + Unsent(u) /\ Len(folded[u]) \in Nat
      BY <2>T, <2>1 DEF RecordInv, EveryRoundRecordedOnce, RunTypes
    <3> QED BY <3>2, <3>3, <3>4
  <2>4. plan.timeline => writer = "finished" /\ queue = <<>>
    BY <2>T DEF Shutdown, TimelineInv, FinishedIsFinal
  <2>5. Pending = {} /\ OkCounting = {} /\ OkQueued = {}
    BY <2>1, <2>2 DEF Pending, OkCounting, OkQueued
  <2>6. Cardinality({}) = 0 /\ Cardinality(OkFolded) \in Nat
    BY <2>T, FS_EmptySet, CountsAreFinite
  <2>7. stats.submitted \in Nat /\ stats.completed \in Nat /\ stats.failed \in Nat
    BY <2>T DEF RunTypes
  <2> QED BY <2>1, <2>2, <2>3, <2>4, <2>5, <2>6, <2>7 DEF CountInv
<1>2. Init => CountInv
  BY CountInit
<1>3. RecordInv /\ CountInv /\ [Next]_vars => CountInv'
  BY CountStep
<1> QED BY <1>1, <1>2, <1>3, RecordInvariant, ReplayInvariant, PTL DEF Spec
===============================================================================
