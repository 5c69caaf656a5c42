------------------------------- MODULE Replay -------------------------------
(***************************************************************************)
(* One run of the load generator, from the first admission to the summary: *)
(* the runner and drive_bounded (src/src/runner.rs,                        *)
(* src/src/executor/admission.rs), the executor task of every workload unit*)
(* (src/src/executor/session.rs, independent.rs, multimodal.rs), the shared*)
(* progress counters and the status reporter (src/src/executor/mod.rs), the*)
(* bounded log channel and its writer (src/src/summary.rs), and the        *)
(* timeline path (module TimelinePipe, whose sink the executors call).     *)
(*                                                                         *)
(* A workload unit is a session of several rounds, or one request, which is*)
(* a session of one round.  A round is attempted once and ends "ok", "fail"*)
(* or "skip" (it would reach the context limit and was not sent).  The     *)
(* endpoint is the environment: it may answer a request either way, in any *)
(* order.                                                                  *)
(*                                                                         *)
(* Tasks run on several worker threads, so an action is what a task does   *)
(* between two points where another thread can see or change what it       *)
(* shares: an await, or an access to an atomic counter.                    *)
(***************************************************************************)
EXTENDS TimelinePipe

CONSTANTS
  N,             \* number of workload units
  MaxRounds,     \* bound on the rounds of a unit
  Plans,         \* the workloads and arguments a run may start with
  LogCap,        \* capacity of the log channel, mpsc::channel(100_000)
  TaskFaults     \* what may fail besides the timeline file: "panic", "log_open"

Units == 1 .. N
Verdicts == {"ok", "fail", "skip"}

\* window: --max-concurrency (no limit: at least N); stop: stop_session_on_error;
\* timeline: --timeline; skips: whether some round can reach the context limit;
\* realtime: --backend openai-realtime, where a round is a turn over a websocket.
PlanType ==
  [window : Nat \ {0}, stop : BOOLEAN, timeline : BOOLEAN, skips : BOOLEAN,
   realtime : BOOLEAN, rounds : [Units -> 1 .. MaxRounds]]

ASSUME ReplayAssumption ==
  /\ N \in Nat
  /\ MaxRounds \in Nat
  /\ Plans \subseteq PlanType
  /\ LogCap \in Nat \ {0}
  /\ Requests = Units \X (1 .. MaxRounds)

VARIABLES
  plan,      \* the arguments and the workload of this run
  runner,    \* where run_once is
  next,      \* the next row the dispatcher would admit
  active,    \* the JoinSet of drive_bounded: tasks spawned and not joined
  pc,        \* pc[u]: where the executor task of unit u is
  round,     \* round[u]: rounds of unit u attempted so far
  verdict,   \* verdict[u]: how its current round ended
  stats,     \* the Stats counters
  logq,      \* the bounded log channel
  logger,    \* where write_logs is
  folded,    \* folded[u]: verdicts of the records of u folded, in file order
  status     \* the status reporter

taskVars == <<pc, round, verdict>>
logVars == <<logq, logger, folded>>
vars == <<plan, runner, next, active, taskVars, stats, logVars, status, tlVars>>

\* A unit's task lives from its admission until its future has resolved.
Gone == {"ended", "panicked"}
Living == {u \in active : pc[u] \notin Gone}

-----------------------------------------------------------------------------
(* drive_bounded and the shutdown order of the runner. *)

\* A variant whose inner loop compares with <=.
AdmitOneTooMany ==
  /\ runner = "drive"
  /\ next <= N /\ Cardinality(active) <= plan.window
  /\ active' = active \cup {next}
  /\ pc' = [pc EXCEPT ![next] = "arriving"]
  /\ next' = next + 1
  /\ UNCHANGED <<plan, runner, round, verdict, stats, logVars, status, tlVars>>

Admit ==
  /\ runner = "drive"
  /\ next <= N /\ Cardinality(active) < plan.window
  /\ active' = active \cup {next}
  /\ pc' = [pc EXCEPT ![next] = "arriving"]
  /\ next' = next + 1
  /\ UNCHANGED <<plan, runner, round, verdict, stats, logVars, status, tlVars>>

\* join_next, once the inner loop cannot spawn; a panic is only printed.
Join(u) ==
  /\ runner = "drive"
  /\ ~(next <= N /\ Cardinality(active) < plan.window)
  /\ u \in active /\ pc[u] \in Gone
  /\ active' = active \ {u}
  /\ UNCHANGED <<plan, runner, next, taskVars, stats, logVars, status, tlVars>>

\* drive_bounded returns; drop(log_tx); drop(timeline_sink).  Executors hold
\* the only other senders, and their tasks are all gone.
DriveEnds ==
  /\ runner = "drive"
  /\ next > N /\ active = {}
  /\ runner' = "await_log"
  /\ IF plan.timeline THEN Close ELSE UNCHANGED tlVars
  /\ UNCHANGED <<plan, next, active, taskVars, stats, logVars, status>>

\* log_task.await?: a panicked writer ends the run with an error.
AwaitLog ==
  /\ runner = "await_log"
  /\ \/ logger = "done" /\ runner' = "await_status"
     \/ logger = "panicked" /\ runner' = "error"
  /\ UNCHANGED <<plan, next, active, taskVars, stats, logVars, status, tlVars>>

AwaitStatus ==
  /\ runner = "await_status" /\ status = "exited"
  /\ runner' = "await_timeline"
  /\ UNCHANGED <<plan, next, active, taskVars, stats, logVars, status, tlVars>>

\* A variant that reads the timeline summary without waiting for its writer.
AwaitNoTimeline ==
  /\ runner = "await_timeline"
  /\ runner' = "done"
  /\ UNCHANGED <<plan, next, active, taskVars, stats, logVars, status, tlVars>>

\* timeline_task.await?, and the RunSummary is built and written.
AwaitTimeline ==
  /\ runner = "await_timeline"
  /\ plan.timeline => writer = "finished"
  /\ runner' = "done"
  /\ UNCHANGED <<plan, next, active, taskVars, stats, logVars, status, tlVars>>

-----------------------------------------------------------------------------
(* The executor task of unit u. *)

GoTo(u, where) == pc' = [pc EXCEPT ![u] = where]

\* wait_for_arrival, and the token provider, whose error branch is never taken:
\* build_token_pool refuses an empty pool.
Arrive(u) ==
  /\ pc[u] = "arriving"
  /\ GoTo(u, "ready")
  /\ UNCHANGED <<plan, runner, next, active, round, verdict, stats, logVars, status,
                 tlVars>>

\* Duration::from_secs_f64 panics on a finite arrival or tool wait that no
\* Duration can hold.
Panic(u) ==
  /\ "panic" \in TaskFaults
  /\ pc[u] \in {"arriving", "pausing"}
  /\ GoTo(u, "panicked")
  /\ UNCHANGED <<plan, runner, next, active, round, verdict, stats, logVars, status,
                 tlVars>>

Submitted(u) ==
  /\ pc[u] = "ready"
  /\ round' = [round EXCEPT ![u] = @ + 1]
  /\ stats' = [stats EXCEPT !.submitted = @ + 1]
  /\ UNCHANGED <<plan, runner, next, active, logVars, status, tlVars>>

\* record_submit, and the request goes out.
Submit(u) ==
  /\ Submitted(u)
  /\ GoTo(u, "inflight")
  /\ UNCHANGED verdict

\* record_submit, and the round is skipped: its result carries no events, so
\* the offer of its timeline changes nothing.
Skip(u) ==
  /\ plan.skips
  /\ Submitted(u)
  /\ GoTo(u, "logging")
  /\ verdict' = [verdict EXCEPT ![u] = "skip"]

\* run_step returns, and the timeline of the round is offered.
Respond(u, v, n) ==
  /\ pc[u] = "inflight"
  /\ GoTo(u, "logging")
  /\ verdict' = [verdict EXCEPT ![u] = v]
  /\ IF plan.timeline THEN Offer(<<u, round[u]>>, n) ELSE UNCHANGED tlVars
  /\ UNCHANGED <<plan, runner, next, active, round, stats, logVars, status>>

\* A variant that uses try_send, as the timeline does, and loses the record.
SendLogOrLoseIt(u) ==
  /\ pc[u] = "logging"
  /\ logq' = IF Len(logq) < LogCap /\ logger # "panicked"
               THEN Append(logq, <<u, verdict[u]>>) ELSE logq
  /\ GoTo(u, "counting")
  /\ UNCHANGED <<plan, runner, next, active, round, verdict, stats, logger, folded,
                 status, tlVars>>

\* A variant with an unbounded channel.
SendLogUnbounded(u) ==
  /\ pc[u] = "logging"
  /\ logq' = IF logger = "panicked" THEN logq ELSE Append(logq, <<u, verdict[u]>>)
  /\ GoTo(u, "counting")
  /\ UNCHANGED <<plan, runner, next, active, round, verdict, stats, logger, folded,
                 status, tlVars>>

\* log_tx.send(log).await: waits for room; the error of a channel whose
\* receiver is gone is ignored.
SendLog(u) ==
  /\ pc[u] = "logging"
  /\ \/ /\ logger # "panicked" /\ Len(logq) < LogCap
        /\ logq' = Append(logq, <<u, verdict[u]>>)
     \/ logger = "panicked" /\ UNCHANGED logq
  /\ GoTo(u, "counting")
  /\ UNCHANGED <<plan, runner, next, active, round, verdict, stats, logger, folded,
                 status, tlVars>>

\* A variant that goes on after a skip.
StopsOnErrorOnly(u) == verdict[u] = "fail" /\ plan.stop

\* A session ends at a skipped round, and at a failed one when asked to.
Stops(u) == verdict[u] = "skip" \/ (verdict[u] # "ok" /\ plan.stop)

Counted(u) ==
  IF verdict[u] = "ok" THEN [stats EXCEPT !.completed = @ + 1]
                       ELSE [stats EXCEPT !.failed = @ + 1]

\* record_result; then the session breaks, or commits the output and waits for
\* its tool.  A failed round that does not stop the session is committed too.
RecordResult(u) ==
  /\ pc[u] = "counting"
  /\ stats' = Counted(u)
  /\ GoTo(u, IF Stops(u) THEN "leaving" ELSE "pausing")
  /\ UNCHANGED <<plan, runner, next, active, round, verdict, logVars, status, tlVars>>

\* A variant that leaves before the last round.
ResumeOneShort(u) ==
  /\ pc[u] = "pausing"
  /\ GoTo(u, IF round[u] + 1 < plan.rounds[u] THEN "ready" ELSE "leaving")
  /\ UNCHANGED <<plan, runner, next, active, round, verdict, stats, logVars, status,
                 tlVars>>

\* The tool wait is over: the next round, if there is one.
Resume(u) ==
  /\ pc[u] = "pausing"
  /\ GoTo(u, IF round[u] < plan.rounds[u] THEN "ready" ELSE "leaving")
  /\ UNCHANGED <<plan, runner, next, active, round, verdict, stats, logVars, status,
                 tlVars>>

\* A variant whose stopped sessions return before record_unit_done.
UnitDoneUnlessStopped(u) ==
  /\ pc[u] = "leaving"
  /\ stats' = IF Stops(u) THEN stats ELSE [stats EXCEPT !.finished = @ + 1]
  /\ GoTo(u, "ended")
  /\ UNCHANGED <<plan, runner, next, active, round, verdict, logVars, status, tlVars>>

\* record_unit_done, and the future resolves.
UnitDone(u) ==
  /\ pc[u] = "leaving"
  /\ stats' = [stats EXCEPT !.finished = @ + 1]
  /\ GoTo(u, "ended")
  /\ UNCHANGED <<plan, runner, next, active, round, verdict, logVars, status, tlVars>>

TaskStep(u) ==
  \/ Arrive(u)
  \/ Submit(u)
  \/ Skip(u)
  \/ \E v \in {"ok", "fail"}, n \in 0 .. MaxEvents : Respond(u, v, n)
  \/ SendLog(u)
  \/ RecordResult(u)
  \/ Resume(u)
  \/ UnitDone(u)

-----------------------------------------------------------------------------
(* write_logs, on its own thread. *)

LogOpen ==
  /\ logger = "opening"
  /\ logger' = "folding"
  /\ UNCHANGED <<plan, runner, next, active, taskVars, stats, logq, folded, status,
                 tlVars>>

\* File::create(..).expect(..): the receiver goes with the panicking thread.
LogOpenPanics ==
  /\ logger = "opening" /\ "log_open" \in TaskFaults
  /\ logger' = "panicked"
  /\ logq' = <<>>
  /\ UNCHANGED <<plan, runner, next, active, taskVars, stats, folded, status, tlVars>>

LogFold ==
  /\ logger = "folding" /\ logq # <<>>
  /\ LET u == Head(logq)[1] IN folded' = [folded EXCEPT ![u] = Append(@, Head(logq)[2])]
  /\ logq' = Tail(logq)
  /\ UNCHANGED <<plan, runner, next, active, taskVars, stats, logger, status, tlVars>>

\* A variant that ends when the channel is momentarily empty.
LogEndsWhenEmpty ==
  /\ logger = "folding" /\ logq = <<>>
  /\ logger' = "done"
  /\ UNCHANGED <<plan, runner, next, active, taskVars, stats, logq, folded, status,
                 tlVars>>

\* blocking_recv returns None: empty, and no sender in the runner or a task.
LogEnd ==
  /\ logger = "folding" /\ logq = <<>>
  /\ runner # "drive" /\ Living = {}
  /\ logger' = "done"
  /\ UNCHANGED <<plan, runner, next, active, taskVars, stats, logq, folded, status,
                 tlVars>>

LoggerStep == LogOpen \/ LogOpenPanics \/ LogFold \/ LogEnd

-----------------------------------------------------------------------------
(* status_task.  Of the counters it loads every 500 ms only finished_units   *)
(* decides anything; the others are printed.                                 *)

\* A variant that takes a quiet moment after the last admission for the end.
StatusTickOnStarted ==
  /\ status = "ticking"
  /\ status' = IF next > N /\ stats.completed + stats.failed = stats.submitted
                 THEN "exited" ELSE "ticking"
  /\ UNCHANGED <<plan, runner, next, active, taskVars, stats, logVars, tlVars>>

StatusTick ==
  /\ status = "ticking"
  /\ status' = IF stats.finished >= N THEN "exited" ELSE "ticking"
  /\ UNCHANGED <<plan, runner, next, active, taskVars, stats, logVars, tlVars>>

-----------------------------------------------------------------------------

TimelineStep ==
  /\ plan.timeline
  /\ WriterStep
  /\ UNCHANGED <<plan, runner, next, active, taskVars, stats, logVars, status>>

RunnerStep ==
  \/ Admit
  \/ \E u \in Units : Join(u)
  \/ DriveEnds
  \/ AwaitLog
  \/ AwaitStatus
  \/ AwaitTimeline

Over == runner \in {"done", "error"}

\* The run has returned; what is left of its tasks no longer matters.
Terminated == Over /\ UNCHANGED vars

Init ==
  /\ plan \in Plans
  /\ runner = "drive"
  /\ next = 1
  /\ active = {}
  /\ pc = [u \in Units |-> "unborn"]
  /\ round = [u \in Units |-> 0]
  /\ verdict = [u \in Units |-> "ok"]
  /\ stats = [submitted |-> 0, completed |-> 0, failed |-> 0, finished |-> 0]
  /\ logq = <<>>
  /\ logger = "opening"
  /\ folded = [u \in Units |-> <<>>]
  /\ status = "ticking"
  /\ TlInit

Next ==
  \/ RunnerStep
  \/ \E u \in Units : TaskStep(u) \/ Panic(u)
  \/ LoggerStep
  \/ StatusTick
  \/ TimelineStep
  \/ Terminated

\* What a task is bound to do.  An HTTP request ends, because the client gives up on
\* it at the latest after the hour of client.rs:48.  Nothing bounds a realtime turn:
\* its sends and its close have no timeout, and any frame restarts the idle timer
\* (realtime_client.rs:116-130, 299-358).
Bounded(u) == TaskStep(u) /\ ~(plan.realtime /\ pc[u] = "inflight")

\* The runtime runs every task that is not waiting, and the blocking threads run.
Fairness ==
  /\ WF_vars(RunnerStep)
  /\ \A u \in Units : WF_vars(Bounded(u))
  /\ WF_vars(LoggerStep)
  /\ WF_vars(StatusTick)
  /\ WF_vars(TimelineStep)

Spec == Init /\ [][Next]_vars /\ Fairness

-----------------------------------------------------------------------------
(* Properties. *)

\* The types of the variables; the log channel never holds more than its capacity.
RunTypes ==
  /\ plan \in Plans
  /\ runner \in {"drive", "await_log", "await_status", "await_timeline", "done", "error"}
  /\ next \in 1 .. N + 1
  /\ active \subseteq Units
  /\ pc \in [Units -> {"unborn", "arriving", "ready", "inflight", "logging", "counting",
                       "pausing", "leaving", "ended", "panicked"}]
  /\ round \in [Units -> 0 .. MaxRounds]
  /\ verdict \in [Units -> Verdicts]
  /\ stats \in [submitted : Nat, completed : Nat, failed : Nat, finished : Nat]
  /\ logq \in Seq(Units \X Verdicts) /\ Len(logq) <= LogCap
  /\ logger \in {"opening", "folding", "done", "panicked"}
  /\ folded \in [Units -> Seq(Verdicts)]
  /\ status \in {"ticking", "exited"}

\* The types of a run and of its timeline path.
TypeOK == RunTypes /\ TlTypeOK

\* Records of u that are still in the channel, and the one not yet sent.
InChannel(u) == Cardinality({i \in DOMAIN logq : logq[i][1] = u})
Unsent(u) == IF pc[u] \in {"inflight", "logging"} THEN 1 ELSE 0

\* While the log writer lives no attempted round loses its record and none is
\* recorded twice: each is with its executor, in the channel, or folded
\* (session.rs:89, summary.rs:520).
EveryRoundRecordedOnce ==
  logger # "panicked" =>
    \A u \in Units : round[u] = Len(folded[u]) + InChannel(u) + Unsent(u)

\* What the summary of a completed run is built from: the writers have
\* returned after the last record, every attempted round is folded, the
\* counters agree with the records, and no unit was given up (runner.rs:318-335).
SummaryIsComplete ==
  runner = "done" =>
    /\ \A u \in Units : pc[u] = "ended" /\ Len(folded[u]) = round[u]
    /\ logq = <<>> /\ (plan.timeline => writer = "finished" /\ queue = <<>>)
    /\ stats.completed + stats.failed = stats.submitted
    /\ stats.completed =
         Cardinality({s \in Units \X (1 .. MaxRounds) :
                        s[2] <= Len(folded[s[1]]) /\ folded[s[1]][s[2]] = "ok"})

\* The senders outlive the executors: as long as a unit can still attempt a
\* round, neither writer has ended, so nothing that it sends is refused
\* (session.rs:17-20, runner.rs:318-320).
WritersOutliveExecutors ==
  (\E u \in Units : pc[u] \notin Gone) =>
    /\ logger # "done"
    /\ plan.timeline => open /\ writer # "finished"

\* A session that reached the context limit attempts nothing more, and neither
\* does one that failed under stop_session_on_error: in its records only the
\* last one can be such a verdict (session.rs:92).
SessionsStopWhereTheyShould ==
  \A u \in Units : \A i \in 1 .. Len(folded[u]) - 1 :
    /\ folded[u][i] # "skip"
    /\ plan.stop => folded[u][i] = "ok"

\* Every unit that finished without stopping early attempted all its rounds.
NoRoundLeftOut ==
  \A u \in Units :
    pc[u] = "ended" => round[u] = plan.rounds[u] \/ Stops(u)

\* The reporter exits only when every unit is done with its last round, so the
\* runner that awaits it (runner.rs:323) cannot go on before.
StatusExitsLast ==
  status = "exited" => \A u \in Units : pc[u] = "ended"

Contract == INSTANCE ReplayContract
  WITH Jobs <- {[rounds |-> p.rounds, window |-> p.window] : p \in Plans},
       job <- [rounds |-> plan.rounds, window |-> plan.window],
       started <- next - 1, opened <- Living,
       attempted <- round, recorded <- [u \in Units |-> Len(folded[u])],
       complete <- (runner = "done")

\* The run implements its contract: admission in declaration order under the
\* window, rounds in order, each recorded once, nothing missing at the end.
ImplementsContract == Contract!Spec

\* If no unit panics and no realtime turn stays in flight for ever, the run ends,
\* whatever the endpoint answers, whichever file cannot be written and however
\* small the channels are: the executors that wait for room in the log channel,
\* the writers that wait for the senders to go and the runner that waits for the
\* writers do not wait in a circle.
RunEndsIfItsUnitsDo ==
  /\ [](\A u \in Units : pc[u] # "panicked")
  /\ plan.realtime => \A u \in Units : []<>(pc[u] # "inflight")
  => <>Over

\* The status reporter "exits once all workload units are finished"
\* (executor/mod.rs:158), and the runner awaits it: a run should end.
RunEnds == <>Over

=============================================================================
