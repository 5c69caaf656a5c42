-------------------------------- MODULE Sweep --------------------------------
(***************************************************************************)
(* An adaptive sweep that can be killed and started again                  *)
(* (src/src/bin/sweep/main.rs, point.rs, boundary.rs) around the search of *)
(* module Search.                                                          *)
(*                                                                         *)
(* The sweep measures the rate that the search offers: it resets the       *)
(* server's prefix cache, replays the trace at that rate (module Replay),  *)
(* and writes point.json last.  A sweep that is started again reads the    *)
(* points that are complete instead of measuring them, and the search goes *)
(* through them again.  A record holds what the run measured; whether a    *)
(* point crossed is judged anew, against the rate it was offered for.      *)
(*                                                                         *)
(* The server is the environment: it keeps up with every rate up to its    *)
(* knee and with none above it, or it is noisy and any run may end either  *)
(* way, or without the metric that the boundary needs.                     *)
(***************************************************************************)
EXTENDS Search, FiniteSets

CONSTANTS
  Configs,    \* the search configurations a sweep may be given
  Servers,    \* the servers it may be pointed at
  MaxStarts,  \* bound on the times the sweep is started
  Grain,      \* rates that round to the same multiple share a directory
  Noise       \* what a run against a noisy server may measure, whatever its rate

Noisy == -1
CacheResets == {"done", "unsupported", "failed"}

ServerType == [knee : Nat \cup {Noisy}, resets : SUBSET CacheResets \ {{}}]

ASSUME SweepAssumption ==
  /\ Configs \subseteq SearchConfigs
  /\ Servers \subseteq ServerType
  /\ MaxStarts \in Nat \ {0} /\ Grain \in Nat \ {0}
  /\ Noise \subseteq Nat

VARIABLES
  server,   \* the server of this sweep
  resume,   \* not --no-resume
  search,   \* the Search of this process
  step,     \* where the sweep is
  current,  \* the PointRecord under construction
  points,   \* the ReportPoints of this process, in the order measured
  disk,     \* the complete point records, by directory
  warm,     \* the server's prefix cache holds content of an earlier run
  starts,   \* how often the sweep was started
  past      \* history: the longest sequence of rates that a start which this
            \* one resumes went through

vars == <<server, resume, search, step, current, points, disk, warm, starts, past>>

\* The metric that the boundary of the mode watches, None when the run reported
\* none: the highest rate that the delivered steps would do for, which is their
\* number with steps_per_workload_unit and max_shortfall divided out; or 1 when
\* the attainment reaches the target and 0 when it does not.
Metric == Nat \cup {None}

\* warm is a history field: was the cache warm when the run began?
Record == [rate : Nat, reset : CacheResets, metric : Metric, warm : BOOLEAN]

\* directory_for: the rate in fixed decimals, to the nearest.
Directory(rate) == (2 * rate + Grain) \div (2 * Grain)

\* completed(): what is missing or does not parse is not done.
Completed(rate) == {p \in disk : Directory(p.rate) = Directory(rate)}

Offered == search.pending

\* The loop of run_adaptive: it asks, runs a point or reads it back, judges.
Active == {"asking", "running", "recording"}

-----------------------------------------------------------------------------

\* What a metric has to reach at this rate.
Required(config, rate) == IF config.mode = "max-sustainable-rate" THEN rate ELSE 1

\* Boundary::judge, of one point alone.
Crossed(config, record, rate) == record.metric < Required(config, rate)

\* A variant that does not judge a point again that it read back.
JudgeMeasuredOnly(record, reused) ==
  LET crossed == ~reused /\ Crossed(search.config, record, Offered) IN
  IF record.metric = None
    THEN step' = "failed" /\ UNCHANGED <<search, points>>
    ELSE /\ step' = "asking"
         /\ points' = Append(points, [offered |-> Offered, phase |-> search.phase,
                                      record |-> record, crossed |-> crossed,
                                      reused |-> reused])
         /\ search' = RecordVerdict(search, Offered, crossed)

\* The point is judged, and Search::record told.  A point without the metric that
\* the boundary watches ends the sweep with an error.
Judge(record, reused) ==
  LET crossed == Crossed(search.config, record, Offered) IN
  IF record.metric = None
    THEN step' = "failed" /\ UNCHANGED <<search, points>>
    ELSE /\ step' = "asking"
         /\ points' = Append(points, [offered |-> Offered, phase |-> search.phase,
                                      record |-> record, crossed |-> crossed,
                                      reused |-> reused])
         /\ search' = RecordVerdict(search, Offered, crossed)

\* A variant that does not trust a point that ran on a warm cache.
ReuseCleanOnly ==
  /\ step = "asking" /\ Offered # None
  /\ resume
  /\ \E p \in Completed(Offered) : p.reset = "done" /\ Judge(p, TRUE)
  /\ UNCHANGED <<server, resume, current, disk, warm, starts, past>>

Reuse ==
  /\ step = "asking" /\ Offered # None
  /\ resume
  /\ \E p \in Completed(Offered) : Judge(p, TRUE)
  /\ UNCHANGED <<server, resume, current, disk, warm, starts, past>>

\* A variant that resets once and assumes the rest.
ResetOnce ==
  /\ step = "asking" /\ Offered # None
  /\ resume => Completed(Offered) = {}
  /\ \E reset \in server.resets :
       /\ current' = [rate |-> Offered, reset |-> reset, metric |-> None,
                      warm |-> warm /\ (reset # "done" \/ points # <<>>)]
       /\ warm' = (warm /\ (reset # "done" \/ points # <<>>))
  /\ step' = "running"
  /\ UNCHANGED <<server, resume, search, points, disk, starts, past>>

\* A variant that measures what is already there.
ResetWithoutLooking ==
  /\ step = "asking" /\ Offered # None
  /\ \E reset \in server.resets :
       /\ current' = [rate |-> Offered, reset |-> reset, metric |-> None,
                      warm |-> warm /\ reset # "done"]
       /\ warm' = (warm /\ reset # "done")
  /\ step' = "running"
  /\ UNCHANGED <<server, resume, search, points, disk, starts, past>>

\* reset_prefix_cache, before the run of a point that is not there.
Reset ==
  /\ step = "asking" /\ Offered # None
  /\ resume => Completed(Offered) = {}
  /\ \E reset \in server.resets :
       /\ current' = [rate |-> Offered, reset |-> reset, metric |-> None,
                      warm |-> warm /\ reset # "done"]
       /\ warm' = (warm /\ reset # "done")
  /\ step' = "running"
  /\ UNCHANGED <<server, resume, search, points, disk, starts, past>>

\* What a run at this rate may report: a server with a knee delivers what it is
\* offered up to the knee, and meets the target up to it.
Metrics(rate) ==
  IF server.knee = Noisy
    THEN {None, Required(search.config, rate)} \cup Noise
    ELSE {IF search.config.mode = "max-sustainable-rate" THEN Smaller(rate, server.knee)
          ELSE IF rate <= server.knee THEN 1 ELSE 0}

\* A variant that adds to the records of a directory instead of replacing them.
RunPointKeepingOldRecord ==
  /\ step = "running"
  /\ \E m \in Metrics(Offered) : current' = [current EXCEPT !.metric = m]
  /\ warm' = TRUE
  /\ step' = "recording"
  /\ UNCHANGED <<server, resume, search, points, disk, starts, past>>

\* run_once_reusing returns a summary; point.json is created, which empties an
\* earlier one.
RunPoint ==
  /\ step = "running" /\ Offered > 0
  /\ \E m \in Metrics(Offered) : current' = [current EXCEPT !.metric = m]
  /\ warm' = TRUE
  /\ disk' = disk \ Completed(Offered)
  /\ step' = "recording"
  /\ UNCHANGED <<server, resume, search, points, starts, past>>

\* The run is refused (a rate of zero) or ends with an error.
RunFails ==
  /\ step = "running"
  /\ warm' \in {warm, TRUE}
  /\ step' = "failed"
  /\ UNCHANGED <<server, resume, search, current, points, disk, starts, past>>

\* The record is complete on disk, and the point is judged.
RecordPoint ==
  /\ step = "recording"
  /\ disk' = disk \cup {current}
  /\ Judge(current, FALSE)
  /\ UNCHANGED <<server, resume, current, warm, starts, past>>

\* The search offers nothing more: the report is assembled and written.
Assemble ==
  /\ step = "asking" /\ Offered = None
  /\ step' = "finished"
  /\ UNCHANGED <<server, resume, search, current, points, disk, warm, starts, past>>

SweepStep == Reuse \/ Reset \/ RunPoint \/ RunFails \/ RecordPoint \/ Assemble

-----------------------------------------------------------------------------

\* The process is killed; requests of a run may have reached the server.
Crash ==
  /\ step \in Active
  /\ step' = "crashed"
  /\ warm' \in {warm, warm \/ step = "running"}
  /\ UNCHANGED <<server, resume, search, current, points, disk, starts, past>>

Rates(report) == [i \in DOMAIN report |-> report[i].offered]

\* The points up to the first one whose record was replaced since: under
\* --no-resume a rate that the search draws where it measured it before is
\* measured again.
Unreplaced == {i \in DOMAIN points : \A j \in 1 .. i : points[j].record \in disk}
Resumable == SubSeq(Rates(points), 1, Cardinality(Unreplaced))

\* The same command again, with or without --no-resume.  With it nothing of
\* the earlier points is used, so there is nothing to repeat.
Restart ==
  /\ step \in {"crashed", "failed"} /\ starts < MaxStarts
  /\ starts' = starts + 1
  /\ resume' \in BOOLEAN
  /\ search' = NewSearch(search.config)
  /\ points' = <<>>
  /\ step' = "asking"
  /\ past' = IF ~resume' THEN <<>>
             ELSE IF Len(Resumable) >= Len(past) THEN Resumable ELSE past
  /\ UNCHANGED <<server, current, disk, warm>>

Stopped == step \notin Active

\* The sweep has written its report, or nobody starts it again.
Done == Stopped /\ UNCHANGED vars

Init ==
  /\ server \in Servers
  /\ resume \in BOOLEAN
  /\ \E c \in Configs : search = NewSearch(c)
  /\ step = "asking"
  /\ current = [rate |-> 0, reset |-> "done", metric |-> None, warm |-> FALSE]
  /\ points = <<>>
  /\ disk = {}
  /\ warm = FALSE
  /\ starts = 1
  /\ past = <<>>

Next == SweepStep \/ Crash \/ Restart \/ Done

\* The process runs, and a replay returns.
Spec == Init /\ [][Next]_vars /\ WF_vars(SweepStep)

-----------------------------------------------------------------------------
(* Properties. *)

Rate == Nat \cup {None}

\* The types of the variables; a directory holds one record, and the rates
\* still to be drawn are at most the ones asked for.
TypeOK ==
  /\ server \in Servers /\ resume \in BOOLEAN
  /\ search \in [config : Configs, phase : Phases, pending : Rate, good : Rate,
                 bad : Rate, down : BOOLEAN, queue : Seq(Nat), outcome : Outcomes]
  /\ Len(search.queue) <= search.config.densify
  /\ step \in Active \cup {"finished", "failed", "crashed"}
  /\ current \in Record
  /\ points \in Seq([offered : Nat, phase : Phases, record : Record,
                     crossed : BOOLEAN, reused : BOOLEAN])
  /\ disk \subseteq Record
  /\ \A p, q \in disk : Directory(p.rate) = Directory(q.rate) => p = q
  /\ warm \in BOOLEAN /\ starts \in 1 .. MaxStarts /\ past \in Seq(Nat)

\* Rates that the ramp or the bisection judged to have crossed, or to have not.
Evidence(crossed) ==
  {points[i].offered : i \in {j \in DOMAIN points :
     points[j].phase # "densify" /\ points[j].crossed = crossed}}

\* Whatever the server answers, and however noisy it is, the bracket is made of
\* rates that were measured, nothing the ramp or the bisection measured
\* contradicts it, and what is only drawn does not move it (search.rs:129-149).
BracketIsEvidence ==
  /\ search.good = None <=> Evidence(FALSE) = {}
  /\ search.bad = None <=> Evidence(TRUE) = {}
  /\ search.good # None =>
       search.good \in Evidence(FALSE) /\ \A r \in Evidence(FALSE) : r <= search.good
  /\ search.bad # None =>
       search.bad \in Evidence(TRUE) /\ \A r \in Evidence(TRUE) : search.bad <= r
  /\ search.good # None /\ search.bad # None => search.good < search.bad

\* No rate is offered outside the range the sweep was given, the ones drawn
\* around the bracket included (search.rs:24-30).
RatesStayInRange ==
  Offered # None => search.config.min <= Offered /\ Offered <= search.config.max

\* A boundary that is reported as located has been narrowed to the tolerance,
\* or there is no rate left between its ends (search.rs:65, 204-212).
LocatedIsNarrow ==
  search.outcome = "located" => NarrowEnough(search) \/ search.bad - search.good <= 1

\* Pointed at a server with a knee, a sweep that ends tells the truth about it,
\* also when points of an interrupted sweep went into it: the bracket holds the
\* knee, or the knee is above half the ceiling, or below twice the floor
\* (search.rs:64-77).
KneeIsTrue ==
  (step = "finished" /\ server.knee # Noisy) =>
    CASE search.outcome = "located" ->
           search.good <= server.knee /\ server.knee < search.bad
      [] search.outcome = "never_crossed" ->
           search.good <= server.knee /\ search.config.max < 2 * search.good
      [] search.outcome = "always_crossed" ->
           server.knee < search.bad /\ search.bad \div 2 < search.config.min

\* Ramp and bisection never go back to a rate they measured: that would measure
\* it forever (search.rs:208-212, and the bound in the test at search.rs:299).
SearchMakesProgress ==
  \A i, j \in DOMAIN points :
    (i < j /\ points[i].phase # "densify" /\ points[j].phase # "densify") =>
      points[i].offered # points[j].offered

Comparable(a, b) ==
  \A i \in DOMAIN a \cap DOMAIN b : a[i] = b[i]

\* A sweep that is resumed goes through the rates of the sweep it resumes, in
\* the same order and all of them before it concludes, even on a server that
\* would answer differently today: none of the earlier points is wasted
\* (point.rs:6-9).  Only --no-resume makes a difference: it may replace a verdict
\* it relied on.
ResumeRepeatsTheSearch ==
  /\ Comparable(past, Rates(points))
  /\ Offered = None => Len(past) <= Len(points)

\* A resumed sweep never measures a point again that is complete, and never
\* damages its record, through any number of crashes (point.rs:55-63).
CompletedPointsAreKept == [][resume => disk \subseteq disk']_vars

\* contamination_warning.
Warned == \E i \in DOMAIN points : points[i].record.reset # "done"

\* A report without a contamination warning has no point that ran on a warm
\* prefix cache, the ones read back from an interrupted sweep included
\* (point.rs:16-20).
ContaminationIsReported ==
  (step = "finished" /\ ~Warned) => \A i \in DOMAIN points : ~points[i].record.warm

\* The sweep ends, with a report or an error, or nobody starts it again.
SweepEnds == <>[]Stopped

=============================================================================
