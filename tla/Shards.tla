-------------------------------- MODULE Shards --------------------------------
(***************************************************************************)
(* A trace replayed by several processes (src/launcher/__main__.py and,    *)
(* for each process, src/src/runner.rs and workload.rs): the launcher      *)
(* starts one run per shard, every run loads the whole trace and keeps its *)
(* share of the units, folds the records of its steps into a report, and   *)
(* the launcher waits for all of them and adds up what they report.        *)
(*                                                                         *)
(* What the steps of a unit will measure is drawn with the trace; how one  *)
(* run executes them is module Replay.  A run may be refused, die or be    *)
(* killed at any time before it exits.                                     *)
(***************************************************************************)
EXTENDS Report, FiniteSetsExt

CONSTANTS
  Traces,   \* the traces to replay: sequences of units
  Launches  \* how they are launched

\* A unit is a session of one or more steps, or a request, which has one.
Units == [arrival : Nat, steps : Seq(Records) \ {<<>>}]

\* rate 0: no --rate.  max_items: --max-items.  by_hand: the processes are started
\* with --shard-count and --shard-index by someone who does not add them up.
LaunchType ==
  [processes : Nat \ {0}, by_hand : BOOLEAN, saturated : BOOLEAN, rate : Nat,
   max_items : Option(Nat \ {0}), dry_run : BOOLEAN,
   flag : Option(Bounds), sidecar : Option(Bounds), tag : BOOLEAN]

ASSUME ShardsAssumption ==
  /\ Traces \subseteq Seq(Units)
  /\ Launches \subseteq LaunchType
  /\ \A l \in Launches :
       /\ l.processes > 1 /\ ~l.by_hand => l.saturated    \* _build_run
       /\ l.saturated => l.rate = 0                       \* validate
       /\ l.flag # {NoBounds}                             \* SloSpec::parse

VARIABLES
  trace,     \* the units of the file, in canonical order
  launch,    \* the options
  launcher,  \* where the launcher is
  next,      \* the shard that it starts or waits for next
  codes,     \* the exit codes it has collected, in the order of the shards
  shards,    \* by shard index: the run of that process
  aggregate  \* what it wrote over all shards, if anything

vars == <<trace, launch, launcher, next, codes, shards, aggregate>>

Indices == 0 .. launch.processes - 1

\* The run of one process.  units: its workload, each unit with its place in the
\* file; at: when its units are due, as numerators over the common "scale"; done:
\* how many steps of each unit are recorded; seeds: history, the ordinal that each
\* unit started under; exit: its exit code; summary: summary.json.
Unborn ==
  [pc |-> "unborn", units |-> <<>>, scale |-> <<1, 1>>, done |-> <<>>, seeds |-> {},
   report |-> EmptyReport({}), exit |-> {}, summary |-> {}]

-----------------------------------------------------------------------------
(* One run. *)

\* retain_shard: the ordinal of an item is counted from 0.
RetainShard(items, count, index) ==
  LET kept[n \in 0 .. Len(items)] ==
        IF n = 0 THEN <<>>
        ELSE IF (n - 1) % count = index THEN Append(kept[n - 1], items[n])
        ELSE kept[n - 1]
  IN  kept[Len(items)]

Truncate(items) ==
  IF launch.max_items = {} \/ Len(items) <= The(launch.max_items) THEN items
  ELSE SubSeq(items, 1, The(launch.max_items))

\* load_workload: the items that every process sees before it takes its share.
Workload == Truncate([i \in DOMAIN trace |-> [place |-> i, unit |-> trace[i]]])

Arrivals(items) == {items[i].unit.arrival : i \in DOMAIN items}

Span(items) ==
  LET S == Arrivals(items)
      earliest == CHOOSE a \in S : \A b \in S : a <= b
      latest   == CHOOSE a \in S : \A b \in S : b <= a
  IN  IF S = {} THEN 0 ELSE latest - earliest

\* arrival_rate, in units per unit of time, is (count - 1) / span where both are
\* positive; apply_arrival_rate multiplies every arrival by rate over target.
RescaleFails(items) == launch.rate > 0 /\ Span(items) = 0
Scale(items) ==
  IF launch.rate = 0 THEN <<1, 1>> ELSE <<Len(items) - 1, Span(items) * launch.rate>>

\* run_once_reusing up to the first admission, for a run that is not refused.
Loaded(k) ==
  LET all  == Workload
      mine == RetainShard(all, launch.processes, k)
  IN  [pc |-> IF launch.dry_run THEN "writing" ELSE "running",
       units |-> mine, scale |-> Scale(all), done |-> [i \in DOMAIN mine |-> 0],
       seeds |-> {},
       report |-> EmptyReport(NewSlo(Resolved(launch.flag, launch.sidecar), launch.tag)),
       exit |-> {}, summary |-> {}]

Dead(shard) == [shard EXCEPT !.pc = "exited", !.exit = {1}]

Load(k) ==
  /\ shards[k].pc = "born"
  /\ shards' = [shards EXCEPT ![k] =
       IF ResolveFails(launch.flag, launch.sidecar) \/ RescaleFails(Workload)
         THEN Dead(@) ELSE Loaded(k)]
  /\ UNCHANGED <<trace, launch, launcher, next, codes, aggregate>>

\* A variant that seeds a unit by its ordinal in the shard.
LocalShardOrdinal(local, k) == local

\* global_shard_ordinal.
GlobalShardOrdinal(local, k) == local * launch.processes + k

\* The next step of a unit is recorded: steps of one unit arrive in their order,
\* those of different units in any.
Record(k, i) ==
  /\ shards[k].pc = "running" /\ i \in DOMAIN shards[k].units
  /\ LET unit == shards[k].units[i].unit
         n    == shards[k].done[i]
     IN  /\ n < Len(unit.steps)
         /\ shards' = [shards EXCEPT
              ![k].report = AddRecord(@, unit.steps[n + 1]),
              ![k].done[i] = n + 1,
              ![k].seeds = @ \cup {<<GlobalShardOrdinal(i - 1, k), shards[k].units[i].place>>}]
  /\ UNCHANGED <<trace, launch, launcher, next, codes, aggregate>>

\* Every unit has ended: the log is folded.
Fold(k) ==
  /\ shards[k].pc = "running"
  /\ \A i \in DOMAIN shards[k].units :
       shards[k].done[i] = Len(shards[k].units[i].unit.steps)
  /\ shards' = [shards EXCEPT ![k].pc = "writing"]
  /\ UNCHANGED <<trace, launch, launcher, next, codes, aggregate>>

\* write_summary_if_requested.  The launcher always requests one.
WriteSummary(k) ==
  /\ shards[k].pc = "writing"
  /\ shards' = [shards EXCEPT ![k].pc = "exited", ![k].exit = {0},
                              ![k].summary = {Finalize(shards[k].report)}]
  /\ UNCHANGED <<trace, launch, launcher, next, codes, aggregate>>

\* An error that run_once_reusing returns, a panic, a signal.
Fail(k) ==
  /\ shards[k].pc \in {"born", "running", "writing"}
  /\ shards' = [shards EXCEPT ![k] = Dead(@)]
  /\ UNCHANGED <<trace, launch, launcher, next, codes, aggregate>>

Run(k) == Load(k) \/ (\E i \in DOMAIN shards[k].units : Record(k, i))
            \/ Fold(k) \/ WriteSummary(k) \/ Fail(k)

-----------------------------------------------------------------------------
(* The launcher. *)

\* Popen, one shard after the other; nobody stops the ones that run already when
\* it raises.
Spawn ==
  /\ launcher = "spawning" /\ next < launch.processes
  /\ \/ /\ shards' = [shards EXCEPT ![next].pc = "born"]
        /\ next' = next + 1
        /\ UNCHANGED launcher
     \/ launcher' = "crashed" /\ UNCHANGED <<next, shards>>
  /\ UNCHANGED <<trace, launch, codes, aggregate>>

AllSpawned ==
  /\ launcher = "spawning" /\ next = launch.processes
  /\ launcher' = "waiting" /\ next' = 0
  /\ UNCHANGED <<trace, launch, codes, shards, aggregate>>

\* process.wait(), in the order of the shards whichever exits first.
Wait ==
  /\ launcher = "waiting" /\ next < launch.processes
  /\ shards[next].pc = "exited"
  /\ codes' = Append(codes, The(shards[next].exit))
  /\ next' = next + 1
  /\ UNCHANGED <<trace, launch, launcher, shards, aggregate>>

\* sum() over a null raises.
Unaddable(S) == {k \in S : The(shards[k].summary).throughput = {}}

SumOf(f) == MapThenSumSet(LAMBDA x : f[x], DOMAIN f)

Total(count, S) == SumOf([k \in S |-> The(shards[k].summary)[count]])

\* The two throughputs are sums of quotients, kept here as their terms.
Sum(S) ==
  [attempted |-> Total("attempted", S),
   success   |-> Total("success", S),
   failed    |-> Total("failed", S),
   throughput |-> [k \in S |-> The(The(shards[k].summary).throughput)],
   token_throughput |-> [k \in S |-> The(The(shards[k].summary).token_throughput)]]

\* A variant that adds up the shards that can be added up.
SumUpTheRest ==
  /\ launcher = "waiting" /\ next = launch.processes
  /\ launcher' = "done"
  /\ LET good == {k \in Indices : shards[k].summary # {}} IN
     aggregate' = {Sum(good \ Unaddable(good))}
  /\ UNCHANGED <<trace, launch, next, codes, shards>>

\* The end of _execute_sharded, and _write_sharded_summary.  A single process
\* writes its own summary, and so do those that were started by hand.
SumUp ==
  /\ launcher = "waiting" /\ next = launch.processes
  /\ IF \E i \in DOMAIN codes : codes[i] # 0
       THEN launcher' = "failed" /\ UNCHANGED aggregate
     ELSE IF launch.processes = 1 \/ launch.by_hand
       THEN launcher' = "done" /\ UNCHANGED aggregate
     ELSE IF Unaddable(Indices) # {}
       THEN launcher' = "crashed" /\ UNCHANGED aggregate
     ELSE launcher' = "done" /\ aggregate' = {Sum(Indices)}
  /\ UNCHANGED <<trace, launch, next, codes, shards>>

-----------------------------------------------------------------------------

Init ==
  /\ trace \in Traces /\ launch \in Launches
  /\ launcher = "spawning" /\ next = 0 /\ codes = <<>>
  /\ shards = [k \in Indices |-> Unborn]
  /\ aggregate = {}

Stop ==
  /\ launcher \in {"done", "failed", "crashed"}
  /\ \A k \in Indices : shards[k].pc \in {"unborn", "exited"}
  /\ UNCHANGED vars

Next == Spawn \/ AllSpawned \/ Wait \/ SumUp \/ (\E k \in Indices : Run(k)) \/ Stop

Spec == Init /\ [][Next]_vars

-----------------------------------------------------------------------------
(* Properties. *)

Exited(k) == shards[k].exit = {0}
Places(k) == {seed[2] : seed \in shards[k].seeds}

\* The shards partition the trace: no unit runs in two of them, none is left out
\* once all have succeeded, each is seeded as it would be in a single process, and
\* all run on the clock of the whole workload, so that together they offer --rate.
ShardsPartitionTheTrace ==
  /\ \A j, k \in Indices : j # k => Places(j) \cap Places(k) = {}
  /\ \A k \in Indices : \A seed \in shards[k].seeds : seed[1] = seed[2] - 1
  /\ \A j, k \in Indices :
       shards[j].seeds # {} /\ shards[k].seeds # {} => shards[j].scale = shards[k].scale
  /\ (\A k \in Indices : Exited(k)) /\ ~launch.dry_run =>
       UNION {Places(k) : k \in Indices} = DOMAIN Workload

\* The records that a run has folded, as pairs of a unit and a step.
Folded(k) ==
  UNION {{<<i, n>> : n \in 1 .. shards[k].done[i]} : i \in DOMAIN shards[k].units}
RecordOf(k, at) == shards[k].units[at[1]].unit.steps[at[2]]
HowMany(k, P(_)) == Cardinality({at \in Folded(k) : P(RecordOf(k, at))})

\* The bounds that hold a record, with what is measured against each.  The time to
\* first token is the one that the percentiles are made of; a record that has none
\* (media) is held to its first output instead.
Clock(r, metric) ==
  CASE metric = "ttft" -> IF r.token_id # {} THEN r.token_id
                          ELSE IF r.token # {} THEN r.token ELSE r.output
    [] metric = "tpot" -> r.tpot
    [] metric = "e2e"  -> {r.total}
Obligations(slo, r) ==
  UNION {{<<k, b>> : b \in (IF slo.spec = {} THEN {} ELSE The(slo.spec)[k])
                        \cup (IF slo.rows THEN r.declared[k] ELSE {})} : k \in Metrics}
Kept(r, obligation) == \E v \in Clock(r, obligation[1]) : v <= obligation[2]

\* A step is evaluated when it is under an obligation and attained when it succeeded
\* and kept all; every verdict on a metric is exactly one of three, and only a
\* success is called slow.
AttainmentAddsUp(k, slo) ==
  /\ slo.all.evaluated = HowMany(k, LAMBDA r : Obligations(slo, r) # {})
  /\ slo.all.attained =
       HowMany(k, LAMBDA r : /\ Obligations(slo, r) # {} /\ Succeeded(r)
                            /\ \A o \in Obligations(slo, r) : Kept(r, o))
  /\ slo.declared.attained <= slo.declared.evaluated
  /\ \A m \in Metrics : \A c \in {slo.metric[m], slo.declared_metric[m]} :
       /\ c.evaluated = c.attained + c.violated + c.unmeasured
       /\ c.attained + c.violated <= HowMany(k, LAMBDA r : Succeeded(r) /\ Clock(r, m) # {})
  /\ slo.spec # {} => \A m \in Metrics : slo.all.attained <= slo.metric[m].attained
                                          \/ The(slo.spec)[m] = {}

\* Around a percentile there are as many values on each side as its name says.
IsPercentile(value, tenths, values) ==
  LET n == Len(values) - 1 IN
  /\ 10 * Cardinality({i \in DOMAIN values : 10 * values[i] <= value}) > tenths * n
  /\ 10 * Cardinality({i \in DOMAIN values : 10 * values[i] >= value}) > (10 - tenths) * n

StatisticsHold(statistics, values) ==
  \A s \in statistics :
    IsPercentile(s.p50, 5, values) /\ IsPercentile(s.p90, 9, values) /\ s.p90 <= s.max

\* Whatever the order in which the records arrived, what is reported of them is
\* what they say: every step counted once, attainment over the steps that were held
\* to something, cache hits compared with the plan of the steps they were counted
\* on, percentiles that are percentiles, and a duration that covers every step.
ReportsAgreeWithRecords ==
  \A k \in Indices : shards[k].units # <<>> =>
    LET f == shards[k].report IN
    /\ f.attempted = Cardinality(Folded(k)) /\ f.success + f.failed = f.attempted
    /\ f.success = HowMany(k, Succeeded)
    /\ f.id_steps + f.text_steps = Len(f.ttfts)
    /\ f.measured.steps = HowMany(k, LAMBDA r : r.usage # {})
    /\ f.measured.steps = f.attempted => f.measured.planned = f.planned.prefix
    /\ \A slo \in f.slo : AttainmentAddsUp(k, slo)
    /\ \A at \in Folded(k) : The(f.first_submit) <= RecordOf(k, at).submit
                            /\ RecordOf(k, at).complete <= The(f.last_complete)
    /\ \A summary \in shards[k].summary :
         /\ StatisticsHold(summary.totals, f.totals)
         /\ StatisticsHold(summary.ttfts, f.ttfts)
         /\ StatisticsHold(summary.tpots, f.tpots)

\* The records that some shard has folded.
AllRecords == UNION {{RecordOf(k, at) : at \in Folded(k)} : k \in Indices}

\* An aggregate is written exactly when every shard was started, waited for and
\* succeeded, and each of them had a throughput: a shard without a unit, a dry run
\* and a run that takes no time have none, and then the launcher raises.  Its
\* counts are those of the whole trace.  Its throughput adds up quotients whose
\* numerators are all its successes and whose denominators are never longer than
\* from the first submission of all to the last completion: it is never less than
\* what was delivered in that time.
AggregateIsTheSum ==
  /\ launcher = "failed" => \E k \in Indices : shards[k].exit = {1}
  /\ launcher = "done" =>
       /\ \A k \in Indices : Exited(k)
       /\ launch.processes > 1 /\ ~launch.by_hand => aggregate # {}
  /\ launcher = "crashed" /\ codes # <<>> =>
       \E k \in Indices : Exited(k) /\ The(shards[k].summary).throughput = {}
  /\ \A sum \in aggregate :
       /\ sum.attempted = SumOf([i \in DOMAIN Workload |-> Len(trace[i].steps)])
       /\ sum.success + sum.failed = sum.attempted
       /\ sum.success = SumOf([k \in Indices |-> sum.throughput[k][1]])
       /\ \A k \in Indices : \E r, s \in AllRecords :
            sum.throughput[k][2] <= s.complete - r.submit
===============================================================================
