# Verification of request-factory

TLA+ models of the load generator `req_frontend`, of its `sweep` and `tracegen`
binaries and of its launcher, the TLC runs that check them, and the theorems
that TLAPS proves about them. Paths are relative to the repository root; `src/`
there is the Rust crate.

## 1. The system

`req_frontend` replays a canonical trace against an inference endpoint. One
*run* (`runner.rs: run_once_reusing`) loads the workload, checks the endpoint,
starts two writers and a progress reporter, admits the *workload units* of the
trace (sessions, or single requests) one after the other under a concurrency
window, and at the end folds what they measured into a `RunSummary`. A *sweep*
(`bin/sweep`) makes such runs at different rates and searches for the rate at
which the server stops keeping up. A Python launcher starts one run per shard of
a workload in processes of their own and merges their summaries. `tracegen` makes
the traces, from recordings or from distributions.

### Inventory

| component | state it keeps | operations | talks to | what is hard |
|---|---|---|---|---|
| run driver, admission (`runner.rs`, `executor/admission.rs`) | the iterator over the units, the `JoinSet`, the senders, the join handles | admit, join, drop senders, await writers and reporter | everything below | shutdown order; a task that panics |
| executors (`executor/session.rs`, `independent.rs`, `multimodal.rs`) | per unit: the round, the prompt so far | wait for the arrival, submit or skip, hand off timeline and record, count, commit, wait for the tool | endpoint, both channels, counters | interleavings of many tasks, full channel, early stop |
| counters, reporter (`executor/mod.rs`) | atomic counters | add, load | executors, runner | counters loaded one by one |
| record log (`summary.rs: write_logs`) | bounded channel, aggregates | receive, fold, finalize | executors, runner | end of stream, log file cannot be created |
| timeline (`timeline.rs`, `timeline/writer.rs`) | bounded channel, drop counter, column buffers, file | offer, receive, flush, drain, close | executors, runner | must never block; file failures at each step |
| search (`bin/sweep/search.rs`) | bracket, phase, queue of rates | offer a rate, record a verdict | sweep loop | both directions of the ramp, noise, rounding |
| sweep points (`bin/sweep/point.rs`, `main.rs`, `boundary.rs`) | point directories on disk, report | reset cache, run, record, read back, judge | search, server, disk | kill and resume, torn records, warm cache |
| peak search (`bin/sweep/peak.rs`) | measured points, stale rounds | as search | sweep loop | noise, plateau, ceiling |
| text client (`backend/client.rs`, `stream.rs`, `integrity.rs`, `mod.rs`) | one response being folded | send, fold frames, idle timeout | endpoint | order of frames, end without final frame, restated output |
| wire formats, dialects (`backend/wire`, `backend/dialect`) | none | parse an object, say what a surface serves and what can be said to it | both clients, gate | differences between servers |
| preflight (`backend/preflight.rs`) | none | two probes of the cache, two of an image | endpoint | cache granularity, a probe that warms what is measured |
| media client (`backend/media_client.rs`, `executor/multimodal.rs`) | the prepared parts, one answer being folded | check against the surface, build a body, fold bytes, events or one document | endpoint | what the gate lets through; errors behind a 2xx; ends that look clean |
| realtime client (`backend/realtime_client.rs`) | one websocket session | send the turn, read events | endpoint | writes before reads; no timeout over the turn |
| prompts (`tokens.rs`) | token pool, cursor, context of a session | build, commit | executors | shortfall, colliding seeds |
| workload (`workload.rs`, `release.rs`, `schema`) | the units | load, reject, scale, shard, truncate | runner | partition, arrival times |
| records, SLO, aggregates (`record.rs`, `slo.rs`, `summary.rs`) | per request instants, bounds, samples | measure, compare, aggregate | log writer | missing instants, percentiles |
| trace generator (`bin/tracegen`) | context chain | group, select, draw, chain, write | canonical files | a recorded prefix that the replay does not have |
| canonical traces, input files (`schema`) | none | validate, write, load, plan | generator, runner | what is accepted without being replayable |
| launcher (`launcher`) | child processes | start, wait, merge | runs | a child fails |

Not modelled at all, now or later: argument parsing, assets, synthetic media
bytes (`cli.rs`, `assets.rs`, `synthetic.rs`), the self check and the benchmark
binaries (test harnesses), plots and benchmark adapters (offline scripts), JSON
layout. They are sequential and keep no state between calls.

### What makes each part correct

* A run: units start in declaration order under the window; every attempted
  round reaches the summary exactly once while the log writer lives; a session
  stops where it should and nowhere else; the writers end after the last record
  and before the summary; the run ends.
* The timeline: offering never blocks, a timeline is in the file or counted,
  and a failing file neither blocks nor makes the sink drop.
* A sweep: the reported bracket is measured evidence, true of a server that has
  a knee, as narrow as promised; a resumed sweep repeats no point and goes the
  same way; a warm cache is reported; the search ends. A peak is the best that
  was measured, with an unbroken plateau around it, and rests on the evidence
  that was asked for.
* A session: whatever a server returns, a prompt has the length the trace gives
  it; what is counted as prefix is something the server can have cached; the
  timeline of a response accounts for its tokens; and a silent server ends a
  round, not the run.
* A trace: what a generated trace counts as prefix exists when it is replayed,
  prompts have the lengths that were recorded, and what was written is read back.
* A request with media: a success is the whole answer; what the gate lets
  through, what is left out of a request and where a clock starts too late is
  known; the request ends.
* A sharded run: the shards partition the trace and offer its load together;
  a report agrees with its records; the aggregate is of all shards or absent.

## 2. Modules

| module | models | built on |
|---|---|---|
| `TimelinePipe` | `TimelineSink`, its channel, `write_timeline` | |
| `ReplayContract` | abstract: what a run promises | |
| `Replay` | one run: dispatcher, executors, counters, log writer, reporter, shutdown | extends `TimelinePipe`; implements `ReplayContract` |
| `Search` | the adaptive search, as functions on its state | |
| `Sweep` | the sweep loop, point records, crash and resume | extends `Search` |
| `Peak` | the peak search and its loop, points on disk, interruption and resume | extends `Sorting` |
| `StreamFold` | one response: the fold over its events, the integrity checks, what is carried forward | |
| `Conversation` | one session: prompts, responses and the context between rounds | extends `StreamFold` |
| `CanonicalTrace` | rows, validity, writing, loading, plan and summary of a session trace | |
| `Tracegen` | context chain, recorded and synthetic sessions, arrivals, manifest | extends `CanonicalTrace` |
| `TracedConversation` | from a recording through the generator, the file and the loader to the replay | composes `Tracegen` and `Conversation` |
| `InputFiles` | every input format: declaration, rows, refusal, truncation, summary | extends `CanonicalTrace` |
| `Wire` | what the four parsers keep of a response, and which lines are read | extends `StreamFold` |
| `Preflight` | the gate on the prefix cache | extends `Wire` |
| `Dialects` | the six dialects and eight media surfaces | |
| `Media` | one request with media, over HTTP or a websocket | extends `Dialects` |
| `Slo` | bounds, verdicts and attainment | |
| `Report` | the fold of the records and the statistics of a run | extends `Slo`, `Sorting` |
| `Shards` | launcher, processes, shards, rescaling and the aggregate | extends `Report` |
| `Sorting` | a stable sort, by the places that elements move to (external: `slice::sort_by`) | |
| `TimelineProofs`, `ReplayProofs`, `SweepProofs`, `PeakProofs`, `ConversationProofs`, `MediaProofs`, `ShardsProofs` | theorems about the module of that name (`ConversationProofs` also about `Tracegen`, `CanonicalTrace`, `TracedConversation` and `Preflight`, `ShardsProofs` also about `Slo` and `Report`) | |
| `Lemmas` | lemmas that several of these rest on | extends `Sorting` |
| `MC*` | bounds for TLC, and assumptions that TLC evaluates (see `MCConversation`, `MCPreflight`, `MCInputs`) | |

### TimelinePipe

A timeline is a request and a number of events. `Offer` is
`TimelineSink::offer`, `WriterStep` has one action per way through the loop of
`write_timeline`: a receive that leaves the row group open, one that completes
it, one whose flush fails, the draining after a failure, and the two exits. The
history variable `fate` says where each request's timeline is: offered empty,
queued, dropped, buffered, stored, or lost. A file whose writer was dropped
without `close()` has no footer, and nobody can read what was stored in it.
`Replay` composes the module with the executors that offer; on its own, with
nobody but a sink in front, it is what `timeline_unreadable` runs. Columns, encoding
and compression are left out; `ROWS_PER_ROW_GROUP` and the channel capacity are
constants.

### Replay

`Admit` and `Join` are the two halves of the loop of `drive_bounded`; `Join` is
possible only when the inner loop cannot spawn, as in the code. The task of a
unit goes through `arriving`, `ready`, `inflight`, `logging`, `counting`,
`pausing`, `leaving`: the places where `run_session` awaits or touches something
that another thread sees. An independent or multimodal request is a session of
one round. `Respond` offers the timeline in the same step as the answer arrives,
since nothing is awaited in between. `SendLog` waits for room; after the log
writer panicked its error is ignored. `Panic` is a panic inside a unit's future
(`Duration::from_secs_f64` of an unrepresentable wait): the task is joined, the
counters are not touched. `DriveEnds`, `AwaitLog`, `AwaitStatus`,
`AwaitTimeline` are the lines of `runner.rs` after the dispatch, in order.

A plan says whether its units speak the realtime protocol, since nothing bounds such
a turn (`Bounded`). The endpoint is the environment: any answer, in any order. The
verdict of a round is all that the rest of a run depends on; tokens, text and
latencies are abstracted.

`ReplayContract` has no tasks, channels or counters: units are opened in order
under the window, rounds attempted in order and recorded at most once, and
completion requires that nothing is open and everything recorded. The mapping
takes a unit to be open while its task lives, a round recorded when its record
is folded, and a run complete when `run_once` returns its summary.

### Search and Sweep

`Search` translates `search.rs` function by function; a state is a record, and
`RecordVerdict` is `Search::record`. Rates are integers of a small unit: halving
rounds down, which plays the part of rounding in `f64` (with real rates the guard on
the midpoint would be out of reach of a model). `Sweep` runs the loop of
`run_adaptive`: `Reuse` or `Reset`, `RunPoint`, `RecordPoint`, judging in the same
step because nothing observable lies between. `point.json` is created, which empties
an older record, and then written: a crash in between leaves nothing that parses. A
crash may hit any step, `Restart` is the same command again, with or without
`--no-resume`. A record keeps the metric that a run reported, and `Judge` sets it
against the rate that is offered now, which may be another one that shares the
directory: under `max-sustainable-rate` what is required grows with the rate, under
`max-rate-under-slo` it is the target. The server either has a knee, or is noisy:
each run may then end on either side, or without the metric to judge by. Whether the
cache was really warm when a point ran is a history field of its record (`warm`),
next to what the code records (`reset`).

### StreamFold and Conversation

`Replay` abstracts an answer to a verdict; these two modules open it up for one
session. `StreamFold` is functions only: `Absorb` is `StreamAccumulator::absorb`,
`PromptEcho` is `classify_prompt_echo`, and `Outcome` is the second half of
`run_step`, from the finished fold to the tokens that are carried forward. A
text is the sequence of the tokens it was decoded from, so that `Reencodings`
can say what encoding it again may give: the same tokens, others, or none when
the encoder fails. Of a usage report only the completion count is kept and whether
there was a report, of the arrival times nothing, and a timeline is always
recorded. Its counts saturate as in the code: `EventMax` and `TotalMax` stand for
`u16::MAX` and `u32::MAX`, and `TimelineAddsUp` says what a count at its limit
still means.

`Conversation` is the loop of `run_session` over it. `Send` and `Skip` build the
prompt, which moves the cursor of the token pool in both cases; `Refuse`,
`StopReading`, `EndStream` and `BreakStream` are the four ways in which
`fold_response` returns, each followed, with nothing awaited that another part
can change, by the record of the round and `commit_output`. The server is the
environment: it streams deltas, restates its whole output, or puts a piece of
the prompt in front; it returns ids or only text; it reports its count in every
event, in the last, or never; and what it sends can stop anywhere. A server that
restates only does so with its ids: its text comes in deltas. `held` and
`trusted` are history variables: what the server has processed and generated of
the last round, and whether that round succeeded with a reported count that its
ids agree with.

### CanonicalTrace, Tracegen and TracedConversation

`CanonicalTrace` is the file in the middle: `Valid` is `validate()`, `Written` is
`write_csv`, `Loads` and `Blocks` are `load`, which also checks the tag values of
each row (`TagFits`), and `Summarize` is what the run says of a workload before its
first request. Instants are counted in thirds of the last
decimal a file keeps, so that `Spelled` really rounds and two instants can become
one. `Tracegen` is what stands in front: `Materialize` is a step of the
`ContextChain` under either policy, `GroupSessions` and `SelectSessions` order
and cut the recorded rows, `Drawn` makes a synthetic session, and `Manifest` and
`CodingRecord` keep its account. The generator of random numbers is a choice of
what it may draw (`Orders`, `Gaps`, `Draws`); a log-normal draw may be any count.
`TracedConversation` puts both in front of `Conversation`: its plans come out of
generated files that were written, loaded under some declaration of tags and
summarised under some limit. `RecordedShapeIsReplayed` is about the two ends of
that pipeline, the recording and the prompts that are sent.

### Wire, Preflight and InputFiles

Operators only, which `MCPreflight` and `MCInputs` check over every small
response, pool and file; TLC evaluates their assumptions with every run of
`MCConversation`. An object of a response is a record of all keys that some
parser looks for. `ClientReads` and `FinalUsage` are the two readers of a stream
of events that this code has, which do not read alike, and `GateAssumption` says
where they agree and where they do not. `CachedTokens` is a server that caches
whole blocks. `LoadWorkload` is every check between a file and a workload, in the
order of the code: declaration, what can be replayed, rows, and truncation last.

### Dialects and Media

`Dialects` copies the tables of `dialect/profiles.rs` as far as anything depends
on them. `Media` is one request, from the gate (`Prepare`) over the probe, the
client and the body to the answer: a realtime turn puts `ClientEvents` into a
socket that holds `SocketCap` of them, anything else posts one body. An answer is
a sequence of items, and `Disposition` is what `fold_raw_audio`, `fold_sse`,
`absorb_json_media` or `read_turn` does with each. The server may answer
anything, stop, break off, or make noise, which only resets the idle timer
(`Tick` is that timer, `TotalTimeout` the one of `reqwest`, which a realtime turn
does not have). History: which parts were put into the request (`wired`), and
whether a payload was sent before the response clock started (`early`).

### Slo, Report and Shards

`Slo.Add` is `SloSummary::add`; `Report.AddRecord` is one turn of the loop of
`write_logs`, and `Finalize` its end. Durations are whole, attainment and hit
rates are kept as counts, and averages are left out. `Shards` starts the
processes one after the other, and any of them may be refused, fail or die at any
time. Each loads the whole trace, cuts it, takes its share and rescales by the
rate of the whole. Records of one unit come in their order, those of different
units in any; `Replay` models why. `RetainShard` walks over all items and keeps
those whose ordinal leaves the index, as `retain_shard` does. Throughputs are
quotients: the aggregate keeps the terms of the sum. That the sum is no less than
what was delivered is stated of the terms: the numerators are all the successes,
and no denominator is longer than from the first submission to the last
completion.

### Peak

`RecordPoint` is `PeakSearch::record`, with the ramp, the patience and the drawn
rates; `PeakOf` is `peak`. Rates are integers of a unit in which the drawn rates
of the configurations are exact, and gain and tolerance are percentages. What
exact means is the last conjunct of `PeakAssumption`: the narrowest gap of a ramp
has room for all the rates that are drawn in it; in `f64` there is always room,
for any count that a sweep could finish. The loop
around it is that of `run_peak`: a completed point is reused, a run measures any
throughput or none, and the sweep is interrupted and started again with or
without `--no-resume`.

## 3. Runs

| run | bounds | shows |
|---|---|---|
| `replay` | 2 units of up to 2 rounds, with and without timelines of up to 2 events or over the realtime surface, window 1 and 2, channels of 1, row groups of 3 rows | all safety properties of the run and of its timeline, the refinement, that the timeline writer goes on receiving until it returns, and that a run ends when its units do |
| `replay_panic` | the same sessions, with panics only | **violated**: a run with a panicked unit never ends |
| `timeline_unreadable` | 4 requests of up to 2 events, channel 2, row groups of 3, failing row groups only | **violated**: what was written before a row group that fails can no longer be read |
| `sweep` | 4 search configurations in both modes, 10 servers, 3 starts | the properties of the bracket, of resuming, and that a sweep ends |
| `conversation` | 3 sessions by hand and those of 4 recordings and of one draw, both policies, 8 servers, outputs of up to 3 tokens in deltas of 1 or 2, a pool of 3 tokens and 2 seeds, counts that saturate at 3 and 4 | prompts, prefixes and recorded shapes against every server, timelines, and that a session ends |
| `conversation_restated` | the same, a server with disjoint deltas only | **violated**: an honest delta is taken for a restated output |
| `media` | 12 mixes of parts, 4 outputs, 8 surfaces, 6 dialects, answers of up to 2 items, a socket of 2 events | what a success is, what a body leaves out, and that a request ends |
| `media_gate` | the same | **violated**: a request without a body, or without a readable answer, passes the gate |
| `media_clock` | the same | **violated**: a payload is sent before the response clock has started |
| `shards` | 5 traces of 1 to 4 units, 160 launches of 1 to 3 processes | the partition, the reports in every order of records, and the aggregate |
| `peak` | 6 configurations, 4 throughputs, 2 starts | the peak, its plateau, and the evidence behind `located` |
| `peak_ceiling` | the same, 3 throughputs, 1 start | **violated**: a peak is located before the patience is used up |

Why these bounds are enough: with channels of one slot two units already contend for
it, the writer is behind at every step, and one unit can end, skip, fail or panic
while the other is anywhere. Two rounds are the least for an early stop to leave
something out and for a verdict to be overwritten. Row groups of three end inside
and between timelines of two events, and a short one is left at the end; four
requests are the least for a row group to fail behind one that was written. The
sweep configurations start inside, below and above their range, use tolerances that
are reached and one (0) that only the guard on the midpoint ends, and have 0, 1 and
2 densified rates; the servers' knees lie below, inside and above the ranges, and a
floor of zero is among them. Three starts let a resumed sweep be killed in turn. The
sessions of `conversation` ask for a prefix of the whole context, of a part of it,
and of more than a round can leave, for a round without fresh input and for one at
the context limit, with and without `--stop-session-on-error`; with a pool of three
tokens the cursor wraps around, events and totals pass their limits of three and
four, prompts repeat themselves and deltas look like echoes and like restated
output, which is what the integrity checks must tell apart. The recordings have
sessions that alternate, rows out of order, an index that comes twice, a first round
with a prefix, a trimmed context, a compaction, and a round that makes the file
invalid. In `media` every surface meets every dialect and every part, with two parts
of a kind, and an answer can be empty, wrong in the middle, wrong at the end or cut;
a socket of two events fills before the turn is sent. The traces of `shards` have
skipped, failed and media steps, rows with bounds of their own, equal arrivals,
fewer units than processes, and runs of no duration; launches bound objectives by
flag, by file, by both and by none. The configurations of `peak` end at the ceiling,
by patience, at once, and with a hole next to the plateau.

Fairness. `Replay`: the runtime polls every task that can go on, blocking threads
run, and a request over HTTP ends, since the client gives up on it (idle timeout,
and one hour for the request). A realtime turn has no such bound: its sends and its
close have no timeout, and any frame restarts its idle timer
(`realtime_client.rs:116-130`, `299-358`). No fairness is assumed of it, and
`RunEndsIfItsUnitsDo` has its return, and that no unit panics, as premises. The
runner, every task, the log writer, the reporter and the timeline writer are each
weakly fair; crashes, panics and file failures are never forced.
`timeline_unreadable` checks a step and needs no fairness. `Sweep`: the process goes
on, and a replay returns, which is what `Replay` shows; nothing makes anyone start
the sweep again. `Conversation`: only the client is fair. The server never needs to
answer, since the idle timeout between two reads and the timeout of the request end
any silence. `Media`: the client is fair, and so is the timeout of the whole
exchange where there is one; the server owes nothing, not even silence, so that
`RequestsEnd` has to except a realtime turn that is blocked while sending or kept
alive by noise. `Shards` and `Peak` state safety only. Deadlock is checked in every
run; the only stuttering is that of a run that has returned, a session or request
that has ended, and a launch or a sweep that is over.

## 4. Findings

1. A panic inside a unit's future hangs the run (`executor/mod.rs:158`, run
   `replay_panic`): the reporter waits for a unit that nobody counts.
2. When a row group fails inside the loop of the timeline writer, the writer
   returns without closing the file, and the row groups written before cannot be
   read (`timeline/writer.rs:138`), against `timeline/writer.rs:105-107`
   (`timeline_unreadable`). A failure of the last row group does close the file.
3. A disjoint delta that starts with the only token delivered so far is taken
   for a restated output and fails the round, against the test comment at
   `backend/integrity.rs:69` (`conversation_restated`).
4. The gate on a media trace compares modalities only (`executor/multimodal.rs:97`):
   a transcription without audio passes and fails inside the run, against
   `executor/multimodal.rs:89-91` (`media_gate`). `GateLeavesTheseGaps` proves the
   complete list: a request that lacks the part its surface needs, an image asked
   of a chat that cannot generate one, and an image from `vllm`, which has no
   shape to read it in.
5. In a realtime turn of appended audio the server generates from the opening
   commit on (`backend/realtime_client.rs:251-252`), and may answer before the
   client has sent its last event and started its response clock, against
   `backend/realtime_client.rs:122-123` (`media_clock`). `OnlyAppendedAudioIsEarly`
   proves that no other turn is concerned.
6. A peak ramp that the ceiling ends is `Located` after one rate without gain,
   whatever the patience (`bin/sweep/peak.rs:139`), against
   `bin/sweep/peak.rs:32-33` and `59` (`peak_ceiling`).

### Exceptions and limits that the properties name

Some promises hold only with an exception. The properties state the exception
rather than leave the case out; those below that no run touches are facts of the
code met while it was modelled.

A run:

* The run clock is taken before the media probe (`runner.rs:357`, `362-369`): what
  the probe takes is missing from the schedule and the first requests are late.
* The timeline summary counts the requests of a row group that failed
  (`timeline/writer.rs:135`), the last one included.
* `max_concurrency` is a bound per process, not over all shards.
* Independent requests may be unsorted, repeat an id, or be none at all; a raw
  recording with a `round_idx` twice is accepted and renumbered.
* The text "Its `prefix_len` is guaranteed to exist"
  (`schema/format/text_generation/session.rs:4-5`) is checked for round 0 only;
  `CountedPrefixIsHeld` has the other rounds.
* The seeds of units lie 9,973 tokens apart, so the content of two long sessions
  overlaps, although never as a prefix (`runner.rs:157-161`; `UnitSeedsAreApart`).

Text and media:

* The gate takes the last usage report whole, the client the newest of each field;
  events without an empty line between them pass the gate and reach no replay
  (`GateAssumption`).
* Where the pool has at most 8,192 tokens, the second probe leaves the first prompt
  of unit 0 in the cache, against `runner.rs:201-202` (`GateProbeIsApart`).
* The media probe sends an image only; a server that ignores audio passes.
* Parts of the inputs are left out without an error (`DroppedInputsAreKnown`).
* A chunk of more than 65,535 tokens, or a response of more than 2^32 - 1, is in
  the timeline with the limit in place of its count, as `stream.rs:160-162` intends
  (`TimelineAddsUp`).
* An error message behind a 2xx counts as audio or video where bytes are taken as
  they come, and is skipped in a stream of events; a clean end without a terminator
  is a success (`SuccessIsTheWholeAnswer`).
* A realtime turn has no timeout as a whole, every ping
  restarts the idle timer, and all of it is sent before anything is read
  (`RequestsEnd`). A failed connection is recorded with no duration.

Reports:

* A record without the time of a token id is held to its first output by the
  objective, but is not in the percentiles of time to first token; latencies of
  failed steps are in the percentiles.
* More processes than units, a dry run, or a shard that takes no time leave a
  throughput of null, and the launcher raises instead of writing the aggregate
  that `docs/LOADGEN_PERFORMANCE.md:8-10` describes. The sum of throughputs
  over-states what was delivered when shards do not overlap. A launcher that fails
  to start a shard leaves those that run (`AggregateIsTheSum`).
* With a patience of 0 a peak is located after one point (`LocatedIsEvidence`).
  Among equal throughputs the one measured last is the peak (`max_by`,
  `bin/sweep/peak.rs:209-214`), although its comment speaks of a conclusion that does
  not depend on the sequence (`bin/sweep/peak.rs:91-92`); `PeakIsTheBest` says only
  that nothing better was measured.

Searches:

* With `--min-rate 0` under `max-rate-under-slo`, and a server that meets the
  objective at no rate, the rates below half a millionth share the directory of rate
  0 and with it one record and one verdict, so that the ramp halves for ever
  (`bin/sweep/search.rs:167`). Under `max-sustainable-rate` the verdict is made again
  against the rate that is offered and turns the ramp.
* A rate that is drawn around the knee may stay on the good side above
  `last_good_rate`, which is then not the "highest rate measured that stayed on the
  good side" (`bin/sweep/search.rs:83`, `140-149`); `BracketIsEvidence` says what it is.

## 5. Proofs

TLAPS proves, for every value of the constants:

* `TimelineProofs`: `TimelineTypes` and `TimelineInvariant`. The inductive invariant
  `TimelineInv` adds to the types that the channel holds exactly the requests whose
  fate is `queued`, each once; that `dropped` counts the requests whose fate is
  `dropped`; that a writer which has not failed has counted in `summary` exactly
  what is buffered or stored; and that a finished writer has an empty channel and no
  sender left, so nothing moves after the final read of the counter. Without the
  first part a receive could not be shown to change the fate of one request only.
* `ReplayProofs`: `TypeOK`, `DroppedCountIsFinal`, `NothingLostInSilence`,
  `StatusExitsLast`, `WritersOutliveExecutors`, `EveryRoundRecordedOnce`, and `Spec
  => ImplementsContract`. `ControlInv` is inductive and relates where the runner is
  with what the dispatcher and the writers have done (`Admission`, `Shutdown`), a
  unit's place with its rounds (`Rounds`), and the finished counter with the set of
  ended units (`UnitsAreCounted`). The account of the records is inductive on top of
  it. The timeline invariant is carried over: each step of a run is a step or a
  stutter of `TimelinePipe` (`TimelineFollows`). The refinement is a step
  simulation: `ContractInit`, `ContractStep`.

  On top of it, `SessionsStopWhereTheyShould`, `NoRoundLeftOut` and
  `SummaryIsComplete`. `StopInv` says that a record of a verdict that stops is the
  last of its unit, in the file and in the channel, and that its task is past its
  last round; the channel has to be in it, since a record stops a unit before it is
  written. `LeaveInv` says what a unit has attempted when it leaves. `CountInv`
  balances the counters: submitted is completed plus failed plus the units between
  `Submit` and `RecordResult`, and, while the log writer lives, what was completed
  or is about to be counted is what the file and the channel hold of successes.
* `SweepProofs`: `TypeOK`, `RatesStayInRange`, `LocatedIsNarrow`,
  `ContaminationIsReported` and `CompletedPointsAreKept`. Each function of the
  search is shown to keep `SearchOK`: what is offered, bracketed or queued is in
  the range (`Ranged`; the midpoint and the spacing of the drawn rates are two
  arithmetic lemmas), and only a narrow bracket is drawn around (`Narrowed`).
  `SweepInv` adds what the loop needs: no complete record is in the way of a
  point under way (`Underway`), and no record hides a warm cache
  (`RecordsAreHonest`).

  Then `BracketIsEvidence` and `ResumeRepeatsTheSearch` for every spacing of the
  directories, `SearchMakesProgress` where the floor is above zero, and `KneeIsTrue`
  where every rate has a directory of its own. The last two conditions are named in
  their statements (`FloorIsPositive`, `EachRateHasItsDirectory`) and are needed:
  with `--min-rate 0` under `max-rate-under-slo` the ramp can go back to a rate for
  ever, and a rate that rounds to the directory of another is judged by the metric
  of the other's run. `Bracketed` says that what is offered lies beyond the known
  ends, zero apart, which doubling and halving leave where it is; there
  `PointsAreJudged` helps, since a point at zero can only have been read back and
  its record is still the one that would be read. For the resumed sweep `ResumeInv`
  keeps two sequences of searches, the one that led here and the one that the
  records on disk tell of, and that this process is where the other was;
  `ResumableIsOnDisk` is why a restart finds them there.

* `ConversationProofs`: `TypeOK`, `PromptIsAsTraced`, `TimelineAddsUp` and
  `CountedPrefixIsHeld`, for every pool, session, server of the kinds above and
  limits of the timeline's counts (`Accounts` relates the clamped counts to the ids).
  The last one needs to know what is in a fold before the round is over:
  `Streamed` says that its ids are what was generated behind whatever the server
  put first, and that a count is that of what was generated. From it
  `EchoIsTrimmed` shows that a round which is believed carries forward exactly
  what was generated, so that the context is what the server holds
  (`ContextIsHeld`). A server that restates its output is where `Absorb` must
  refuse in time: with the first restating event that brings anything new.

  Then `RecordedShapeIsReplayed` (`GeneratedTraceIsReplayed`), and two
  lemmas on the pipeline that stand for themselves. `MaterializeOK` shows of one
  step of the context chain, under either policy, that the prefix it emits is at
  most the context it has carried, and what it carries on; `MaterializedIsReplayable`
  follows by a choice of the first round that would break it.
  `WrittenIsCanonical` says that what the writer makes of valid rows is valid when
  it is read back. `TracedAssumption` ties the constants to them: the plans that
  `Conversation` is given are those of files that were written and loaded, which
  TLC evaluates with the run `conversation`.

  Last, what stands in the prefix cache before a unit begins. `HitsNeedABlock`
  reduces a hit to its first block; `GateProbeIsApart` then shows that the probe of
  the gate is in the way of unit 0 exactly where the pool is no longer than the
  probe, and `UnitSeedsAreApart` that units share a prefix only where they begin at
  the same place of the pool. `ProbeAssumption` and `SeedsAssumption` have TLC
  evaluate the same two statements on small pools.
* `MediaProofs`: `TypeOK`, `DroppedInputsAreKnown` and `SuccessIsTheWholeAnswer`,
  for requests with any number of parts, answers of any length, and every size of
  the socket; and, around two findings, `GateLeavesTheseGaps` and
  `OnlyAppendedAudioIsEarly`, which say completely where the promises of the
  comments fail. `GateInv` says what the gate has established wherever the client
  is; the rest about the gate and the drops is about the dialect table and the
  surfaces (`OnlyMissingParts`, `OnlyTheUnreadDialect`, `OnlyKnownDrops`).
  `ClockInv` needs that a client which still sends has not sent the event that asks
  for a response. `FoldInv` says that a fold without an error is exact
  (`FoldIsExact`) for the part of the answer that was read; `OneMoreHeard` and
  `ItemByItem` carry it over one item.
* `PeakProofs`: `PeakIsTheBest` and `LocatedIsEvidence`, for every configuration,
  server and number of starts. `SearchInv` is inductive: what was measured is a
  ramp of doubling rates, and behind it rates that ascend inside one gap of the
  ramp, with what is still queued behind them (`Drawn`, `Inside`). From it no rate
  is measured twice, and the ramp can be read off the points at the end, where
  nothing but the points is left: the properties speak of the measured points
  only, not of `stale`, and `Gains` ties the two together.
* `ShardsProofs`: `ShardsPartitionTheTrace`, `ReportsAgreeWithRecords` and
  `AggregateIsTheSum`, for every trace, launch and number of processes, in every
  order of loading, recording, failing and exiting. `ShardsInv` is inductive: a
  run has loaded nothing, or its units are its share of the workload, its seeds
  are those of the units with a recorded step, and its report *tells* (`Tells`) of
  exactly the steps that are recorded; and the launcher knows of a run that has
  exited only what its exit code says. `Tells` is what makes the order of records
  irrelevant: it speaks of the set of recorded steps, and `RecordIsTold` shows that
  the fold over one more record keeps it, for each objective and whatever the
  record lacks. The share is a closed form of the recursive `RetainShard`
  (`RetainShardKeepsTheShare`), from which the shards are seen to partition. The
  percentiles need what the sort yields (`SortingSorts`), the rank a quantile falls
  on (`RankOfQuantile`), and that an interpolated value lies between its
  neighbours. The aggregate needs sums: `SumCountsCells` shows that a sum counts
  the cells of a table with one column per term, `SumsAdd` adds two of them up,
  and `PartsAddUp` shows that the steps of all shards are those of the workload.
* `Lemmas`: `LeastNumber` and `SetsGrow` take the place of induction over numbers
  and over finite sets: the fact to be shown is a set, and what it does not hold of
  has a least member. `SortingSorts` is about every sort in the project.

Assumptions are the named `ASSUME`s of the modules: finite sets, capacities of at
least one. They are what the code guarantees (`--max-concurrency 0` and
`--min-rate` at or above `--max-rate` are refused; `validate` refuses a session
whose first round has a prefix and a round with an empty prompt; several processes
under one launcher run saturated, without a rate) or, for `Peak`, what makes whole
numbers stand for `f64`. Every invariant and action property of a passing run is
a theorem.

Model-checked only:

* every liveness property (liveness under fairness is beyond the prover);
* the algorithms that are checked against a reference definition by an assumption
  over small inputs: `GateAssumption` (`MCPreflight`), `InputsAssumption` and
  `UnsortedAssumption` (`MCInputs`), `GeneratedAssumption` and `DrawnAssumption`
  (`MCConversation`).

## 6. Not modelled

* The self check, the performance server and the transport benchmark: they test
  the program and are not part of a run.
* Plots, benchmark adapters and mock servers: offline scripts and doubles.
* Argument parsing beyond the refusals that other modules rely on, assets, and the
  bytes of synthetic media.
* JSON layout, the spelling of summaries and logs, column encodings.
* The random number generators: a draw is a choice of what it may give.
* The cache of tokenized corpora, and the text of the pool: tokens are numbered.
* Instants: `record.rs` is modelled as far as the durations that `Report` folds;
  the places where clocks start and stop are in `Media`, `StreamFold` and `Replay`.
* Grid mode of the sweep: it runs the given rates in order, with the same records
  on disk as the two searches, and judges nothing.

## 7. Plan

Done: every module of section 2. What is left, in order of importance:

1. An abstract conversation that `Conversation` implements: a server cache and
   requests, with what may be counted as a hit.
2. A simulation of `Shards`' runs by `Replay`, so that the order of records is
   derived rather than stated.
3. Grid mode.
