-------------------------------- MODULE Report --------------------------------
(***************************************************************************)
(* What a run reports of its steps (src/src/summary.rs, src/src/record.rs):*)
(* the fold of write_logs over the records in the order they arrive, and   *)
(* what finalize makes of it at the end.                                   *)
(*                                                                         *)
(* Instants and durations are whole milliseconds on one clock.  Statistics *)
(* of media bytes and of real-time factors, and averages, are left out.    *)
(***************************************************************************)
EXTENDS Slo, Sorting

\* GenerationOutcome, with what the source of the record adds to it: the planned
\* prompt of a session round and the bounds that its row declares.
Records ==
  [status : {"SUCCESS", "FAILED", "SKIPPED_CONTEXT_OVERFLOW"}, media : BOOLEAN,
   submit : Nat, complete : Nat, total : Nat,
   token_id : Option(Nat), token : Option(Nat), output : Option(Nat), tpot : Option(Nat),
   target : Nat, actual : Nat, prefix : Nat, prompt : Nat,
   usage : Option([cached : Nat, prompt : Nat]), declared : Bounds]

Succeeded(r) == r.status = "SUCCESS"

FirstOf(a, b) == IF a # {} THEN a ELSE b

\* StepLog::slo_measurement.
MeasurementOf(r) ==
  [succeeded |-> Succeeded(r),
   measured |-> [ttft |-> FirstOf(r.token_id, FirstOf(r.token, r.output)),
                 tpot |-> r.tpot, e2e |-> {r.total}],
   declared |-> r.declared]

\* CommonReplaySummary, ReplayMeasurements, PrefixCacheSummary and SloSummary.
\* first_submit and last_complete are options.
EmptyReport(slo) ==
  [attempted |-> 0, success |-> 0, failed |-> 0, overflow |-> 0, media |-> 0,
   mismatch |-> 0, id_steps |-> 0, text_steps |-> 0, tokens |-> 0,
   totals |-> <<>>, ttfts |-> <<>>, outputs |-> <<>>, tpots |-> <<>>, amortized |-> <<>>,
   first_submit |-> {}, last_complete |-> {},
   planned |-> [prefix |-> 0, prompt |-> 0],
   measured |-> [steps |-> 0, cached |-> 0, prompt |-> 0, planned |-> 0, planned_prompt |-> 0],
   slo |-> slo]

PushAll(s, option) == IF option = {} THEN s ELSE Append(s, The(option))

If(condition, n) == IF condition THEN n ELSE 0

\* Time per token as an exact pair; an empty answer and a clock beyond the end
\* have none.
Amortized(r) ==
  LET ttft == FirstOf(r.token, r.token_id) IN
  IF Succeeded(r) /\ ttft # {} /\ r.actual > 1 /\ r.total >= The(ttft)
    THEN {<<r.total - The(ttft), r.actual - 1>>} ELSE {}

\* CommonReplaySummary::add and ReplayMeasurements::add.
AddOutcome(f, r) ==
  [f EXCEPT
    !.attempted  = @ + 1,
    !.success    = @ + If(Succeeded(r), 1),
    !.failed     = @ + If(~Succeeded(r), 1),
    !.overflow   = @ + If(r.status = "SKIPPED_CONTEXT_OVERFLOW", 1),
    !.media      = @ + If(r.media, 1),
    !.mismatch   = @ + If(~r.media /\ Succeeded(r) /\ r.actual # r.target, 1),
    !.id_steps   = @ + If(r.token_id # {}, 1),
    !.text_steps = @ + If(r.token_id = {} /\ r.token # {}, 1),
    !.tokens     = @ + If(Succeeded(r), r.actual),
    !.totals     = Append(@, r.total),
    !.ttfts      = PushAll(@, FirstOf(r.token_id, r.token)),
    !.outputs    = PushAll(@, r.output),
    !.tpots      = IF Succeeded(r) THEN PushAll(@, r.tpot) ELSE @,
    !.amortized  = PushAll(@, Amortized(r)),
    !.first_submit  = IF @ = {} \/ r.submit < The(@) THEN {r.submit} ELSE @,
    !.last_complete = IF @ = {} \/ r.complete > The(@) THEN {r.complete} ELSE @]

\* PrefixCacheSummary::add: what the server counted is compared with the plan of
\* the same steps.
AddPrefix(f, r) ==
  LET known == r.usage # {} IN
  [f EXCEPT
    !.planned = [prefix |-> @.prefix + r.prefix, prompt |-> @.prompt + r.prompt],
    !.measured = IF ~known THEN @ ELSE
      [steps |-> @.steps + 1,
       cached |-> @.cached + The(r.usage).cached, prompt |-> @.prompt + The(r.usage).prompt,
       planned |-> @.planned + r.prefix, planned_prompt |-> @.planned_prompt + r.prompt]]

AddSlo(f, r) ==
  [f EXCEPT !.slo = {Add(slo, MeasurementOf(r)) : slo \in @}]

\* One turn of the loop of write_logs.
AddRecord(f, r) == AddSlo(AddPrefix(AddOutcome(f, r), r), r)

-----------------------------------------------------------------------------

\* percentile_sorted times ten, for a quantile in tenths: between two ranks it
\* is interpolated.
Percentile(sorted, tenths) ==
  LET position == tenths * (Len(sorted) - 1)
      lo       == position \div 10
      part     == position % 10
  IN  IF part = 0 THEN 10 * sorted[lo + 1]
      ELSE sorted[lo + 1] * (10 - part) + sorted[lo + 2] * part

Sorted(values) == SortBy(values, values)

\* avg, p50, p90 and max of one metric, or nothing where it was never measured.
Statistics(values) ==
  IF values = <<>> THEN {}
  ELSE LET s == Sorted(values) IN
       {[p50 |-> Percentile(s, 5), p90 |-> Percentile(s, 9), max |-> 10 * s[Len(s)]]}

\* run_duration_ms where a throughput can be had of it.
Duration(f) ==
  IF f.first_submit = {} \/ The(f.last_complete) <= The(f.first_submit) THEN {}
  ELSE {The(f.last_complete) - The(f.first_submit)}

\* CommonReplaySummary::finalize: a throughput is a pair, steps over duration.
Finalize(f) ==
  [attempted |-> f.attempted, success |-> f.success, failed |-> f.failed,
   totals |-> Statistics(f.totals), ttfts |-> Statistics(f.ttfts),
   outputs |-> Statistics(f.outputs), tpots |-> Statistics(f.tpots),
   throughput |-> {<<f.success, d>> : d \in Duration(f)},
   token_throughput |-> {<<f.tokens, d>> : d \in Duration(f)}]
===============================================================================
