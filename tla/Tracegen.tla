------------------------------- MODULE Tracegen -------------------------------
(***************************************************************************)
(* The trace generator (src/src/bin/tracegen/): a recorded trace, or draws *)
(* from distributions, become the rows of a canonical file, with the       *)
(* totals that its manifest keeps.                                         *)
(*                                                                         *)
(* What was drawn comes in from outside: a permutation for the shuffle,    *)
(* the gaps between arrivals, the lengths of a synthetic round.            *)
(***************************************************************************)
EXTENDS CanonicalTrace, TLC
LOCAL INSTANCE SequencesExt
LOCAL INSTANCE FiniteSetsExt

CONSTANTS MinDrop  \* MAJOR_COMPACTION_MIN_DROP_TOKENS

ASSUME TracegenAssumption == MinDrop \in Nat \ {0}

Policies == {"trace_reported", "monotonic"}

RawRound == [prefix : Nat, input : Nat, output : Nat]

Total(r) == r.prefix + r.input + r.output

Lower(a, b) == IF a <= b THEN a ELSE b

-----------------------------------------------------------------------------
(* One round (policy.rs). *)

\* materialize_trace_reported.
TraceReported(context_len, raw) ==
  LET available == Lower(raw.prefix, context_len)
      folded == raw.prefix - available
  IN  [prefix |-> available, input |-> raw.input + folded, output |-> raw.output,
       folded |-> folded, compaction |-> FALSE]

\* materialize_monotonic.  At least half of the context must be dropped; a
\* context of 0 has no ratio.
Monotonic(context_len, raw) ==
  LET target == raw.prefix + raw.input
      dropped == IF context_len > target THEN context_len - target ELSE 0
      major == dropped >= MinDrop /\ context_len > 0 /\ 2 * dropped >= context_len
      prefix == IF major THEN 0 ELSE Lower(context_len, target)
  IN  [prefix |-> prefix, input |-> target - prefix, output |-> raw.output,
       folded |-> IF raw.prefix > prefix THEN raw.prefix - prefix ELSE 0,
       compaction |-> major]

\* A variant that believes the prefix that was recorded.
MaterializeAsRecorded(context_len, raw, policy) ==
  [prefix |-> raw.prefix, input |-> raw.input, output |-> raw.output,
   folded |-> 0, compaction |-> FALSE]

\* ContextChain::materialize, given the context that the chain holds.
Materialize(context_len, raw, policy) ==
  CASE policy = "trace_reported" -> TraceReported(context_len, raw)
    [] policy = "monotonic"      -> Monotonic(context_len, raw)

\* The rounds of one session through one chain, which holds all of the round before.
Materialized(raws, policy) ==
  LET done[k \in DOMAIN raws] ==
        Materialize(IF k = 1 THEN 0 ELSE Total(done[k - 1]), raws[k], policy)
  IN  done

-----------------------------------------------------------------------------
(* A recorded trace (generator/coding_session.rs). *)

\* RawRow: what TraceLab exports of one round.
Raw(session, idx, prefix, input, output, wait) ==
  [session |-> session, idx |-> idx, prefix |-> prefix, input |-> input,
   output |-> output, wait |-> wait]

\* read_raw and group_sessions.
Unreadable(raws) == raws = <<>> \/ \E i \in DOMAIN raws : raws[i].session = ""

\* group_sessions: in the order of their first rows; rounds by their index, and
\* those that share one as they stand.
GroupSessions(raws) ==
  LET firsts == {i \in DOMAIN raws : \A j \in 1 .. i - 1 : raws[j].session # raws[i].session}
      heads == SetToSortSeq(firsts, LAMBDA i, j : i < j)
      places(id) == SetToSortSeq({i \in DOMAIN raws : raws[i].session = id},
                                 LAMBDA i, j : \/ raws[i].idx < raws[j].idx
                                               \/ raws[i].idx = raws[j].idx /\ i < j)
      rounds(id) == [k \in DOMAIN places(id) |-> raws[places(id)[k]]]
  IN  [k \in DOMAIN heads |-> [session |-> raws[heads[k]].session,
                               rounds |-> rounds(raws[heads[k]].session)]]

\* select_sessions: order is the identity unless the sessions are shuffled; max
\* is a set of at most one.
SelectSessions(sessions, order, max) ==
  LET ordered == [k \in DOMAIN sessions |-> sessions[order[k]]]
      kept == Min({Len(sessions)} \cup max)
  IN  SubSeq(ordered, 1, kept)

\* SessionOrder and ArrivalPattern: what may be drawn for them.
Orders(order, count) ==
  IF order = "shuffle" THEN Permutations(1 .. count) ELSE {[k \in 1 .. count |-> k]}
Gaps(pattern, interval) == IF pattern = "constant" THEN {interval} ELSE Nat

\* synthesize: the first session arrives at 0, and a gap lies before each other.
Synthesize(count, gaps) ==
  LET at[k \in 1 .. count] == IF k = 1 THEN 0 ELSE at[k - 1] + gaps[k - 1] IN at

\* The rows of one session, renumbered from 0.
SessionRows(session, arrival, rounds, waits) ==
  [k \in DOMAIN rounds |->
     Row(session, k - 1, arrival, rounds[k].prefix, rounds[k].input, rounds[k].output, waits[k])]

\* The sessions that were selected, each with its rounds through a chain.
Selected(raws, options) ==
  LET selected == SelectSessions(GroupSessions(raws), options.order, options.max) IN
  [k \in DOMAIN selected |->
     [session |-> selected[k].session, raws |-> selected[k].rounds,
      rounds |-> Materialized(selected[k].rounds, options.policy)]]

\* generate.
CodingRows(raws, options) ==
  LET selected == Selected(raws, options)
      arrivals == Synthesize(Len(selected), options.gaps)
  IN  FlattenSeq([k \in DOMAIN selected |->
        SessionRows(selected[k].session, arrivals[k], selected[k].rounds,
                    [i \in DOMAIN selected[k].raws |-> selected[k].raws[i].wait])])

\* The statistics of the Record.
CodingRecord(raws, options) ==
  LET selected == Selected(raws, options)
      rounds == {ki \in (DOMAIN selected) \X (DOMAIN raws) :
                   ki[2] \in DOMAIN selected[ki[1]].rounds}
      of(ki) == selected[ki[1]].rounds[ki[2]]
      folded == {ki \in rounds : of(ki).folded > 0}
  IN  [folded_prefix_tokens    |-> MapThenSumSet(LAMBDA ki : of(ki).folded, rounds),
       folded_rounds           |-> Cardinality(folded),
       folded_first_rounds     |-> Cardinality({ki \in folded : ki[2] = 1}),
       major_compaction_rounds |-> Cardinality({ki \in rounds : of(ki).compaction})]

-----------------------------------------------------------------------------
(* Sessions drawn from distributions (generator/synthetic.rs). *)

\* Distribution::draw: whole, and at least 1 however far its tail reaches.
Draws(d) ==
  CASE d.kind = "fixed"     -> {Max({1, d.value})}
    [] d.kind = "uniform"   -> Max({1, d.low}) .. Max({1, d.high})
    [] d.kind = "lognormal" -> Nat \ {0}

\* Args::validate, where a probability is given in percent.
ArgsOK(args) == args.sessions > 0 /\ args.rate > 0 /\ args.compaction \in 0 .. 100

\* What generate may draw for its sessions.
MayDraw(args, sessions) ==
  /\ Len(sessions) = args.sessions
  /\ \A k \in DOMAIN sessions :
       /\ Len(sessions[k]) \in Draws(args.rounds)
       /\ \A i \in DOMAIN sessions[k] :
            LET draw == sessions[k][i] IN
            /\ draw.input \in Draws(args.input) /\ draw.output \in Draws(args.output)
            /\ draw.wait \in Draws(args.wait)
            /\ draw.compacted => i > 1 /\ args.compaction > 0

\* One session: a round carries the whole conversation, or drops it.
Drawn(draws) ==
  LET done[k \in DOMAIN draws] ==
        [prefix |-> IF k = 1 \/ draws[k].compacted THEN 0 ELSE Total(done[k - 1]),
         input |-> draws[k].input, output |-> draws[k].output]
  IN  done

SyntheticRows(sessions, gaps) ==
  LET arrivals == Synthesize(Len(sessions), gaps) IN
  FlattenSeq([k \in DOMAIN sessions |->
    SessionRows(ToString(k), arrivals[k], Drawn(sessions[k]),
                [i \in DOMAIN sessions[k] |-> sessions[k][i].wait])])

-----------------------------------------------------------------------------
(* What is written (main.rs). *)

\* Manifest::derive, without the strings.  planned_prefix_hit_rate is the
\* quotient of the prefixes and the prompts.
Manifest(rows) ==
  [sessions |-> Cardinality({rows[i].session : i \in DOMAIN rows}),
   rounds   |-> Len(rows),
   prompt   |-> MapThenSumSet(LAMBDA i : rows[i].prefix + rows[i].input, DOMAIN rows),
   prefix   |-> MapThenSumSet(LAMBDA i : rows[i].prefix, DOMAIN rows),
   output   |-> MapThenSumSet(LAMBDA i : rows[i].output, DOMAIN rows)]

\* main: rows that are not canonical are not written.
Output(rows) ==
  IF Valid(rows)
    THEN {[trace |-> Written(rows), manifest |-> Manifest(rows), plan |-> Plan(Written(rows))]}
    ELSE {}

===============================================================================
