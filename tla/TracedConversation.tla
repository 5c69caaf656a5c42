-------------------------- MODULE TracedConversation --------------------------
(***************************************************************************)
(* Sessions from the trace generator to the replay: what tracegen writes   *)
(* is loaded by the run (modules Tracegen and CanonicalTrace), summarised  *)
(* by it before the first request (workload.rs), and replayed (module      *)
(* Conversation).                                                          *)
(***************************************************************************)
EXTENDS Conversation, Tracegen

CONSTANTS
  Recordings,  \* recorded sessions: their rounds, in order, and the policy
  Replayed     \* the plans that were loaded from files of the generator, each
               \* with its recording and the summary of the whole workload

\* What load and from_sessions make of a file that was written from rows, when
\* sessions[k] was recorded as recordings[k].
ReplayedFrom(rows, recordings, tags, limit) ==
  UNION {
    LET sessions == Blocks(file.trace)
        summary == Summarize(sessions, {limit} \ {None})
        step(row) == [prefix |-> row.prefix, input |-> row.input, output |-> row.output]
    IN  {[plan |-> [rounds |-> [i \in DOMAIN sessions[k] |-> step(sessions[k][i])],
                    stop |-> FALSE, limit |-> limit],
          recording |-> recordings[k], summary |-> summary] : k \in DOMAIN sessions} :
    file \in {f \in Output(rows) : Loads(COLUMNS, tags, f.trace, <<>>)}}

RoundReaches(p, k) ==
  LET r == p.rounds[k] IN p.limit # None /\ Reaches(r.prefix + r.input, r.output, p.limit)

\* The rounds of a plan are those of its recording, and the summary covers them.
ASSUME TracedAssumption ==
  /\ Recordings \subseteq [raws : Seq(RawRound), policy : Policies]
  /\ \A t \in Replayed :
       LET rounds == Materialized(t.recording.raws, t.recording.policy) IN
       /\ t.plan \in Plans /\ t.recording \in Recordings
       /\ Len(t.plan.rounds) = Len(t.recording.raws)
       /\ \A k \in DOMAIN t.plan.rounds :
            LET r == t.plan.rounds[k] IN
            /\ r.prefix = rounds[k].prefix
            /\ r.input = rounds[k].input
            /\ r.output = rounds[k].output
            /\ r.prefix + r.input <= t.summary.max_prompt
            /\ RoundReaches(t.plan, k) => t.summary.overflow # {}

\* The round before this one left all that its recording has of it.
CameUpToTheTrace(raws) == round > 1 => Len(context) >= Total(raws[round - 1])

-----------------------------------------------------------------------------
(* Properties. *)

\* The prompts of a generated session are as long as those that were recorded,
\* and no longer than the prompt that the token pool is sized by.  What a prompt
\* counts as prefix was there to be cached whenever the round before came up to
\* the trace: its prefix "is guaranteed to exist" (policy.rs:10-14,
\* session.rs:4-8).  And where the dry run reported no overflow of the context, no
\* round is skipped for it.
RecordedShapeIsReplayed ==
  \A t \in {t \in Replayed : t.plan = plan} :
    LET raws == t.recording.raws IN
    /\ Waiting =>
         /\ Len(prompt.ids) = raws[round].prefix + raws[round].input
         /\ Len(prompt.ids) <= t.summary.max_prompt
         /\ CameUpToTheTrace(raws) => prompt.shortfall = 0
    /\ (phase = "ended" /\ round <= Len(plan.rounds) /\ ~plan.stop) =>
         t.summary.overflow # {}

===============================================================================
