---------------------------- MODULE MCConversation ----------------------------
(* Bounds for TLC. *)
EXTENDS TracedConversation, MCPreflight, MCInputs
LOCAL INSTANCE SequencesExt

MCPool == <<1, 2, 3>>
MCSeeds == {0, 1}
MCDeltas == {<<1>>, <<2>>, <<1, 2>>}

R(prefix, input, output) == [prefix |-> prefix, input |-> input, output |-> output]
P(rounds, stop, limit) == [rounds |-> rounds, stop |-> stop, limit |-> limit]

\* By hand: a prefix of the whole context, of a part of it, and of more than a
\* round may leave; a round without fresh input; a round at the context limit.
HandMade ==
  { P(<<R(0, 2, 3), R(5, 1, 1)>>, FALSE, None),
    P(<<R(0, 1, 2), R(2, 0, 2), R(4, 1, 1)>>, TRUE, None),
    P(<<R(0, 1, 1), R(1, 1, 1), R(3, 2, 2)>>, FALSE, 7) }

\* Recorded files: two sessions whose rows alternate, out of order, with an index
\* that comes twice and one of them asking for more than it has; a session that
\* begins with a prefix; one that is trimmed, then compacted; and a round of no
\* output, for which nothing is written.
MCFiles ==
  { <<Raw("b", 1, 1, 1, 1, 2), Raw("a", 0, 0, 1, 1, 0), Raw("b", 1, 2, 1, 1, 0),
      Raw("b", 0, 1, 1, 1, 1), Raw("a", 5, 3, 1, 1, 0)>>,
    <<Raw("a", 0, 1, 1, 1, 0), Raw("a", 3, 4, 1, 1, 1)>>,
    <<Raw("a", 0, 0, 2, 2, 0), Raw("a", 1, 1, 2, 1, 0), Raw("a", 2, 0, 1, 1, 0)>>,
    <<Raw("a", 0, 0, 1, 0, 0)>> }

Options(raws) ==
  [policy : Policies, order : UNION {Orders(o, Len(GroupSessions(raws))) : o \in {"source", "shuffle"}},
   max : {{}, {1}}, gaps : [{1} -> Gaps("constant", 4)]]

Draw(compacted, input, output) ==
  [compacted |-> compacted, input |-> input, output |-> output, wait |-> 1]

\* Two synthetic sessions, one of which drops its context.
MCDrawn ==
  << <<Draw(FALSE, 1, 1), Draw(FALSE, 1, 1)>>, <<Draw(FALSE, 1, 2), Draw(TRUE, 2, 1)>> >>

Fixed(n) == [kind |-> "fixed", value |-> n]
MCArgs ==
  [sessions |-> 2, rate |-> 1, compaction |-> 50, rounds |-> Fixed(2), wait |-> Fixed(0),
   input |-> [kind |-> "uniform", low |-> 0, high |-> 2], output |-> [kind |-> "lognormal"]]

ASSUME DrawnAssumption == ArgsOK(MCArgs) /\ MayDraw(MCArgs, MCDrawn)

Lengths(rounds) ==
  [i \in DOMAIN rounds |->
     [prefix |-> rounds[i].prefix, input |-> rounds[i].input, output |-> rounds[i].output]]

MCRecording(rounds, policy) == [raws |-> Lengths(rounds), policy |-> policy]

\* Every file with every declaration of its tags, and with and without a limit.
Declared == {<<>>, <<"slo">>, <<"session">>}
Limits == {None, 4}

\* The rounds of raws that were selected, before and after their chain.
RawRounds(raws, o) == FlattenSeq([k \in DOMAIN Selected(raws, o) |-> Selected(raws, o)[k].raws])

SumOf(Op(_), raws) == FoldSeq(LAMBDA r, sum : Op(r) + sum, 0, raws)

\* No policy changes how many tokens are asked for, and the record accounts for
\* every token of prefix that a recording had and the trace has not; what is
\* written has a predecessor for every round but the first ones.
ASSUME GeneratedAssumption ==
  \A raws \in {f \in MCFiles : ~Unreadable(f)} : \A o \in Options(raws) :
    LET rows == CodingRows(raws, o)
        record == CodingRecord(raws, o)
        recorded == SumOf(LAMBDA r : r.prefix, RawRounds(raws, o))
    IN  /\ Manifest(rows).prompt = SumOf(LAMBDA r : r.prefix + r.input, RawRounds(raws, o))
        /\ Manifest(rows).rounds = Len(RawRounds(raws, o))
        /\ Manifest(rows).prefix + record.folded_prefix_tokens >= recorded
        /\ o.policy = "trace_reported" =>
             /\ Manifest(rows).prefix + record.folded_prefix_tokens = recorded
             /\ record.major_compaction_rounds = 0
        /\ record.folded_first_rounds <= record.folded_rounds
        /\ Valid(rows) =>
             \A i \in DOMAIN rows : Plan(rows)[i].predecessor \subseteq
                                      {rows[j].request : j \in 1 .. i - 1}

FromCoding ==
  UNION {
    UNION {ReplayedFrom(CodingRows(raws, o),
                        [k \in DOMAIN Selected(raws, o) |->
                           MCRecording(Selected(raws, o)[k].raws, o.policy)], tags, limit) :
             o \in Options(raws), tags \in Declared, limit \in Limits} :
    raws \in {f \in MCFiles : ~Unreadable(f)}}

FromDraws ==
  UNION {ReplayedFrom(SyntheticRows(MCDrawn, <<3>>),
                      [k \in DOMAIN MCDrawn |->
                         MCRecording(Drawn(MCDrawn[k]), "trace_reported")], tags, limit) :
           tags \in Declared, limit \in Limits}

MCReplayed == FromCoding \cup FromDraws
MCRecordings == {t.recording : t \in MCReplayed}
MCPlans == HandMade \cup {t.plan : t \in MCReplayed}

S(style, ids, report) == [style |-> style, ids |-> ids, report |-> report]

MCServers ==
  { S("delta", TRUE, "final"), S("delta", TRUE, "running"), S("delta", TRUE, "never"),
    S("delta", FALSE, "final"), S("delta", FALSE, "uncounted"), S("cumulative", TRUE, "running"),
    S("cumulative", TRUE, "final"), S("echo", TRUE, "running"), S("echo", TRUE, "final") }

MCServersDelta == { S("delta", TRUE, "final") }
===============================================================================
