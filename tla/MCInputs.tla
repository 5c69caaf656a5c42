------------------------------- MODULE MCInputs -------------------------------
(* Small input files of every format that is replayed. *)
EXTENDS InputFiles, TLC
LOCAL INSTANCE SequencesExt

NoTags == [session |-> [session_id |-> "", prefix_kv |-> 0, tool_wait |-> 0],
           slo |-> [ttft |-> {}, tpot |-> {}, e2e |-> {}], priority |-> {},
           speculative |-> [accept_rate |-> {}]]

\* A prefix without a session, and an objective that nothing can meet.
Orphaned == [NoTags EXCEPT !.session.prefix_kv = 3]
Impossible == [NoTags EXCEPT !.slo.ttft = {0}]

TextRow(id, arrival, input, output, tags) ==
  [id |-> id, arrival |-> arrival, input |-> input, output |-> output, tags |-> tags]

MCTextRows ==
  { TextRow("a", 0, 2, 1, NoTags), TextRow("a", 4, 1, 3, NoTags), TextRow("b", 2, 5, 1, NoTags),
    TextRow("c", 1, 0, 1, NoTags), TextRow("c", 1, 1, 1, Orphaned),
    TextRow("c", 1, 1, 1, Impossible) }

Request(id, arrival, fits, inputs, texts) ==
  [id |-> id, arrival |-> arrival, fits |-> fits, inputs |-> inputs, texts |-> texts]

MCRequests ==
  { Request("a", 0, TRUE, <<"text", "image">>, <<4>>), Request("a", 3, TRUE, <<"audio">>, <<>>),
    Request("b", 1, TRUE, <<"text">>, <<2, 3>>), Request("c", 2, FALSE, <<>>, <<1>>) }

MCRows ==
  [row : { Row("a", 0, 0, 0, 2, 1, 0), Row("a", 1, 0, 3, 1, 1, 0), Row("b", 0, 2, 0, 4, 1, 0),
           Row("b", 0, 0, 1, 1, 1, 0) },
   tags : {NoTags}]
    \cup {[row |-> Row("b", 0, 2, 0, 4, 1, 0), tags |-> Impossible]}

UpTo(n, S) == UNION {[1 .. k -> S] : k \in 0 .. n}

MCTags == {<<>>, <<"slo">>, <<"session", "slo">>, <<"slo", "slo">>, <<"speculative">>}

\* Every file of up to three items with every declaration of its tags.
FilesOf(format) ==
  UpTo(3, CASE format = "independent" -> MCTextRows
            [] format = "sessions"    -> MCRows
            [] format = "multimodal"  -> MCRequests)

Load(format, tags, file, max_items) ==
  LoadWorkload(format, tags, COLUMNS \cup ToSet(tags), file, max_items)

\* The prompts of an item, and when it is due.
Prompts(format, item) ==
  CASE format = "independent" -> {item.input}
    [] format = "multimodal"  -> {0}
    [] format = "sessions"    -> {item[k].prefix + item[k].input : k \in DOMAIN item}
Due(format, item) == IF format = "sessions" THEN item[1].arrival ELSE item.arrival

Sorted(format, items) ==
  \A i, j \in DOMAIN items : i <= j => Due(format, items[i]) <= Due(format, items[j])

\* Whether a file is refused does not depend on how much of it is replayed
\* (workload.rs:32-35), the summary bounds every prompt and counts a step or more
\* for every unit, and units are in the order in which they are due, but for
\* independent requests: their loader keeps any order, and takes a file without a
\* row (load_utils.rs:37-98, against multimodal_independent.rs:32-47).
ASSUME InputsAssumption ==
  \A format \in {"independent", "sessions", "multimodal"} :
  \A tags \in MCTags, file \in FilesOf(format) :
    LET whole == Load(format, tags, file, {})
        first == Load(format, tags, file, {1})
    IN  /\ whole = {} <=> first = {}
        /\ \A items \in whole :
             LET s == WorkloadSummary(format, items, {4}) IN
             /\ format # "independent" => Sorted(format, items) /\ items # <<>>
             /\ s.units = Len(items) /\ s.total_steps >= s.units
             /\ \A i \in DOMAIN items : \A len \in Prompts(format, items[i]) :
                  len <= s.max_prompt_len
ASSUME UnsortedAssumption ==
  \E file \in FilesOf("independent") :
    \E items \in Load("independent", <<>>, file, {}) : ~Sorted("independent", items)

\* A tag that does not validate refuses a file of sessions where it is declared, and
\* only there (session.rs:132-161).
ASSUME TagsAssumption ==
  \A tags \in MCTags :
    (\E file \in FilesOf("sessions") :
       /\ Load("sessions", tags, file, {}) # {}
       /\ \E i \in DOMAIN file : file[i].tags = Impossible) <=> tags = <<>>
===============================================================================
