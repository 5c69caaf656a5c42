------------------------------ MODULE InputFiles ------------------------------
(***************************************************************************)
(* The files that a run can be given (src/src/schema/format/, tag/) and    *)
(* what it makes of them before the first request (src/src/workload.rs):   *)
(* sessions in the canonical format, independent requests, and requests    *)
(* with media.  A file is refused as a whole.                              *)
(*                                                                         *)
(* What a file may lack, and what a refused file becomes, is a set of at   *)
(* most one.  A value that is not finite is a negative one.                *)
(***************************************************************************)
EXTENDS CanonicalTrace
LOCAL INSTANCE SequencesExt
LOCAL INSTANCE FiniteSetsExt

\* InputFileFormat, by the family of its requests.  The media formats of one
\* column set each differ only in it.
request_family ==
  [independent |-> "TextGeneration", sessions |-> "TextGeneration",
   image_to_text |-> "ImageToText", text_to_image |-> "TextToImage",
   multimodal |-> "OmniGeneration"]

Formats == DOMAIN request_family

\* TraceTag::applies_to.
AppliesTo(tag, family) ==
  tag = "speculative" => family \in {"TextGeneration", "ImageToText", "OmniGeneration"}

\* InputFileSchema::new: tags are distinct and fit the format, whose own columns
\* they must not repeat.
SchemaOK(format, tags) ==
  /\ IsInjective(tags)
  /\ \A i \in DOMAIN tags : AppliesTo(tags[i], request_family[format])
  /\ format = "sessions" => DeclarationOK(tags)
  /\ format = "multimodal" => tags = <<>>

\* reject_unsupported_replay: what this client cannot send.
Replayable(format, tags) ==
  /\ request_family[format] = "TextGeneration" \/ format = "multimodal"
  /\ "speculative" \notin ToSet(tags)

-----------------------------------------------------------------------------
(* Rows. *)

\* TextGenerationRow::validate, and the tags that the file declares.
TextRowFits(row, tags) ==
  /\ row.id # "" /\ row.arrival >= 0
  /\ row.input > 0 /\ row.output > 0
  /\ \A tag \in ToSet(tags) : TagFits(tag, row.tags[tag])

\* load of the independent formats: row by row, so that an empty file, one id
\* twice and any order of arrivals will do.
LoadIndependent(tags, rows) ==
  IF \A i \in DOMAIN rows : TextRowFits(rows[i], tags) THEN {rows} ELSE {}

\* load of the JSON lines: distinct, in the order of their arrivals, and some.
LoadMultimodal(requests) ==
  IF /\ requests # <<>>
     /\ \A i \in DOMAIN requests :
          /\ requests[i].fits
          /\ \A j \in 1 .. i - 1 : requests[j].id # requests[i].id
          /\ i > 1 => requests[i - 1].arrival <= requests[i].arrival
    THEN {requests} ELSE {}

-----------------------------------------------------------------------------
(* The workload. *)

\* load of sessions: each row has the values of its tags besides.
LoadSessions(columns, tags, file) ==
  LET rows == [i \in DOMAIN file |-> file[i].row] IN
  IF Loads(columns, tags, rows, [i \in DOMAIN file |-> file[i].tags]) THEN {Blocks(rows)} ELSE {}

\* load_workload: the items of the file, cut off after they were all looked at.
LoadWorkload(format, tags, columns, file, max_items) ==
  LET cut(items) == SubSeq(items, 1, Min({Len(items)} \cup max_items))
      items == CASE format = "independent" -> LoadIndependent(tags, file)
                 [] format = "multimodal"  -> LoadMultimodal(file)
                 [] format = "sessions"    -> LoadSessions(columns, tags, file)
  IN  IF SchemaOK(format, tags) /\ Replayable(format, tags)
        THEN {cut(all) : all \in items} ELSE {}

\* IndependentRequestSummary::from_requests.
SummarizeRequests(requests, limit) ==
  LET over == {i \in DOMAIN requests : \E l \in limit :
                 Reaches(requests[i].input, requests[i].output, l)}
      top(lengths) == Max(lengths \cup {0})
  IN  [requests   |-> Len(requests),
       overflow   |-> {requests[i].id : i \in {i \in over : \A j \in over : i <= j}},
       max_input  |-> top({requests[i].input : i \in DOMAIN requests}),
       max_output |-> top({requests[i].output : i \in DOMAIN requests}),
       output     |-> MapThenSumSet(LAMBDA i : requests[i].output, DOMAIN requests)]

\* MultimodalRequestSummary::from_requests.  Of its parts a request here has the
\* modalities, and of its outputs the token limit of each text.
SummarizeMultimodal(requests) ==
  LET texts == FlattenSeq([i \in DOMAIN requests |-> requests[i].texts])
      count(Get(_), m) == MapThenSumSet(LAMBDA i : Len(SelectSeq(Get(requests[i]), LAMBDA x : x = m)),
                                        DOMAIN requests)
  IN  [requests |-> Len(requests),
       inputs   |-> [m \in UNION {ToSet(requests[i].inputs) : i \in DOMAIN requests} |->
                       count(LAMBDA r : r.inputs, m)],
       max_text |-> Max(ToSet(texts) \cup {0}),
       text     |-> FoldSeq(LAMBDA n, sum : n + sum, 0, texts)]

\* WorkloadSummary: what a run is sized and compared by.
WorkloadSummary(format, items, limit) ==
  CASE format = "sessions" ->
         LET s == Summarize(items, limit) IN
         [units |-> s.sessions, total_steps |-> s.rounds, max_prompt_len |-> s.max_prompt]
    [] format = "independent" ->
         LET s == SummarizeRequests(items, limit) IN
         [units |-> s.requests, total_steps |-> s.requests, max_prompt_len |-> s.max_input]
    [] format = "multimodal" ->
         LET s == SummarizeMultimodal(items) IN
         [units |-> s.requests, total_steps |-> s.requests, max_prompt_len |-> 0]

===============================================================================
