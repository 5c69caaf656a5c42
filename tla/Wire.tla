--------------------------------- MODULE Wire ---------------------------------
(***************************************************************************)
(* The wire formats of text generation (src/src/backend/wire/): what the   *)
(* parser of each keeps of a response object; how the client reads the     *)
(* lines of a response (client.rs) and folds their usage (stream.rs).      *)
(*                                                                         *)
(* An object is a record of every key that some parser looks for; parsers  *)
(* ignore the others.  What an object may lack is a set of at most one, or *)
(* None for a number, or empty.                                            *)
(***************************************************************************)
EXTENDS StreamFold
LOCAL INSTANCE SequencesExt

Protocols == {"openai", "vllm-tokens", "sglang-tokens", "openai-chat"}

-----------------------------------------------------------------------------
(* One object. *)

\* The first of several keys of one meaning that is there.
FirstPresent(values) ==
  LET at == {i \in DOMAIN values : values[i] # None} IN
  IF at = {} THEN None ELSE values[CHOOSE i \in at : \A j \in at : i <= j]

UsageOf(prompt, completion, total, cached) ==
  [prompt |-> prompt, completion |-> completion, total |-> total, cached |-> cached]

\* OpenAiUsage::normalize: servers spell the cached tokens in six ways.
Normalize(u) == UsageOf(u.prompt, u.completion, u.total, FirstPresent(u.cached))

\* parse_openai_event: of the first choice only.
ParseOpenAiEvent(object, chat, include_text) ==
  LET first == {object.choices[i] : i \in DOMAIN object.choices \cap {1}}
      part(Get(_)) == FlattenSeq(SetToSeq({Get(c) : c \in first}))
  IN  [ids    |-> part(LAMBDA c : c.ids),
       text   |-> IF chat THEN part(LAMBDA c : c.delta)
                  ELSE IF include_text THEN part(LAMBDA c : c.text) ELSE <<>>,
       finish |-> \E c \in first : c.finish,
       usage  |-> {Normalize(u) : u \in object.usage}]

\* The counts of a MetaInfo; a total is not made of one half.
MetaUsage(meta) ==
  LET completion == FirstPresent(<<meta.completion, meta.output>>) IN
  UsageOf(meta.prompt, completion,
          IF None \in {meta.prompt, completion} THEN None ELSE meta.prompt + completion,
          meta.cached)

\* SglangTokensBackend::parse_event.
ParseSglangEvent(object) ==
  LET reported == {MetaUsage(m) : m \in object.meta} IN
  [ids    |-> object.output_ids,
   text   |-> <<>>,
   finish |-> \E m \in object.meta : m.finish,
   usage  |-> {u \in reported : {u.prompt, u.completion, u.cached} # {None}}]

\* parse_event of the four.
ParseEvent(protocol, object) ==
  CASE protocol = "openai"        -> ParseOpenAiEvent(object, FALSE, TRUE)
    [] protocol = "vllm-tokens"   -> ParseOpenAiEvent(object, FALSE, FALSE)
    [] protocol = "openai-chat"   -> ParseOpenAiEvent(object, TRUE, FALSE)
    [] protocol = "sglang-tokens" -> ParseSglangEvent(object)

-----------------------------------------------------------------------------
(* A response. *)

\* A line: what is in front of its data, and the data, which is [DONE], or an
\* object, or neither.
Line(field, done, objects) == [field |-> field, done |-> done, objects |-> objects]

\* fold_response: a line without the blank after its field is no data, and nothing
\* is read after [DONE].
ClientReads(lines) ==
  LET data == SelectSeq(lines, LAMBDA l : l.field = "data: ")
      ends == {i \in DOMAIN data : data[i].done}
      last == IF ends = {} THEN Len(data) ELSE (CHOOSE i \in ends : \A j \in ends : i <= j) - 1
  IN  SubSeq(data, 1, last)

\* The usage reports of lines, in order.
UsagesOf(protocol, lines) ==
  FlattenSeq([i \in DOMAIN lines |->
    SetToSeq(UNION {ParseEvent(protocol, object).usage : object \in lines[i].objects})])

\* UsageFold: the newest value of each field, wherever it came.
FoldUsage(usages) ==
  LET newest(Get(_)) == FirstPresent(Reverse([i \in DOMAIN usages |-> Get(usages[i])])) IN
  UsageOf(newest(LAMBDA u : u.prompt), newest(LAMBDA u : u.completion),
          newest(LAMBDA u : u.total), newest(LAMBDA u : u.cached))

\* run_step: a server that counted the prompt and says nothing of a cache used none.
ServerUsage(protocol, lines) ==
  LET u == FoldUsage(UsagesOf(protocol, ClientReads(lines))) IN
  IF u.cached = None /\ u.prompt # None THEN [u EXCEPT !.cached = 0] ELSE u

===============================================================================
