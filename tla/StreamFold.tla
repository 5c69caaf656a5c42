----------------------------- MODULE StreamFold -----------------------------
(***************************************************************************)
(* One streamed text response (src/src/backend/stream.rs, integrity.rs and *)
(* the second half of run_step in client.rs): the fold over its events, and*)
(* what the client makes of the fold when the stream is over.              *)
(*                                                                         *)
(* Tokens are values, a text is the sequence of the tokens it was decoded  *)
(* from, and of the usage report only the completion count is kept.  The   *)
(* instants of arrival are left out.                                       *)
(***************************************************************************)
EXTENDS Integers, Sequences

CONSTANTS
  EventMax,  \* u16::MAX, the most tokens that an event of the timeline can name
  TotalMax   \* u32::MAX, the most that its running total can

ASSUME FoldAssumption == EventMax \in Nat /\ TotalMax \in Nat

\* The None of Option<usize>.
None == -1

Kinds == {"tokens", "usage", "finish", "other"}

\* A parsed response object; reports when it has a usage object, whose completion
\* count may be missing.
Event(ids, text, reports, usage, finish) ==
  [ids |-> ids, text |-> text, reports |-> reports, usage |-> usage, finish |-> finish]

\* StreamAccumulator::new.
EmptyFold ==
  [ids |-> <<>>, text |-> <<>>, completion |-> None, failed |-> FALSE, timeline |-> <<>>]

\* fail: the first failure is the one that is kept.
Fail(f) == [f EXCEPT !.failed = TRUE]

StartsWith(s, t) == Len(t) <= Len(s) /\ SubSeq(s, 1, Len(t)) = t

\* restates_accumulated_output.
Restates(sofar, incoming) ==
  sofar # <<>> /\ Len(incoming) > Len(sofar) /\ StartsWith(incoming, sofar)

\* EventKind::classify.
Kind(e) ==
  CASE e.ids # <<>>                 -> "tokens"
    [] e.ids = <<>> /\ e.reports   -> "usage"
    [] e.ids = <<>> /\ ~e.reports  -> IF e.finish THEN "finish" ELSE "other"

Least(a, b) == IF a <= b THEN a ELSE b

\* A variant whose counts wrap around where they do not fit (as u16, as u32).
FoldEventWrapping(f, e) ==
  [f EXCEPT !.ids = f.ids \o e.ids,
            !.text = f.text \o e.text,
            !.completion = IF e.usage = None THEN f.completion ELSE e.usage,
            !.timeline = Append(f.timeline,
                                [kind   |-> Kind(e),
                                 tokens |-> Len(e.ids) % (EventMax + 1),
                                 total  |-> Len(f.ids \o e.ids) % (TotalMax + 1)])]

\* absorb: the timeline clamps the counts that do not fit.
FoldEvent(f, e) ==
  [f EXCEPT !.ids = f.ids \o e.ids,
            !.text = f.text \o e.text,
            !.completion = IF e.usage = None THEN f.completion ELSE e.usage,
            !.timeline = Append(f.timeline,
                                [kind   |-> Kind(e),
                                 tokens |-> Least(EventMax, Len(e.ids)),
                                 total  |-> Least(TotalMax, Len(f.ids \o e.ids))])]

\* absorb: a cumulative chunk fails the response before it is folded in.
Absorb(f, e) == IF Restates(f.ids, e.ids) THEN Fail(f) ELSE FoldEvent(f, e)

-----------------------------------------------------------------------------

\* The verdict of classify_prompt_echo that is not a number of echoed tokens.
Unexplained == -1

\* classify_prompt_echo: how many leading tokens repeat the prompt's tail.
PromptEcho(ids, prompt, completion) ==
  LET extra == Len(ids) - completion IN
  IF extra <= 0 THEN 0
  ELSE IF /\ extra <= Len(prompt)
          /\ SubSeq(prompt, Len(prompt) - extra + 1, Len(prompt)) = SubSeq(ids, 1, extra)
         THEN extra
         ELSE Unexplained

\* A variant that trims the echo from the wrong end.
WithoutEchoAtEnd(ids, echo) == IF echo > 0 THEN SubSeq(ids, 1, Len(ids) - echo) ELSE ids

WithoutEcho(ids, echo) == IF echo > 0 THEN SubSeq(ids, echo + 1, Len(ids)) ELSE ids

\* run_step after the stream: the output carried forward is the server's ids
\* when their number is the reported one, and the text encoded again otherwise.
Outcome(f, prompt, reencoded) ==
  LET echo  == IF f.failed \/ f.completion = None
                 THEN 0 ELSE PromptEcho(f.ids, prompt, f.completion)
      ids   == WithoutEcho(f.ids, echo)
      exact == IF f.completion = None THEN ids # <<>> ELSE Len(ids) = f.completion
  IN  [success |-> ~f.failed /\ echo # Unexplained,
       exact   |-> exact,
       output  |-> IF exact THEN ids ELSE reencoded,
       count   |-> IF f.completion # None THEN f.completion
                   ELSE IF ids = <<>> THEN Len(reencoded) ELSE Len(ids)]

=============================================================================
