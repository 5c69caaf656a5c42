---------------------------- MODULE Conversation ----------------------------
(***************************************************************************)
(* One session of a text replay, seen from its conversation: the prompts   *)
(* that run_session builds (src/src/tokens.rs, executor/session.rs), the   *)
(* responses that the client folds (module StreamFold), and the context    *)
(* that one round leaves to the next.  The trace says how much of a prompt *)
(* is context; what a server really returned decides how much there is.    *)
(*                                                                         *)
(* The server is the environment.  It streams disjoint deltas, or restates *)
(* everything in each event, or repeats the end of the prompt in the first *)
(* one; it returns token ids or text only; it reports its count with every *)
(* event, at the end, or never, or has it missing from every report.  A    *)
(* response may be refused, be cut short between any two events, or run    *)
(* into a timeout.                                                         *)
(***************************************************************************)
EXTENDS StreamFold

CONSTANTS
  Token,    \* the vocabulary
  Pool,     \* the token pool of the run
  Seeds,    \* where in the pool a session may begin
  Deltas,   \* what a server may generate in one step
  Plans,    \* the sessions
  Servers,  \* the servers
  Merged    \* a token that encoding a text again puts for its first two

Styles == {"delta", "cumulative", "echo"}
Reports == {"running", "final", "uncounted", "never"}
ServerType == [style : Styles, ids : BOOLEAN, report : Reports]

RoundType == [prefix : Nat, input : Nat, output : Nat \ {0}]

\* stop is --stop-session-on-error, limit the context limit that skips a round.
PlanType == [rounds : Seq(RoundType), stop : BOOLEAN, limit : Nat \cup {None}]

\* What validate() asks of the rounds of a session, and build_token_pool of the
\* pool.
ASSUME ConversationAssumption ==
  /\ Pool \in Seq(Token) /\ Len(Pool) > 0
  /\ Seeds \subseteq Nat
  /\ Deltas \subseteq Seq(Token) /\ <<>> \notin Deltas
  /\ Merged \in Token
  /\ Servers \subseteq ServerType
  /\ Plans \subseteq PlanType
  /\ \A p \in Plans : /\ Len(p.rounds) > 0
                      /\ p.rounds[1].prefix = 0
                      /\ \A i \in DOMAIN p.rounds :
                           p.rounds[i].prefix + p.rounds[i].input > 0

VARIABLES
  plan,       \* the session
  server,     \* what the server is like
  phase,      \* where run_session is
  round,      \* the round it is in
  cursor,     \* TokenProvider.cursor
  context,    \* PromptBuilder.context_tokens
  prompt,     \* the PromptBuild of this round
  fold,       \* the StreamAccumulator of this round
  generated,  \* what the server has generated in this round
  answered,   \* it has sent its last event
  held,       \* history: what the server holds of the round before
  trusted     \* history: the round before succeeded, its count was reported and
              \* its ids were that many

vars == <<plan, server, phase, round, cursor, context, prompt, fold, generated, answered,
          held, trusted>>

NoPrompt == [ids |-> <<>>, prefix |-> 0, append |-> 0, shortfall |-> 0]

Round == plan.rounds[round]

Phases == {"between", "sent", "streaming", "ended"}

-----------------------------------------------------------------------------
(* The prompt. *)

\* TokenProvider::take.
Take(len) == [i \in 1 .. len |-> Pool[((cursor + i - 1) % Len(Pool)) + 1]]

\* A variant whose cursor runs off the pool.
CursorRunningOn(len) == cursor + len

CursorAfter(len) == (cursor + len) % Len(Pool)

\* A variant that leaves a gap where the context came up short.
BuildPromptShort(step) ==
  LET prefix == Least(step.prefix, Len(context)) IN
  [ids       |-> SubSeq(context, 1, prefix) \o Take(step.input),
   prefix    |-> prefix,
   append    |-> step.input,
   shortfall |-> step.prefix - prefix]

\* build_prompt: what the context cannot supply is made of fresh tokens.
BuildPrompt(step) ==
  LET prefix    == Least(step.prefix, Len(context))
      shortfall == step.prefix - prefix
  IN  [ids       |-> SubSeq(context, 1, prefix) \o Take(step.input + shortfall),
       prefix    |-> prefix,
       append    |-> step.input + shortfall,
       shortfall |-> shortfall]

\* reaches_context_limit.
SkippedAtLimit(step) ==
  plan.limit # None /\ Len(BuildPrompt(step).ids) + step.output >= plan.limit

\* The loop of run_session up to the request.
Send ==
  /\ phase = "between" /\ round <= Len(plan.rounds)
  /\ ~SkippedAtLimit(Round)
  /\ prompt' = BuildPrompt(Round)
  /\ cursor' = CursorAfter(prompt'.append)
  /\ fold' = EmptyFold
  /\ generated' = <<>> /\ answered' = FALSE
  /\ phase' = "sent"
  /\ UNCHANGED <<plan, server, round, context, held, trusted>>

\* A round that reaches the limit ends the session.
Skip ==
  /\ phase = "between" /\ round <= Len(plan.rounds)
  /\ SkippedAtLimit(Round)
  /\ prompt' = BuildPrompt(Round)
  /\ cursor' = CursorAfter(prompt'.append)
  /\ phase' = "ended"
  /\ UNCHANGED <<plan, server, round, context, fold, generated, answered, held, trusted>>

\* record_unit_done after the last round.
EndSession ==
  /\ phase = "between" /\ round > Len(plan.rounds)
  /\ phase' = "ended"
  /\ UNCHANGED <<plan, server, round, cursor, context, prompt, fold, generated, answered,
                 held, trusted>>

-----------------------------------------------------------------------------
(* The response. *)

Tails(s) == {SubSeq(s, i, Len(s)) : i \in 1 .. Len(s)}

\* The ids of an event that brings delta, and the count that comes with it.
Ids(delta) ==
  IF ~server.ids THEN {<<>>}
  ELSE CASE server.style = "delta"      -> {delta}
         [] server.style = "cumulative" -> {generated \o delta}
         [] server.style = "echo"       -> IF generated = <<>>
                                             THEN {tail \o delta : tail \in Tails(prompt.ids)}
                                             ELSE {delta}

\* The event has a usage object, and its completion count.
HasUsage(last) ==
  server.report \in {"running", "uncounted"} \/ (last /\ server.report = "final")

Reported(delta, last) ==
  IF server.report = "running" \/ (last /\ server.report = "final")
    THEN Len(generated \o delta) ELSE None

\* The response headers arrive.
Accept ==
  /\ phase = "sent"
  /\ phase' = "streaming"
  /\ UNCHANGED <<plan, server, round, cursor, context, prompt, fold, generated, answered,
                 held, trusted>>

\* The server generates some more, and the client folds the event.
Generate(delta) ==
  /\ phase = "streaming" /\ ~answered /\ ~fold.failed
  /\ Len(generated) + Len(delta) <= Round.output
  /\ \E ids \in Ids(delta) :
       fold' = Absorb(fold, Event(ids, delta, HasUsage(FALSE), Reported(delta, FALSE), FALSE))
  /\ generated' = generated \o delta
  /\ UNCHANGED <<plan, server, phase, round, cursor, context, prompt, answered, held, trusted>>

\* The last event carries no new token; a server that restates everything does
\* so here too.
GenerateLast ==
  /\ phase = "streaming" /\ ~answered /\ ~fold.failed
  /\ generated # <<>>
  /\ \E ids \in (IF server.style = "cumulative" THEN Ids(<<>>) ELSE {<<>>}) :
       fold' = Absorb(fold, Event(ids, <<>>, HasUsage(TRUE), Reported(<<>>, TRUE), TRUE))
  /\ answered' = TRUE
  /\ UNCHANGED <<plan, server, phase, round, cursor, context, prompt, generated, held,
                 trusted>>

\* Encoding a text again need not give the tokens it was decoded from, and gives
\* none when it fails.
Reencodings(text) ==
  {text, <<>>} \cup (IF Len(text) >= 2 THEN {<<Merged>> \o SubSeq(text, 3, Len(text))} ELSE {})

\* The round is over: its outcome is recorded, and unless it ends the session
\* its prompt and output are the context of the next (commit_output).
Conclude(f, reencoded, serverHolds) ==
  LET o == Outcome(f, prompt.ids, reencoded) IN
  /\ trusted' = (o.success /\ f.completion # None /\ o.exact)
  /\ held' = serverHolds
  /\ fold' = f
  /\ IF ~o.success /\ plan.stop
       THEN phase' = "ended" /\ UNCHANGED <<context, round>>
       ELSE /\ phase' = "between"
            /\ context' = prompt.ids \o o.output
            /\ round' = round + 1

\* The connection or the server refuses, or nothing is heard before the timeout
\* of the request: nothing of the prompt need be known there.
Refuse ==
  /\ phase = "sent"
  /\ Conclude(Fail(fold), <<>>, <<>>)
  /\ UNCHANGED <<plan, server, cursor, prompt, generated, answered>>

\* absorb broke off: a restated output is not read any further.
StopReading ==
  /\ phase = "streaming" /\ fold.failed
  /\ \E reencoded \in Reencodings(fold.text) :
       Conclude(fold, reencoded, prompt.ids \o generated)
  /\ UNCHANGED <<plan, server, cursor, prompt, generated, answered>>

\* [DONE], or the body ends: both are an end without a failure.
EndStream ==
  /\ phase = "streaming" /\ ~fold.failed
  /\ \E reencoded \in Reencodings(fold.text) :
       Conclude(fold, reencoded, prompt.ids \o generated)
  /\ UNCHANGED <<plan, server, cursor, prompt, generated, answered>>

\* A variant that only watches the gaps between events.
BreakStreamBetweenEvents ==
  /\ phase = "streaming" /\ ~fold.failed /\ generated # <<>>
  /\ \E reencoded \in Reencodings(fold.text) :
       Conclude(Fail(fold), reencoded, prompt.ids \o generated)
  /\ UNCHANGED <<plan, server, cursor, prompt, generated, answered>>

\* A transport error, the idle timeout, or the timeout of the whole request.
BreakStream ==
  /\ phase = "streaming" /\ ~fold.failed
  /\ \E reencoded \in Reencodings(fold.text) :
       Conclude(Fail(fold), reencoded, prompt.ids \o generated)
  /\ UNCHANGED <<plan, server, cursor, prompt, generated, answered>>

\* What the client does by itself: it goes on, and it gives up.
Client == Send \/ Skip \/ EndSession \/ Refuse \/ StopReading \/ BreakStream

Server == Accept \/ (\E delta \in Deltas : Generate(delta)) \/ GenerateLast \/ EndStream

Ended == phase = "ended" /\ UNCHANGED vars

Init ==
  /\ plan \in Plans /\ server \in Servers
  /\ phase = "between" /\ round = 1
  /\ \E seed \in Seeds : cursor = seed % Len(Pool)
  /\ context = <<>> /\ prompt = NoPrompt
  /\ fold = EmptyFold /\ generated = <<>> /\ answered = FALSE
  /\ held = <<>> /\ trusted = FALSE

Next == Client \/ Server \/ Ended

\* The task runs, and no request outlives its timeout.
Spec == Init /\ [][Next]_vars /\ WF_vars(Client)

-----------------------------------------------------------------------------
(* Properties. *)

Waiting == phase \in {"sent", "streaming"}

\* The types of the variables.
TypeOK ==
  /\ plan \in Plans /\ server \in Servers /\ phase \in Phases
  /\ round \in 1 .. Len(plan.rounds) + 1
  /\ Waiting => round <= Len(plan.rounds)
  /\ cursor \in 0 .. Len(Pool) - 1
  /\ context \in Seq(Token) /\ generated \in Seq(Token) /\ held \in Seq(Token)
  /\ prompt \in [ids : Seq(Token), prefix : Nat, append : Nat, shortfall : Nat]
  /\ fold \in [ids : Seq(Token), text : Seq(Token), completion : Nat \cup {None},
               failed : BOOLEAN,
               timeline : Seq([kind : Kinds, tokens : Nat, total : Nat])]
  /\ answered \in BOOLEAN /\ trusted \in BOOLEAN

\* Whatever the server returned before, a prompt is as long as the trace says,
\* and each of its tokens is either counted as prefix and taken from the
\* conversation, or counted as appended (tokens.rs:76-97).  So every replay of
\* the trace offers the same load.
PromptIsAsTraced ==
  Waiting => /\ Len(prompt.ids) = Round.prefix + Round.input
             /\ Len(prompt.ids) = prompt.prefix + prompt.append
             /\ prompt.append = Round.input + prompt.shortfall
             /\ SubSeq(prompt.ids, 1, prompt.prefix) = SubSeq(context, 1, prompt.prefix)

\* After a round that succeeded with as many ids as the server reported, all
\* that is counted as prefix is a prefix of what the server processed and
\* generated there, also when it echoed the prompt, restated its output or was
\* cut short (tokens.rs:99-101, integrity.rs:30-36).
CountedPrefixIsHeld ==
  (Waiting /\ trusted) => StartsWith(held, SubSeq(prompt.ids, 1, prompt.prefix))

\* The timeline accounts for every token id that was folded, in order, and where
\* a count did not fit, the event says so by the limit it holds: below the limit
\* its count is what the total grew by, and at the limit the total grew by that
\* at least (stream.rs:157-170).
TimelineAddsUp ==
  LET t == fold.timeline
      Before(i) == IF i = 1 THEN 0 ELSE t[i - 1].total
  IN  /\ \A i \in DOMAIN t :
           LET grown == Least(TotalMax, Before(i) + t[i].tokens) IN
           IF t[i].tokens < EventMax THEN t[i].total = grown ELSE t[i].total >= grown
      /\ Least(TotalMax, Len(fold.ids)) = IF t = <<>> THEN 0 ELSE t[Len(t)].total

\* A session ends, however silent its server is.
SessionEnds == <>(phase = "ended")

\* What a test of integrity.rs:69 says: a disjoint delta is not taken for a
\* cumulative one, even when it starts with the same id the accumulator did.
DisjointDeltasAreNotRestated == server.style = "delta" => ~(phase = "streaming" /\ fold.failed)

=============================================================================
