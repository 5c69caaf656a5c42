------------------------- MODULE ConversationProofs -------------------------
(***************************************************************************)
(* Theorems about the conversation of a session, for every token pool,      *)
(* session, server and way of cutting its responses into events, and about  *)
(* generated traces and their replay, for every recorded session, context   *)
(* policy and compaction threshold, and about what stands in the prefix     *)
(* cache before a unit begins.                                              *)
(***************************************************************************)
EXTENDS TracedConversation, Preflight, Lemmas, SequenceTheorems

FoldType ==
  [ids : Seq(Token), text : Seq(Token), completion : Nat \cup {None}, failed : BOOLEAN,
   timeline : Seq([kind : Kinds, tokens : Nat, total : Nat])]

PromptType == [ids : Seq(Token), prefix : Nat, append : Nat, shortfall : Nat]

EventType ==
  [ids : Seq(Token), text : Seq(Token), reports : BOOLEAN, usage : Nat \cup {None},
   finish : BOOLEAN]

\* An event of the timeline accounts for its tokens, after a total of before.
Accounts(before, event) ==
  LET grown == Least(TotalMax, before + event.tokens) IN
  IF event.tokens < EventMax THEN event.total = grown ELSE event.total >= grown

\* TimelineAddsUp, of any fold.
AddsUp(f) ==
  LET t == f.timeline IN
  /\ \A i \in DOMAIN t : Accounts(IF i = 1 THEN 0 ELSE t[i - 1].total, t[i])
  /\ Least(TotalMax, Len(f.ids)) = IF t = <<>> THEN 0 ELSE t[Len(t)].total

\* While a response is read, its ids are what was generated behind whatever the
\* server put first; a server that restates everything has put nothing first
\* before its last event.  A reported count is that of what was generated.
Streamed ==
  (Waiting /\ ~fold.failed) =>
    /\ IF server.ids
         THEN \E tail \in Seq(Token) :
                /\ fold.ids = tail \o generated
                /\ (server.style = "cumulative" /\ ~answered) => tail = <<>>
         ELSE fold.ids = <<>>
    /\ fold.completion # None =>
         /\ fold.completion = Len(generated) /\ generated # <<>>
         /\ server.report = "running" \/ answered

\* After a round that can be trusted the context is what the server holds.
ContextIsHeld == trusted => context = held

\* A prompt never counts more prefix than there is context.
PrefixIsContext == Waiting => prompt.prefix <= Len(context)

ConversationInv ==
  TypeOK /\ PromptIsAsTraced /\ AddsUp(fold) /\ Streamed /\ ContextIsHeld /\ PrefixIsContext

-----------------------------------------------------------------------------
(* The fold. *)

\* A sequence with one entry more.
LEMMA OneMore ==
  ASSUME NEW S, NEW t \in Seq(S), NEW x \in S
  PROVE  /\ Append(t, x) \in Seq(S)
         /\ Len(Append(t, x)) = Len(t) + 1 /\ Len(t) \in Nat /\ Append(t, x) # <<>>
         /\ \A i \in 1 .. Len(t) : Append(t, x)[i] = t[i]
         /\ Append(t, x)[Len(t) + 1] = x
OBVIOUS

\* A fold starts empty.
LEMMA EmptyFoldOK == EmptyFold \in FoldType /\ AddsUp(EmptyFold)
  BY FoldAssumption DEF EmptyFold, FoldType, AddsUp, Least

\* Clamped counts still account for an event: n tokens, m of them before.
LEMMA ClampedAccounts ==
  ASSUME NEW m \in Nat, NEW n \in Nat, NEW event,
         event.tokens = Least(EventMax, n), event.total = Least(TotalMax, m + n)
  PROVE  /\ Accounts(Least(TotalMax, m), event)
         /\ Least(EventMax, n) \in Nat /\ Least(TotalMax, m + n) \in Nat
<1>1. EventMax \in Nat /\ TotalMax \in Nat
  BY FoldAssumption
<1>2. Least(EventMax, n) < EventMax =>
        Least(TotalMax, m + n) = Least(TotalMax, Least(TotalMax, m) + Least(EventMax, n))
  BY <1>1 DEF Least
<1>3. Least(TotalMax, m + n) >= Least(TotalMax, Least(TotalMax, m) + Least(EventMax, n))
  BY <1>1 DEF Least
<1>4. Least(EventMax, n) \in Nat /\ Least(TotalMax, m + n) \in Nat
  BY <1>1 DEF Least
<1> QED BY <1>2, <1>3, <1>4 DEF Accounts

\* A failure changes nothing else.
LEMMA FailOK ==
  ASSUME NEW f \in FoldType, AddsUp(f)
  PROVE  Fail(f) \in FoldType /\ AddsUp(Fail(f))
<1>1. /\ Fail(f) \in FoldType /\ Fail(f).ids = f.ids /\ Fail(f).timeline = f.timeline
  BY DEF Fail, FoldType
<1> QED BY <1>1 DEF AddsUp

\* One event more: its tokens are added to the total of the one before.
LEMMA FoldEventOK ==
  ASSUME NEW f \in FoldType, AddsUp(f), NEW e \in EventType
  PROVE  FoldEvent(f, e) \in FoldType /\ AddsUp(FoldEvent(f, e))
<1> DEFINE g == FoldEvent(f, e)
           entry == [kind   |-> Kind(e),
                     tokens |-> Least(EventMax, Len(e.ids)),
                     total  |-> Least(TotalMax, Len(f.ids \o e.ids))]
           t == f.timeline
           u == Append(t, entry)
<1>1. /\ f.ids \in Seq(Token) /\ e.ids \in Seq(Token) /\ f.text \in Seq(Token)
      /\ e.text \in Seq(Token)
      /\ t \in Seq([kind : Kinds, tokens : Nat, total : Nat])
  BY DEF FoldType, EventType
<1>2. /\ f.ids \o e.ids \in Seq(Token) /\ f.text \o e.text \in Seq(Token)
      /\ Len(f.ids \o e.ids) = Len(f.ids) + Len(e.ids)
      /\ Len(f.ids) \in Nat /\ Len(e.ids) \in Nat
  BY <1>1
<1>3. Kind(e) \in Kinds
  BY DEF Kind, Kinds
<1>4. entry \in [kind : Kinds, tokens : Nat, total : Nat]
  <2>1. ASSUME NEW k \in Kinds, NEW m \in Nat, NEW n \in Nat
        PROVE  [kind |-> k, tokens |-> m, total |-> n]
                 \in [kind : Kinds, tokens : Nat, total : Nat]
    OBVIOUS
  <2>2. Least(EventMax, Len(e.ids)) \in Nat /\ Least(TotalMax, Len(f.ids \o e.ids)) \in Nat
    <3>1. \A a, b \in Nat : Least(a, b) \in Nat
      BY DEF Least
    <3>2. Len(f.ids \o e.ids) \in Nat
      BY <1>2, LenProperties
    <3> QED BY <1>2, <3>1, <3>2, FoldAssumption
  <2> QED BY <1>3, <2>1, <2>2
<1>5. /\ entry.tokens = Least(EventMax, Len(e.ids))
      /\ entry.total = Least(TotalMax, Len(f.ids) + Len(e.ids))
  BY <1>2
<1> HIDE DEF entry
<1>6. /\ u \in Seq([kind : Kinds, tokens : Nat, total : Nat])
      /\ Len(u) = Len(t) + 1 /\ Len(t) \in Nat /\ u # <<>>
      /\ \A i \in 1 .. Len(t) : u[i] = t[i]
      /\ u[Len(u)] = entry
  <2> DEFINE E == [kind : Kinds, tokens : Nat, total : Nat]
  <2>1. t \in Seq(E) /\ entry \in E
    BY <1>1, <1>4
  <2> HIDE DEF t, E
  <2>2. /\ u \in Seq(E) /\ Len(u) = Len(t) + 1 /\ Len(t) \in Nat /\ u # <<>>
        /\ \A i \in 1 .. Len(t) : u[i] = t[i]
        /\ u[Len(t) + 1] = entry
    BY <2>1, OneMore
  <2> QED
    BY <2>2 DEF E
<1>7. /\ g \in FoldType /\ g.ids = f.ids \o e.ids /\ g.timeline = u
  <2>1. (IF e.usage = None THEN f.completion ELSE e.usage) \in Nat \cup {None}
    BY DEF FoldType, EventType
  <2> HIDE DEF u
  <2>2. g = [f EXCEPT !.ids = f.ids \o e.ids, !.text = f.text \o e.text,
                      !.completion = IF e.usage = None THEN f.completion ELSE e.usage,
                      !.timeline = u]
    BY DEF FoldEvent, u, entry
  <2> HIDE DEF g
  <2> QED BY <1>2, <1>6, <2>1, <2>2 DEF FoldType
<1> HIDE DEF u, g
<1>8. AddsUp(g)
  <2>1. DOMAIN u = 1 .. Len(t) + 1 /\ DOMAIN t = 1 .. Len(t)
    BY <1>1, <1>6
  <2>2. ASSUME NEW i \in DOMAIN u
        PROVE  Accounts(IF i = 1 THEN 0 ELSE u[i - 1].total, u[i])
    <3>1. CASE i \in 1 .. Len(t)
      <4>1. Accounts(IF i = 1 THEN 0 ELSE t[i - 1].total, t[i])
        BY <2>1, <3>1 DEF AddsUp
      <4>2. u[i] = t[i] /\ (i # 1 => u[i - 1] = t[i - 1])
        <5>1. u[i] = t[i] /\ Len(t) \in Nat
          BY <1>6, <3>1
        <5>2. ASSUME i # 1 PROVE i - 1 \in 1 .. Len(t)
          BY <3>1, <5>1, <5>2
        <5>3. \A j \in 1 .. Len(t) : u[j] = t[j]
          BY <1>6
        <5> QED BY <5>1, <5>2, <5>3
      <4> QED BY <4>1, <4>2
    <3>2. CASE i = Len(t) + 1
      <4>1. u[i] = entry
        BY <1>6, <3>2
      <4>2. Least(TotalMax, Len(f.ids)) = IF i = 1 THEN 0 ELSE u[i - 1].total
        <5>1. CASE t = <<>>
          BY <3>2, <5>1 DEF AddsUp
        <5>2. CASE t # <<>>
          <6>1. Len(t) >= 1
            BY <1>1, <5>2
          <6>2. i # 1 /\ i - 1 = Len(t) /\ Len(t) \in 1 .. Len(t)
            BY <1>6, <3>2, <6>1
          <6>3. u[i - 1] = t[Len(t)]
            BY <1>6, <6>2
          <6> QED BY <5>2, <6>2, <6>3 DEF AddsUp
        <5> QED BY <5>1, <5>2
      <4>3. Accounts(Least(TotalMax, Len(f.ids)), entry)
        BY <1>2, <1>5, ClampedAccounts
      <4> QED BY <4>1, <4>2, <4>3
    <3> QED BY <1>6, <2>1, <3>1, <3>2
  <2>3. Least(TotalMax, Len(g.ids)) = u[Len(u)].total
    BY <1>2, <1>5, <1>6, <1>7
  <2> QED BY <1>6, <1>7, <2>2, <2>3 DEF AddsUp
<1> QED BY <1>7, <1>8 DEF g

\* absorb.
LEMMA AbsorbOK ==
  ASSUME NEW f \in FoldType, AddsUp(f), NEW e \in EventType
  PROVE  Absorb(f, e) \in FoldType /\ AddsUp(Absorb(f, e))
BY FailOK, FoldEventOK DEF Absorb

\* What is carried forward are tokens.
LEMMA OutcomeOK ==
  ASSUME NEW f \in FoldType, NEW p, NEW r \in Seq(Token)
  PROVE  Outcome(f, p, r).output \in Seq(Token)
<1> DEFINE echo == IF f.failed \/ f.completion = None
                     THEN 0 ELSE PromptEcho(f.ids, p, f.completion)
           ids == WithoutEcho(f.ids, echo)
<1>1. f.ids \in Seq(Token) /\ Len(f.ids) \in Nat /\ f.completion \in Nat \cup {None}
  BY DEF FoldType
<1>2. echo \in Int /\ (echo > 0 => echo <= Len(f.ids))
  BY <1>1 DEF PromptEcho, Unexplained, None
<1>3. ids \in Seq(Token)
  <2>1. CASE echo > 0
    <3>1. \A i \in echo + 1 .. Len(f.ids) : f.ids[i] \in Token
      BY <1>1, <1>2, <2>1
    <3> HIDE DEF echo
    <3> QED BY <1>1, <1>2, <2>1, <3>1, SubSeqProperties DEF WithoutEcho
  <2>2. CASE ~(echo > 0)
    BY <1>1, <2>2 DEF WithoutEcho
  <2> QED BY <2>1, <2>2
<1> QED BY <1>3 DEF Outcome

-----------------------------------------------------------------------------
(* The prompt. *)

\* take: as many tokens as asked for.
LEMMA TakeOK ==
  ASSUME NEW n \in Nat, cursor \in 0 .. Len(Pool) - 1
  PROVE  Take(n) \in Seq(Token) /\ Len(Take(n)) = n /\ CursorAfter(n) \in 0 .. Len(Pool) - 1
<1>1. Len(Pool) \in Nat /\ Len(Pool) > 0 /\ Pool \in Seq(Token)
  BY ConversationAssumption
<1>2. \A i \in 1 .. n : ((cursor + i - 1) % Len(Pool)) + 1 \in 1 .. Len(Pool)
  BY <1>1
<1>3. \A i \in 1 .. n : Pool[((cursor + i - 1) % Len(Pool)) + 1] \in Token
  BY <1>1, <1>2
<1>4. CursorAfter(n) \in 0 .. Len(Pool) - 1
  BY <1>1 DEF CursorAfter
<1> DEFINE at(i) == Pool[((cursor + i - 1) % Len(Pool)) + 1]
<1>5. Take(n) = [i \in 1 .. n |-> at(i)]
  BY DEF Take
<1>6. \A i \in 1 .. n : at(i) \in Token
  BY <1>3
<1> HIDE DEF at
<1> QED BY <1>4, <1>5, <1>6

\* build_prompt: the length is the traced one, and the prefix is context.
LEMMA BuildPromptOK ==
  ASSUME NEW step \in RoundType, context \in Seq(Token), cursor \in 0 .. Len(Pool) - 1
  PROVE  LET b == BuildPrompt(step) IN
           /\ b \in PromptType /\ b.prefix <= Len(context)
           /\ Len(b.ids) = step.prefix + step.input
           /\ Len(b.ids) = b.prefix + b.append
           /\ b.append = step.input + b.shortfall
           /\ SubSeq(b.ids, 1, b.prefix) = SubSeq(context, 1, b.prefix)
<1> DEFINE prefix == Least(step.prefix, Len(context))
           append == step.input + (step.prefix - prefix)
           head == SubSeq(context, 1, prefix)
           ids == head \o Take(append)
<1>1. step.prefix \in Nat /\ step.input \in Nat /\ Len(context) \in Nat
  BY DEF RoundType
<1>2. /\ prefix \in Nat /\ prefix <= Len(context) /\ step.prefix - prefix \in Nat
      /\ append \in Nat
  BY <1>1 DEF Least
<1> HIDE DEF prefix
<1>3. head \in Seq(Token) /\ Len(head) = prefix
  <2>1. \A i \in 1 .. prefix : context[i] \in Token
    BY <1>1, <1>2
  <2> QED BY <1>1, <1>2, <2>1, SubSeqProperties
<1>4. Take(append) \in Seq(Token) /\ Len(Take(append)) = append
  BY <1>2, TakeOK
<1>5. BuildPrompt(step) = [ids |-> ids, prefix |-> prefix, append |-> append,
                           shortfall |-> step.prefix - prefix]
  BY DEF BuildPrompt, prefix
<1> HIDE DEF append, head
<1>6. /\ ids \in Seq(Token) /\ Len(ids) = prefix + append
      /\ \A i \in 1 .. prefix : ids[i] = head[i]
  BY <1>2, <1>3, <1>4
<1>7. append = step.input + (step.prefix - prefix)
  BY DEF append
<1> HIDE DEF ids
<1>8. SubSeq(ids, 1, prefix) = SubSeq(context, 1, prefix)
  <2>1. \A i \in 1 .. prefix : ids[i] = context[i]
    BY <1>1, <1>2, <1>3, <1>6, SubSeqProperties DEF head
  <2>2. SubSeq(ids, 1, prefix) = [i \in 1 .. prefix |-> ids[i]]
    BY <1>2, <1>6
  <2>3. SubSeq(context, 1, prefix) = [i \in 1 .. prefix |-> context[i]]
    BY <1>1, <1>2
  <2> QED BY <2>1, <2>2, <2>3
<1>9. Len(ids) = step.prefix + step.input
  BY <1>1, <1>2, <1>6, <1>7
<1>10. BuildPrompt(step) \in PromptType
  BY <1>1, <1>2, <1>5, <1>6 DEF PromptType
<1> QED BY <1>2, <1>5, <1>6, <1>7, <1>8, <1>9, <1>10

\* Sessions are what validate() lets through.
LEMMA PlanOK ==
  ASSUME NEW p \in Plans
  PROVE  /\ p.rounds \in Seq(RoundType) /\ Len(p.rounds) \in Nat /\ Len(p.rounds) > 0
         /\ \A i \in 1 .. Len(p.rounds) : p.rounds[i] \in RoundType
<1>1. p \in PlanType /\ Len(p.rounds) > 0
  BY ConversationAssumption
<1>2. p.rounds \in Seq(RoundType)
  BY <1>1 DEF PlanType
<1> QED BY <1>1, <1>2

-----------------------------------------------------------------------------
(* The invariant. *)

\* A session starts with nothing said.
LEMMA ConversationInit == Init => ConversationInv
<1> SUFFICES ASSUME Init PROVE ConversationInv
  OBVIOUS
<1>1. Len(Pool) \in Nat /\ Len(Pool) > 0
  BY ConversationAssumption
<1>2. cursor \in 0 .. Len(Pool) - 1
  <2>1. PICK seed \in Seeds : cursor = seed % Len(Pool)
    BY DEF Init
  <2>2. seed \in Nat
    BY ConversationAssumption
  <2> QED BY <1>1, <2>1, <2>2
<1>3. fold \in FoldType /\ AddsUp(fold)
  BY EmptyFoldOK DEF Init
<1>4. prompt \in PromptType
  BY DEF Init, NoPrompt, PromptType
<1>5. plan \in Plans /\ round \in 1 .. Len(plan.rounds) + 1
  <2>1. plan \in Plans /\ round = 1
    BY DEF Init
  <2> QED BY <2>1, PlanOK
<1>6. /\ context \in Seq(Token) /\ generated \in Seq(Token) /\ held \in Seq(Token)
      /\ phase = "between" /\ answered \in BOOLEAN /\ trusted \in BOOLEAN
      /\ server \in Servers /\ trusted = FALSE
  <2>1. /\ context = <<>> /\ generated = <<>> /\ held = <<>> /\ phase = "between"
        /\ answered = FALSE /\ trusted = FALSE /\ server \in Servers
    BY DEF Init
  <2>2. <<>> \in Seq(Token)
    BY EmptySeq
  <2> QED BY <2>1, <2>2
<1>7. TypeOK
  BY <1>2, <1>3, <1>4, <1>5, <1>6 DEF TypeOK, FoldType, PromptType, Phases, Waiting
<1>8. PromptIsAsTraced
  BY <1>6 DEF PromptIsAsTraced, Waiting
<1>9. Streamed /\ ContextIsHeld /\ PrefixIsContext
  BY <1>6 DEF Streamed, ContextIsHeld, PrefixIsContext, Waiting
<1> QED BY <1>3, <1>7, <1>8, <1>9 DEF ConversationInv

\* The end of a round, whatever became of it.
LEMMA ConcludeOK ==
  ASSUME ConversationInv, Waiting, NEW f \in FoldType, AddsUp(f),
         NEW r \in Seq(Token), NEW h \in Seq(Token), Conclude(f, r, h),
         LET o == Outcome(f, prompt.ids, r) IN
           (o.success /\ f.completion # None /\ o.exact) => h = prompt.ids \o o.output,
         UNCHANGED <<plan, server, cursor, prompt, generated, answered>>
  PROVE  ConversationInv'
<1>1. TypeOK /\ plan \in Plans /\ prompt \in PromptType
  BY DEF ConversationInv, TypeOK, PromptType
<1>2. round \in 1 .. Len(plan.rounds) /\ Len(plan.rounds) \in Nat
  BY <1>1, PlanOK DEF TypeOK
<1> DEFINE o == Outcome(f, prompt.ids, r)
<1>3. prompt.ids \o o.output \in Seq(Token)
  <2>1. prompt.ids \in Seq(Token)
    BY <1>1 DEF PromptType
  <2>2. o.output \in Seq(Token)
    BY OutcomeOK
  <2> HIDE DEF o
  <2> QED BY <2>1, <2>2, ConcatProperties
<1>4. /\ context' \in Seq(Token) /\ round' \in 1 .. Len(plan.rounds) + 1
      /\ phase' \in {"ended", "between"} /\ fold' = f /\ held' = h /\ trusted' \in BOOLEAN
      /\ trusted' => context' = held'
  <2>1. /\ fold' = f /\ held' = h
        /\ trusted' = (o.success /\ f.completion # None /\ o.exact)
        /\ \/ phase' = "ended" /\ ~o.success /\ UNCHANGED <<context, round>>
           \/ /\ phase' = "between" /\ round' = round + 1
              /\ context' = prompt.ids \o o.output
    BY DEF Conclude
  <2>2. /\ trusted' \in BOOLEAN /\ (trusted' => o.success)
        /\ trusted' => h = prompt.ids \o o.output
    BY <2>1
  <2> HIDE DEF o
  <2>3. CASE phase' = "ended" /\ ~o.success /\ UNCHANGED <<context, round>>
    BY <1>1, <1>2, <2>1, <2>2, <2>3 DEF TypeOK
  <2>4. CASE phase' = "between" /\ round' = round + 1 /\ context' = prompt.ids \o o.output
    <3>1. context' \in Seq(Token)
      BY <1>3, <2>4
    <3>2. round' \in 1 .. Len(plan.rounds) + 1
      BY <1>2, <2>4
    <3> QED BY <2>1, <2>2, <2>4, <3>1, <3>2
  <2> QED BY <2>1, <2>3, <2>4
<1>5. TypeOK'
  BY <1>1, <1>4 DEF TypeOK, FoldType, Phases, Waiting
<1>6. /\ PromptIsAsTraced' /\ AddsUp(fold)' /\ Streamed' /\ ContextIsHeld'
      /\ PrefixIsContext'
  BY <1>4 DEF PromptIsAsTraced, Waiting, Streamed, ContextIsHeld, PrefixIsContext
<1> QED BY <1>5, <1>6 DEF ConversationInv

\* The text of a fold encoded again are tokens.
LEMMA ReencodingsOK ==
  ASSUME NEW text \in Seq(Token), NEW r \in Reencodings(text)
  PROVE  r \in Seq(Token)
<1>1. CASE r = text
  BY <1>1
<1>2. CASE Len(text) >= 2 /\ r = <<Merged>> \o SubSeq(text, 3, Len(text))
  <2>1. Merged \in Token
    BY ConversationAssumption
  <2>2. SubSeq(text, 3, Len(text)) \in Seq(Token)
    <3>1. \A i \in 3 .. Len(text) : text[i] \in Token
      OBVIOUS
    <3> QED BY <1>2, <3>1, SubSeqProperties
  <2>3. <<Merged>> \in Seq(Token)
    BY <2>1
  <2> QED BY <1>2, <2>2, <2>3, ConcatProperties
<1>3. CASE r = <<>>
  BY <1>3, EmptySeq
<1> QED BY <1>1, <1>2, <1>3 DEF Reencodings

\* The tails of a prompt are tokens.
LEMMA TailsOK ==
  ASSUME NEW s \in Seq(Token), NEW tail \in Tails(s)
  PROVE  tail \in Seq(Token)
<1>1. PICK i \in 1 .. Len(s) : tail = SubSeq(s, i, Len(s))
  BY DEF Tails
<1>2. \A j \in i .. Len(s) : s[j] \in Token
  OBVIOUS
<1> QED BY <1>1, <1>2, LenProperties, SubSeqProperties

\* What the ids of an event can be.
LEMMA IdsOK ==
  ASSUME ConversationInv, NEW delta \in Seq(Token), NEW ids \in Ids(delta)
  PROVE  ids \in Seq(Token)
<1>1. generated \in Seq(Token) /\ prompt.ids \in Seq(Token) /\ server \in Servers
  BY DEF ConversationInv, TypeOK
<1>2. server.style \in Styles
  BY <1>1, ConversationAssumption DEF ServerType
<1>3. generated \o delta \in Seq(Token)
  BY <1>1, ConcatProperties
<1>4. \A tail \in Tails(prompt.ids) : tail \o delta \in Seq(Token)
  BY <1>1, TailsOK, ConcatProperties
<1>5. CASE ~server.ids
  <2>1. ids = <<>>
    BY <1>5 DEF Ids
  <2> QED BY <2>1
<1>6. CASE server.ids /\ server.style = "delta"
  BY <1>6 DEF Ids
<1>7. CASE server.ids /\ server.style = "cumulative"
  <2>1. ids = generated \o delta
    BY <1>7 DEF Ids
  <2> QED BY <1>3, <2>1
<1>8. CASE server.ids /\ server.style = "echo"
  <2>1. ids = delta \/ \E tail \in Tails(prompt.ids) : ids = tail \o delta
    BY <1>8 DEF Ids
  <2> QED BY <1>4, <2>1
<1> QED BY <1>2, <1>5, <1>6, <1>7, <1>8 DEF Styles

\* What the server reports is a count.
LEMMA ReportedOK ==
  ASSUME ConversationInv, NEW delta \in Seq(Token), NEW last \in BOOLEAN
  PROVE  Reported(delta, last) \in Nat \cup {None}
<1>1. generated \o delta \in Seq(Token)
  BY ConcatProperties DEF ConversationInv, TypeOK
<1>2. Len(generated \o delta) \in Nat
  BY <1>1, LenProperties
<1> QED BY <1>2 DEF Reported

\* The echo classification of ids that end with what was generated: what is in
\* front of it is the echo, or the round is not believed.
LEMMA EchoIsTrimmed ==
  ASSUME NEW tail \in Seq(Token), NEW g \in Seq(Token), NEW p \in Seq(Token),
         PromptEcho(tail \o g, p, Len(g)) # Unexplained
  PROVE  WithoutEcho(tail \o g, PromptEcho(tail \o g, p, Len(g))) = g
<1> DEFINE echo == PromptEcho(tail \o g, p, Len(g))
           ids == WithoutEcho(tail \o g, echo)
<1>1. /\ Len(tail \o g) = Len(tail) + Len(g) /\ Len(tail) \in Nat /\ Len(g) \in Nat
      /\ tail \o g \in Seq(Token)
  BY ConcatProperties, LenProperties
<1>2. echo = Len(tail)
  <2>1. echo # -1
    BY DEF Unexplained
  <2>2. echo \in {0, Len(tail), -1} /\ (Len(tail) > 0 => echo # 0)
    BY <1>1 DEF PromptEcho, Unexplained
  <2> HIDE DEF echo
  <2> QED BY <1>1, <2>1, <2>2
<1> HIDE DEF echo
<1>3. ids = g
  <2>1. CASE tail = <<>>
    BY <1>1, <1>2, <2>1, ConcatProperties DEF WithoutEcho
  <2>2. CASE tail # <<>>
    <3>1. Len(tail) > 0
      BY <1>1, <2>2, EmptySeq
    <3>2. ids = SubSeq(tail \o g, Len(tail) + 1, Len(tail) + Len(g))
      BY <1>1, <1>2, <3>1 DEF WithoutEcho
    <3>3. CASE g = <<>>
      BY <1>1, <3>2, <3>3, SubSeqEmpty
    <3>4. CASE g # <<>>
      <4>1. Len(g) > 0
        BY <1>1, <3>4, EmptySeq
      <4>2. SubSeq(tail \o g, Len(tail) + 1, Len(tail) + Len(g)) = SubSeq(g, 1, Len(g))
        BY <1>1, <4>1, SubSeqOfConcat2
      <4> QED BY <3>2, <4>2, SubSeqFull
    <3> QED BY <3>3, <3>4
  <2> QED BY <2>1, <2>2
<1> QED BY <1>3 DEF echo

\* An event has a usage object or has none.
LEMMA UsageOK == HasUsage(FALSE) \in BOOLEAN /\ HasUsage(TRUE) \in BOOLEAN
  BY Zenon DEF HasUsage

\* The outcome of a round whose count was reported.
LEMMA ReportedOutcome ==
  ASSUME NEW f, NEW p, NEW r, f.completion # None, ~f.failed,
         Outcome(f, p, r).success, Outcome(f, p, r).exact
  PROVE  LET echo == PromptEcho(f.ids, p, f.completion) IN
           /\ echo # Unexplained
           /\ Len(WithoutEcho(f.ids, echo)) = f.completion
           /\ Outcome(f, p, r).output = WithoutEcho(f.ids, echo)
BY DEF Outcome

\* What is carried forward from a round that can be trusted was generated in it.
LEMMA TrustedOutput ==
  ASSUME ConversationInv, Waiting, ~fold.failed, NEW r \in Seq(Token),
         Outcome(fold, prompt.ids, r).success, fold.completion # None,
         Outcome(fold, prompt.ids, r).exact
  PROVE  Outcome(fold, prompt.ids, r).output = generated
<1> DEFINE echo == PromptEcho(fold.ids, prompt.ids, Len(generated))
<1>1. /\ prompt.ids \in Seq(Token) /\ generated \in Seq(Token)
      /\ fold.completion = Len(generated) /\ generated # <<>> /\ server.ids \in BOOLEAN
  BY ConversationAssumption DEF ConversationInv, TypeOK, FoldType, Streamed, ServerType
<1>2. /\ echo # Unexplained /\ Len(WithoutEcho(fold.ids, echo)) = Len(generated)
      /\ Outcome(fold, prompt.ids, r).output = WithoutEcho(fold.ids, echo)
  BY <1>1, ReportedOutcome
<1>3. CASE server.ids
  <2>1. PICK tail \in Seq(Token) : fold.ids = tail \o generated
    BY <1>3 DEF ConversationInv, Streamed
  <2>2. WithoutEcho(fold.ids, echo) = generated
    BY <1>1, <1>2, <2>1, EchoIsTrimmed
  <2> QED BY <1>2, <2>2
<1>4. CASE ~server.ids
  <2>1. fold.ids = <<>> /\ Len(generated) > 0 /\ Len(generated) \in Nat
    BY <1>1, <1>4, EmptySeq, LenProperties DEF ConversationInv, Streamed
  <2>2. echo = 0
    BY <2>1 DEF PromptEcho
  <2>3. WithoutEcho(fold.ids, echo) = <<>>
    BY <2>1, <2>2 DEF WithoutEcho
  <2>4. Len(WithoutEcho(fold.ids, echo)) = 0
    BY <2>3
  <2> HIDE DEF echo
  <2> QED BY <1>2, <2>1, <2>4
<1> QED BY <1>1, <1>3, <1>4

\* Concatenation of tokens.
LEMMA Associative ==
  ASSUME NEW s \in Seq(Token), NEW t \in Seq(Token), NEW u \in Seq(Token)
  PROVE  (s \o t) \o u = s \o (t \o u)
BY ConcatAssociative

\* The fold and what was generated stay in step over one more event.
LEMMA StreamedStep ==
  ASSUME ConversationInv, phase = "streaming", ~answered, ~fold.failed,
         NEW delta \in Seq(Token), NEW last \in BOOLEAN, NEW ids \in Seq(Token),
         IF last THEN delta = <<>> /\ generated # <<>> ELSE delta # <<>>,
         IF last /\ server.style # "cumulative" THEN ids = <<>> ELSE ids \in Ids(delta),
         fold' = Absorb(fold, Event(ids, delta, HasUsage(last), Reported(delta, last), last)),
         generated' = generated \o delta, answered' <=> last,
         UNCHANGED <<server, phase>>
  PROVE  Streamed'
<1> DEFINE e == Event(ids, delta, HasUsage(last), Reported(delta, last), last)
<1>0. /\ fold \in FoldType /\ generated \in Seq(Token) /\ prompt.ids \in Seq(Token)
      /\ fold.ids \in Seq(Token)
      /\ server.ids \in BOOLEAN /\ server.style \in Styles
      /\ generated' \in Seq(Token) /\ generated' # <<>>
  BY ConversationAssumption, ConcatProperties
  DEF ConversationInv, TypeOK, FoldType, ServerType
<1>1. CASE Restates(fold.ids, ids)
  <2>1. fold' = Fail(fold)
    BY <1>1 DEF Absorb, Event
  <2>2. fold'.failed
    BY <1>0, <2>1 DEF Fail, FoldType
  <2> QED BY <2>2 DEF Streamed
<1>2. CASE ~Restates(fold.ids, ids)
  <2>1. /\ fold'.ids = fold.ids \o ids
        /\ fold'.completion = IF Reported(delta, last) = None
                                THEN fold.completion ELSE Reported(delta, last)
    <3>1. fold' = FoldEvent(fold, e) /\ e.ids = ids /\ e.usage = Reported(delta, last)
      BY <1>2 DEF Absorb, Event
    <3> HIDE DEF e
    <3> QED BY <1>0, <3>1 DEF FoldEvent, FoldType
  <2>2. /\ fold.completion # None => server.report = "running"
        /\ Reported(delta, last) \in {None, Len(generated')}
        /\ server.report = "running" => Reported(delta, last) = Len(generated')
        /\ Len(generated') \in Nat
    BY <1>0, LenProperties DEF ConversationInv, Streamed, Waiting, Reported
  <2>3. fold'.completion # None =>
          /\ fold'.completion = Len(generated') /\ generated' # <<>>
          /\ server'.report = "running" \/ answered'
    <3>1. CASE Reported(delta, last) = None
      BY <2>1, <2>2, <3>1 DEF None
    <3>2. CASE Reported(delta, last) # None
      BY <1>0, <2>1, <2>2, <3>2 DEF Reported
    <3> QED BY <3>1, <3>2
  <2>4. CASE ~server.ids
    <3>1. fold.ids = <<>> /\ ids = <<>>
      BY <2>4 DEF ConversationInv, Streamed, Waiting, Ids
    <3>2. fold'.ids = <<>>
      BY <2>1, <3>1
    <3> QED BY <2>3, <2>4, <3>2 DEF Streamed
  <2>5. CASE server.ids
    <3>1. PICK tail \in Seq(Token) :
            /\ fold.ids = tail \o generated
            /\ server.style = "cumulative" => tail = <<>>
      BY <2>5 DEF ConversationInv, Streamed, Waiting
    <3>2. \E tail2 \in Seq(Token) :
            /\ fold'.ids = tail2 \o generated'
            /\ (server.style = "cumulative" /\ ~last) => tail2 = <<>>
      <4>1. CASE ids = delta
        <5>1. fold'.ids = tail \o generated'
          <6>1. fold'.ids = (tail \o generated) \o delta /\ generated' = generated \o delta
            BY <2>1, <3>1, <4>1
          <6>2. (tail \o generated) \o delta = tail \o (generated \o delta)
            BY <1>0, Associative
          <6> QED BY <6>1, <6>2
        <5> QED BY <3>1, <5>1
      <4>2. CASE server.style = "cumulative" /\ ids = generated \o delta
        <5>1. fold.ids = generated
          BY <1>0, <3>1, <4>2, ConcatProperties
        <5>2. CASE last
          <6>1. delta = <<>> /\ generated' = generated /\ ids = generated
            BY <1>0, <4>2, <5>2, ConcatProperties
          <6>2. fold'.ids = generated \o generated'
            BY <2>1, <5>1, <6>1
          <6> QED BY <1>0, <5>2, <6>2
        <5>3. CASE ~last
          <6>1. CASE generated = <<>>
            <7>1. ids = delta /\ generated' = delta /\ fold'.ids = delta
              BY <1>0, <2>1, <4>2, <5>1, <6>1, ConcatProperties
            <7>2. delta = <<>> \o generated'
              BY <7>1, ConcatProperties
            <7> QED BY <7>1, <7>2, EmptySeq
          <6>2. CASE generated # <<>>
            <7>1. /\ Len(ids) = Len(generated) + Len(delta) /\ Len(delta) > 0
                  /\ Len(generated) \in Nat /\ Len(delta) \in Nat
              BY <1>0, <4>2, <5>3, ConcatProperties, LenProperties, EmptySeq
            <7>2. SubSeq(ids, 1, Len(generated)) = generated
              <8>1. Len(generated) >= 1
                BY <1>0, <6>2, EmptySeq, LenProperties
              <8>2. SubSeq(generated \o delta, 1, Len(generated))
                      = SubSeq(generated, 1, Len(generated))
                BY <1>0, <7>1, <8>1, SubSeqOfConcat1
              <8> QED BY <1>0, <4>2, <8>2, SubSeqFull
            <7>3. Restates(fold.ids, ids)
              BY <5>1, <6>2, <7>1, <7>2 DEF Restates, StartsWith
            <7> QED BY <1>2, <7>3
          <6> QED BY <6>1, <6>2
        <5> QED BY <5>2, <5>3
      <4>3. CASE /\ server.style = "echo" /\ generated = <<>> /\ ~last
                 /\ \E echoed \in Tails(prompt.ids) : ids = echoed \o delta
        <5>1. PICK echoed \in Tails(prompt.ids) : ids = echoed \o delta
          BY <4>3
        <5>2. echoed \in Seq(Token)
          BY <1>0, TailsOK
        <5>3. generated' = delta
          BY <4>3, ConcatProperties
        <5>4. fold'.ids = (tail \o echoed) \o generated'
          <6>1. fold.ids = tail
            BY <3>1, <4>3, ConcatProperties
          <6> QED BY <2>1, <5>1, <5>2, <5>3, <6>1, ConcatAssociative
        <5>5. tail \o echoed \in Seq(Token)
          BY <5>2, ConcatProperties
        <5> QED BY <4>3, <5>4, <5>5
      <4> QED BY <1>0, <2>5, <4>1, <4>2, <4>3 DEF Ids, Styles
    <3>3. (answered' <=> last) /\ server' = server
      OBVIOUS
    <3>4. server'.ids /\ server'.style = server.style
      BY <2>5, <3>3
    <3>5. \E tail2 \in Seq(Token) :
            /\ fold'.ids = tail2 \o generated'
            /\ (server'.style = "cumulative" /\ ~answered') => tail2 = <<>>
      <4>1. ~answered' => ~last
        BY <3>3, Zenon
      <4> QED BY <3>2, <3>4, <4>1, Zenon
    <3> QED BY <2>3, <3>4, <3>5 DEF Streamed
  <2> QED BY <2>4, <2>5
<1> QED BY <1>1, <1>2

\* Every step of the client and of the server keeps the invariant.
LEMMA ConversationStep == ConversationInv /\ [Next]_vars => ConversationInv'
<1> SUFFICES ASSUME ConversationInv, [Next]_vars PROVE ConversationInv'
  OBVIOUS
<1>0. /\ TypeOK /\ fold \in FoldType /\ AddsUp(fold) /\ plan \in Plans
      /\ prompt.ids \in Seq(Token) /\ generated \in Seq(Token)
      /\ fold.text \in Seq(Token)
  BY DEF ConversationInv, TypeOK, FoldType
<1>1. CASE Send
  <2>1. /\ phase = "between" /\ round <= Len(plan.rounds) /\ phase' = "sent"
        /\ prompt' = BuildPrompt(Round) /\ cursor' = CursorAfter(prompt'.append)
        /\ fold' = EmptyFold /\ generated' = <<>> /\ answered' = FALSE
        /\ UNCHANGED <<plan, server, round, context, held, trusted>>
    BY <1>1 DEF Send
  <2>2. Round \in RoundType
    BY <1>0, <2>1, PlanOK DEF Round, TypeOK
  <2>3. context \in Seq(Token) /\ cursor \in 0 .. Len(Pool) - 1
    BY <1>0 DEF TypeOK
  <2>4. /\ prompt' \in PromptType
        /\ prompt'.prefix <= Len(context)
        /\ Len(prompt'.ids) = Round.prefix + Round.input
        /\ Len(prompt'.ids) = prompt'.prefix + prompt'.append
        /\ prompt'.append = Round.input + prompt'.shortfall
        /\ SubSeq(prompt'.ids, 1, prompt'.prefix) = SubSeq(context, 1, prompt'.prefix)
    BY <2>1, <2>2, <2>3, BuildPromptOK
  <2>5. cursor' \in 0 .. Len(Pool) - 1
    BY <2>1, <2>3, <2>4, TakeOK DEF PromptType
  <2>6. fold' \in FoldType /\ AddsUp(fold)'
    BY <2>1, EmptyFoldOK
  <2>7. generated' \in Seq(Token)
    BY <2>1, EmptySeq
  <2>8. TypeOK'
    BY <1>0, <2>1, <2>4, <2>5, <2>6, <2>7 DEF TypeOK, FoldType, PromptType, Phases, Waiting
  <2>9. PromptIsAsTraced'
    BY <2>1, <2>4 DEF PromptIsAsTraced, Round
  <2>10. Streamed'
    <3>1. /\ fold'.ids = <<>> /\ fold'.completion = None
          /\ <<>> = <<>> \o generated'
      BY <2>1, ConcatProperties, EmptySeq DEF EmptyFold
    <3> QED BY <3>1, EmptySeq DEF Streamed
  <2>11. ContextIsHeld' /\ PrefixIsContext'
    BY <2>1, <2>4 DEF ConversationInv, ContextIsHeld, PrefixIsContext
  <2> QED BY <2>6, <2>8, <2>9, <2>10, <2>11 DEF ConversationInv
<1>2. CASE Skip
  <2>1. /\ phase = "between" /\ round <= Len(plan.rounds) /\ phase' = "ended"
        /\ prompt' = BuildPrompt(Round) /\ cursor' = CursorAfter(prompt'.append)
        /\ UNCHANGED <<plan, server, round, context, fold, generated, answered, held, trusted>>
    BY <1>2 DEF Skip
  <2>2. Round \in RoundType
    BY <1>0, <2>1, PlanOK DEF Round, TypeOK
  <2>3. context \in Seq(Token) /\ cursor \in 0 .. Len(Pool) - 1
    BY <1>0 DEF TypeOK
  <2>4. prompt' \in PromptType
    BY <2>1, <2>2, <2>3, BuildPromptOK
  <2>5. cursor' \in 0 .. Len(Pool) - 1
    BY <2>1, <2>3, <2>4, TakeOK DEF PromptType
  <2>6. TypeOK'
    BY <1>0, <2>1, <2>4, <2>5 DEF TypeOK, PromptType, Phases, Waiting
  <2>7. /\ PromptIsAsTraced' /\ AddsUp(fold)' /\ Streamed' /\ ContextIsHeld'
        /\ PrefixIsContext'
    BY <1>0, <2>1
    DEF ConversationInv, PromptIsAsTraced, Waiting, Streamed, ContextIsHeld, PrefixIsContext
  <2> QED BY <2>6, <2>7 DEF ConversationInv
<1>3. CASE EndSession
  <2>1. /\ phase' = "ended"
        /\ UNCHANGED <<plan, server, round, cursor, context, prompt, fold, generated,
                       answered, held, trusted>>
    BY <1>3 DEF EndSession
  <2>2. TypeOK' /\ PromptIsAsTraced' /\ AddsUp(fold)'
    BY <1>0, <2>1 DEF TypeOK, PromptIsAsTraced, Phases, Waiting
  <2>3. Streamed' /\ ContextIsHeld' /\ PrefixIsContext'
    BY <2>1 DEF ConversationInv, Waiting, Streamed, ContextIsHeld, PrefixIsContext
  <2> QED BY <2>2, <2>3 DEF ConversationInv
<1>4. CASE Refuse
  <2>1. Waiting /\ Conclude(Fail(fold), <<>>, <<>>)
        /\ UNCHANGED <<plan, server, cursor, prompt, generated, answered>>
    BY <1>4 DEF Refuse, Waiting
  <2>2. <<>> \in Seq(Token)
    BY EmptySeq
  <2>3. ~Outcome(Fail(fold), prompt.ids, <<>>).success
    BY <1>0 DEF Outcome, Fail, FoldType
  <2> QED BY <1>0, <2>1, <2>2, <2>3, FailOK, ConcludeOK
<1>5. CASE StopReading \/ EndStream \/ BreakStream
  <2>1. PICK reencoded \in Reencodings(fold.text), f \in {fold, Fail(fold)} :
             Conclude(f, reencoded, prompt.ids \o generated)
    BY <1>5 DEF StopReading, EndStream, BreakStream
  <2>2. Waiting /\ UNCHANGED <<plan, server, cursor, prompt, generated, answered>>
    BY <1>5 DEF StopReading, EndStream, BreakStream, Waiting
  <2>3. f \in FoldType /\ AddsUp(f)
    BY <1>0, FailOK
  <2>4. reencoded \in Seq(Token)
    BY <1>0, ReencodingsOK
  <2>5. prompt.ids \o generated \in Seq(Token)
    BY <1>0, ConcatProperties
  <2>6. LET o == Outcome(f, prompt.ids, reencoded) IN
          (o.success /\ f.completion # None /\ o.exact) =>
            prompt.ids \o generated = prompt.ids \o o.output
    <3>1. CASE f.failed
      BY <3>1 DEF Outcome
    <3>2. CASE ~f.failed
      <4>1. f = fold
        BY <1>0, <2>1, <3>2 DEF Fail, FoldType
      <4> QED BY <2>2, <2>4, <3>2, <4>1, TrustedOutput
    <3> QED BY <3>1, <3>2
  <2> QED BY <2>1, <2>2, <2>3, <2>4, <2>5, <2>6, ConcludeOK
<1>6. CASE Accept
  <2>1. /\ phase = "sent" /\ phase' = "streaming"
        /\ UNCHANGED <<plan, server, round, cursor, context, prompt, fold, generated,
                       answered, held, trusted>>
    BY <1>6 DEF Accept
  <2>2. TypeOK' /\ AddsUp(fold)'
    BY <1>0, <2>1 DEF TypeOK, Phases, Waiting
  <2>3. PromptIsAsTraced'
    BY <2>1 DEF ConversationInv, PromptIsAsTraced, Waiting, Round
  <2>4. Streamed' /\ ContextIsHeld' /\ PrefixIsContext'
    BY <2>1 DEF ConversationInv, Waiting, Streamed, ContextIsHeld, PrefixIsContext
  <2> QED BY <2>2, <2>3, <2>4 DEF ConversationInv
<1>7. ASSUME NEW delta \in Deltas, Generate(delta) PROVE ConversationInv'
  <2>1. PICK ids \in Ids(delta) :
             fold' = Absorb(fold, Event(ids, delta, HasUsage(FALSE), Reported(delta, FALSE), FALSE))
    BY <1>7 DEF Generate
  <2>2. /\ generated' = generated \o delta
        /\ UNCHANGED <<plan, server, phase, round, cursor, context, prompt, answered, held,
                       trusted>>
    BY <1>7 DEF Generate
  <2>3. delta \in Seq(Token)
    BY ConversationAssumption
  <2>4. Event(ids, delta, HasUsage(FALSE), Reported(delta, FALSE), FALSE) \in EventType
    BY <2>3, IdsOK, ReportedOK, UsageOK DEF Event, EventType
  <2>5. fold' \in FoldType /\ AddsUp(fold)'
    BY <1>0, <2>1, <2>4, AbsorbOK
  <2>6. generated' \in Seq(Token)
    BY <1>0, <2>2, <2>3, ConcatProperties
  <2>7. TypeOK'
    BY <1>0, <2>2, <2>5, <2>6 DEF TypeOK, FoldType, Waiting
  <2>8. PromptIsAsTraced'
    BY <2>2 DEF ConversationInv, PromptIsAsTraced, Waiting, Round
  <2>9. Streamed'
    <3>1. /\ phase = "streaming" /\ ~answered /\ ~fold.failed /\ delta # <<>>
          /\ ids \in Seq(Token)
      BY <1>7, <2>1, <2>3, ConversationAssumption, IdsOK DEF Generate
    <3>2. answered' = FALSE
      BY <2>2, <3>1 DEF ConversationInv, TypeOK
    <3> QED BY <2>1, <2>2, <2>3, <3>1, <3>2, StreamedStep
  <2>10. ContextIsHeld' /\ PrefixIsContext'
    BY <2>2 DEF ConversationInv, Waiting, ContextIsHeld, PrefixIsContext
  <2> QED BY <2>5, <2>7, <2>8, <2>9, <2>10 DEF ConversationInv
<1>8. CASE GenerateLast
  <2>1. PICK ids \in IF server.style = "cumulative" THEN Ids(<<>>) ELSE {<<>>} :
             fold' = Absorb(fold, Event(ids, <<>>, HasUsage(TRUE), Reported(<<>>, TRUE), TRUE))
    BY <1>8 DEF GenerateLast
  <2>2. /\ answered' = TRUE
        /\ UNCHANGED <<plan, server, phase, round, cursor, context, prompt, generated, held,
                       trusted>>
    BY <1>8 DEF GenerateLast
  <2>3. <<>> \in Seq(Token)
    BY EmptySeq
  <2>4. Event(ids, <<>>, HasUsage(TRUE), Reported(<<>>, TRUE), TRUE) \in EventType
    BY <2>3, IdsOK, ReportedOK, UsageOK DEF Event, EventType
  <2>5. fold' \in FoldType /\ AddsUp(fold)'
    BY <1>0, <2>1, <2>4, AbsorbOK
  <2>6. TypeOK'
    BY <1>0, <2>2, <2>5 DEF TypeOK, FoldType, Waiting
  <2>7. PromptIsAsTraced'
    BY <2>2 DEF ConversationInv, PromptIsAsTraced, Waiting, Round
  <2>8. Streamed'
    <3>1. /\ phase = "streaming" /\ ~answered /\ ~fold.failed /\ generated # <<>>
          /\ IF server.style # "cumulative" THEN ids = <<>> ELSE ids \in Ids(<<>>)
      BY <1>8, <2>1 DEF GenerateLast
    <3>2. ids \in Seq(Token)
      BY <2>1, <2>3, IdsOK
    <3>3. generated' = generated \o <<>>
      BY <1>0, <2>2, ConcatProperties
    <3> QED BY <2>1, <2>2, <2>3, <3>1, <3>2, <3>3, StreamedStep
  <2>9. ContextIsHeld' /\ PrefixIsContext'
    BY <2>2 DEF ConversationInv, Waiting, ContextIsHeld, PrefixIsContext
  <2> QED BY <2>5, <2>6, <2>7, <2>8, <2>9 DEF ConversationInv
<1>9. CASE UNCHANGED vars
  <2>1. TypeOK' /\ AddsUp(fold)'
    BY <1>0, <1>9 DEF vars, TypeOK, Waiting
  <2>2. PromptIsAsTraced'
    BY <1>9 DEF vars, ConversationInv, PromptIsAsTraced, Waiting, Round
  <2>3. Streamed' /\ ContextIsHeld' /\ PrefixIsContext'
    BY <1>9 DEF vars, ConversationInv, Waiting, Streamed, ContextIsHeld, PrefixIsContext
  <2> QED BY <2>1, <2>2, <2>3 DEF ConversationInv
<1> QED
  BY <1>1, <1>2, <1>3, <1>4, <1>5, <1>6, <1>7, <1>8, <1>9 DEF Next, Client, Server, Ended

\* The invariant holds in every session.
LEMMA ConversationInvariant == Spec => []ConversationInv
<1>1. Init => ConversationInv
  BY ConversationInit
<1>2. ConversationInv /\ [Next]_vars => ConversationInv'
  BY ConversationStep
<1> QED BY <1>1, <1>2, PTL DEF Spec

-----------------------------------------------------------------------------
(* The theorems. *)

\* Every variable keeps its type; the cursor never leaves the pool
\* (tokens.rs:29-36).
THEOREM ConversationTypes == Spec => []TypeOK
<1>1. ConversationInv => TypeOK
  BY DEF ConversationInv
<1> QED BY <1>1, ConversationInvariant, PTL

\* Whatever servers return, a prompt has the traced length, and each of its
\* tokens is counted either as taken from the conversation or as fresh
\* (tokens.rs:76-97).
THEOREM ConversationPromptIsAsTraced == Spec => []PromptIsAsTraced
<1>1. ConversationInv => PromptIsAsTraced
  BY DEF ConversationInv
<1> QED BY <1>1, ConversationInvariant, PTL

\* A timeline accounts for every token id that was folded, however the response
\* was cut into events, and marks by its limit a count that the event or the total
\* cannot hold (stream.rs:157-170).
THEOREM ConversationTimelineAddsUp == Spec => []TimelineAddsUp
<1>1. ConversationInv => TimelineAddsUp
  BY DEF ConversationInv, AddsUp, Accounts, TimelineAddsUp
<1> QED BY <1>1, ConversationInvariant, PTL

\* After a round that succeeded with as many ids as the server reported, all that
\* is counted as prefix is a prefix of what the server holds of it, whatever the
\* server put into its response (tokens.rs:99-101, integrity.rs:30-36).
THEOREM ConversationCountsHeldPrefix == Spec => []CountedPrefixIsHeld
<1>1. ConversationInv => CountedPrefixIsHeld
  <2> SUFFICES ASSUME ConversationInv, Waiting, trusted
               PROVE  StartsWith(held, SubSeq(prompt.ids, 1, prompt.prefix))
    BY DEF CountedPrefixIsHeld
  <2>1. /\ context = held /\ context \in Seq(Token)
        /\ prompt.prefix \in Nat /\ prompt.prefix <= Len(context)
        /\ SubSeq(prompt.ids, 1, prompt.prefix) = SubSeq(context, 1, prompt.prefix)
    BY DEF ConversationInv, ContextIsHeld, PrefixIsContext, PromptIsAsTraced, TypeOK
  <2>2. Len(SubSeq(context, 1, prompt.prefix)) = prompt.prefix
    <3>1. \A i \in 1 .. prompt.prefix : context[i] \in Token
      BY <2>1, LenProperties
    <3> QED BY <2>1, <3>1, SubSeqProperties
  <2> QED BY <2>1, <2>2 DEF StartsWith
<1> QED BY <1>1, ConversationInvariant, PTL

-----------------------------------------------------------------------------
(* One round. *)

\* Both policies keep the recorded length of a prompt and its output, claim no
\* prefix beyond the context, and account for the prefix that they fold.
LEMMA MaterializeOK ==
  ASSUME NEW c \in Nat, NEW raw \in RawRound, NEW policy \in Policies
  PROVE  LET m == Materialize(c, raw, policy) IN
           /\ m.prefix \in Nat /\ m.input \in Nat /\ m.output = raw.output
           /\ m.folded \in Nat
           /\ m.prefix + m.input = raw.prefix + raw.input
           /\ m.prefix <= c
           /\ raw.prefix <= m.prefix + m.folded
           /\ policy = "trace_reported" => m.prefix <= raw.prefix
<1>1. raw.prefix \in Nat /\ raw.input \in Nat /\ raw.output \in Nat
  BY DEF RawRound
<1>2. CASE policy = "trace_reported"
  <2>1. Materialize(c, raw, policy) = TraceReported(c, raw)
    BY <1>2 DEF Materialize
  <2> QED BY <1>1, <2>1 DEF TraceReported, Lower
<1>3. CASE policy = "monotonic"
  <2>1. Materialize(c, raw, policy) = Monotonic(c, raw)
    BY <1>3 DEF Materialize
  <2> DEFINE target == raw.prefix + raw.input
             major == /\ (IF c > target THEN c - target ELSE 0) >= MinDrop
                      /\ c > 0 /\ 2 * (IF c > target THEN c - target ELSE 0) >= c
             prefix == IF major THEN 0 ELSE Lower(c, target)
  <2>2. Monotonic(c, raw) =
          [prefix |-> prefix, input |-> target - prefix, output |-> raw.output,
           folded |-> IF raw.prefix > prefix THEN raw.prefix - prefix ELSE 0,
           compaction |-> major]
    BY DEF Monotonic
  <2> HIDE DEF major
  <2>3. prefix \in Nat /\ prefix <= c /\ prefix <= target
    BY <1>1 DEF Lower
  <2> HIDE DEF prefix
  <2> QED BY <1>1, <1>3, <2>1, <2>2, <2>3
<1> QED BY <1>2, <1>3 DEF Policies

-----------------------------------------------------------------------------
(* One session. *)

\* What a chain holds before a round.
Before(raws, k) == IF k = 1 THEN 0 ELSE Total(raws[k - 1])

\* The rounds without the chain: as the total of a round is kept, the context
\* before it is what was recorded.
Unchained(raws, policy) ==
  [k \in DOMAIN raws |-> Materialize(Before(raws, k), raws[k], policy)]

LEMMA BeforeOK ==
  ASSUME NEW raws \in Seq(RawRound), NEW k \in DOMAIN raws
  PROVE  Before(raws, k) \in Nat /\ raws[k] \in RawRound
<1>1. k \in 1 .. Len(raws) /\ \A i \in 1 .. Len(raws) : raws[i] \in RawRound
  OBVIOUS
<1>2. k # 1 => Total(raws[k - 1]) \in Nat
  <2>1. k # 1 => k - 1 \in 1 .. Len(raws)
    BY <1>1
  <2> QED BY <1>1, <2>1 DEF Total, RawRound
<1> QED BY <1>1, <1>2 DEF Before

\* The chain exists, and it is the one above: a fixed point is unfolded, no
\* induction is needed.
LEMMA MaterializedEquation ==
  ASSUME NEW raws \in Seq(RawRound), NEW policy \in Policies
  PROVE  LET done == Materialized(raws, policy) IN
           done = [k \in DOMAIN raws |->
                     Materialize(IF k = 1 THEN 0 ELSE Total(done[k - 1]), raws[k], policy)]
<1> DEFINE step(f) == [k \in DOMAIN raws |->
                         Materialize(IF k = 1 THEN 0 ELSE Total(f[k - 1]), raws[k], policy)]
           plain == Unchained(raws, policy)
<1>1. \A k \in DOMAIN raws : k # 1 => Total(plain[k - 1]) = Total(raws[k - 1])
  <2> SUFFICES ASSUME NEW k \in DOMAIN raws, k # 1
               PROVE  Total(plain[k - 1]) = Total(raws[k - 1])
    OBVIOUS
  <2>1. k - 1 \in DOMAIN raws
    OBVIOUS
  <2>2. plain[k - 1] = Materialize(Before(raws, k - 1), raws[k - 1], policy)
    BY <2>1 DEF Unchained
  <2>3. Before(raws, k - 1) \in Nat /\ raws[k - 1] \in RawRound
    BY <2>1, BeforeOK
  <2> HIDE DEF plain
  <2> QED BY <2>2, <2>3, MaterializeOK DEF Total
<1>2. plain = step(plain)
  BY <1>1 DEF Unchained, Before
<1>3. \E f : f = step(f)
  BY <1>2
<1>4. Materialized(raws, policy) = CHOOSE f : f = step(f)
  BY DEF Materialized
<1> HIDE DEF step
<1>5. Materialized(raws, policy) = step(Materialized(raws, policy))
  BY <1>3, <1>4
<1> QED BY <1>5 DEF step

\* A materialized session: every prompt and every output is as long as recorded,
\* a prefix is what the round before left or less, and of a recorded prefix
\* nothing is lost: it is prefix still, or it was folded into the input
\* (policy.rs:125-193).  It is a session that validate() accepts where the recorded
\* rounds have a prompt and an output.
THEOREM MaterializedIsReplayable ==
  ASSUME NEW raws \in Seq(RawRound), NEW policy \in Policies
  PROVE  LET done == Materialized(raws, policy) IN
           /\ DOMAIN done = DOMAIN raws
           /\ \A k \in DOMAIN raws :
                /\ done[k].prefix \in Nat /\ done[k].input \in Nat
                /\ done[k].output = raws[k].output
                /\ done[k].prefix + done[k].input = raws[k].prefix + raws[k].input
                /\ done[k].prefix <= Before(raws, k)
                /\ raws[k].prefix <= done[k].prefix + done[k].folded
<1> DEFINE done == Materialized(raws, policy)
           context_len(k) == IF k = 1 THEN 0 ELSE Total(done[k - 1])
<1>1. done = [k \in DOMAIN raws |-> Materialize(context_len(k), raws[k], policy)]
  BY MaterializedEquation
<1> HIDE DEF done
<1>2. DOMAIN done = DOMAIN raws
  BY <1>1
<1>3. \A k \in DOMAIN raws : done[k] = Materialize(context_len(k), raws[k], policy)
  BY <1>1
<1>4. \A k \in DOMAIN raws : context_len(k) = Before(raws, k)
  <2> DEFINE Wrong == {k \in DOMAIN raws : context_len(k) # Before(raws, k)}
  <2> SUFFICES ASSUME Wrong # {} PROVE FALSE
    OBVIOUS
  <2> HIDE DEF context_len
  <2>1. PICK k \in Wrong : \A j \in Wrong : k <= j
    <3>1. Wrong \subseteq Nat
      OBVIOUS
    <3> QED BY <3>1, LeastNumber
  <2>2. k \in DOMAIN raws /\ k # 1
    BY DEF context_len, Before
  <2>3. k - 1 \in DOMAIN raws /\ ~(k <= k - 1)
    BY <2>2
  <2>4. context_len(k - 1) = Before(raws, k - 1)
    BY <2>1, <2>3
  <2>5. Before(raws, k - 1) \in Nat /\ raws[k - 1] \in RawRound
    BY <2>3, BeforeOK
  <2>6. done[k - 1] = Materialize(Before(raws, k - 1), raws[k - 1], policy)
    BY <1>3, <2>3, <2>4
  <2>7. Total(done[k - 1]) = Total(raws[k - 1])
    BY <2>5, <2>6, MaterializeOK DEF Total
  <2>8. context_len(k) = Before(raws, k)
    BY <2>2, <2>7 DEF context_len, Before
  <2> QED BY <2>8
<1> HIDE DEF context_len
<1>5. SUFFICES ASSUME NEW k \in DOMAIN raws
               PROVE  /\ done[k].prefix \in Nat /\ done[k].input \in Nat
                      /\ done[k].output = raws[k].output
                      /\ done[k].prefix + done[k].input = raws[k].prefix + raws[k].input
                      /\ done[k].prefix <= Before(raws, k)
                      /\ raws[k].prefix <= done[k].prefix + done[k].folded
  BY <1>2 DEF done
<1>6. done[k] = Materialize(Before(raws, k), raws[k], policy)
  BY <1>3, <1>4
<1>7. Before(raws, k) \in Nat /\ raws[k] \in RawRound
  BY BeforeOK
<1> QED BY <1>6, <1>7, MaterializeOK

-----------------------------------------------------------------------------
(* The file. *)

\* Rounding keeps the order of instants, and the origin.
LEMMA SpelledOK ==
  /\ \A t, u \in Int : t <= u => Spelled(t) <= Spelled(u)
  /\ \A t \in Int : Spelled(t) \in Int
  /\ Spelled(0) = 0
<1>1. \A t \in Int : (t + 1) \div 3 \in Int
  OBVIOUS
<1>2. ASSUME NEW t \in Int, NEW u \in Int, t <= u PROVE Spelled(t) <= Spelled(u)
  <2>1. (t + 1) \div 3 <= (u + 1) \div 3
    BY <1>2
  <2> DEFINE a == (t + 1) \div 3
             b == (u + 1) \div 3
  <2>2. a \in Int /\ b \in Int /\ a <= b
    BY <1>1, <2>1
  <2> HIDE DEF a, b
  <2>3. a * 3 <= b * 3
    BY <2>2
  <2> QED BY <2>3 DEF Spelled, a, b
<1>3. \A t \in Int : Spelled(t) \in Int
  BY <1>1 DEF Spelled
<1>4. Spelled(0) = 0
  BY DEF Spelled
<1> QED BY <1>2, <1>3, <1>4

\* tracegen validates its rows before their instants are rounded, and a run after
\* that: rounding never makes a canonical trace one that is refused
\* (bin/tracegen/main.rs:114-120, session.rs:53-57, 209-333).
THEOREM WrittenIsCanonical ==
  ASSUME NEW rows \in Seq(ExecutionRow), Valid(rows)
  PROVE  Valid(Written(rows))
<1> DEFINE out == Written(rows)
<1>1. DOMAIN out = DOMAIN rows /\ DOMAIN rows = 1 .. Len(rows) /\ Len(rows) \in Nat
  BY DEF Written
<1>2. \A i \in DOMAIN rows : rows[i] \in ExecutionRow
  OBVIOUS
<1>3. \A i \in DOMAIN rows :
        /\ out[i].arrival = Spelled(rows[i].arrival)
        /\ out[i].wait = Spelled(rows[i].wait)
        /\ out[i].request = rows[i].request /\ out[i].session = rows[i].session
        /\ out[i].idx = rows[i].idx /\ out[i].prefix = rows[i].prefix
        /\ out[i].input = rows[i].input /\ out[i].output = rows[i].output
  <2> TAKE i \in DOMAIN rows
  <2>1. rows[i] \in ExecutionRow
    BY <1>2
  <2>2. out[i] = [rows[i] EXCEPT !.arrival = Spelled(rows[i].arrival),
                                 !.wait = Spelled(rows[i].wait)]
    BY DEF Written
  <2> HIDE DEF out
  <2> QED BY <2>1, <2>2 DEF ExecutionRow
<1>4. \A i \in DOMAIN rows : rows[i].arrival \in Int /\ rows[i].wait \in Int
  BY <1>2 DEF ExecutionRow
<1> HIDE DEF out
<1>5. /\ 1 \in DOMAIN rows /\ rows[1].arrival = 0
      /\ \A i \in DOMAIN rows : RowFits(rows, i)
  <2>1. rows # <<>> => 1 \in DOMAIN rows
    BY <1>1
  <2> QED BY <2>1 DEF Valid
<1>6. ASSUME NEW i \in DOMAIN rows PROVE RowFits(out, i)
  <2>1. RowFits(rows, i)
    BY <1>5
  <2>2. \A j \in 1 .. i - 1 : j \in DOMAIN rows
    BY <1>1
  <2>3. StartsBlock(out, i) <=> StartsBlock(rows, i)
    <3>1. i # 1 => i - 1 \in DOMAIN rows
      BY <1>1
    <3> QED BY <1>3, <3>1 DEF StartsBlock
  <2>4. /\ out[i].session # ""
        /\ \A j \in 1 .. i - 1 : out[j].request # out[i].request
        /\ out[i].output > 0 /\ out[i].prefix + out[i].input > 0
        /\ out[i].request = RequestId(out[i].session, out[i].idx)
    BY <1>3, <2>1, <2>2 DEF RowFits
  <2>5. out[i].arrival >= 0 /\ out[i].wait >= 0
    <3>1. /\ rows[i].arrival \in Int /\ rows[i].wait \in Int
          /\ 0 <= rows[i].arrival /\ 0 <= rows[i].wait
      BY <1>4, <2>1 DEF RowFits
    <3>2. 0 <= Spelled(rows[i].arrival) /\ 0 <= Spelled(rows[i].wait)
      <4>1. \A u \in Int : 0 <= u => Spelled(0) <= Spelled(u)
        BY SpelledOK
      <4> QED BY <3>1, <4>1, SpelledOK
    <3>3. Spelled(rows[i].arrival) \in Int /\ Spelled(rows[i].wait) \in Int
      BY <3>1, SpelledOK
    <3> QED BY <1>3, <3>2, <3>3
  <2>6. StartsBlock(rows, i) =>
          /\ \A j \in 1 .. i - 1 : out[j].session # out[i].session
          /\ i > 1 => out[i - 1].arrival <= out[i].arrival
          /\ out[i].idx = 0 /\ out[i].prefix = 0
    <3> SUFFICES ASSUME StartsBlock(rows, i)
                 PROVE  /\ \A j \in 1 .. i - 1 : out[j].session # out[i].session
                        /\ i > 1 => out[i - 1].arrival <= out[i].arrival
                        /\ out[i].idx = 0 /\ out[i].prefix = 0
      OBVIOUS
    <3>1. i > 1 => i - 1 \in DOMAIN rows /\ rows[i - 1].arrival <= rows[i].arrival
      <4>1. i > 1 => i - 1 \in DOMAIN rows
        BY <1>1
      <4>2. StartsBlock(rows, i) => (i > 1 => rows[i - 1].arrival <= rows[i].arrival)
        BY <2>1 DEF RowFits
      <4> QED BY <4>1, <4>2
    <3>2. i > 1 => out[i - 1].arrival <= out[i].arrival
      BY <1>3, <1>4, <3>1, SpelledOK
    <3> QED BY <1>3, <2>1, <2>2, <3>2 DEF RowFits
  <2>7. ~StartsBlock(rows, i) =>
          out[i].idx = out[i - 1].idx + 1 /\ out[i].arrival = out[i - 1].arrival
    <3>1. ~StartsBlock(rows, i) => i - 1 \in DOMAIN rows
      BY <1>1 DEF StartsBlock
    <3> QED BY <1>3, <2>1, <3>1 DEF RowFits
  <2> QED BY <2>3, <2>4, <2>5, <2>6, <2>7 DEF RowFits
<1>7. out # <<>> /\ out[1].arrival = 0
  <2>1. out[1].arrival = 0
    BY <1>3, <1>5, SpelledOK
  <2>2. out # <<>>
    BY <1>1, <1>5
  <2> QED BY <2>1, <2>2
<1>8. \A i \in DOMAIN out : RowFits(out, i)
  BY <1>1, <1>6
<1> QED BY <1>7, <1>8 DEF Valid, out

-----------------------------------------------------------------------------
(* The replay. *)

\* A prompt falls short of its prefix by what the context lacks.
ShortfallIsTheGap ==
  Waiting => /\ Round \in RoundType
             /\ prompt.shortfall = Round.prefix - Least(Round.prefix, Len(context))

\* A session that stopped early and not for a failure stopped at the limit.
StoppedAtTheLimit ==
  (phase = "ended" /\ round <= Len(plan.rounds) /\ ~plan.stop) => RoundReaches(plan, round)

TracedInv == ShortfallIsTheGap /\ StoppedAtTheLimit

LEMMA TracedStep ==
  ConversationInv /\ TracedInv /\ [Next]_vars => TracedInv'
<1> SUFFICES ASSUME ConversationInv, TracedInv, [Next]_vars PROVE TracedInv'
  OBVIOUS
<1>0. /\ TypeOK /\ plan \in Plans /\ context \in Seq(Token)
      /\ cursor \in 0 .. Len(Pool) - 1 /\ Len(plan.rounds) \in Nat
  BY PlanOK DEF ConversationInv, TypeOK
<1>1. CASE Send
  <2>1. /\ phase = "between" /\ round <= Len(plan.rounds) /\ phase' = "sent"
        /\ prompt' = BuildPrompt(Round) /\ UNCHANGED <<plan, round, context>>
    BY <1>1 DEF Send
  <2>2. Round \in RoundType
    BY <1>0, <2>1, PlanOK DEF Round, TypeOK
  <2>3. prompt'.shortfall = Round.prefix - Least(Round.prefix, Len(context))
    BY <2>1 DEF BuildPrompt
  <2> QED BY <2>1, <2>2, <2>3
          DEF TracedInv, ShortfallIsTheGap, StoppedAtTheLimit, Round
<1>2. CASE Skip
  <2>1. /\ phase = "between" /\ round <= Len(plan.rounds) /\ phase' = "ended"
        /\ SkippedAtLimit(Round) /\ UNCHANGED <<plan, round, context>>
    BY <1>2 DEF Skip
  <2>2. Round \in RoundType
    BY <1>0, <2>1, PlanOK DEF Round, TypeOK
  <2>3. Len(BuildPrompt(Round).ids) = Round.prefix + Round.input
    BY <1>0, <2>2, BuildPromptOK
  <2>4. RoundReaches(plan, round)
    BY <2>1, <2>3 DEF SkippedAtLimit, RoundReaches, Reaches, Round
  <2> QED BY <2>1, <2>4
          DEF TracedInv, ShortfallIsTheGap, StoppedAtTheLimit, Waiting, RoundReaches
<1>3. CASE EndSession
  BY <1>0, <1>3 DEF EndSession, TypeOK, TracedInv, ShortfallIsTheGap, StoppedAtTheLimit, Waiting
<1>4. ASSUME NEW f, NEW r, NEW h, Conclude(f, r, h), plan' = plan PROVE TracedInv'
  <2>1. \/ phase' = "ended" /\ plan.stop
        \/ phase' = "between"
    BY <1>4 DEF Conclude
  <2> QED BY <1>4, <2>1 DEF TracedInv, ShortfallIsTheGap, StoppedAtTheLimit, Waiting
<1>5. CASE Refuse \/ StopReading \/ BreakStream \/ EndStream
  BY <1>4, <1>5 DEF Refuse, StopReading, BreakStream, EndStream
<1>6. CASE Accept \/ (\E delta \in Deltas : Generate(delta)) \/ GenerateLast \/ UNCHANGED vars
  <2>1. /\ UNCHANGED <<plan, round, context, prompt>>
        /\ \/ phase \in {"sent", "streaming"} /\ phase' = "streaming"
           \/ phase' = phase
    BY <1>6 DEF Accept, Generate, GenerateLast, vars
  <2> QED BY <2>1
          DEF TracedInv, ShortfallIsTheGap, StoppedAtTheLimit, Waiting, Round, RoundReaches
<1> QED
  BY <1>1, <1>2, <1>3, <1>5, <1>6 DEF Next, Client, Server, Ended

LEMMA TracedInvariant == Spec => []TracedInv
<1>1. Init => TracedInv
  BY DEF Init, TracedInv, ShortfallIsTheGap, StoppedAtTheLimit, Waiting
<1>2. ConversationInv /\ TracedInv /\ [Next]_vars => TracedInv'
  BY TracedStep
<1> QED BY <1>1, <1>2, ConversationInvariant, PTL DEF Spec

\* Whatever was recorded, whichever policy resolved it and whatever the servers
\* return, the prompts of a generated session are as long as those that were
\* recorded, and the prefix that a round claims exists whenever the round before
\* came up to the trace (policy.rs:10-14, session.rs:4-8).
THEOREM GeneratedTraceIsReplayed == Spec => []RecordedShapeIsReplayed
<1>1. ConversationInv /\ TracedInv => RecordedShapeIsReplayed
  <2> SUFFICES ASSUME ConversationInv, TracedInv,
                      NEW t \in Replayed, t.plan = plan
               PROVE  LET raws == t.recording.raws IN
                      /\ Waiting =>
                           /\ Len(prompt.ids) = raws[round].prefix + raws[round].input
                           /\ Len(prompt.ids) <= t.summary.max_prompt
                           /\ CameUpToTheTrace(raws) => prompt.shortfall = 0
                      /\ (phase = "ended" /\ round <= Len(plan.rounds) /\ ~plan.stop) =>
                           t.summary.overflow # {}
    BY DEF RecordedShapeIsReplayed
  <2> DEFINE raws == t.recording.raws
             done == Materialized(raws, t.recording.policy)
  <2>1. /\ plan \in Plans /\ round \in 1 .. Len(plan.rounds) + 1
        /\ Waiting => round <= Len(plan.rounds)
        /\ context \in Seq(Token) /\ PromptIsAsTraced
    BY DEF ConversationInv, TypeOK
  <2>2. Len(plan.rounds) \in Nat
    BY <2>1, PlanOK
  <2>3. raws \in Seq(RawRound) /\ t.recording.policy \in Policies
    BY TracedAssumption
  <2>4. /\ Len(plan.rounds) = Len(raws)
        /\ \A k \in DOMAIN plan.rounds :
             /\ plan.rounds[k].prefix = done[k].prefix
             /\ plan.rounds[k].input = done[k].input
             /\ plan.rounds[k].prefix + plan.rounds[k].input <= t.summary.max_prompt
             /\ RoundReaches(plan, k) => t.summary.overflow # {}
    BY TracedAssumption
  <2>5. plan.rounds \in Seq(RoundType) /\ DOMAIN plan.rounds = 1 .. Len(plan.rounds)
    BY <2>1, PlanOK
  <2>6. CASE Waiting
    <3>1. round \in DOMAIN plan.rounds /\ round \in DOMAIN raws
      BY <2>1, <2>2, <2>3, <2>4, <2>5, <2>6
    <3>2. /\ done[round].prefix + done[round].input = raws[round].prefix + raws[round].input
          /\ done[round].prefix \in Nat
          /\ done[round].prefix <= Before(raws, round)
      BY <2>3, <3>1, MaterializedIsReplayable
    <3> HIDE DEF done
    <3>3. Round.prefix = done[round].prefix /\ Round.input = done[round].input
      BY <2>4, <3>1 DEF Round
    <3>4. Len(prompt.ids) = Round.prefix + Round.input
      BY <2>1, <2>6 DEF PromptIsAsTraced
    <3>5. CameUpToTheTrace(raws) => prompt.shortfall = 0
      <4> SUFFICES ASSUME CameUpToTheTrace(raws) PROVE prompt.shortfall = 0
        OBVIOUS
      <4>1. Before(raws, round) <= Len(context)
        BY <2>1, <3>1, BeforeOK DEF CameUpToTheTrace, Before
      <4>2. Before(raws, round) \in Nat /\ Len(context) \in Nat
        BY <2>1, <2>3, <3>1, BeforeOK
      <4>3. Least(Round.prefix, Len(context)) = Round.prefix
        BY <3>2, <3>3, <4>1, <4>2 DEF Least
      <4> QED BY <2>6, <3>2, <3>3, <4>3 DEF TracedInv, ShortfallIsTheGap
    <3>6. Len(prompt.ids) <= t.summary.max_prompt
      BY <2>4, <3>1, <3>4 DEF Round
    <3> QED BY <2>6, <3>2, <3>3, <3>4, <3>5, <3>6 DEF Waiting
  <2>7. CASE phase = "ended" /\ round <= Len(plan.rounds) /\ ~plan.stop
    <3>1. round \in DOMAIN plan.rounds /\ RoundReaches(plan, round)
      BY <2>1, <2>2, <2>5, <2>7 DEF TracedInv, StoppedAtTheLimit
    <3> QED BY <2>4, <2>7, <3>1 DEF Waiting
  <2> QED BY <2>6, <2>7
<1> QED BY <1>1, ConversationInvariant, TracedInvariant, PTL

-----------------------------------------------------------------------------
(* What stands in the prefix cache before a unit begins. *)

\* A server that caches whole blocks finds something of a prompt exactly when it has
\* seen the first block of it and the prompt goes on behind.
LEMMA HitsNeedABlock ==
  ASSUME NEW block \in Nat \ {0}, NEW p \in Seq(Nat), NEW q \in Seq(Nat)
  PROVE  CachedTokens(block, {p}, q) > 0 <=>
           block < Len(q) /\ block <= Len(p) /\ \A i \in 1 .. block : p[i] = q[i]
<1> DEFINE l == Len(q)
           shared(s) == {n \in 0 .. l - 1 : n % block = 0 /\ n <= Len(s)
                                             /\ SubSeq(s, 1, n) = SubSeq(q, 1, n)}
           found == {0} \cup UNION {shared(s) : s \in {p}}
           Most(n) == n \in found /\ \A k \in found : k <= n
           most == CHOOSE n \in found : \A k \in found : k <= n
<1>0. l \in Nat /\ Len(p) \in Nat
  OBVIOUS
<1>1. CachedTokens(block, {p}, q) = most
  BY DEF CachedTokens
<1>2. /\ found \subseteq 0 .. l /\ 0 \in found
      /\ \A n : n \in found <=> n = 0 \/ n \in shared(p)
  BY <1>0
<1>3. \E n : Most(n)
  <2> DEFINE T == {l - n : n \in found}
  <2>1. T \subseteq Nat /\ T # {}
    BY <1>0, <1>2
  <2>2. PICK x \in T : \A y \in T : x <= y
    <3> HIDE DEF T
    <3> QED
      BY <2>1, LeastNumber
  <2>3. PICK n \in found : x = l - n
    BY <2>2
  <2>4. \A k \in found : k <= n
    <3>1. SUFFICES ASSUME NEW k \in found  PROVE  k <= n
      OBVIOUS
    <3>2. l - n <= l - k
      BY <2>2, <2>3
    <3>3. k \in Nat /\ n \in Nat
      BY <1>2
    <3> QED
      BY <1>0, <3>2, <3>3
  <2> QED
    BY <2>4
<1>4. most \in found /\ \A k \in found : k <= most
  BY <1>3
<1> HIDE DEF most, found
<1>5. ASSUME most > 0
      PROVE  block < l /\ block <= Len(p) /\ \A i \in 1 .. block : p[i] = q[i]
  <2>1. /\ most \in 0 .. l - 1 /\ most % block = 0 /\ most <= Len(p)
        /\ SubSeq(p, 1, most) = SubSeq(q, 1, most)
    BY <1>2, <1>4, <1>5
  <2>2. block <= most
    <3>1. SUFFICES ASSUME most < block  PROVE  FALSE
      BY <2>1
    <3>2. most % block = most
      BY <1>0, <2>1, <3>1
    <3> QED
      BY <1>5, <2>1, <3>2
  <2>3. ASSUME NEW i \in 1 .. block  PROVE  p[i] = q[i]
    <3>1. i \in 1 .. most
      BY <2>1, <2>2
    <3>2. SubSeq(p, 1, most)[i] = p[i] /\ SubSeq(q, 1, most)[i] = q[i]
      BY <1>0, <2>1, <3>1, SubSeqProperties
    <3> QED
      BY <2>1, <3>2
  <2> QED
    BY <1>0, <2>1, <2>2, <2>3
<1>6. ASSUME block < l, block <= Len(p), \A i \in 1 .. block : p[i] = q[i]
      PROVE  most > 0
  <2>1. block % block = 0
    OBVIOUS
  <2>2. SubSeq(p, 1, block) = SubSeq(q, 1, block)
    BY <1>0, <1>6
  <2>3. block \in shared(p)
    BY <1>0, <1>6, <2>1, <2>2
  <2>4. block \in found
    BY <1>2, <2>3
  <2>5. block <= most /\ most \in Nat
    BY <1>2, <1>4, <2>4
  <2> QED
    BY <2>5
<1> QED
  BY <1>1, <1>5, <1>6

\* For a block and a pool of any length: the gate passes only where a block is shorter
\* than the probe, and leaves nothing for the first prompt of unit 0 to hit unless the
\* probe is the whole pool (run_once_reusing).
THEOREM GateProbeIsApart ==
  \A block \in Nat \ {0}, pool_len \in Nat \ {0} : ProbeIsApart(block, pool_len)
<1> SUFFICES ASSUME NEW block \in Nat \ {0}, NEW pool_len \in Nat \ {0}
             PROVE  ProbeIsApart(block, pool_len)
  OBVIOUS
<1> DEFINE probe == Probe(pool_len)
           first == FirstPrompt(pool_len, 0, pool_len)
           l == IF pool_len < ProbeTokens THEN pool_len ELSE ProbeTokens
<1>1. l \in 1 .. pool_len /\ (l = pool_len <=> pool_len <= ProbeTokens)
  BY PreflightAssumption
<1>2. probe = [i \in 1 .. l |-> pool_len - l + i]
  BY DEF Probe
<1> HIDE DEF l
<1>3. probe \in Seq(Nat) /\ Len(probe) = l /\ \A i \in 1 .. l : probe[i] = pool_len - l + i
  <2> HIDE DEF probe
  <2>1. \A i \in 1 .. l : pool_len - l + i \in Nat
    BY <1>1
  <2> QED
    BY <1>1, <1>2, <2>1
<1>4. /\ first \in Seq(Nat) /\ Len(first) = pool_len
      /\ \A i \in 1 .. pool_len : first[i] = i
  <2>1. \A i \in 1 .. pool_len : ((0 + i - 1) % pool_len) + 1 = i
    OBVIOUS
  <2>2. first = [i \in 1 .. pool_len |-> i]
    BY <2>1 DEF FirstPrompt
  <2> HIDE DEF first
  <2> QED
    BY <2>2
<1> HIDE DEF probe, first
<1>5. CachedTokens(block, {probe}, probe) > 0 <=> block < Len(probe)
  BY <1>1, <1>3, HitsNeedABlock
<1>6. CachedTokens(block, {probe}, first) > 0 <=> pool_len <= ProbeTokens /\ block < pool_len
  <2>1. CachedTokens(block, {probe}, first) > 0 <=>
          block < pool_len /\ block <= l /\ \A i \in 1 .. block : probe[i] = first[i]
    BY <1>3, <1>4, HitsNeedABlock
  <2>2. CASE l = pool_len
    <3>1. block <= l => \A i \in 1 .. block : probe[i] = first[i]
      BY <1>1, <1>3, <1>4, <2>2
    <3> QED
      BY <1>1, <2>1, <2>2, <3>1
  <2>3. CASE l # pool_len
    <3>1. probe[1] # first[1]
      BY <1>1, <1>3, <1>4, <2>3
    <3>2. 1 \in 1 .. block
      OBVIOUS
    <3> QED
      BY <1>1, <2>1, <2>3, <3>1, <3>2
  <2> QED
    BY <2>2, <2>3
<1> QED
  BY <1>5, <1>6 DEF ProbeIsApart, probe, first

\* For every pool, stride and length of a first prompt that fits into the pool: two
\* units share a prefix only where they begin at the same place, and the first two
\* units have windows of their own exactly where stride and pool have room for both.
THEOREM UnitSeedsAreApart ==
  \A pool_len \in Nat \ {0}, stride \in Nat, i, j \in Nat, len \in Nat \ {0} :
    stride < pool_len /\ len <= pool_len => SeedsAreApart(pool_len, stride, i, j, len)
<1> SUFFICES ASSUME NEW pool_len \in Nat \ {0}, NEW stride \in Nat, NEW i \in Nat, NEW j \in Nat,
                    NEW len \in Nat \ {0}, stride < pool_len, len <= pool_len
             PROVE  SeedsAreApart(pool_len, stride, i, j, len)
  OBVIOUS
<1> DEFINE Taken(k) == FirstPrompt(pool_len, SeedOffset(stride, k), len)
           Window(k) == {Taken(k)[n] : n \in 1 .. len}
           Start(k) == SeedOffset(stride, k) % pool_len
           More(k) == Append(Taken(k), 0)
<1>1. \A k \in Nat : SeedOffset(stride, k) \in Nat
  BY DEF SeedOffset
<1>2. ASSUME NEW k \in Nat
      PROVE  /\ More(k) \in Seq(Nat) /\ Len(More(k)) = len + 1
             /\ More(k)[1] = Start(k) + 1
  <2> DEFINE seed == SeedOffset(stride, k)
  <2>1. seed \in Nat
    BY <1>1
  <2>2. Taken(k) = [n \in 1 .. len |-> ((seed + n - 1) % pool_len) + 1]
    BY DEF FirstPrompt
  <2> DEFINE s == Taken(k)
  <2> HIDE DEF seed, s
  <2>3. \A n \in 1 .. len : ((seed + n - 1) % pool_len) + 1 \in Nat
    BY <2>1
  <2>4. seed + 1 - 1 = seed
    BY <2>1
  <2>5. s \in Seq(Nat) /\ Len(s) = len /\ s[1] = (seed % pool_len) + 1
    BY <2>2, <2>3, <2>4 DEF s
  <2>6. Append(s, 0) \in Seq(Nat) /\ Len(Append(s, 0)) = len + 1 /\ Append(s, 0)[1] = s[1]
    BY <2>5
  <2> QED
    BY <2>5, <2>6 DEF s, seed
<1>3. CachedTokens(1, {More(i)}, More(j)) > 0 <=> Start(i) = Start(j)
  <2> DEFINE p == More(i)
             q == More(j)
             a == Start(i)
             b == Start(j)
  <2>1. /\ p \in Seq(Nat) /\ Len(p) = len + 1 /\ p[1] = a + 1
        /\ q \in Seq(Nat) /\ Len(q) = len + 1 /\ q[1] = b + 1
    BY <1>2
  <2>2. a \in Nat /\ b \in Nat
    BY <1>1
  <2> HIDE DEF p, q, a, b
  <2>3. CachedTokens(1, {p}, q) > 0 <=>
          1 < Len(q) /\ 1 <= Len(p) /\ \A n \in 1 .. 1 : p[n] = q[n]
    BY <2>1, HitsNeedABlock
  <2>4. (\A n \in 1 .. 1 : p[n] = q[n]) <=> a = b
    BY <2>1, <2>2
  <2>5. CachedTokens(1, {p}, q) > 0 <=> a = b
    BY <2>1, <2>3, <2>4
  <2> QED
    BY <2>5 DEF p, q, a, b
<1>4. SeedOffset(stride, 0) = 0 /\ SeedOffset(stride, 1) = stride
  BY DEF SeedOffset
<1>5. Window(0) = 1 .. len
  <2>1. \A n \in 1 .. len : ((0 + n - 1) % pool_len) + 1 = n
    OBVIOUS
  <2>2. \A n \in 1 .. len : Taken(0)[n] = n
    BY <1>4, <2>1 DEF FirstPrompt
  <2> QED
    BY <2>2
<1>6. \A n \in 1 .. len : Taken(1)[n] = ((stride + n - 1) % pool_len) + 1
  BY <1>4 DEF FirstPrompt
<1>7. CASE stride + len <= pool_len
  <2>1. \A n \in 1 .. len : (stride + n - 1) % pool_len = stride + n - 1
    BY <1>7
  <2>2. \A n \in 1 .. len : Taken(1)[n] = stride + n
    BY <1>6, <2>1
  <2>3. ASSUME len <= stride  PROVE  Window(0) \cap Window(1) = {}
    BY <1>5, <2>2, <2>3
  <2>4. ASSUME ~(len <= stride)  PROVE  stride + 1 \in Window(0) \cap Window(1)
    <3>1. Taken(1)[1] = stride + 1 /\ 1 \in 1 .. len /\ stride + 1 \in 1 .. len
      BY <2>2, <2>4
    <3>2. Taken(1)[1] \in Window(1)
      BY <3>1
    <3> QED
      BY <1>5, <3>1, <3>2
  <2> QED
    BY <1>3, <1>7, <2>3, <2>4 DEF SeedsAreApart
<1>8. CASE ~(stride + len <= pool_len)
  <2> DEFINE n == pool_len - stride + 1
  <2>1. n \in 1 .. len /\ stride + n - 1 = pool_len
    BY <1>8
  <2>2. pool_len % pool_len = 0
    OBVIOUS
  <2> HIDE DEF n
  <2>3. Taken(1)[n] = 1
    BY <1>6, <2>1, <2>2
  <2>4. 1 \in Window(0) \cap Window(1)
    BY <1>5, <2>1, <2>3
  <2> QED
    BY <1>3, <1>8, <2>4 DEF SeedsAreApart
<1> QED
  BY <1>7, <1>8
=============================================================================
