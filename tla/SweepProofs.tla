---------------------------- MODULE SweepProofs ----------------------------
(***************************************************************************)
(* Theorems about the adaptive sweep, for every search configuration, every *)
(* server, any number of starts and any spacing of the directories: first   *)
(* the ranges and the records, then what the result of a sweep rests on,    *)
(* the bracket on the rates that were measured, the conclusion on the       *)
(* server, and a resumed sweep on the points of the one it resumes.         *)
(***************************************************************************)
EXTENDS Sweep, FiniteSetTheorems, SequenceTheorems, TLAPS

InRange(s) == s.config.min .. s.config.max

SearchType ==
  [config : Configs, phase : Phases, pending : Rate, good : Rate, bad : Rate,
   down : BOOLEAN, queue : Seq(Nat), outcome : Outcomes]

\* What the search holds is a rate of its range: what it offers, the ends of its
\* bracket, and what it still has to draw.
Ranged(s) ==
  /\ s.pending # None => s.pending \in InRange(s)
  /\ s.good # None => s.good \in InRange(s)
  /\ s.bad # None => s.bad \in InRange(s)
  /\ s.queue \in Seq(InRange(s)) /\ Len(s.queue) <= s.config.densify

\* From the bisection on there are two ends, and only a narrow bracket is drawn
\* around, which is what a located boundary needs.
Narrowed(s) ==
  /\ s.phase # "ramp" => s.good # None /\ s.bad # None
  /\ s.phase = "densify" => NarrowEnough(s) \/ s.bad - s.good <= 1
  /\ s.outcome = "located" => s.phase = "densify"
  /\ s.down => s.bad # None

SearchOK(s) == s \in SearchType /\ Ranged(s) /\ Narrowed(s)

-----------------------------------------------------------------------------
(* The arithmetic. *)

\* The i-th of n points between two rates lies between them.
LEMMA BetweenTheEnds ==
  ASSUME NEW low \in Nat, NEW high \in Nat, low <= high,
         NEW n \in Nat, NEW i \in 1 .. n
  PROVE  low + ((high - low) * i) \div (n + 1) \in low .. high
<1> DEFINE w == high - low
           m == n + 1
           q == (w * i) \div m
<1>1. w \in Nat /\ m \in Nat /\ m > 0 /\ i \in Nat /\ i <= m
  OBVIOUS
<1>2. w * i \in Nat /\ w * i <= w * m
  BY <1>1
<1>3. q \in Int /\ q * m <= w * i /\ w * i < (q + 1) * m
  BY <1>1, <1>2
<1>4. q >= 0
  BY <1>1, <1>2, <1>3
<1>5. q <= w
  BY <1>1, <1>2, <1>3
<1> QED BY <1>1, <1>4, <1>5

\* Half of the sum is between the ends, and at one of them only when no rate is
\* left between.
LEMMA Midpoint ==
  ASSUME NEW g \in Nat, NEW b \in Nat
  PROVE  /\ (g + b) \div 2 \in Nat
         /\ (g + b) \div 2 <= g => b - g <= 1
         /\ (g + b) \div 2 >= b => b - g <= 1
OBVIOUS

-----------------------------------------------------------------------------
(* One step of the search at a time. *)

\* Narrowed(s) of a search that draws around its bracket.
Drawn(s) ==
  /\ s.phase = "densify" /\ s.good # None /\ s.bad # None
  /\ NarrowEnough(s) \/ s.bad - s.good <= 1

\* A change of what is offered, drawn or concluded leaves the bracket alone.
LEMMA NarrowEnoughSame ==
  ASSUME NEW s, NEW t, t.good = s.good, t.bad = s.bad, t.config = s.config
  PROVE  NarrowEnough(t) <=> NarrowEnough(s)
BY DEF NarrowEnough

\* next_densify: it pops the next rate, or concludes.
LEMMA NextDensifyOK ==
  ASSUME NEW s \in SearchType, Ranged(s), Drawn(s)
  PROVE  SearchOK(NextDensify(s))
<1> DEFINE t == NextDensify(s)
<1>1. CASE s.queue = <<>>
  <2>1. t = [s EXCEPT !.pending = None,
                      !.outcome = IF s.outcome = "open" THEN "located" ELSE s.outcome]
    BY <1>1 DEF NextDensify, Finish, Conclude, Conclusion, Drawn
  <2>2. t \in SearchType
    BY <2>1 DEF SearchType, Rate, Outcomes
  <2>3. /\ t.config = s.config /\ t.good = s.good /\ t.bad = s.bad
        /\ t.queue = s.queue /\ t.phase = s.phase /\ t.pending = None
    BY <2>1 DEF SearchType
  <2>4. Ranged(t)
    BY <2>3 DEF Ranged, InRange
  <2>5. Narrowed(t)
    BY <2>3, NarrowEnoughSame DEF Narrowed, Drawn
  <2> QED BY <2>2, <2>4, <2>5 DEF SearchOK
<1>2. CASE s.queue # <<>>
  <2>1. t = [s EXCEPT !.pending = Head(s.queue), !.queue = Tail(s.queue)]
    BY <1>2 DEF NextDensify
  <2>2. /\ t.config = s.config /\ t.good = s.good /\ t.bad = s.bad
        /\ t.phase = s.phase /\ t.pending = Head(s.queue) /\ t.queue = Tail(s.queue)
    BY <2>1 DEF SearchType
  <2>3. /\ t.pending \in InRange(s) /\ t.queue \in Seq(InRange(s))
        /\ Len(t.queue) <= s.config.densify
    <3>1. Len(Tail(s.queue)) = Len(s.queue) - 1 /\ Len(s.queue) \in Nat
      BY <1>2 DEF SearchType
    <3>2. s.config.densify \in Nat
      BY SweepAssumption DEF SearchType, SearchConfigs
    <3> QED BY <1>2, <2>2, <3>1, <3>2 DEF Ranged
  <2>4. t.pending \in Nat /\ t.queue \in Seq(Nat)
    BY <1>2, <2>2 DEF SearchType
  <2>5. t \in SearchType
    BY <2>1, <2>2, <2>4 DEF SearchType, Rate
  <2>6. Ranged(t)
    BY <2>2, <2>3 DEF Ranged, InRange
  <2>7. Narrowed(t)
    BY <2>2, NarrowEnoughSame DEF Narrowed, Drawn
  <2> QED BY <2>5, <2>6, <2>7 DEF SearchOK
<1> QED BY <1>1, <1>2

\* begin_densify: the rates it draws are clamped into the range.
LEMMA DensifyRatesInRange ==
  ASSUME NEW s \in SearchType, Ranged(s), s.good # None, s.bad # None
  PROVE  /\ DensifyRates(s) \in Seq(InRange(s)) /\ DensifyRates(s) \in Seq(Nat)
         /\ Len(DensifyRates(s)) <= s.config.densify
<1> DEFINE low  == Larger((3 * s.good) \div 4, s.config.min)
           high == Smaller((5 * s.bad) \div 4, s.config.max)
           n    == s.config.densify
           draw(i) == low + ((high - low) * i) \div (n + 1)
<1>1. s.config.min \in Nat /\ s.config.max \in Nat /\ n \in Nat
  BY SweepAssumption DEF SearchType, SearchConfigs
<1>2. s.good \in Nat /\ s.bad \in Nat
  BY DEF SearchType, Rate, None
<1>3. low \in Nat /\ high \in Nat /\ s.config.min <= low /\ high <= s.config.max
  BY <1>1, <1>2 DEF Larger, Smaller
<1>4. CASE high <= low
  BY <1>1, <1>4 DEF DensifyRates
<1>5. CASE ~(high <= low)
  <2>1. low <= high
    BY <1>3, <1>5
  <2>2. \A i \in 1 .. n : draw(i) \in low .. high
    BY <1>1, <1>3, <2>1, BetweenTheEnds
  <2> HIDE DEF low, high
  <2>3. \A i \in 1 .. n : draw(i) \in InRange(s) /\ draw(i) \in Nat
    BY <1>1, <1>3, <2>2 DEF InRange
  <2>4. DensifyRates(s) = [i \in 1 .. n |-> draw(i)]
    BY <1>5 DEF DensifyRates, low, high
  <2> HIDE DEF draw
  <2>5. Len(DensifyRates(s)) = n
    BY <1>1, <2>4
  <2>6. DensifyRates(s) \in Seq(InRange(s)) /\ DensifyRates(s) \in Seq(Nat)
    <3> HIDE DEF n
    <3> QED BY <1>1, <2>3, <2>4
  <2> QED BY <1>1, <2>5, <2>6
<1> QED BY <1>4, <1>5

\* begin_densify.
LEMMA BeginDensifyOK ==
  ASSUME NEW s \in SearchType, Ranged(s), s.good # None, s.bad # None,
         NarrowEnough(s) \/ s.bad - s.good <= 1
  PROVE  SearchOK(BeginDensify(s))
<1> DEFINE t == [s EXCEPT !.phase = "densify", !.queue = DensifyRates(s)]
<1>1. /\ t.config = s.config /\ t.good = s.good /\ t.bad = s.bad /\ t.pending = s.pending
      /\ t.phase = "densify" /\ t.queue = DensifyRates(s)
  BY DEF SearchType
<1>2. t \in SearchType
  BY DensifyRatesInRange DEF SearchType, Phases
<1>3. Ranged(t)
  BY <1>1, DensifyRatesInRange DEF Ranged, InRange
<1>4. Drawn(t)
  BY <1>1, NarrowEnoughSame DEF Drawn
<1>5. SearchOK(NextDensify(t))
  <2> HIDE DEF t
  <2> QED BY <1>2, <1>3, <1>4, NextDensifyOK
<1> QED BY <1>5 DEF BeginDensify

\* advance_bisect: a midpoint is strictly inside the bracket.
LEMMA AdvanceBisectOK ==
  ASSUME NEW s, SearchOK(s), s.phase = "bisect"
  PROVE  SearchOK(AdvanceBisect(s))
<1> DEFINE midpoint == (s.good + s.bad) \div 2
<1>0. s \in SearchType /\ Ranged(s) /\ s.good # None /\ s.bad # None /\ s.outcome # "located"
  BY DEF SearchOK, Narrowed
<1>1. /\ s.good \in Nat /\ s.bad \in Nat /\ s.good \in InRange(s) /\ s.bad \in InRange(s)
      /\ s.config.min \in Nat /\ s.config.max \in Nat
  BY <1>0, SweepAssumption DEF SearchType, SearchConfigs, Ranged, Rate, None
<1>2. CASE NarrowEnough(s) \/ midpoint <= s.good \/ midpoint >= s.bad
  <2>1. NarrowEnough(s) \/ s.bad - s.good <= 1
    BY <1>1, <1>2, Midpoint
  <2> QED BY <1>0, <1>2, <2>1, BeginDensifyOK DEF AdvanceBisect
<1>3. CASE ~(NarrowEnough(s) \/ midpoint <= s.good \/ midpoint >= s.bad)
  <2>1. midpoint \in Nat /\ midpoint \in InRange(s)
    <3>1. midpoint \in Nat /\ s.good < midpoint /\ midpoint < s.bad
      <4>1. ~(midpoint <= s.good) /\ ~(midpoint >= s.bad)
        BY <1>3
      <4>2. midpoint \in Nat
        BY <1>1, Midpoint
      <4> HIDE DEF midpoint
      <4> QED BY <1>1, <4>1, <4>2
    <3> QED BY <1>1, <3>1 DEF InRange
  <2> DEFINE t == [s EXCEPT !.pending = midpoint]
  <2>2. AdvanceBisect(s) = t
    BY <1>3 DEF AdvanceBisect
  <2> HIDE DEF midpoint
  <2>3. /\ t \in SearchType /\ t.config = s.config /\ t.good = s.good /\ t.bad = s.bad
        /\ t.queue = s.queue /\ t.phase = s.phase /\ t.outcome = s.outcome
        /\ t.pending = midpoint
    BY <1>0, <2>1 DEF SearchType, Rate
  <2>4. Ranged(t)
    BY <1>0, <2>1, <2>3 DEF Ranged, InRange
  <2>5. Narrowed(t)
    BY <1>0, <2>3 DEF Narrowed
  <2> QED BY <2>2, <2>3, <2>4, <2>5 DEF SearchOK
<1> QED BY <1>2, <1>3

\* record, bisecting: one end moves to a rate of the range.
LEMMA RecordBisectOK ==
  ASSUME NEW s, SearchOK(s), s.phase = "bisect", NEW rate \in Nat, rate \in InRange(s),
         NEW crossed \in BOOLEAN
  PROVE  SearchOK(RecordBisect(s, rate, crossed))
<1> DEFINE t == IF crossed THEN [s EXCEPT !.bad = rate] ELSE [s EXCEPT !.good = rate]
<1>1. /\ t \in SearchType /\ t.config = s.config /\ t.queue = s.queue /\ t.phase = s.phase
      /\ t.outcome = s.outcome /\ t.pending = s.pending
      /\ t.good \in {s.good, rate} /\ t.bad \in {s.bad, rate}
  BY DEF SearchOK, SearchType, Rate
<1> HIDE DEF t
<1>2. rate # None
  BY DEF None
<1>3. Ranged(t)
  BY <1>1 DEF SearchOK, Ranged, InRange
<1>4. Narrowed(t)
  BY <1>1, <1>2 DEF SearchOK, Narrowed
<1> QED BY <1>1, <1>3, <1>4, AdvanceBisectOK DEF RecordBisect, SearchOK, t

\* begin_bisect, with both ends found by the ramp.
LEMMA BeginBisectOK ==
  ASSUME NEW s, SearchOK(s), s.phase = "ramp", s.good # None, s.bad # None
  PROVE  SearchOK(BeginBisect(s))
<1> DEFINE t == [s EXCEPT !.phase = "bisect"]
<1>1. /\ t \in SearchType /\ t.config = s.config /\ t.queue = s.queue /\ t.phase = "bisect"
      /\ t.outcome = s.outcome /\ t.pending = s.pending /\ t.good = s.good /\ t.bad = s.bad
  BY DEF SearchOK, SearchType, Phases
<1> HIDE DEF t
<1>2. Ranged(t) /\ Narrowed(t)
  BY <1>1 DEF SearchOK, Ranged, InRange, Narrowed
<1> QED BY <1>1, <1>2, AdvanceBisectOK DEF BeginBisect, SearchOK, t

\* ramp_up: twice the rate, when that is still in the range.
LEMMA RampUpOK ==
  ASSUME NEW s, SearchOK(s), s.phase = "ramp", NEW rate \in Nat, rate \in InRange(s)
  PROVE  SearchOK(RampUp(s, rate))
<1>1. s.config.min \in Nat /\ s.config.max \in Nat /\ s \in SearchType
  BY SweepAssumption DEF SearchOK, SearchType, SearchConfigs
<1>2. CASE 2 * rate > s.config.max
  <2> DEFINE t == [s EXCEPT !.pending = None, !.outcome = "never_crossed"]
  <2>1. /\ t \in SearchType /\ t.config = s.config /\ t.queue = s.queue /\ t.phase = s.phase
        /\ t.outcome = "never_crossed" /\ t.down = s.down /\ t.pending = None
        /\ t.good = s.good /\ t.bad = s.bad
    BY <1>1 DEF SearchType, Rate, Outcomes
  <2>2. RampUp(s, rate) = t
    BY <1>2 DEF RampUp, Conclude
  <2> HIDE DEF t
  <2>3. Ranged(t) /\ Narrowed(t)
    BY <2>1 DEF SearchOK, Ranged, InRange, Narrowed
  <2> QED BY <2>1, <2>2, <2>3 DEF SearchOK
<1>3. CASE ~(2 * rate > s.config.max)
  <2> DEFINE t == [s EXCEPT !.pending = 2 * rate]
  <2>0. 2 * rate \in Nat /\ 2 * rate \in InRange(s)
    BY <1>1, <1>3 DEF InRange
  <2>1. /\ t \in SearchType /\ t.config = s.config /\ t.queue = s.queue /\ t.phase = s.phase
        /\ t.outcome = s.outcome /\ t.down = s.down /\ t.pending = 2 * rate
        /\ t.good = s.good /\ t.bad = s.bad
    BY <1>1, <2>0 DEF SearchType, Rate
  <2>2. RampUp(s, rate) = t
    BY <1>3 DEF RampUp
  <2> HIDE DEF t
  <2>3. Ranged(t) /\ Narrowed(t)
    BY <2>0, <2>1 DEF SearchOK, Ranged, InRange, Narrowed
  <2> QED BY <2>1, <2>2, <2>3 DEF SearchOK
<1> QED BY <1>2, <1>3

\* ramp_down: half the rate, when that is still in the range.
LEMMA RampDownOK ==
  ASSUME NEW s, SearchOK(s), s.phase = "ramp", NEW rate \in Nat, rate \in InRange(s),
         s.bad # None
  PROVE  SearchOK(RampDown(s, rate))
<1> DEFINE half == rate \div 2
<1>1. s.config.min \in Nat /\ s.config.max \in Nat /\ s \in SearchType
  BY SweepAssumption DEF SearchOK, SearchType, SearchConfigs
<1>2. CASE half < s.config.min
  <2> DEFINE t == [s EXCEPT !.down = TRUE, !.pending = None, !.outcome = "always_crossed"]
  <2>1. /\ t \in SearchType /\ t.config = s.config /\ t.queue = s.queue /\ t.phase = s.phase
        /\ t.outcome = "always_crossed" /\ t.pending = None /\ t.good = s.good
        /\ t.bad = s.bad
    BY <1>1 DEF SearchType, Rate, Outcomes
  <2>2. RampDown(s, rate) = t
    BY <1>2 DEF RampDown, Conclude
  <2> HIDE DEF t
  <2>3. Ranged(t) /\ Narrowed(t)
    BY <2>1 DEF SearchOK, Ranged, InRange, Narrowed
  <2> QED BY <2>1, <2>2, <2>3 DEF SearchOK
<1>3. CASE ~(half < s.config.min)
  <2> DEFINE t == [s EXCEPT !.down = TRUE, !.pending = half]
  <2>0. half \in Nat /\ half \in InRange(s)
    BY <1>1, <1>3 DEF InRange
  <2>2. RampDown(s, rate) = t
    BY <1>3 DEF RampDown
  <2> HIDE DEF half
  <2>1. /\ t \in SearchType /\ t.config = s.config /\ t.queue = s.queue /\ t.phase = s.phase
        /\ t.outcome = s.outcome /\ t.pending = half /\ t.good = s.good /\ t.bad = s.bad
    BY <1>1, <2>0 DEF SearchType, Rate
  <2> HIDE DEF t
  <2>3. Ranged(t) /\ Narrowed(t)
    BY <2>0, <2>1 DEF SearchOK, Ranged, InRange, Narrowed
  <2> QED BY <2>1, <2>2, <2>3 DEF SearchOK
<1> QED BY <1>2, <1>3

\* record, ramping: a crossed rate is the upper end of the bracket.
LEMMA RampCrossedOK ==
  ASSUME NEW s, SearchOK(s), s.phase = "ramp", NEW rate \in Nat, rate \in InRange(s)
  PROVE  SearchOK(RampCrossed(s, rate))
<1> DEFINE bad == IF s.bad = None THEN rate ELSE Smaller(s.bad, rate)
           t == [s EXCEPT !.bad = bad]
<1>1. bad \in {s.bad, rate} /\ bad # None
  BY DEF Smaller, None
<1>2. RampCrossed(s, rate) = IF t.good # None THEN BeginBisect(t) ELSE RampDown(t, rate)
  BY DEF RampCrossed
<1> HIDE DEF bad
<1>3. /\ t \in SearchType /\ t.config = s.config /\ t.queue = s.queue /\ t.phase = s.phase
      /\ t.outcome = s.outcome /\ t.pending = s.pending /\ t.good = s.good /\ t.bad = bad
  BY <1>1 DEF SearchOK, SearchType, Rate
<1> HIDE DEF t
<1>4. Ranged(t) /\ Narrowed(t) /\ rate \in InRange(t)
  BY <1>1, <1>3 DEF SearchOK, Ranged, InRange, Narrowed
<1>5. SearchOK(t)
  BY <1>3, <1>4 DEF SearchOK
<1> QED BY <1>1, <1>2, <1>3, <1>4, <1>5, BeginBisectOK, RampDownOK

\* record, ramping: a rate that was kept up with is the lower end.
LEMMA RampKeptUpOK ==
  ASSUME NEW s, SearchOK(s), s.phase = "ramp", NEW rate \in Nat, rate \in InRange(s),
         s.down => s.bad # None
  PROVE  SearchOK(RampKeptUp(s, rate))
<1> DEFINE good == IF s.good = None THEN rate ELSE Larger(s.good, rate)
           t == [s EXCEPT !.good = good]
<1>1. good \in {s.good, rate} /\ good # None
  BY DEF Larger, None
<1>2. RampKeptUp(s, rate) = IF t.down THEN BeginBisect(t) ELSE RampUp(t, rate)
  BY DEF RampKeptUp
<1> HIDE DEF good
<1>3. /\ t \in SearchType /\ t.config = s.config /\ t.queue = s.queue /\ t.phase = s.phase
      /\ t.outcome = s.outcome /\ t.pending = s.pending /\ t.good = good /\ t.bad = s.bad
      /\ t.down = s.down
  BY <1>1 DEF SearchOK, SearchType, Rate
<1> HIDE DEF t
<1>4. Ranged(t) /\ Narrowed(t) /\ rate \in InRange(t)
  BY <1>1, <1>3 DEF SearchOK, Ranged, InRange, Narrowed
<1>5. SearchOK(t)
  BY <1>3, <1>4 DEF SearchOK
<1> QED BY <1>1, <1>2, <1>3, <1>4, <1>5, BeginBisectOK, RampUpOK

\* Search::record keeps the search in its range and narrow, whatever the verdict.
LEMMA RecordVerdictOK ==
  ASSUME NEW s, SearchOK(s), s.pending # None, NEW crossed \in BOOLEAN
  PROVE  SearchOK(RecordVerdict(s, s.pending, crossed))
<1>1. s.pending \in Nat /\ s.pending \in InRange(s) /\ s \in SearchType
  BY DEF SearchOK, SearchType, Ranged, Rate, None
<1>2. CASE s.phase = "ramp"
  BY <1>1, <1>2, RampCrossedOK, RampKeptUpOK DEF RecordVerdict, RecordRamp, SearchOK, Narrowed
<1>3. CASE s.phase = "bisect"
  BY <1>1, <1>3, RecordBisectOK DEF RecordVerdict
<1>4. CASE s.phase = "densify"
  <2>1. Ranged(s) /\ Drawn(s)
    BY <1>4 DEF SearchOK, Narrowed, Drawn
  <2> QED BY <1>1, <1>4, <2>1, NextDensifyOK DEF RecordVerdict, RecordDensify
<1> QED BY <1>1, <1>2, <1>3, <1>4 DEF SearchType, Phases

\* Search::new.
LEMMA NewSearchOK ==
  ASSUME NEW c \in Configs
  PROVE  SearchOK(NewSearch(c))
<1> DEFINE first == Smaller(Larger(c.start, c.min), c.max)
           t == NewSearch(c)
<1>1. c.min \in Nat /\ c.max \in Nat /\ c.start \in Nat /\ c.min < c.max /\ c.densify \in Nat
  BY SweepAssumption DEF SearchConfigs
<1>2. first \in Nat /\ c.min <= first /\ first <= c.max
  BY <1>1 DEF Smaller, Larger
<1>3. t = [config |-> c, phase |-> "ramp", pending |-> first, good |-> None, bad |-> None,
           down |-> FALSE, queue |-> <<>>, outcome |-> "open"]
  BY DEF NewSearch
<1> HIDE DEF first, t
<1>4. t \in SearchType
  BY <1>2, <1>3 DEF SearchType, Rate, Phases, Outcomes
<1>5. Ranged(t)
  BY <1>1, <1>2, <1>3 DEF Ranged, InRange
<1>6. Narrowed(t)
  BY <1>3 DEF Narrowed
<1> QED BY <1>4, <1>5, <1>6 DEF SearchOK, t

-----------------------------------------------------------------------------
(* The invariant of a sweep. *)

PointType == [offered : Nat, phase : Phases, record : Record, crossed : BOOLEAN,
              reused : BOOLEAN]

\* The point that a record makes of what is offered.
PointOf(record, reused) ==
  [offered |-> Offered, phase |-> search.phase, record |-> record,
   crossed |-> Crossed(search.config, record, Offered), reused |-> reused]

\* The point under construction is the one offered; where it is measured or
\* written no complete record is in the way.
Underway ==
  /\ step \in {"running", "recording"} => Offered # None /\ current.rate = Offered
  /\ (step = "running" /\ resume) => Completed(Offered) = {}
  /\ step = "recording" => Completed(Offered) = {}

\* No record keeps quiet about a cache that was warm, wherever it is kept.
Honest(record) == record.warm => record.reset # "done"
RecordsAreHonest ==
  /\ Honest(current)
  /\ \A p \in disk : Honest(p)
  /\ \A i \in DOMAIN points : Honest(points[i].record)

SweepInv == TypeOK /\ SearchOK(search) /\ Underway /\ RecordsAreHonest

\* What the loop may go through again after a restart are rates.
LEMMA ResumableType ==
  ASSUME points \in Seq(PointType)
  PROVE  Resumable \in Seq(Nat)
<1> DEFINE rates == Rates(points)
           k == Cardinality(Unreplaced)
<1>1. Len(points) \in Nat /\ DOMAIN points = 1 .. Len(points)
  OBVIOUS
<1>2. rates \in Seq(Nat) /\ Len(rates) = Len(points)
  <2>1. rates = [i \in 1 .. Len(points) |-> points[i].offered]
    BY <1>1 DEF Rates
  <2>2. \A i \in 1 .. Len(points) : points[i].offered \in Nat
    <3>1. \A i \in 1 .. Len(points) : points[i] \in PointType
      BY <1>1
    <3> QED BY <3>1 DEF PointType
  <2> QED BY <1>1, <2>1, <2>2
<1>3. k \in Nat /\ k <= Len(points)
  <2>1. IsFiniteSet(1 .. Len(points)) /\ Cardinality(1 .. Len(points)) = Len(points)
    BY <1>1, FS_Interval
  <2>2. Unreplaced \subseteq 1 .. Len(points)
    BY <1>1 DEF Unreplaced
  <2>3. IsFiniteSet(Unreplaced) /\ k <= Len(points)
    BY <2>1, <2>2, FS_Subset
  <2> QED BY <2>3, FS_CardinalityType
<1> HIDE DEF rates, k
<1>4. SubSeq(rates, 1, k) \in Seq(Nat)
  <2>1. \A i \in 1 .. k : rates[i] \in Nat
    BY <1>2, <1>3
  <2> QED BY <1>2, <1>3, <2>1, SubSeqProperties
<1> QED BY <1>4 DEF Resumable, rates, k

\* Judging a point of the rate offered keeps the invariant's parts about the
\* search and the points.
LEMMA JudgeOK ==
  ASSUME SweepInv, NEW record \in Record, Honest(record), NEW reused \in BOOLEAN,
         Offered # None, Judge(record, reused)
  PROVE  /\ search' \in SearchType /\ Len(search'.queue) <= search'.config.densify
         /\ SearchOK(search)'
         /\ points' \in Seq(PointType)
         /\ \A i \in DOMAIN points' : Honest(points'[i].record)
         /\ step' \in {"asking", "failed"}
<1>1. SearchOK(search) /\ search \in SearchType /\ points \in Seq(PointType)
      /\ \A i \in DOMAIN points : Honest(points[i].record)
  BY DEF SweepInv, SearchOK, TypeOK, PointType, RecordsAreHonest
<1>2. CASE record.metric = None
  BY <1>1, <1>2 DEF Judge, SearchOK, Ranged
<1>3. CASE record.metric # None
  <2> DEFINE point == PointOf(record, reused)
  <2>1. /\ step' = "asking"
        /\ points' = Append(points, point)
        /\ search' = RecordVerdict(search, Offered, point.crossed)
        /\ point.crossed \in BOOLEAN
    BY <1>3 DEF Judge, PointOf, Crossed
  <2>2. SearchOK(search')
    <3> HIDE DEF point
    <3> QED BY <1>1, <2>1, RecordVerdictOK DEF Offered
  <2>3. point \in PointType /\ Honest(point.record)
    <3>1. Offered \in Nat /\ search.phase \in Phases
      BY <1>1 DEF SearchType, Offered, Rate, None
    <3> QED BY <3>1 DEF PointType, PointOf, Crossed
  <2> HIDE DEF point
  <2>4. points' \in Seq(PointType) /\ \A i \in DOMAIN points' : Honest(points'[i].record)
    BY <1>1, <2>1, <2>3
  <2>5. search' \in SearchType /\ Len(search'.queue) <= search'.config.densify
    BY <2>2 DEF SearchOK, Ranged
  <2> QED BY <2>1, <2>2, <2>4, <2>5
<1> QED BY <1>2, <1>3

\* A sweep starts with nothing measured and nothing on disk.
LEMMA SweepInit == Init => SweepInv
<1> SUFFICES ASSUME Init PROVE SweepInv
  OBVIOUS
<1>1. SearchOK(search) /\ search \in SearchType /\ Len(search.queue) <= search.config.densify
  <2>1. PICK c \in Configs : search = NewSearch(c)
    BY DEF Init
  <2> QED BY <2>1, NewSearchOK DEF SearchOK, Ranged
<1>2. TypeOK
  <2>1. current \in Record
    BY DEF Init, Record, CacheResets, Metric
  <2>2. starts \in 1 .. MaxStarts /\ server \in Servers /\ resume \in BOOLEAN
    BY SweepAssumption DEF Init
  <2>3. points = <<>> /\ past = <<>> /\ disk = {} /\ warm \in BOOLEAN /\ step \in Active
    BY DEF Init, Active
  <2>4. points \in Seq(PointType) /\ past \in Seq(Nat)
    BY <2>3
  <2> QED BY <1>1, <2>1, <2>2, <2>3, <2>4 DEF TypeOK, SearchType, PointType
<1>3. Underway /\ RecordsAreHonest
  BY DEF Init, Underway, RecordsAreHonest, Honest
<1> QED BY <1>1, <1>2, <1>3 DEF SweepInv

\* Every step, a crash and a restart among them, keeps the invariant.
LEMMA SweepStepInv == SweepInv /\ [Next]_vars => SweepInv'
<1> SUFFICES ASSUME SweepInv, [Next]_vars PROVE SweepInv'
  OBVIOUS
<1> USE DEF SweepInv
<1>0. /\ search \in SearchType /\ Len(search.queue) <= search.config.densify
      /\ points \in Seq(PointType)
  BY DEF TypeOK, SearchType, PointType
<1>1. CASE Reuse
  <2>1. PICK p \in Completed(Offered) : Judge(p, TRUE)
    BY <1>1 DEF Reuse
  <2>2. p \in Record /\ Honest(p) /\ Offered # None
    BY <1>1, <2>1 DEF Reuse, Completed, TypeOK, RecordsAreHonest
  <2>3. /\ search' \in SearchType /\ Len(search'.queue) <= search'.config.densify
        /\ SearchOK(search)' /\ points' \in Seq(PointType)
        /\ \A i \in DOMAIN points' : Honest(points'[i].record)
        /\ step' \in {"asking", "failed"}
    BY <2>1, <2>2, JudgeOK
  <2>4. UNCHANGED <<server, resume, current, disk, warm, starts, past>>
    BY <1>1 DEF Reuse
  <2>5. TypeOK'
    BY <2>3, <2>4 DEF TypeOK, SearchType, PointType, Active, Directory
  <2>6. Underway' /\ RecordsAreHonest'
    BY <2>3, <2>4 DEF Underway, RecordsAreHonest
  <2> QED BY <2>3, <2>5, <2>6
<1>2. CASE Reset
  <2>1. /\ step = "asking" /\ Offered # None /\ (resume => Completed(Offered) = {})
        /\ step' = "running"
        /\ UNCHANGED <<server, resume, search, points, disk, starts, past>>
    BY <1>2 DEF Reset
  <2>2. PICK reset \in server.resets :
             /\ current' = [rate |-> Offered, reset |-> reset, metric |-> None,
                            warm |-> warm /\ reset # "done"]
             /\ warm' = (warm /\ reset # "done")
    BY <1>2 DEF Reset
  <2>3. reset \in CacheResets
    BY SweepAssumption DEF TypeOK, ServerType
  <2>4. Offered \in Nat
    BY <1>0, <2>1 DEF Offered, SearchType, Rate
  <2>5. current' \in Record /\ warm' \in BOOLEAN /\ Honest(current') /\ current'.rate = Offered
    <3>1. (warm /\ reset # "done") \in BOOLEAN /\ None \in Metric
      BY DEF Metric
    <3> QED BY <2>2, <2>3, <2>4, <3>1 DEF Record, Honest
  <2>6. TypeOK'
    BY <2>1, <2>5 DEF TypeOK, Active, Directory
  <2>7. SearchOK(search)' /\ Underway'
    BY <2>1, <2>5 DEF Underway, Completed, Directory, Offered
  <2>8. RecordsAreHonest'
    BY <2>1, <2>5 DEF RecordsAreHonest
  <2> QED BY <2>6, <2>7, <2>8
<1>3. CASE RunPoint
  <2>1. /\ step = "running" /\ step' = "recording" /\ warm' = TRUE
        /\ disk' = disk \ Completed(Offered)
        /\ UNCHANGED <<server, resume, search, points, starts, past>>
    BY <1>3 DEF RunPoint
  <2>2. PICK m \in Metrics(Offered) : current' = [current EXCEPT !.metric = m]
    BY <1>3 DEF RunPoint
  <2>3. m \in Metric
    <3>1. Offered \in Nat
      BY <1>0, <1>3 DEF RunPoint, Offered, SearchType, Rate, None
    <3>2. server.knee \in Nat \cup {Noisy} /\ Noise \subseteq Nat
      BY SweepAssumption DEF TypeOK, ServerType
    <3> QED BY <2>2, <3>1, <3>2 DEF Metrics, Metric, Required, Smaller
  <2>4. /\ current' \in Record /\ current'.rate = current.rate
        /\ current'.warm = current.warm /\ current'.reset = current.reset
    BY <2>2, <2>3 DEF TypeOK, Record
  <2>5. TypeOK'
    BY <2>1, <2>4 DEF TypeOK, Active, Directory
  <2>6. SearchOK(search)' /\ Underway'
    BY <2>1, <2>4 DEF Underway, Completed, Directory, Offered
  <2>7. RecordsAreHonest'
    BY <2>1, <2>4 DEF RecordsAreHonest, Honest
  <2> QED BY <2>5, <2>6, <2>7
<1>4. CASE RunFails
  <2>1. /\ step' = "failed" /\ warm' \in BOOLEAN
        /\ UNCHANGED <<server, resume, search, current, points, disk, starts, past>>
    BY <1>4 DEF RunFails, TypeOK
  <2>2. TypeOK' /\ SearchOK(search)' /\ Underway' /\ RecordsAreHonest'
    BY <2>1 DEF TypeOK, Directory, Underway, RecordsAreHonest
  <2> QED BY <2>2
<1>5. CASE RecordPoint
  <2>1. /\ step = "recording" /\ Judge(current, FALSE) /\ disk' = disk \cup {current}
        /\ UNCHANGED <<server, resume, current, warm, starts, past>>
    BY <1>5 DEF RecordPoint
  <2>2. /\ Offered # None /\ current.rate = Offered /\ Completed(Offered) = {}
        /\ current \in Record /\ Honest(current)
    BY <2>1 DEF Underway, TypeOK, RecordsAreHonest
  <2>3. /\ search' \in SearchType /\ Len(search'.queue) <= search'.config.densify
        /\ SearchOK(search)' /\ points' \in Seq(PointType)
        /\ \A i \in DOMAIN points' : Honest(points'[i].record)
        /\ step' \in {"asking", "failed"}
    BY <2>1, <2>2, JudgeOK
  <2>4. \A p, q \in disk' : Directory(p.rate) = Directory(q.rate) => p = q
    BY <2>1, <2>2 DEF TypeOK, Completed
  <2>5. TypeOK'
    BY <2>1, <2>2, <2>3, <2>4 DEF TypeOK, SearchType, PointType, Active, Directory
  <2>6. Underway' /\ RecordsAreHonest'
    BY <2>1, <2>2, <2>3 DEF Underway, RecordsAreHonest
  <2> QED BY <2>3, <2>5, <2>6
<1>6. CASE Assemble
  <2>1. /\ step' = "finished"
        /\ UNCHANGED <<server, resume, search, current, points, disk, warm, starts, past>>
    BY <1>6 DEF Assemble
  <2>2. TypeOK' /\ SearchOK(search)' /\ Underway' /\ RecordsAreHonest'
    BY <2>1 DEF TypeOK, Directory, Underway, RecordsAreHonest
  <2> QED BY <2>2
<1>7. CASE Crash
  <2>1. /\ step' = "crashed" /\ warm' \in BOOLEAN
        /\ UNCHANGED <<server, resume, search, current, points, disk, starts, past>>
    BY <1>7 DEF Crash, TypeOK
  <2>2. TypeOK' /\ SearchOK(search)' /\ Underway' /\ RecordsAreHonest'
    BY <2>1 DEF TypeOK, Directory, Underway, RecordsAreHonest
  <2> QED BY <2>2
<1>8. CASE Restart
  <2>1. /\ starts < MaxStarts /\ starts' = starts + 1 /\ resume' \in BOOLEAN
        /\ search' = NewSearch(search.config) /\ points' = <<>> /\ step' = "asking"
        /\ past' \in {<<>>, Resumable, past}
        /\ UNCHANGED <<server, current, disk, warm>>
    BY <1>8 DEF Restart
  <2>2. /\ SearchOK(search') /\ search' \in SearchType
        /\ Len(search'.queue) <= search'.config.densify
    <3>1. search.config \in Configs
      BY <1>0 DEF SearchType
    <3> QED BY <2>1, <3>1, NewSearchOK DEF SearchOK, Ranged
  <2>3. past' \in Seq(Nat)
    <3>1. Resumable \in Seq(Nat)
      BY <1>0, ResumableType
    <3>2. past \in Seq(Nat) /\ <<>> \in Seq(Nat)
      BY DEF TypeOK
    <3> QED BY <2>1, <3>1, <3>2
  <2>4. starts' \in 1 .. MaxStarts
    BY <2>1, SweepAssumption DEF TypeOK
  <2>5. TypeOK'
    BY <2>1, <2>2, <2>3, <2>4 DEF TypeOK, SearchType, Active, Directory
  <2>6. Underway' /\ RecordsAreHonest'
    BY <2>1 DEF Underway, RecordsAreHonest
  <2> QED BY <2>2, <2>5, <2>6
<1>9. CASE UNCHANGED vars
  BY <1>9 DEF vars, TypeOK, Underway, RecordsAreHonest, Completed, Directory, Offered
<1> QED
  BY <1>1, <1>2, <1>3, <1>4, <1>5, <1>6, <1>7, <1>8, <1>9 DEF Next, SweepStep, Done

\* The invariant holds in every sweep.
LEMMA SweepInvariant == Spec => []SweepInv
<1>1. Init => SweepInv
  BY SweepInit
<1>2. SweepInv /\ [Next]_vars => SweepInv'
  BY SweepStepInv
<1> QED BY <1>1, <1>2, PTL DEF Spec

-----------------------------------------------------------------------------
(* The theorems. *)

\* Every variable keeps its type, and a directory never holds two records,
\* through any number of crashes and restarts (point.rs:55-63).
THEOREM SweepTypes == Spec => []TypeOK
<1>1. SweepInv => TypeOK
  BY DEF SweepInv
<1> QED BY <1>1, SweepInvariant, PTL

\* For every configuration and whatever the server answers, no rate is offered
\* outside the range the sweep was given (search.rs:24-30).
THEOREM SweepStaysInRange == Spec => []RatesStayInRange
<1>1. SweepInv => RatesStayInRange
  <2> SUFFICES ASSUME SweepInv, Offered # None
               PROVE  search.config.min <= Offered /\ Offered <= search.config.max
    BY DEF RatesStayInRange
  <2>1. search.config.min \in Nat /\ search.config.max \in Nat
    BY SweepAssumption DEF SweepInv, SearchOK, SearchType, SearchConfigs
  <2>2. Offered \in search.config.min .. search.config.max
    BY DEF SweepInv, SearchOK, Ranged, InRange, Offered
  <2> QED BY <2>1, <2>2
<1> QED BY <1>1, SweepInvariant, PTL

\* For every configuration, a boundary reported as located is as narrow as was
\* asked for, or has no rate left inside (search.rs:65, 204-212).
THEOREM SweepLocatesNarrowly == Spec => []LocatedIsNarrow
<1>1. SweepInv => LocatedIsNarrow
  BY DEF SweepInv, SearchOK, Narrowed, LocatedIsNarrow
<1> QED BY <1>1, SweepInvariant, PTL

\* A report without a contamination warning has no point that ran on a warm
\* prefix cache, whatever was read back (point.rs:16-20).
THEOREM SweepReportsContamination == Spec => []ContaminationIsReported
<1>1. SweepInv => ContaminationIsReported
  BY DEF SweepInv, RecordsAreHonest, Honest, ContaminationIsReported, Warned
<1> QED BY <1>1, SweepInvariant, PTL

\* A resumed sweep never loses a complete record, through any number of crashes
\* (point.rs:55-63).
THEOREM SweepKeepsPoints == Spec => CompletedPointsAreKept
<1>1. SweepInv /\ [Next]_vars => [resume => disk \subseteq disk']_vars
  <2> SUFFICES ASSUME SweepInv, Next, resume PROVE disk \subseteq disk'
    OBVIOUS
  <2>1. CASE RunPoint
    BY <2>1 DEF RunPoint, SweepInv, Underway
  <2>2. CASE RecordPoint
    BY <2>2 DEF RecordPoint
  <2>3. CASE Reuse \/ Reset \/ RunFails \/ Assemble \/ Crash \/ Restart \/ Done
    BY <2>3 DEF Reuse, Reset, RunFails, Assemble, Crash, Restart, Done, vars
  <2> QED BY <2>1, <2>2, <2>3 DEF Next, SweepStep
<1> QED BY <1>1, SweepInvariant, PTL DEF Spec, CompletedPointsAreKept

-----------------------------------------------------------------------------
(* One step of the search, and the bracket. *)

\* What is offered lies beyond the ends that are known; a ramp knows one end at
\* most.  Doubling and halving leave zero where it is, and only zero.
Bracketed(s) ==
  /\ s.phase = "ramp" /\ s.down => s.good = None
  /\ s.phase = "ramp" /\ ~s.down => s.bad = None
  /\ s.phase = "ramp" /\ s.pending # None /\ s.good # None =>
       s.good < s.pending \/ (s.good = s.pending /\ s.pending = 0)
  /\ s.phase = "ramp" /\ s.pending # None /\ s.bad # None =>
       s.pending < s.bad \/ (s.bad = s.pending /\ s.pending = 0)
  /\ s.phase = "bisect" => s.pending # None /\ s.good < s.pending /\ s.pending < s.bad
  /\ s.phase # "ramp" => s.good < s.bad

\* How a ramp concludes, and that nothing else does without both ends.
Concluded(s) ==
  /\ s.pending = None => s.outcome # "open"
  /\ s.outcome = "never_crossed" =>
       s.phase = "ramp" /\ s.pending = None /\ s.good # None /\ s.config.max < 2 * s.good
  /\ s.outcome = "always_crossed" =>
       s.phase = "ramp" /\ s.pending = None /\ s.bad # None /\ s.bad \div 2 < s.config.min
  /\ s.pending # None => s.outcome = "open"

Sound(s) == SearchOK(s) /\ Bracketed(s) /\ Concluded(s)

\* A change of phase, of what is offered or drawn leaves the ends alone.
SameEnds(s, t) == t.good = s.good /\ t.bad = s.bad /\ t.config = s.config

\* The ends after a verdict on a rate: the better of the known one and this.
RaisedGood(s, rate) == IF s.good = None THEN rate ELSE Larger(s.good, rate)
LoweredBad(s, rate) == IF s.bad = None THEN rate ELSE Smaller(s.bad, rate)

\* A rate is not judged both ways.
Consistent(s, rate, crossed) ==
  IF crossed THEN s.good # rate ELSE s.bad # rate

\* next_densify: the ends stay, and it concludes that the boundary is located.
LEMMA NextDensifyShape ==
  ASSUME NEW s \in SearchType, s.phase = "densify", s.outcome = "open",
         s.good # None, s.bad # None, s.good < s.bad
  PROVE  LET t == NextDensify(s) IN SameEnds(s, t) /\ Bracketed(t) /\ Concluded(t)
<1> DEFINE t == NextDensify(s)
<1>1. CASE s.queue = <<>>
  <2>1. t = [s EXCEPT !.pending = None, !.outcome = "located"]
    BY <1>1 DEF NextDensify, Finish, Conclude, Conclusion
  <2>2. /\ SameEnds(s, t) /\ t.phase = "densify" /\ t.pending = None
        /\ t.outcome = "located"
    BY <2>1 DEF SearchType, SameEnds
  <2> QED BY <2>2 DEF Bracketed, Concluded, SameEnds
<1>2. CASE s.queue # <<>>
  <2>1. t = [s EXCEPT !.pending = Head(s.queue), !.queue = Tail(s.queue)]
    BY <1>2 DEF NextDensify
  <2>2. Head(s.queue) \in Nat
    BY <1>2 DEF SearchType
  <2>3. /\ SameEnds(s, t) /\ t.phase = "densify" /\ t.pending # None
        /\ t.outcome = "open"
    BY <2>1, <2>2 DEF SearchType, SameEnds, None
  <2> QED BY <2>3 DEF Bracketed, Concluded, SameEnds
<1> QED BY <1>1, <1>2

\* advance_bisect: what it offers is strictly between the ends.
LEMMA AdvanceBisectShape ==
  ASSUME NEW s \in SearchType, s.phase = "bisect", s.outcome = "open",
         s.good # None, s.bad # None, s.good < s.bad
  PROVE  LET t == AdvanceBisect(s) IN SameEnds(s, t) /\ Bracketed(t) /\ Concluded(t)
<1> DEFINE midpoint == (s.good + s.bad) \div 2
<1>0. s.good \in Nat /\ s.bad \in Nat
  BY DEF SearchType, Rate
<1>1. CASE NarrowEnough(s) \/ midpoint <= s.good \/ midpoint >= s.bad
  <2> DEFINE u == [s EXCEPT !.phase = "densify", !.queue = DensifyRates(s)]
  <2>1. AdvanceBisect(s) = NextDensify(u)
    BY <1>1 DEF AdvanceBisect, BeginDensify
  <2>2. DensifyRates(s) \in Seq(Nat)
    <3> DEFINE low  == Larger((3 * s.good) \div 4, s.config.min)
               high == Smaller((5 * s.bad) \div 4, s.config.max)
               n    == s.config.densify
               draw(i) == low + ((high - low) * i) \div (n + 1)
    <3>1. s.config.min \in Nat /\ s.config.max \in Nat /\ n \in Nat
      BY SweepAssumption DEF SearchType, SearchConfigs
    <3>2. low \in Nat /\ high \in Nat
      BY <1>0, <3>1 DEF Larger, Smaller
    <3>3. CASE high <= low
      BY <3>3 DEF DensifyRates
    <3>4. CASE ~(high <= low)
      <4>0. low <= high
        BY <3>2, <3>4
      <4>1. \A i \in 1 .. n : draw(i) \in low .. high
        BY <3>1, <3>2, <4>0, BetweenTheEnds
      <4> HIDE DEF low, high
      <4>2. \A i \in 1 .. n : draw(i) \in Nat
        BY <3>2, <4>1
      <4>3. DensifyRates(s) = [i \in 1 .. n |-> draw(i)]
        BY <3>4 DEF DensifyRates, low, high
      <4> HIDE DEF draw, n
      <4> QED BY <3>1, <4>2, <4>3
    <3> QED BY <3>3, <3>4
  <2>3. /\ u \in SearchType /\ SameEnds(s, u) /\ u.phase = "densify" /\ u.outcome = "open"
    BY <2>2 DEF SearchType, SameEnds, Phases
  <2> HIDE DEF u
  <2>4. LET t == NextDensify(u) IN SameEnds(u, t) /\ Bracketed(t) /\ Concluded(t)
    BY <2>3, NextDensifyShape DEF SameEnds
  <2> QED BY <2>1, <2>3, <2>4 DEF SameEnds
<1>2. CASE ~(NarrowEnough(s) \/ midpoint <= s.good \/ midpoint >= s.bad)
  <2>1. midpoint \in Nat /\ s.good < midpoint /\ midpoint < s.bad
    BY <1>0, <1>2, Midpoint
  <2> DEFINE t == [s EXCEPT !.pending = midpoint]
  <2>2. AdvanceBisect(s) = t
    BY <1>2 DEF AdvanceBisect
  <2> HIDE DEF midpoint
  <2>3. /\ SameEnds(s, t) /\ t.phase = "bisect" /\ t.pending = midpoint
        /\ t.outcome = "open"
    BY DEF SearchType, SameEnds
  <2> QED BY <2>1, <2>2, <2>3 DEF Bracketed, Concluded, SameEnds, None
<1> QED BY <1>1, <1>2

\* What a verdict makes of the ends of s: outside the drawing it moves the end of
\* its side to the better of the two, while drawing it moves none.
Moved(s, crossed, t) ==
  /\ t.config = s.config
  /\ s.phase = "densify" => t.good = s.good /\ t.bad = s.bad
  /\ s.phase # "densify" =>
       /\ t.good = IF crossed THEN s.good ELSE RaisedGood(s, s.pending)
       /\ t.bad = IF crossed THEN LoweredBad(s, s.pending) ELSE s.bad

\* record, bisecting: the rate lies inside, so it is the better end of its side.
LEMMA RecordBisectShape ==
  ASSUME NEW s, Sound(s), s.phase = "bisect", NEW crossed \in BOOLEAN
  PROVE  LET t == RecordBisect(s, s.pending, crossed) IN
         /\ Bracketed(t) /\ Concluded(t) /\ t.config = s.config
         /\ t.good = IF crossed THEN s.good ELSE RaisedGood(s, s.pending)
         /\ t.bad = IF crossed THEN LoweredBad(s, s.pending) ELSE s.bad
<1> DEFINE u == IF crossed THEN [s EXCEPT !.bad = s.pending] ELSE [s EXCEPT !.good = s.pending]
<1>1. /\ s \in SearchType /\ s.good \in Nat /\ s.bad \in Nat /\ s.pending \in Nat
      /\ s.good < s.pending /\ s.pending < s.bad /\ s.outcome = "open"
      /\ s.good # None /\ s.bad # None /\ s.pending # None
  BY DEF Sound, SearchOK, SearchType, Narrowed, Bracketed, Concluded, Rate
<1>2. /\ u \in SearchType /\ u.phase = "bisect" /\ u.outcome = "open" /\ u.config = s.config
      /\ u.good = IF crossed THEN s.good ELSE s.pending
      /\ u.bad = IF crossed THEN s.pending ELSE s.bad
  BY <1>1 DEF SearchType, Rate
<1> HIDE DEF u
<1>3. LET t == AdvanceBisect(u) IN SameEnds(u, t) /\ Bracketed(t) /\ Concluded(t)
  BY <1>1, <1>2, AdvanceBisectShape
<1>4. RaisedGood(s, s.pending) = s.pending /\ LoweredBad(s, s.pending) = s.pending
  BY <1>1 DEF RaisedGood, LoweredBad, Larger, Smaller
<1>5. RecordBisect(s, s.pending, crossed) = AdvanceBisect(u)
  BY DEF RecordBisect, u
<1> QED BY <1>2, <1>3, <1>4, <1>5 DEF SameEnds

\* record, ramping, over its limit: what was offered is the lowest such rate, and
\* with a rate below it the ramp is over.
LEMMA RampCrossedShape ==
  ASSUME NEW s, Sound(s), s.phase = "ramp", s.pending # None, s.good # s.pending
  PROVE  LET t == RampCrossed(s, s.pending) IN
         /\ Bracketed(t) /\ Concluded(t) /\ t.config = s.config
         /\ t.good = s.good /\ t.bad = LoweredBad(s, s.pending)
<1> DEFINE rate == s.pending
           u == [s EXCEPT !.bad = LoweredBad(s, rate)]
<1>1. /\ s \in SearchType /\ s.good \in Rate /\ s.bad \in Rate /\ rate \in Nat
      /\ s.outcome = "open" /\ s.config.min \in Nat /\ s.config.max \in Nat
  BY SweepAssumption DEF Sound, SearchOK, SearchType, SearchConfigs, Concluded, Rate
<1>2. LoweredBad(s, rate) = rate
  BY <1>1 DEF Sound, Bracketed, LoweredBad, Smaller, Rate, None
<1>3. /\ u \in SearchType /\ u.good = s.good /\ u.bad = rate /\ u.phase = "ramp"
      /\ u.outcome = "open" /\ u.config = s.config /\ u.pending = rate /\ u.down = s.down
  BY <1>1, <1>2 DEF SearchType, Rate
<1>4. RampCrossed(s, rate) = IF u.good # None THEN BeginBisect(u) ELSE RampDown(u, rate)
  BY DEF RampCrossed, LoweredBad
<1> HIDE DEF u
<1>5. CASE s.good # None
  <2> DEFINE v == [u EXCEPT !.phase = "bisect"]
  <2>1. /\ v \in SearchType /\ SameEnds(u, v) /\ v.phase = "bisect" /\ v.outcome = "open"
    BY <1>3 DEF SearchType, SameEnds, Phases
  <2>2. s.good < rate
    BY <1>1, <1>5 DEF Sound, Bracketed, Rate, None
  <2>3. v.good = s.good /\ v.bad = rate /\ v.config = s.config /\ rate # None
    BY <1>1, <1>3, <2>1 DEF SameEnds, None
  <2>4. RampCrossed(s, rate) = AdvanceBisect(v)
    BY <1>3, <1>4, <1>5 DEF BeginBisect
  <2> HIDE DEF v, rate
  <2>5. LET t == AdvanceBisect(v) IN SameEnds(v, t) /\ Bracketed(t) /\ Concluded(t)
    BY <1>5, <2>1, <2>2, <2>3, AdvanceBisectShape
  <2> QED BY <1>2, <2>3, <2>4, <2>5 DEF SameEnds, rate
<1>6. CASE s.good = None /\ rate \div 2 < s.config.min
  <2> DEFINE t == [u EXCEPT !.down = TRUE, !.pending = None, !.outcome = "always_crossed"]
  <2>1. RampCrossed(s, rate) = t
    BY <1>3, <1>4, <1>6 DEF RampDown, Conclude
  <2>2. /\ t.good = None /\ t.bad = rate /\ t.phase = "ramp" /\ t.down = TRUE
        /\ t.outcome = "always_crossed" /\ t.config = s.config /\ t.pending = None
    BY <1>3, <1>6 DEF SearchType
  <2>3. rate # None
    BY <1>1 DEF None
  <2>4. Bracketed(t) /\ Concluded(t)
    BY <1>6, <2>2, <2>3 DEF Bracketed, Concluded
  <2> QED BY <1>2, <1>6, <2>1, <2>2, <2>4
<1>7. CASE s.good = None /\ ~(rate \div 2 < s.config.min)
  <2> DEFINE t == [u EXCEPT !.down = TRUE, !.pending = rate \div 2]
  <2>1. RampCrossed(s, rate) = t
    BY <1>3, <1>4, <1>7 DEF RampDown
  <2>2. /\ t.good = None /\ t.bad = rate /\ t.phase = "ramp" /\ t.down = TRUE
        /\ t.outcome = "open" /\ t.config = s.config /\ t.pending = rate \div 2
    BY <1>3, <1>7 DEF SearchType
  <2>3. /\ rate \div 2 \in Nat
        /\ rate \div 2 < rate \/ (rate \div 2 = rate /\ rate = 0)
    BY <1>1
  <2>4. Bracketed(t) /\ Concluded(t)
    BY <2>2, <2>3 DEF Bracketed, Concluded, None
  <2> QED BY <1>2, <1>7, <2>1, <2>2, <2>4
<1> QED BY <1>5, <1>6, <1>7

\* record, ramping, kept up: what was offered is the highest such rate.
LEMMA RampKeptUpShape ==
  ASSUME NEW s, Sound(s), s.phase = "ramp", s.pending # None, s.bad # s.pending
  PROVE  LET t == RampKeptUp(s, s.pending) IN
         /\ Bracketed(t) /\ Concluded(t) /\ t.config = s.config
         /\ t.good = RaisedGood(s, s.pending) /\ t.bad = s.bad
<1> DEFINE rate == s.pending
           u == [s EXCEPT !.good = RaisedGood(s, rate)]
<1>1. /\ s \in SearchType /\ s.good \in Rate /\ s.bad \in Rate /\ rate \in Nat
      /\ s.outcome = "open" /\ s.config.min \in Nat /\ s.config.max \in Nat
  BY SweepAssumption DEF Sound, SearchOK, SearchType, SearchConfigs, Concluded, Rate
<1>2. RaisedGood(s, rate) = rate
  BY <1>1 DEF Sound, Bracketed, RaisedGood, Larger, Rate, None
<1>3. /\ u \in SearchType /\ u.good = rate /\ u.bad = s.bad /\ u.phase = "ramp"
      /\ u.outcome = "open" /\ u.config = s.config /\ u.pending = rate /\ u.down = s.down
  BY <1>1, <1>2 DEF SearchType, Rate
<1>4. RampKeptUp(s, rate) = IF u.down THEN BeginBisect(u) ELSE RampUp(u, rate)
  BY DEF RampKeptUp, RaisedGood
<1> HIDE DEF u
<1>5. CASE s.down
  <2> DEFINE v == [u EXCEPT !.phase = "bisect"]
  <2>1. /\ v \in SearchType /\ SameEnds(u, v) /\ v.phase = "bisect" /\ v.outcome = "open"
    BY <1>3 DEF SearchType, SameEnds, Phases
  <2>2. rate < s.bad /\ s.bad # None
    BY <1>1, <1>5 DEF Sound, SearchOK, Narrowed, Bracketed, Rate, None
  <2>3. v.good = rate /\ v.bad = s.bad /\ v.config = s.config /\ rate # None
    BY <1>1, <1>3, <2>1 DEF SameEnds, None
  <2>4. RampKeptUp(s, rate) = AdvanceBisect(v)
    BY <1>3, <1>4, <1>5 DEF BeginBisect
  <2> HIDE DEF v, rate
  <2>5. LET t == AdvanceBisect(v) IN SameEnds(v, t) /\ Bracketed(t) /\ Concluded(t)
    BY <2>1, <2>2, <2>3, AdvanceBisectShape
  <2> QED BY <1>2, <2>3, <2>4, <2>5 DEF SameEnds, rate
<1>6. CASE ~s.down /\ 2 * rate > s.config.max
  <2> DEFINE t == [u EXCEPT !.pending = None, !.outcome = "never_crossed"]
  <2>1. RampKeptUp(s, rate) = t
    BY <1>3, <1>4, <1>6 DEF RampUp, Conclude
  <2>2. /\ t.good = rate /\ t.bad = s.bad /\ t.phase = "ramp" /\ ~t.down
        /\ t.outcome = "never_crossed" /\ t.config = s.config /\ t.pending = None
    BY <1>3, <1>6 DEF SearchType
  <2>3. rate # None /\ s.bad = None
    BY <1>1, <1>6 DEF None, Sound, Bracketed
  <2>4. Bracketed(t) /\ Concluded(t)
    <3>1. s.config.max < 2 * rate
      BY <1>1, <1>6
    <3> HIDE DEF t, rate
    <3> QED BY <2>2, <2>3, <3>1 DEF Bracketed, Concluded
  <2> QED BY <1>2, <2>1, <2>2, <2>4
<1>7. CASE ~s.down /\ ~(2 * rate > s.config.max)
  <2> DEFINE t == [u EXCEPT !.pending = 2 * rate]
  <2>1. RampKeptUp(s, rate) = t
    BY <1>3, <1>4, <1>7 DEF RampUp
  <2>2. /\ t.good = rate /\ t.bad = s.bad /\ t.phase = "ramp" /\ ~t.down
        /\ t.outcome = "open" /\ t.config = s.config /\ t.pending = 2 * rate
    BY <1>3, <1>7 DEF SearchType
  <2>3. /\ 2 * rate \in Nat /\ s.bad = None
        /\ rate < 2 * rate \/ (rate = 2 * rate /\ 2 * rate = 0)
    BY <1>1, <1>7 DEF Sound, Bracketed
  <2>4. Bracketed(t) /\ Concluded(t)
    <3> HIDE DEF t, rate
    <3> QED BY <2>2, <2>3 DEF Bracketed, Concluded, None
  <2> QED BY <1>2, <2>1, <2>2, <2>4
<1> QED BY <1>5, <1>6, <1>7

\* Search::record: the search stays sound, and its ends move as the verdict says.
LEMMA RecordVerdictShape ==
  ASSUME NEW s, Sound(s), s.pending # None, NEW crossed \in BOOLEAN,
         s.phase # "densify" => Consistent(s, s.pending, crossed)
  PROVE  /\ Sound(RecordVerdict(s, s.pending, crossed))
         /\ Moved(s, crossed, RecordVerdict(s, s.pending, crossed))
<1> DEFINE t == RecordVerdict(s, s.pending, crossed)
<1>1. SearchOK(s) /\ s \in SearchType /\ s.outcome = "open"
  BY DEF Sound, SearchOK, Concluded
<1>2. SearchOK(t)
  BY <1>1, RecordVerdictOK
<1>3. ASSUME s.phase = "ramp", crossed
      PROVE  Bracketed(t) /\ Concluded(t) /\ Moved(s, crossed, t)
  <2>1. t = RampCrossed(s, s.pending) /\ s.good # s.pending
    BY <1>3 DEF RecordVerdict, RecordRamp, Consistent
  <2> HIDE DEF t
  <2> QED BY <1>3, <2>1, RampCrossedShape DEF Moved
<1>4. ASSUME s.phase = "ramp", ~crossed
      PROVE  Bracketed(t) /\ Concluded(t) /\ Moved(s, crossed, t)
  <2>1. t = RampKeptUp(s, s.pending) /\ s.bad # s.pending
    BY <1>4 DEF RecordVerdict, RecordRamp, Consistent
  <2> HIDE DEF t
  <2> QED BY <1>4, <2>1, RampKeptUpShape DEF Moved
<1>5. ASSUME s.phase = "bisect"
      PROVE  Bracketed(t) /\ Concluded(t) /\ Moved(s, crossed, t)
  <2>1. t = RecordBisect(s, s.pending, crossed)
    BY <1>5 DEF RecordVerdict
  <2> HIDE DEF t
  <2> QED BY <1>5, <2>1, RecordBisectShape DEF Moved
<1>6. ASSUME s.phase = "densify"
      PROVE  Bracketed(t) /\ Concluded(t) /\ Moved(s, crossed, t)
  <2>1. t = NextDensify(s)
    BY <1>6 DEF RecordVerdict, RecordDensify
  <2>2. s.good # None /\ s.bad # None /\ s.good < s.bad
    BY <1>1, <1>6 DEF SearchOK, Narrowed, Sound, Bracketed
  <2> HIDE DEF t
  <2> QED BY <1>1, <1>6, <2>1, <2>2, NextDensifyShape DEF Moved, SameEnds
<1>7. Bracketed(t) /\ Concluded(t) /\ Moved(s, crossed, t)
  BY <1>1, <1>3, <1>4, <1>5, <1>6 DEF SearchType, Phases
<1> QED BY <1>2, <1>7 DEF Sound

\* Search::new.
LEMMA NewSearchSound ==
  ASSUME NEW c \in Configs
  PROVE  LET t == NewSearch(c) IN
         Sound(t) /\ t.good = None /\ t.bad = None /\ t.config = c
<1> DEFINE first == Smaller(Larger(c.start, c.min), c.max)
           t == NewSearch(c)
<1>1. SearchOK(t)
  BY NewSearchOK
<1>2. c.min \in Nat /\ c.max \in Nat /\ c.start \in Nat
  BY SweepAssumption DEF SearchConfigs
<1>3. first \in Nat
  BY <1>2 DEF Smaller, Larger
<1>4. /\ t.phase = "ramp" /\ t.pending = first /\ t.good = None /\ t.bad = None
      /\ t.outcome = "open" /\ t.config = c /\ ~t.down
  BY DEF NewSearch
<1>5. first # None
  BY <1>3 DEF None
<1> HIDE DEF t, first
<1>6. Bracketed(t) /\ Concluded(t)
  BY <1>4, <1>5 DEF Bracketed, Concluded
<1> QED BY <1>1, <1>4, <1>6 DEF Sound, t

-----------------------------------------------------------------------------
(* The bracket and the points. *)

\* Every point carries a verdict on what was offered.  A rate of zero is never
\* measured, so a point there was read back, and its record is still in place.
PointsAreJudged ==
  \A i \in DOMAIN points :
    /\ points[i].record.metric # None
    /\ points[i].crossed = Crossed(search.config, points[i].record, points[i].offered)
    /\ Directory(points[i].record.rate) = Directory(points[i].offered)
    /\ points[i].offered = 0 => resume /\ points[i].record \in disk

EvidenceInv ==
  /\ SweepInv
  /\ Sound(search)
  /\ BracketIsEvidence
  /\ PointsAreJudged
  /\ step = "recording" => Offered > 0

\* BracketIsEvidence of a search and the two sets of rates.
Ends(s, kept, over) ==
  /\ s.good = None <=> kept = {}
  /\ s.bad = None <=> over = {}
  /\ s.good # None => s.good \in kept /\ \A r \in kept : r <= s.good
  /\ s.bad # None => s.bad \in over /\ \A r \in over : s.bad <= r
  /\ s.good # None /\ s.bad # None => s.good < s.bad

\* A verdict that is no evidence leaves them, any other joins its side.
LEMMA EndsMove ==
  ASSUME NEW s, NEW t, Sound(s), Sound(t), s.pending # None,
         NEW crossed \in BOOLEAN, Moved(s, crossed, t),
         NEW kept \in SUBSET Nat, NEW over \in SUBSET Nat, Ends(s, kept, over)
  PROVE  /\ s.phase = "densify" => Ends(t, kept, over)
         /\ s.phase # "densify" /\ crossed => Ends(t, kept, over \cup {s.pending})
         /\ s.phase # "densify" /\ ~crossed => Ends(t, kept \cup {s.pending}, over)
<1>1. /\ s.good \in Rate /\ s.bad \in Rate /\ s.pending \in Nat
  BY DEF Sound, SearchOK, SearchType, Rate
<1>2. t.good # None /\ t.bad # None => t.good < t.bad
  BY DEF Sound, Bracketed
<1>3. CASE s.phase = "densify"
  BY <1>3 DEF Moved, Ends
<1>4. CASE s.phase # "densify" /\ crossed
  <2>1. t.good = s.good /\ t.bad = LoweredBad(s, s.pending)
    BY <1>4 DEF Moved
  <2>2. /\ t.bad # None /\ t.bad \in over \cup {s.pending}
        /\ \A r \in over \cup {s.pending} : t.bad <= r
    BY <1>1, <2>1 DEF Ends, LoweredBad, Smaller, Rate, None
  <2> QED BY <1>2, <1>4, <2>1, <2>2 DEF Ends
<1>5. CASE s.phase # "densify" /\ ~crossed
  <2>1. t.bad = s.bad /\ t.good = RaisedGood(s, s.pending)
    BY <1>5 DEF Moved
  <2>2. /\ t.good # None /\ t.good \in kept \cup {s.pending}
        /\ \A r \in kept \cup {s.pending} : r <= t.good
    BY <1>1, <2>1 DEF Ends, RaisedGood, Larger, Rate, None
  <2> QED BY <1>2, <1>5, <2>1, <2>2 DEF Ends
<1> QED BY <1>3, <1>4, <1>5

\* One more point.
LEMMA EvidenceGrows ==
  ASSUME points \in Seq(PointType), NEW point \in PointType,
         points' = Append(points, point), NEW crossed
  PROVE  Evidence(crossed)' =
           Evidence(crossed) \cup
             (IF point.phase # "densify" /\ point.crossed = crossed
                THEN {point.offered} ELSE {})
<1> DEFINE n == Len(points)
           old == {j \in 1 .. n : points[j].phase # "densify" /\ points[j].crossed = crossed}
           new == {j \in 1 .. n + 1 : points'[j].phase # "densify"
                                      /\ points'[j].crossed = crossed}
<1>1. /\ n \in Nat /\ DOMAIN points = 1 .. n /\ DOMAIN points' = 1 .. n + 1
      /\ \A j \in 1 .. n : points'[j] = points[j]
      /\ points'[n + 1] = point
  OBVIOUS
<1>2. Evidence(crossed) = {points[i].offered : i \in old}
      /\ Evidence(crossed)' = {points'[i].offered : i \in new}
  BY <1>1 DEF Evidence
<1>3. new = old \cup (IF point.phase # "densify" /\ point.crossed = crossed
                        THEN {n + 1} ELSE {})
  BY <1>1
<1>4. \A i \in old : points'[i].offered = points[i].offered
  BY <1>1
<1>5. points'[n + 1].offered = point.offered
  BY <1>1
<1> HIDE DEF old, new, n
<1>6. CASE point.phase # "densify" /\ point.crossed = crossed
  <2>1. new = old \cup {n + 1}
    BY <1>3, <1>6
  <2>2. {points'[i].offered : i \in new} = {points'[i].offered : i \in old} \cup {point.offered}
    BY <1>5, <2>1
  <2>3. {points'[i].offered : i \in old} = {points[i].offered : i \in old}
    BY <1>4
  <2> QED BY <1>2, <1>6, <2>2, <2>3
<1>7. CASE ~(point.phase # "densify" /\ point.crossed = crossed)
  <2>1. new = old
    BY <1>3, <1>7
  <2>2. {points'[i].offered : i \in new} = {points[i].offered : i \in old}
    BY <1>4, <2>1
  <2> QED BY <1>2, <1>7, <2>2
<1> QED BY <1>6, <1>7

\* What was measured are rates.
LEMMA EvidenceIsRates ==
  ASSUME points \in Seq(PointType), NEW crossed
  PROVE  Evidence(crossed) \subseteq Nat
<1>1. \A i \in DOMAIN points : points[i] \in PointType
  OBVIOUS
<1> QED BY <1>1 DEF Evidence, PointType

\* A verdict never contradicts the one on the same rate before: only zero is
\* offered twice, and there the same record is read.
LEMMA VerdictIsConsistent ==
  ASSUME EvidenceInv, NEW record \in Record, Offered # None, search.phase # "densify",
         record.metric # None,
         Offered > 0 \/ (record \in Completed(Offered))
  PROVE  Consistent(search, Offered, Crossed(search.config, record, Offered))
<1>1. /\ Offered \in Nat /\ search.good \in Rate /\ search.bad \in Rate
      /\ search.phase \in {"ramp", "bisect"} /\ points \in Seq(PointType)
      /\ Crossed(search.config, record, Offered) \in BOOLEAN /\ Sound(search)
  BY DEF EvidenceInv, Sound, SearchOK, SearchType, Rate, Phases, Offered, Crossed,
         SweepInv, TypeOK, PointType
<1>2. CASE Offered > 0
  BY <1>1, <1>2 DEF Consistent, Sound, Bracketed, Offered, Rate, None
<1>3. CASE Offered = 0 /\ record \in Completed(Offered)
  <2>1. ASSUME NEW crossed \in BOOLEAN, 0 \in Evidence(crossed)
        PROVE  Crossed(search.config, record, Offered) = crossed
    <3>1. PICK i \in DOMAIN points : points[i].offered = 0 /\ points[i].crossed = crossed
      BY <2>1 DEF Evidence
    <3>2. /\ points[i].record \in disk
          /\ crossed = Crossed(search.config, points[i].record, 0)
          /\ Directory(points[i].record.rate) = Directory(Offered)
      BY <1>3, <3>1 DEF EvidenceInv, PointsAreJudged
    <3>3. record \in disk /\ Directory(record.rate) = Directory(Offered)
      BY <1>3 DEF Completed
    <3>4. points[i].record = record
      BY <3>2, <3>3 DEF EvidenceInv, SweepInv, TypeOK
    <3> QED BY <1>3, <3>2, <3>4
  <2>a. 0 # None
    BY DEF None
  <2>2. search.good = 0 => 0 \in Evidence(FALSE)
    BY <2>a, Zenon DEF EvidenceInv, BracketIsEvidence
  <2>3. search.bad = 0 => 0 \in Evidence(TRUE)
    BY <2>a, Zenon DEF EvidenceInv, BracketIsEvidence
  <2> QED BY <1>1, <1>3, <2>1, <2>2, <2>3 DEF Consistent
<1> QED BY <1>1, <1>2, <1>3

\* Judging a point keeps the search sound and the bracket made of evidence.
LEMMA JudgeKeepsEvidence ==
  ASSUME EvidenceInv, NEW record \in Record, NEW reused \in BOOLEAN, Offered # None,
         Offered > 0 \/ (record \in Completed(Offered)), Judge(record, reused)
  PROVE  /\ Sound(search') /\ BracketIsEvidence'
         /\ search'.config = search.config
<1>1. /\ Sound(search) /\ BracketIsEvidence /\ points \in Seq(PointType)
      /\ search \in SearchType /\ Offered \in Nat
  BY DEF EvidenceInv, SweepInv, TypeOK, PointType, Sound, SearchOK, SearchType, Rate, Offered
<1>2. CASE record.metric = None
  <2>1. UNCHANGED <<search, points>>
    BY <1>2 DEF Judge
  <2> QED BY <1>1, <2>1 DEF BracketIsEvidence, Evidence
<1>3. CASE record.metric # None
  <2> DEFINE point == PointOf(record, reused)
             crossed == Crossed(search.config, record, Offered)
             kept == Evidence(FALSE)
             over == Evidence(TRUE)
  <2>1. /\ points' = Append(points, point)
        /\ search' = RecordVerdict(search, search.pending, crossed)
    BY <1>3 DEF Judge, Offered, PointOf
  <2>2. search.phase # "densify" => Consistent(search, search.pending, crossed)
    BY <1>3, VerdictIsConsistent DEF Offered
  <2>3. crossed \in BOOLEAN /\ search.pending # None /\ search.pending \in Nat
    BY <1>1 DEF Offered, Crossed
  <2>4. point.crossed = crossed
    BY DEF PointOf
  <2>5. point \in PointType /\ point.phase = search.phase /\ point.offered = search.pending
    BY <1>1, <2>3 DEF PointOf, PointType, SearchType, Offered
  <2> HIDE DEF point, crossed
  <2>6. Sound(search') /\ Moved(search, crossed, search')
    BY <1>1, <2>1, <2>2, <2>3, RecordVerdictShape
  <2>7. /\ Evidence(FALSE)' = kept \cup (IF search.phase # "densify" /\ ~crossed
                                              THEN {search.pending} ELSE {})
        /\ Evidence(TRUE)' = over \cup (IF search.phase # "densify" /\ crossed
                                              THEN {search.pending} ELSE {})
    BY <1>1, <2>1, <2>3, <2>4, <2>5, EvidenceGrows
  <2>8. kept \subseteq Nat /\ over \subseteq Nat
    BY <1>1, EvidenceIsRates
  <2>9. Ends(search, kept, over)
    BY <1>1 DEF Ends, BracketIsEvidence
  <2> HIDE DEF kept, over
  <2>10. Ends(search', Evidence(FALSE)', Evidence(TRUE)')
    <3>1. /\ search.phase = "densify" => Ends(search', kept, over)
          /\ search.phase # "densify" /\ crossed => Ends(search', kept, over \cup {search.pending})
          /\ search.phase # "densify" /\ ~crossed => Ends(search', kept \cup {search.pending}, over)
      BY <1>1, <2>3, <2>6, <2>8, <2>9, EndsMove
    <3>2. kept \cup {} = kept /\ over \cup {} = over
      OBVIOUS
    <3> QED BY <2>3, <2>7, <3>1, <3>2
  <2> QED BY <2>6, <2>10 DEF BracketIsEvidence, Ends, Moved
<1> QED BY <1>2, <1>3

\* What judging makes of the points: one more, or the sweep fails.
LEMMA JudgeAppends ==
  ASSUME EvidenceInv, NEW record \in Record, NEW reused \in BOOLEAN, Offered # None,
         Judge(record, reused)
  PROVE  \/ points' = points /\ search' = search
         \/ \E point \in PointType :
              /\ points' = Append(points, point)
              /\ point.offered = Offered /\ point.record = record
              /\ point.phase = search.phase
              /\ point.crossed = Crossed(search.config, record, Offered)
              /\ record.metric # None
<1>1. CASE record.metric = None
  BY <1>1 DEF Judge
<1>2. CASE record.metric # None
  <2>1. Offered \in Nat /\ search.phase \in Phases
    BY DEF EvidenceInv, Sound, SearchOK, SearchType, Rate, Offered
  <2>2. /\ PointOf(record, reused) \in PointType
        /\ PointOf(record, reused).offered = Offered
        /\ PointOf(record, reused).record = record
        /\ PointOf(record, reused).phase = search.phase
        /\ PointOf(record, reused).crossed = Crossed(search.config, record, Offered)
    BY <2>1 DEF PointOf, PointType, Crossed
  <2>3. points' = Append(points, PointOf(record, reused))
    BY <1>2 DEF Judge, PointOf
  <2> QED BY <1>2, <2>2, <2>3
<1> QED BY <1>1, <1>2

\* A sweep starts, and starts again, without points and without ends.
LEMMA FreshEvidence ==
  ASSUME NEW c \in Configs, search' = NewSearch(c), points' = <<>>
  PROVE  Sound(search') /\ BracketIsEvidence' /\ PointsAreJudged'
<1>1. \A crossed : Evidence(crossed)' = {}
  BY DEF Evidence
<1>2. Sound(search') /\ search'.good = None /\ search'.bad = None
  BY NewSearchSound
<1>3. BracketIsEvidence'
  BY <1>1, <1>2 DEF BracketIsEvidence
<1> QED BY <1>2, <1>3 DEF PointsAreJudged

LEMMA EvidenceInit == Init => EvidenceInv
<1> SUFFICES ASSUME Init PROVE EvidenceInv
  OBVIOUS
<1>1. SweepInv
  BY SweepInit
<1>2. PICK c \in Configs : search = NewSearch(c)
  BY DEF Init
<1>3. Sound(search) /\ search.good = None /\ search.bad = None
  BY <1>2, NewSearchSound
<1>4. \A crossed : Evidence(crossed) = {}
  BY DEF Init, Evidence
<1>5. BracketIsEvidence
  BY <1>3, <1>4 DEF BracketIsEvidence
<1> QED BY <1>1, <1>3, <1>5 DEF EvidenceInv, PointsAreJudged, Init

\* Every step keeps the account of the points.
LEMMA EvidenceStep == EvidenceInv /\ [Next]_vars => EvidenceInv'
<1> SUFFICES ASSUME EvidenceInv, [Next]_vars PROVE EvidenceInv'
  OBVIOUS
<1>0. SweepInv' /\ SweepInv
  BY SweepStepInv DEF EvidenceInv
<1>a. points \in Seq(PointType) /\ disk \subseteq Record
  BY <1>0 DEF SweepInv, TypeOK, PointType
<1>b. ASSUME NEW record \in Record, NEW reused \in BOOLEAN, Offered # None,
             Offered > 0 \/ (record \in Completed(Offered)),
             Judge(record, reused), disk \subseteq disk', resume' = resume,
             Directory(record.rate) = Directory(Offered),
             Offered = 0 => resume /\ record \in disk,
             step' # "recording"
      PROVE  EvidenceInv'
  <2>1. Sound(search') /\ BracketIsEvidence' /\ search'.config = search.config
    BY <1>b, JudgeKeepsEvidence
  <2>2. PointsAreJudged'
    <3>1. CASE points' = points /\ search' = search
      BY <1>b, <3>1 DEF EvidenceInv, PointsAreJudged, Directory, Crossed, Required
    <3>2. ASSUME NEW point \in PointType, points' = Append(points, point),
                 point.offered = Offered, point.record = record, record.metric # None,
                 point.crossed = Crossed(search.config, record, Offered)
          PROVE  PointsAreJudged'
      <4>1. /\ DOMAIN points' = 1 .. Len(points) + 1 /\ DOMAIN points = 1 .. Len(points)
            /\ Len(points) \in Nat /\ points'[Len(points) + 1] = point
            /\ \A i \in 1 .. Len(points) : points'[i] = points[i]
        BY <1>a, <3>2
      <4>2. \A i \in DOMAIN points' : i \in DOMAIN points \/ i = Len(points) + 1
        BY <4>1
      <4> QED
        BY <1>b, <2>1, <3>2, <4>1, <4>2
        DEF EvidenceInv, PointsAreJudged, Directory, Crossed, Required
    <3> QED BY <1>b, <3>1, <3>2, JudgeAppends
  <2> QED BY <1>0, <1>b, <2>1, <2>2 DEF EvidenceInv
<1>1. CASE Reuse
  <2>1. PICK p \in Completed(Offered) : Judge(p, TRUE)
    BY <1>1 DEF Reuse
  <2>2. /\ p \in Record /\ Offered # None /\ resume /\ resume' = resume /\ disk' = disk
        /\ Directory(p.rate) = Directory(Offered) /\ p \in disk /\ step' # "recording"
    BY <1>1, <1>a, <2>1 DEF Reuse, Completed, Judge
  <2> QED BY <1>b, <2>1, <2>2
<1>2. CASE RecordPoint
  <2>1. /\ step = "recording" /\ Judge(current, FALSE) /\ disk \subseteq disk'
        /\ resume' = resume /\ step' # "recording"
    BY <1>2 DEF RecordPoint, Judge
  <2>2. /\ Offered # None /\ current.rate = Offered /\ Offered > 0 /\ current \in Record
        /\ Offered \in Nat
    BY <1>0, <2>1 DEF SweepInv, Underway, TypeOK, EvidenceInv, SearchOK, SearchType,
                      Rate, Offered
  <2>3. Offered # 0 /\ Directory(current.rate) = Directory(Offered) /\ FALSE \in BOOLEAN
    BY <2>2
  <2> QED BY <1>b, <2>1, <2>2, <2>3
<1>3. CASE RunPoint
  <2>1. /\ step = "running" /\ Offered > 0 /\ disk' = disk \ Completed(Offered)
        /\ UNCHANGED <<resume, search, points>>
    BY <1>3 DEF RunPoint
  <2>2. resume => disk' = disk
    BY <1>0, <2>1 DEF SweepInv, Underway
  <2>3. PointsAreJudged' /\ BracketIsEvidence' /\ Sound(search')
    BY <2>1, <2>2 DEF EvidenceInv, PointsAreJudged, BracketIsEvidence, Evidence, Directory,
                     Crossed, Required
  <2> QED BY <1>0, <2>1, <2>3 DEF EvidenceInv, Offered
<1>4. CASE Restart
  <2>1. /\ search' = NewSearch(search.config) /\ points' = <<>> /\ step' = "asking"
    BY <1>4 DEF Restart
  <2>2. search.config \in Configs
    BY DEF EvidenceInv, Sound, SearchOK, SearchType
  <2> QED BY <1>0, <2>1, <2>2, FreshEvidence DEF EvidenceInv
<1>5. CASE Reset \/ RunFails \/ Assemble \/ Crash \/ Done \/ UNCHANGED vars
  <2>1. /\ UNCHANGED <<resume, search, points, disk>>
        /\ step' = "recording" => step = "recording"
    BY <1>5 DEF Reset, RunFails, Assemble, Crash, Done, vars
  <2>2. PointsAreJudged' /\ BracketIsEvidence' /\ Sound(search')
    BY <2>1 DEF EvidenceInv, PointsAreJudged, BracketIsEvidence, Evidence, Directory,
                     Crossed, Required
  <2> QED BY <1>0, <2>1, <2>2 DEF EvidenceInv, Offered
<1> QED BY <1>1, <1>2, <1>3, <1>4, <1>5 DEF Next, SweepStep

LEMMA EvidenceInvariant == Spec => []EvidenceInv
<1> QED BY EvidenceInit, EvidenceStep, PTL DEF Spec

\* For every configuration, server, spacing of the directories and any number of
\* restarts: the bracket is made of rates that were measured, and nothing the ramp
\* or the bisection measured contradicts it (search.rs:129-149).
THEOREM SweepBracketIsEvidence == Spec => []BracketIsEvidence
<1>1. EvidenceInv => BracketIsEvidence
  BY DEF EvidenceInv
<1> QED BY <1>1, EvidenceInvariant, PTL

-----------------------------------------------------------------------------
(* Progress. *)

\* A sweep whose floor is above zero: halving reaches it.  Below every floor zero
\* is offered again as long as a record in its directory is judged to have crossed,
\* which an attainment that misses the target does at any rate.
FloorIsPositive == \A c \in Configs : c.min > 0

\* What ramp or bisection offer next, they have not measured.
LEMMA NothingOfferedTwice ==
  ASSUME FloorIsPositive, EvidenceInv, Offered # None, search.phase # "densify"
  PROVE  Offered \notin Evidence(FALSE) /\ Offered \notin Evidence(TRUE)
<1>1. /\ search \in SearchType /\ search.config \in Configs /\ search.config.min \in Nat
      /\ search.config.max \in Nat
      /\ Offered \in search.config.min .. search.config.max
  BY SweepAssumption DEF EvidenceInv, Sound, SearchOK, SearchType, SearchConfigs, Ranged,
                         InRange, Offered
<1>2. Offered > 0 /\ Offered \in Nat
  BY <1>1 DEF FloorIsPositive
<1>3. /\ search.good # None => search.good < Offered
      /\ search.bad # None => Offered < search.bad
  BY <1>1, <1>2 DEF EvidenceInv, Sound, Bracketed, Offered, SearchType, Phases
<1>4. /\ Evidence(FALSE) \subseteq Nat /\ Evidence(TRUE) \subseteq Nat
  BY EvidenceIsRates DEF EvidenceInv, SweepInv, TypeOK, PointType
<1>5. search.good \in Rate /\ search.bad \in Rate
  BY <1>1 DEF SearchType
<1>6. /\ search.good = None => Evidence(FALSE) = {}
      /\ search.bad = None => Evidence(TRUE) = {}
      /\ search.good # None => \A r \in Evidence(FALSE) : r <= search.good
      /\ search.bad # None => \A r \in Evidence(TRUE) : search.bad <= r
  BY Zenon DEF EvidenceInv, BracketIsEvidence
<1>7. ASSUME NEW kept, NEW over, kept \subseteq Nat, over \subseteq Nat,
             search.good = None => kept = {}, search.bad = None => over = {},
             search.good # None => \A r \in kept : r <= search.good,
             search.bad # None => \A r \in over : search.bad <= r
      PROVE  Offered \notin kept /\ Offered \notin over
  BY <1>2, <1>3, <1>5, <1>7 DEF Rate, None
<1> QED BY <1>4, <1>6, <1>7

LEMMA ProgressStep ==
  FloorIsPositive /\ EvidenceInv /\ SearchMakesProgress /\ [Next]_vars
    => SearchMakesProgress'
<1> SUFFICES ASSUME FloorIsPositive, EvidenceInv, SearchMakesProgress, [Next]_vars
             PROVE  SearchMakesProgress'
  OBVIOUS
<1>a. points \in Seq(PointType) /\ disk \subseteq Record /\ current \in Record
  BY DEF EvidenceInv, SweepInv, TypeOK, PointType
<1>1. ASSUME NEW record \in Record, NEW reused \in BOOLEAN, Offered # None,
             Judge(record, reused)
      PROVE  SearchMakesProgress'
  <2>1. CASE points' = points
    BY <2>1 DEF SearchMakesProgress
  <2>2. ASSUME NEW point \in PointType, points' = Append(points, point),
               point.offered = Offered, point.phase = search.phase
        PROVE  SearchMakesProgress'
    <3> DEFINE n == Len(points)
    <3>1. /\ n \in Nat /\ DOMAIN points' = 1 .. n + 1 /\ DOMAIN points = 1 .. n
          /\ \A i \in 1 .. n : points'[i] = points[i]
          /\ points'[n + 1] = point
      BY <1>a, <2>2
    <3>2. ASSUME NEW i \in 1 .. n, points[i].phase # "densify", search.phase # "densify"
          PROVE  points[i].offered # Offered
      <4>1. points[i].crossed \in BOOLEAN
        <5>1. points[i] \in PointType
          BY <1>a, <3>1
        <5> QED BY <5>1, Zenon DEF PointType
      <4>2. points[i].offered \in Evidence(points[i].crossed)
        BY <3>1, <3>2 DEF Evidence
      <4>3. Offered \notin Evidence(points[i].crossed)
        BY <1>1, <3>2, <4>1, NothingOfferedTwice
      <4> QED BY <4>2, <4>3
    <3> SUFFICES ASSUME NEW i \in 1 .. n + 1, NEW j \in 1 .. n + 1, i < j,
                        points'[i].phase # "densify", points'[j].phase # "densify"
                 PROVE  points'[i].offered # points'[j].offered
      BY <3>1 DEF SearchMakesProgress
    <3>3. i \in 1 .. n /\ points'[i] = points[i]
      BY <3>1
    <3>4. CASE j = n + 1
      BY <2>2, <3>1, <3>2, <3>3, <3>4
    <3>5. CASE j # n + 1
      BY <3>1, <3>3, <3>5 DEF SearchMakesProgress
    <3> QED BY <3>4, <3>5
  <2> QED BY <1>1, <2>1, <2>2, JudgeAppends
<1>2. CASE Reuse
  <2>1. PICK p \in Completed(Offered) : Judge(p, TRUE)
    BY <1>2 DEF Reuse
  <2>2. p \in Record /\ Offered # None
    BY <1>2, <1>a DEF Reuse, Completed
  <2> QED BY <1>1, <2>1, <2>2
<1>3. CASE RecordPoint
  <2>1. Judge(current, FALSE) /\ Offered # None
    BY <1>3 DEF RecordPoint, EvidenceInv, SweepInv, Underway
  <2> QED BY <1>1, <1>a, <2>1
<1>4. CASE Restart
  BY <1>4 DEF Restart, SearchMakesProgress
<1>5. CASE Reset \/ RunPoint \/ RunFails \/ Assemble \/ Crash \/ Done \/ UNCHANGED vars
  BY <1>5 DEF Reset, RunPoint, RunFails, Assemble, Crash, Done, vars, SearchMakesProgress
<1> QED BY <1>2, <1>3, <1>4, <1>5 DEF Next, SweepStep

\* Above a floor of zero, ramp and bisection never measure a rate a second time,
\* however noisy the server is (search.rs:204-212).
THEOREM SweepMakesProgress == FloorIsPositive => (Spec => []SearchMakesProgress)
<1> SUFFICES ASSUME FloorIsPositive PROVE Spec => []SearchMakesProgress
  OBVIOUS
<1>1. Init => SearchMakesProgress
  BY DEF Init, SearchMakesProgress
<1>2. EvidenceInv /\ SearchMakesProgress /\ [Next]_vars => SearchMakesProgress'
  BY ProgressStep
<1> QED BY <1>1, <1>2, EvidenceInvariant, PTL DEF Spec

-----------------------------------------------------------------------------
(* What the server is said to bear. *)

\* A rate is never mistaken for one that rounds to the same directory.
EachRateHasItsDirectory ==
  \A a, b \in Nat : Directory(a) = Directory(b) => a = b

\* The record of a server with a knee, judged for the rate it was made for, says on
\* which side of the knee that rate is.
Truthful(record) ==
  server.knee # Noisy /\ record.metric # None =>
    (Crossed(search.config, record, record.rate) <=> record.rate > server.knee)

KneeInv ==
  /\ Truthful(current)
  /\ \A p \in disk : Truthful(p)
  /\ \A i \in DOMAIN points : Truthful(points[i].record)
  /\ step = "finished" => Offered = None

LEMMA KneeStep == EvidenceInv /\ KneeInv /\ [Next]_vars => KneeInv'
<1> SUFFICES ASSUME EvidenceInv, KneeInv, [Next]_vars PROVE KneeInv'
  OBVIOUS
<1>a. points \in Seq(PointType) /\ disk \subseteq Record /\ current \in Record
  BY DEF EvidenceInv, SweepInv, TypeOK, PointType
<1>1. ASSUME NEW record \in Record, NEW reused \in BOOLEAN, Offered # None, server' = server,
             Truthful(record), Judge(record, reused), search'.config = search.config
      PROVE  (\A i \in DOMAIN points : Truthful(points[i].record))'
  <2>1. CASE points' = points
    BY <1>1, <2>1 DEF KneeInv, Truthful, Crossed, Required
  <2>2. ASSUME NEW point \in PointType, points' = Append(points, point),
               point.record = record
        PROVE  (\A i \in DOMAIN points : Truthful(points[i].record))'
    <3>1. \A i \in DOMAIN points' :
             points'[i].record = record
             \/ (i \in DOMAIN points /\ points'[i] = points[i])
      BY <1>a, <2>2
    <3> QED BY <1>1, <3>1 DEF KneeInv, Truthful, Crossed, Required
  <2> QED BY <1>1, <2>1, <2>2, JudgeAppends
<1>2. CASE Reuse
  <2>1. PICK p \in Completed(Offered) : Judge(p, TRUE)
    BY <1>2 DEF Reuse
  <2>2. /\ p \in Record /\ p \in disk /\ Offered # None /\ step' # "finished"
        /\ UNCHANGED <<server, current, disk>>
    BY <1>2, <1>a, <2>1 DEF Reuse, Completed, Judge
  <2>3. Truthful(p) /\ search'.config = search.config
    BY <2>1, <2>2, JudgeKeepsEvidence DEF KneeInv
  <2>4. (\A i \in DOMAIN points : Truthful(points[i].record))'
    BY <1>1, <2>1, <2>2, <2>3
  <2> QED BY <2>2, <2>3, <2>4 DEF KneeInv, Truthful, Crossed, Required
<1>3. CASE RecordPoint
  <2>1. /\ Judge(current, FALSE) /\ Offered # None /\ step' # "finished"
        /\ UNCHANGED <<server, current>> /\ disk' = disk \cup {current}
    BY <1>3 DEF RecordPoint, EvidenceInv, SweepInv, Underway, Judge
  <2>2. search'.config = search.config
    BY <1>3, <1>a, <2>1, JudgeKeepsEvidence DEF RecordPoint, EvidenceInv
  <2>3. (\A i \in DOMAIN points : Truthful(points[i].record))'
    BY <1>1, <1>a, <2>1, <2>2 DEF KneeInv
  <2> QED BY <2>1, <2>2, <2>3 DEF KneeInv, Truthful, Crossed, Required
<1>4. CASE Reset
  <2>1. /\ current'.metric = None /\ step' = "running"
        /\ UNCHANGED <<server, search, points, disk>>
    BY <1>4 DEF Reset
  <2> QED BY <2>1 DEF KneeInv, Truthful, Crossed, Required
<1>5. CASE RunPoint
  <2>1. /\ disk' \subseteq disk /\ step' = "recording" /\ step = "running"
        /\ UNCHANGED <<server, points, search>>
    BY <1>5 DEF RunPoint
  <2>2. PICK m \in Metrics(Offered) : current' = [current EXCEPT !.metric = m]
    BY <1>5 DEF RunPoint
  <2>3. current'.metric = m /\ current'.rate = Offered
    BY <1>a, <2>1, <2>2 DEF Record, EvidenceInv, SweepInv, Underway
  <2>4. Truthful(current)'
    <3>1. Offered \in Nat /\ server.knee \in Nat \cup {Noisy}
      BY <1>5, SweepAssumption
      DEF RunPoint, EvidenceInv, SweepInv, TypeOK, ServerType, Offered, Rate, None
    <3> QED BY <2>1, <2>2, <2>3, <3>1 DEF Truthful, Metrics, Crossed, Required, Smaller
  <2> QED BY <2>1, <2>4 DEF KneeInv, Truthful, Crossed, Required
<1>6. CASE Restart
  <2>1. /\ step' = "asking" /\ points' = <<>> /\ search' = NewSearch(search.config)
        /\ UNCHANGED <<server, current, disk>>
    BY <1>6 DEF Restart
  <2>2. search'.config = search.config
    BY <2>1 DEF NewSearch
  <2> QED BY <2>1, <2>2 DEF KneeInv, Truthful, Crossed, Required
<1>7. CASE RunFails \/ Assemble \/ Crash \/ Done \/ UNCHANGED vars
  BY <1>7 DEF RunFails, Assemble, Crash, Done, vars, KneeInv, Truthful, Offered,
              Crossed, Required
<1> QED BY <1>2, <1>3, <1>4, <1>5, <1>6, <1>7 DEF Next, SweepStep

\* The ends of the bracket are on their sides of the knee.
LEMMA EndsAreTrue ==
  ASSUME EachRateHasItsDirectory, EvidenceInv, KneeInv, server.knee # Noisy
  PROVE  /\ search.good # None => search.good <= server.knee
         /\ search.bad # None => server.knee < search.bad
<1>0. server.knee \in Nat /\ points \in Seq(PointType)
  BY SweepAssumption DEF EvidenceInv, SweepInv, TypeOK, ServerType, PointType
<1>1. ASSUME NEW i \in DOMAIN points
      PROVE  points[i].crossed <=> points[i].offered > server.knee
  <2>1. points[i].record \in Record /\ points[i].offered \in Nat
    <3>1. points[i] \in PointType
      BY <1>0
    <3> QED BY <3>1 DEF PointType
  <2>2. points[i].record.rate = points[i].offered
    BY <2>1 DEF EachRateHasItsDirectory, EvidenceInv, PointsAreJudged, Record
  <2>3. /\ points[i].record.metric # None /\ Truthful(points[i].record)
        /\ points[i].crossed = Crossed(search.config, points[i].record, points[i].offered)
    BY DEF EvidenceInv, PointsAreJudged, KneeInv
  <2> QED BY <2>2, <2>3 DEF Truthful
<1>2. \A r \in Evidence(FALSE) : r \in Nat /\ ~(r > server.knee)
  BY <1>0, <1>1, EvidenceIsRates DEF Evidence
<1>3. \A r \in Evidence(TRUE) : r \in Nat /\ r > server.knee
  BY <1>0, <1>1, EvidenceIsRates DEF Evidence
<1>4. /\ search.good # None => search.good \in Evidence(FALSE)
      /\ search.bad # None => search.bad \in Evidence(TRUE)
  BY Zenon DEF EvidenceInv, BracketIsEvidence
<1>5. /\ search.good # None => search.good \in Nat /\ ~(search.good > server.knee)
      /\ search.bad # None => search.bad \in Nat /\ search.bad > server.knee
  BY <1>2, <1>3, <1>4
<1> QED BY <1>0, <1>5

\* Where every rate has a directory of its own, a sweep that ends on a server with
\* a knee tells the truth about it, for every configuration and any number of
\* interruptions (search.rs:64-77).
THEOREM SweepKneeIsTrue == EachRateHasItsDirectory => (Spec => []KneeIsTrue)
<1> SUFFICES ASSUME EachRateHasItsDirectory PROVE Spec => []KneeIsTrue
  OBVIOUS
<1>1. Init => KneeInv
  BY DEF Init, KneeInv, Truthful
<1>2. EvidenceInv /\ KneeInv /\ [Next]_vars => KneeInv'
  BY KneeStep
<1>3. EvidenceInv /\ KneeInv => KneeIsTrue
  <2> SUFFICES ASSUME EvidenceInv, KneeInv, step = "finished", server.knee # Noisy
               PROVE  KneeIsTrue
    BY DEF KneeIsTrue
  <2>1. /\ search.outcome \in {"located", "never_crossed", "always_crossed"}
        /\ Concluded(search) /\ Narrowed(search)
    BY DEF KneeInv, EvidenceInv, Sound, SearchOK, SearchType, Outcomes, Concluded, Offered
  <2>2. /\ search.good # None => search.good <= server.knee
        /\ search.bad # None => server.knee < search.bad
    BY EndsAreTrue
  <2>3. CASE search.outcome = "located"
    <3>1. search.good # None /\ search.bad # None
      BY <2>1, <2>3 DEF Narrowed
    <3> QED BY <2>2, <2>3, <3>1 DEF KneeIsTrue
  <2>4. CASE search.outcome = "never_crossed"
    BY <2>1, <2>2, <2>4 DEF KneeIsTrue, Concluded
  <2>5. CASE search.outcome = "always_crossed"
    BY <2>1, <2>2, <2>5 DEF KneeIsTrue, Concluded
  <2> QED BY <2>1, <2>3, <2>4, <2>5
<1> QED BY <1>1, <1>2, <1>3, EvidenceInvariant, PTL DEF Spec

-----------------------------------------------------------------------------
(* A resumed sweep. *)

\* The searches that the points of this process went through, up to the present
\* one.
LeadHere(ss) ==
  /\ Len(ss) = Len(points) + 1
  /\ ss[1] = NewSearch(search.config)
  /\ ss[Len(points) + 1] = search
  /\ \A k \in 1 .. Len(points) :
       /\ points[k].offered = ss[k].pending
       /\ ss[k + 1] = RecordVerdict(ss[k], ss[k].pending, points[k].crossed)

\* The searches that the resumed one went through, as the records on disk tell it.
AsRecorded(ss) ==
  /\ Len(ss) = Len(past) + 1
  /\ ss[1] = NewSearch(search.config)
  /\ \A k \in 1 .. Len(past) :
       /\ past[k] = ss[k].pending
       /\ \E p \in Completed(past[k]) :
            /\ p.metric # None
            /\ ss[k + 1] = RecordVerdict(ss[k], ss[k].pending,
                                         Crossed(search.config, p, past[k]))

\* As long as it has not gone through all of it, this process is where the other
\* one was.
InStep(ss) ==
  /\ \A i \in 1 .. Len(past) : i <= Len(points) => past[i] = points[i].offered
  /\ Len(points) <= Len(past) => search = ss[Len(points) + 1]

ResumeInv ==
  /\ ~resume => past = <<>>
  /\ \E ss \in Seq(SearchType) : LeadHere(ss)
  /\ \E ss \in Seq(SearchType) : AsRecorded(ss) /\ InStep(ss)

\* Where nothing is resumed, the first search is all there is to be in step with.
LEMMA NothingToRepeat ==
  ASSUME past = <<>>, NEW c \in Configs, search.config = c, points \in Seq(PointType),
         points = <<>> => search = NewSearch(c)
  PROVE  \E ss \in Seq(SearchType) : AsRecorded(ss) /\ InStep(ss)
<1>1. NewSearch(c) \in SearchType
  BY NewSearchOK DEF SearchOK
<1> DEFINE ss == <<NewSearch(c)>>
<1>2. ss \in Seq(SearchType) /\ Len(ss) = 1 /\ ss[1] = NewSearch(c) /\ Len(past) = 0
  BY <1>1
<1>3. AsRecorded(ss)
  BY <1>2 DEF AsRecorded
<1>4. Len(points) <= 0 => points = <<>> /\ Len(points) + 1 = 1
  OBVIOUS
<1>5. InStep(ss)
  BY <1>2, <1>4 DEF InStep
<1> QED BY <1>2, <1>3, <1>5

\* The records up to the first that was replaced are on disk.
LEMMA ResumableIsOnDisk ==
  ASSUME points \in Seq(PointType)
  PROVE  /\ Cardinality(Unreplaced) \in 0 .. Len(points)
         /\ \A i \in 1 .. Cardinality(Unreplaced) : points[i].record \in disk
<1> DEFINE n == Len(points)
           k == Cardinality(Unreplaced)
<1>1. n \in Nat /\ DOMAIN points = 1 .. n
  OBVIOUS
<1>2. IsFiniteSet(1 .. n) /\ Cardinality(1 .. n) = n
  BY <1>1, FS_Interval
<1>3. Unreplaced \subseteq 1 .. n
  BY <1>1 DEF Unreplaced
<1>4. IsFiniteSet(Unreplaced) /\ k <= n
  BY <1>2, <1>3, FS_Subset
<1>5. k \in Nat
  BY <1>4, FS_CardinalityType
<1>6. ASSUME NEW i \in 1 .. k, points[i].record \notin disk
      PROVE  FALSE
  <2>1. Unreplaced \subseteq 1 .. i - 1
    <3>1. ASSUME NEW j \in Unreplaced PROVE j \in 1 .. i - 1
      <4>1. j \in 1 .. n /\ \A m \in 1 .. j : points[m].record \in disk
        BY <1>1 DEF Unreplaced
      <4>2. ~(i <= j)
        BY <1>5, <1>6, <4>1
      <4> QED BY <1>5, <4>1, <4>2
    <3> QED BY <3>1
  <2>2. i \in Nat /\ 1 <= i /\ i <= k
    BY <1>5
  <2> HIDE DEF k
  <2>3. IsFiniteSet(1 .. i - 1) /\ Cardinality(1 .. i - 1) = i - 1
    <3>1. i - 1 \in Nat
      BY <2>2
    <3>2. IsFiniteSet(1 .. i - 1)
          /\ Cardinality(1 .. i - 1) = IF 1 > i - 1 THEN 0 ELSE (i - 1) - 1 + 1
      BY <3>1, FS_Interval
    <3> QED BY <2>2, <3>2
  <2>4. k <= i - 1
    BY <2>1, <2>3, FS_Subset DEF k
  <2> QED BY <1>5, <2>2, <2>4
<1> QED BY <1>1, <1>4, <1>5, <1>6

\* What a later start resumes is on disk, as it was gone through.
LEMMA PastIsRecorded ==
  ASSUME EvidenceInv, NEW ss \in Seq(SearchType), LeadHere(ss)
  PROVE  \E ps \in Seq(SearchType) :
           /\ Len(ps) = Len(Resumable) + 1
           /\ ps[1] = NewSearch(search.config)
           /\ \A k \in 1 .. Len(Resumable) :
                /\ Resumable[k] = ps[k].pending
                /\ \E p \in Completed(Resumable[k]) :
                     /\ p.metric # None
                     /\ ps[k + 1] = RecordVerdict(ps[k], ps[k].pending,
                                      Crossed(search.config, p, Resumable[k]))
<1> DEFINE n == Len(points)
           m == Cardinality(Unreplaced)
           rates == Rates(points)
           ps == SubSeq(ss, 1, m + 1)
<1>1. points \in Seq(PointType)
  BY DEF EvidenceInv, SweepInv, TypeOK, PointType
<1>2. n \in Nat /\ m \in 0 .. n /\ \A i \in 1 .. m : points[i].record \in disk
  BY <1>1, ResumableIsOnDisk
<1>3. rates = [i \in 1 .. n |-> points[i].offered]
  BY <1>1 DEF Rates
<1> HIDE DEF m
<1>4. Resumable = [i \in 1 .. m |-> points[i].offered]
  <2>1. SubSeq(rates, 1, m) = [i \in 1 .. m |-> rates[i]]
    BY <1>2, <1>3
  <2> QED BY <1>2, <1>3, <2>1 DEF Resumable, m
<1>5. Len(Resumable) = m /\ \A i \in 1 .. m : Resumable[i] = points[i].offered
  BY <1>2, <1>4
<1>6. /\ ps \in Seq(SearchType) /\ Len(ps) = m + 1
      /\ \A i \in 1 .. m + 1 : ps[i] = ss[i]
  <2>1. Len(ss) = n + 1
    BY DEF LeadHere
  <2>2. \A i \in 1 .. m + 1 : ss[i] \in SearchType
    BY <1>2, <2>1
  <2>3. ps = [i \in 1 .. m + 1 |-> ss[i]]
    BY <1>2, <2>1
  <2> HIDE DEF ps
  <2> QED BY <1>2, <2>2, <2>3
<1> HIDE DEF ps
<1>7. ps[1] = NewSearch(search.config)
  BY <1>2, <1>6 DEF LeadHere
<1>8. ASSUME NEW k \in 1 .. m
      PROVE  /\ Resumable[k] = ps[k].pending
             /\ \E p \in Completed(Resumable[k]) :
                  /\ p.metric # None
                  /\ ps[k + 1] = RecordVerdict(ps[k], ps[k].pending,
                                      Crossed(search.config, p, Resumable[k]))
  <2>1. /\ k \in 1 .. n /\ k \in 1 .. m + 1 /\ k + 1 \in 1 .. m + 1
        /\ ps[k] = ss[k] /\ ps[k + 1] = ss[k + 1]
    BY <1>2, <1>6
  <2>2. /\ points[k].offered = ss[k].pending
        /\ ss[k + 1] = RecordVerdict(ss[k], ss[k].pending, points[k].crossed)
    BY <2>1 DEF LeadHere
  <2>3. /\ points[k].record.metric # None /\ points[k].record \in disk
        /\ Directory(points[k].record.rate) = Directory(points[k].offered)
        /\ points[k].crossed = Crossed(search.config, points[k].record, points[k].offered)
    BY <1>1, <1>2, <2>1 DEF EvidenceInv, PointsAreJudged
  <2>4. points[k].record \in Completed(Resumable[k])
    BY <1>5, <2>3 DEF Completed
  <2> QED BY <1>5, <2>1, <2>2, <2>3, <2>4
<1> QED BY <1>5, <1>6, <1>7, <1>8

\* Judging a point that is on disk keeps the sweep in step with the one it resumes.
LEMMA JudgeInStep ==
  ASSUME EvidenceInv, EvidenceInv', ResumeInv, NEW record \in Record,
         NEW reused \in BOOLEAN, Offered # None,
         Offered > 0 \/ (record \in Completed(Offered)), Judge(record, reused),
         resume' = resume, past' = past,
         disk \subseteq disk', record \in disk', Directory(record.rate) = Directory(Offered)
  PROVE  ResumeInv'
<1> DEFINE n == Len(points)
<1>1. /\ points \in Seq(PointType) /\ search \in SearchType /\ search' \in SearchType
      /\ n \in Nat /\ past \in Seq(Nat) /\ Len(past) \in Nat
  BY DEF EvidenceInv, SweepInv, TypeOK, PointType, Sound, SearchOK
<1>2. search'.config = search.config
  BY JudgeKeepsEvidence
<1>3. \A rate : Completed(rate) \subseteq Completed(rate)'
  BY DEF Completed, Directory
<1>4. PICK ls \in Seq(SearchType) : LeadHere(ls)
  BY DEF ResumeInv
<1>5. PICK ss \in Seq(SearchType) : AsRecorded(ss) /\ InStep(ss)
  BY DEF ResumeInv
<1>6. AsRecorded(ss)'
  <2>1. ASSUME NEW k \in 1 .. Len(past)
        PROVE  /\ past[k] = ss[k].pending
               /\ \E p \in Completed(past[k])' :
                    /\ p.metric # None
                    /\ ss[k + 1] = RecordVerdict(ss[k], ss[k].pending,
                                                 Crossed(search.config, p, past[k]))
    BY <1>3, <1>5 DEF AsRecorded
  <2>2. \A p, rate : Crossed(search.config, p, rate)' = Crossed(search.config, p, rate)
    BY <1>2 DEF Crossed, Required
  <2> QED BY <1>2, <1>5, <2>1, <2>2 DEF AsRecorded
<1>7. CASE record.metric = None
  <2>1. search' = search /\ points' = points
    BY <1>7 DEF Judge
  <2>2. LeadHere(ls)' /\ InStep(ss)'
    BY <1>4, <1>5, <2>1 DEF LeadHere, InStep
  <2> QED BY <1>4, <1>5, <1>6, <2>2 DEF ResumeInv
<1>8. CASE record.metric # None
  <2> DEFINE point == PointOf(record, reused)
             crossed == Crossed(search.config, record, Offered)
  <2>1. points' = Append(points, point) /\ search' = RecordVerdict(search, search.pending, crossed)
    BY <1>8 DEF Judge, PointOf, Offered
  <2>2. point.offered = search.pending /\ point.crossed = crossed
    BY DEF PointOf, Offered
  <2> HIDE DEF point, crossed
  <2>3. /\ Len(points') = n + 1 /\ points'[n + 1] = point
        /\ \A i \in 1 .. n : points'[i] = points[i]
    BY <1>1, <2>1
  <2>4. \E ms \in Seq(SearchType) : LeadHere(ms)'
    <3>a. Append(ls, search') \in Seq(SearchType)
      BY <1>1
    <3>0. PICK ms \in Seq(SearchType) : ms = Append(ls, search')
      BY <3>a, Zenon
    <3>1. /\ ms \in Seq(SearchType) /\ Len(ls) = n + 1 /\ Len(ms) = n + 2 /\ ms[n + 2] = search'
          /\ \A i \in 1 .. n + 1 : ms[i] = ls[i]
      BY <1>1, <1>4, <3>0 DEF LeadHere
    <3>2. /\ ls[1] = NewSearch(search.config) /\ ls[n + 1] = search
      BY <1>4 DEF LeadHere
    <3>3. ASSUME NEW k \in 1 .. n + 1
          PROVE  /\ points'[k].offered = ms[k].pending
                 /\ ms[k + 1] = RecordVerdict(ms[k], ms[k].pending, points'[k].crossed)
      <4>1. CASE k = n + 1
        <5>0. n + 1 \in 1 .. n + 1 /\ (n + 1) + 1 = n + 2
          BY <1>1
        <5>1. ms[k] = search /\ ms[k + 1] = search' /\ points'[k] = point
          BY <2>3, <3>1, <3>2, <4>1, <5>0
        <5> QED BY <2>1, <2>2, <5>1
      <4>2. CASE k # n + 1
        <5>1. /\ k \in 1 .. n /\ k \in 1 .. n + 1 /\ k + 1 \in 1 .. n + 1
              /\ ms[k] = ls[k] /\ ms[k + 1] = ls[k + 1] /\ points'[k] = points[k]
          BY <1>1, <2>3, <3>1, <4>2
        <5>2. /\ points[k].offered = ls[k].pending
              /\ ls[k + 1] = RecordVerdict(ls[k], ls[k].pending, points[k].crossed)
          BY <1>4, <5>1 DEF LeadHere
        <5> QED BY <5>1, <5>2
      <4> QED BY <4>1, <4>2
    <3>4. ms[1] = NewSearch(search'.config) /\ (n + 1) + 1 = n + 2
      BY <1>1, <1>2, <3>1, <3>2
    <3>5. LeadHere(ms)'
      BY <2>3, <3>1, <3>3, <3>4 DEF LeadHere
    <3> QED BY <3>1, <3>5
  <2>5. InStep(ss)'
    <3>1. CASE n < Len(past)
      <4>1. /\ n + 1 \in 1 .. Len(past) /\ search = ss[n + 1]
        BY <1>1, <1>5, <3>1 DEF InStep
      <4>2. past[n + 1] = search.pending
        BY <1>5, <4>1 DEF AsRecorded
      <4>3. PICK p \in Completed(past[n + 1]) :
                 ss[(n + 1) + 1] = RecordVerdict(search, search.pending,
                                                 Crossed(search.config, p, Offered))
        BY <1>5, <4>1, <4>2 DEF AsRecorded, Offered
      <4>4. p = record
        <5>1. p \in disk' /\ Directory(p.rate) = Directory(record.rate)
          BY <4>2, <4>3 DEF Completed, Offered
        <5>2. \A q, r \in disk' : Directory(q.rate)' = Directory(r.rate)' => q = r
          BY DEF EvidenceInv, SweepInv, TypeOK
        <5> QED BY <5>1, <5>2 DEF Directory
      <4>5. search' = ss[Len(points') + 1]
        BY <2>1, <2>3, <4>3, <4>4 DEF crossed
      <4>6. ASSUME NEW i \in 1 .. Len(past), i <= n + 1
            PROVE  past[i] = points'[i].offered
        <5>1. CASE i = n + 1
          BY <2>2, <2>3, <4>2, <5>1
        <5>2. CASE i # n + 1
          <6>1. i <= n /\ points'[i] = points[i]
            BY <1>1, <2>3, <4>6, <5>2
          <6>2. past[i] = points[i].offered
            BY <1>5, <6>1 DEF InStep
          <6> QED BY <6>1, <6>2
        <5> QED BY <5>1, <5>2
      <4> QED BY <2>3, <4>5, <4>6 DEF InStep
    <3>2. CASE ~(n < Len(past))
      <4>1. ~(n + 1 <= Len(past))
        BY <1>1, <3>2
      <4>2. ASSUME NEW i \in 1 .. Len(past)
            PROVE  past[i] = points'[i].offered
        <5>1. i <= n /\ points'[i] = points[i]
          BY <1>1, <2>3, <3>2
        <5>2. past[i] = points[i].offered
          BY <1>5, <5>1 DEF InStep
        <5> QED BY <5>1, <5>2
      <4> QED BY <2>3, <4>1, <4>2 DEF InStep
    <3> QED BY <3>1, <3>2
  <2> QED BY <1>5, <1>6, <2>4, <2>5 DEF ResumeInv
<1> QED BY <1>7, <1>8

LEMMA ResumeInit == Init => ResumeInv
<1> SUFFICES ASSUME Init PROVE ResumeInv
  OBVIOUS
<1>1. PICK c \in Configs : search = NewSearch(c)
  BY DEF Init
<1>2. NewSearch(c) \in SearchType /\ search.config = c
  BY <1>1, NewSearchOK DEF SearchOK, NewSearch
<1>3. points = <<>> /\ past = <<>> /\ points \in Seq(PointType)
  BY DEF Init
<1>4. LeadHere(<<search>>) /\ <<search>> \in Seq(SearchType)
  BY <1>1, <1>2, <1>3 DEF LeadHere
<1> QED BY <1>1, <1>2, <1>3, <1>4, NothingToRepeat DEF ResumeInv

LEMMA ResumeStep ==
  EvidenceInv /\ EvidenceInv' /\ ResumeInv /\ [Next]_vars => ResumeInv'
<1> SUFFICES ASSUME EvidenceInv, EvidenceInv', ResumeInv, [Next]_vars PROVE ResumeInv'
  OBVIOUS
<1>0. /\ points \in Seq(PointType) /\ disk \subseteq Record /\ current \in Record
      /\ search.config \in Configs
  BY DEF EvidenceInv, SweepInv, TypeOK, PointType, Sound, SearchOK, SearchType
<1>1. CASE Reuse
  <2>1. PICK p \in Completed(Offered) : Judge(p, TRUE)
    BY <1>1 DEF Reuse
  <2>2. /\ p \in Record /\ p \in disk /\ Directory(p.rate) = Directory(Offered)
        /\ Offered # None /\ resume' = resume /\ disk' = disk /\ past' = past
    BY <1>0, <1>1 DEF Reuse, Completed
  <2> QED BY <2>1, <2>2, JudgeInStep
<1>2. CASE RecordPoint
  <2>1. /\ Judge(current, FALSE) /\ disk' = disk \cup {current} /\ Offered # None
        /\ Offered > 0 /\ current.rate = Offered /\ resume' = resume /\ past' = past
    BY <1>2 DEF RecordPoint, EvidenceInv, SweepInv, Underway
  <2> QED BY <1>0, <2>1, JudgeInStep
<1>3. CASE Restart
  <2>1. /\ search' = NewSearch(search.config) /\ points' = <<>> /\ disk' = disk
        /\ past' = IF ~resume' THEN <<>>
                   ELSE IF Len(Resumable) >= Len(past) THEN Resumable ELSE past
    BY <1>3 DEF Restart
  <2>2. search' \in SearchType /\ search'.config = search.config
    BY <1>0, <2>1, NewSearchOK DEF SearchOK, NewSearch
  <2>3. \E ls \in Seq(SearchType) : LeadHere(ls)'
    <3>a. <<search'>> \in Seq(SearchType)
      BY <2>2
    <3>1. PICK ls \in Seq(SearchType) : ls = <<search'>>
      BY <3>a, Zenon
    <3>2. LeadHere(ls)'
      BY <2>1, <2>2, <3>1 DEF LeadHere
    <3> QED BY <3>2
  <2>4. ASSUME NEW ps \in Seq(SearchType), ps[1] = NewSearch(search.config),
               Len(past') \in Nat
        PROVE  InStep(ps)'
    <3>1. Len(points') = 0 /\ Len(points') + 1 = 1
      BY <2>1
    <3>2. \A i \in 1 .. Len(past') : ~(i <= Len(points'))
      BY <2>4, <3>1
    <3> QED BY <2>1, <2>4, <3>1, <3>2 DEF InStep
  <2>5. CASE past' = <<>>
    <3>a. <<NewSearch(search.config)>> \in Seq(SearchType)
      BY <2>1, <2>2
    <3>1. PICK ps \in Seq(SearchType) : ps = <<NewSearch(search.config)>>
      BY <3>a, Zenon
    <3>2. Len(ps) = 1 /\ ps[1] = NewSearch(search.config) /\ Len(past') = 0
      BY <2>5, <3>1
    <3>3. AsRecorded(ps)'
      BY <2>2, <3>2 DEF AsRecorded
    <3> QED BY <2>3, <2>4, <2>5, <3>2, <3>3 DEF ResumeInv
  <2>6. CASE resume' /\ past' = past
    <3>1. PICK ss \in Seq(SearchType) : AsRecorded(ss)
      BY DEF ResumeInv
    <3>2. ss[1] = NewSearch(search.config)
      BY <3>1 DEF AsRecorded
    <3>3. \A rate, p : /\ Completed(rate)' = Completed(rate)
                       /\ Crossed(search.config, p, rate)' = Crossed(search.config, p, rate)
      BY <2>1, <2>2 DEF Completed, Directory, Crossed, Required
    <3>4. AsRecorded(ss)'
      BY <2>2, <2>6, <3>1, <3>3 DEF AsRecorded
    <3>5. Len(past') \in Nat
      BY <2>6 DEF EvidenceInv, SweepInv, TypeOK
    <3> QED BY <2>3, <2>4, <2>6, <3>2, <3>4, <3>5 DEF ResumeInv
  <2>7. CASE resume' /\ past' = Resumable
    <3>1. PICK ls \in Seq(SearchType) : LeadHere(ls)
      BY DEF ResumeInv
    <3>2. PICK ps \in Seq(SearchType) :
             /\ Len(ps) = Len(Resumable) + 1
             /\ ps[1] = NewSearch(search.config)
             /\ \A k \in 1 .. Len(Resumable) :
                  /\ Resumable[k] = ps[k].pending
                  /\ \E p \in Completed(Resumable[k]) :
                       /\ p.metric # None
                       /\ ps[k + 1] = RecordVerdict(ps[k], ps[k].pending,
                                             Crossed(search.config, p, Resumable[k]))
      BY <3>1, PastIsRecorded
    <3>3. \A rate, p : /\ Completed(rate)' = Completed(rate)
                       /\ Crossed(search.config, p, rate)' = Crossed(search.config, p, rate)
      BY <2>1, <2>2 DEF Completed, Directory, Crossed, Required
    <3>4. AsRecorded(ps)'
      BY <2>2, <2>7, <3>2, <3>3 DEF AsRecorded
    <3>5. Len(past') \in Nat
      BY DEF EvidenceInv, SweepInv, TypeOK
    <3> QED BY <2>3, <2>4, <2>7, <3>2, <3>4, <3>5 DEF ResumeInv
  <2> QED BY <2>1, <2>5, <2>6, <2>7
<1>4. CASE RunPoint
  <2>1. /\ step = "running" /\ disk' = disk \ Completed(Offered)
        /\ UNCHANGED <<resume, search, points, past>>
    BY <1>4 DEF RunPoint
  <2>2. PICK ss \in Seq(SearchType) : AsRecorded(ss) /\ InStep(ss)
    BY DEF ResumeInv
  <2>3. InStep(ss)' /\ \E ls \in Seq(SearchType) : LeadHere(ls)'
    BY <2>1, <2>2 DEF ResumeInv, InStep, LeadHere
  <2>4. CASE resume
    <3>1. disk' = disk
      BY <2>1, <2>4 DEF EvidenceInv, SweepInv, Underway
    <3>2. \A rate, p : /\ Completed(rate)' = Completed(rate)
                       /\ Crossed(search.config, p, rate)' = Crossed(search.config, p, rate)
      BY <2>1, <3>1 DEF Completed, Directory, Crossed, Required
    <3>3. AsRecorded(ss)'
      BY <2>1, <2>2, <3>2 DEF AsRecorded
    <3> QED BY <2>1, <2>3, <2>4, <3>3 DEF ResumeInv
  <2>5. CASE ~resume
    <3>1. past = <<>> /\ Len(past) = 0
      BY <2>5 DEF ResumeInv
    <3>2. AsRecorded(ss)'
      BY <2>1, <2>2, <3>1 DEF AsRecorded
    <3> QED BY <2>1, <2>3, <2>5, <3>1, <3>2 DEF ResumeInv
  <2> QED BY <2>4, <2>5
<1>5. CASE Reset \/ RunFails \/ Assemble \/ Crash \/ Done \/ UNCHANGED vars
  <2>1. UNCHANGED <<resume, search, points, disk, past>>
    BY <1>5 DEF Reset, RunFails, Assemble, Crash, Done, vars
  <2>2. \A ss : /\ LeadHere(ss) => LeadHere(ss)'
                /\ InStep(ss) => InStep(ss)'
    BY <2>1 DEF LeadHere, InStep
  <2>3. \A rate, p : /\ Completed(rate)' = Completed(rate)
                     /\ Crossed(search.config, p, rate)' = Crossed(search.config, p, rate)
    BY <2>1 DEF Completed, Directory, Crossed, Required
  <2>4. \A ss : AsRecorded(ss) => AsRecorded(ss)'
    BY <2>1, <2>3 DEF AsRecorded
  <2> QED BY <2>1, <2>2, <2>4 DEF ResumeInv
<1> QED BY <1>1, <1>2, <1>3, <1>4, <1>5 DEF Next, SweepStep

\* A resumed sweep goes through the rates of the sweep it resumes, in their order
\* and all of them before it concludes, for every configuration, every server and
\* any number of interruptions (point.rs:6-9).
THEOREM SweepResumeRepeats == Spec => []ResumeRepeatsTheSearch
<1>1. EvidenceInv /\ ResumeInv => ResumeRepeatsTheSearch
  <2> SUFFICES ASSUME EvidenceInv, ResumeInv PROVE ResumeRepeatsTheSearch
    OBVIOUS
  <2>1. PICK ss \in Seq(SearchType) : AsRecorded(ss) /\ InStep(ss)
    BY DEF ResumeInv
  <2>2. /\ points \in Seq(PointType) /\ past \in Seq(Nat)
    BY DEF EvidenceInv, SweepInv, TypeOK, PointType
  <2>3. /\ DOMAIN Rates(points) = 1 .. Len(points) /\ DOMAIN past = 1 .. Len(past)
        /\ \A i \in 1 .. Len(points) : Rates(points)[i] = points[i].offered
        /\ Len(points) \in Nat /\ Len(past) \in Nat
    BY <2>2 DEF Rates
  <2>4. Comparable(past, Rates(points))
    BY <2>1, <2>3 DEF Comparable, InStep
  <2>5. ASSUME Len(points) < Len(past) PROVE Offered # None
    <3>1. Len(points) + 1 \in 1 .. Len(past) /\ search = ss[Len(points) + 1]
      BY <2>1, <2>3, <2>5 DEF InStep
    <3>2. past[Len(points) + 1] = Offered
      BY <2>1, <3>1 DEF AsRecorded, Offered
    <3> QED BY <2>2, <3>1, <3>2 DEF None
  <2> QED BY <2>3, <2>4, <2>5 DEF ResumeRepeatsTheSearch
<1> QED BY <1>1, ResumeInit, ResumeStep, EvidenceInvariant, PTL DEF Spec
===============================================================================
