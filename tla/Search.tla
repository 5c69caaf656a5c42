------------------------------- MODULE Search -------------------------------
(***************************************************************************)
(* The search of an adaptive sweep (src/src/bin/sweep/search.rs): ramp by  *)
(* doubling until the boundary is crossed, or by halving when already the  *)
(* first rate crossed it, bisect to the tolerance, then draw a few more    *)
(* rates around the bracket.  It runs nothing: it is told whether the rate *)
(* it offered crossed, and says what to measure next.                      *)
(*                                                                         *)
(* A rate is an integer number of some small unit, and halving rounds down,*)
(* as f64 rounds when a bracket has no room left: the guard on the midpoint*)
(* is reachable here in a few steps.  The tolerance is a percentage.       *)
(***************************************************************************)
EXTENDS Integers, Sequences

\* The None of Option<f64>.
None == -1

\* The search takes everything but the mode, which picks the boundary that the
\* sweep asks of each point (boundary.rs:31-66).
Modes == {"max-sustainable-rate", "max-rate-under-slo"}

SearchConfigs ==
  {c \in [mode : Modes, start : Nat, min : Nat, max : Nat, tolerance : Nat,
          densify : Nat] : c.min < c.max}

Phases == {"ramp", "bisect", "densify"}

\* "open": the search has not concluded.
Outcomes == {"open", "located", "never_crossed", "always_crossed"}

Larger(a, b) == IF a >= b THEN a ELSE b
Smaller(a, b) == IF a <= b THEN a ELSE b

\* A variant that offers the first rate as it was given.
NewSearchUnclamped(c) ==
  [config |-> c, phase |-> "ramp", pending |-> c.start,
   good |-> None, bad |-> None, down |-> FALSE, queue |-> <<>>, outcome |-> "open"]

\* Search::new: the first rate is clamped into the range.
NewSearch(c) ==
  [config |-> c, phase |-> "ramp", pending |-> Smaller(Larger(c.start, c.min), c.max),
   good |-> None, bad |-> None, down |-> FALSE, queue |-> <<>>, outcome |-> "open"]

Conclusion(s) ==
  CASE s.good # None /\ s.bad # None -> "located"
    [] s.good # None /\ s.bad = None -> "never_crossed"
    [] s.good = None -> "always_crossed"

Conclude(s, outcome) == [s EXCEPT !.pending = None, !.outcome = outcome]

Finish(s) == Conclude(s, IF s.outcome = "open" THEN Conclusion(s) ELSE s.outcome)

-----------------------------------------------------------------------------
(* Densify. *)

\* Ascending; the code reverses the list and pops from its end.
DensifyRates(s) ==
  LET low  == Larger((3 * s.good) \div 4, s.config.min)
      high == Smaller((5 * s.bad) \div 4, s.config.max)
      n    == s.config.densify
  IN  IF high <= low
        THEN <<>>
        ELSE [i \in 1 .. n |-> low + ((high - low) * i) \div (n + 1)]

NextDensify(s) ==
  IF s.queue = <<>>
    THEN Finish(s)
    ELSE [s EXCEPT !.pending = Head(s.queue), !.queue = Tail(s.queue)]

BeginDensify(s) ==
  NextDensify([s EXCEPT !.phase = "densify", !.queue = DensifyRates(s)])

-----------------------------------------------------------------------------
(* Bisect: the bracket good .. bad is complete. *)

\* bracket_width(..) <= tolerance.
NarrowEnough(s) == (s.bad - s.good) * 100 <= s.config.tolerance * s.bad

AdvanceBisect(s) ==
  LET midpoint == (s.good + s.bad) \div 2 IN
  IF NarrowEnough(s) \/ midpoint <= s.good \/ midpoint >= s.bad
    THEN BeginDensify(s)
    ELSE [s EXCEPT !.pending = midpoint]

\* A variant that gives up on the bracket as soon as the ramp has found it.
BeginBisectAtOnce(s) == BeginDensify([s EXCEPT !.phase = "bisect"])

BeginBisect(s) == AdvanceBisect([s EXCEPT !.phase = "bisect"])

\* A variant that moves the wrong end of the bracket.
RecordBisectSwapped(s, rate, crossed) ==
  AdvanceBisect(IF crossed THEN [s EXCEPT !.good = rate] ELSE [s EXCEPT !.bad = rate])

RecordBisect(s, rate, crossed) ==
  AdvanceBisect(IF crossed THEN [s EXCEPT !.bad = rate] ELSE [s EXCEPT !.good = rate])

-----------------------------------------------------------------------------
(* Ramp. *)

RampUp(s, rate) ==
  IF 2 * rate > s.config.max
    THEN Conclude(s, "never_crossed")
    ELSE [s EXCEPT !.pending = 2 * rate]

RampDown(s, rate) ==
  IF rate \div 2 < s.config.min
    THEN Conclude([s EXCEPT !.down = TRUE], "always_crossed")
    ELSE [s EXCEPT !.down = TRUE, !.pending = rate \div 2]

RampCrossed(s, rate) ==
  LET t == [s EXCEPT !.bad = IF s.bad = None THEN rate ELSE Smaller(s.bad, rate)] IN
  IF t.good # None THEN BeginBisect(t) ELSE RampDown(t, rate)

\* A variant that forgets which way the ramp goes.
RampKeptUpBothWays(s, rate) == RampUp([s EXCEPT !.good = rate], rate)

RampKeptUp(s, rate) ==
  LET t == [s EXCEPT !.good = IF s.good = None THEN rate ELSE Larger(s.good, rate)] IN
  IF t.down THEN BeginBisect(t) ELSE RampUp(t, rate)

RecordRamp(s, rate, crossed) ==
  IF crossed THEN RampCrossed(s, rate) ELSE RampKeptUp(s, rate)

-----------------------------------------------------------------------------

\* A variant that lets what it only draws move the bracket.
RecordDensifyMoving(s, rate, crossed) ==
  NextDensify(IF crossed THEN [s EXCEPT !.bad = rate] ELSE [s EXCEPT !.good = rate])

\* Densification draws the curve and does not move the bracket.
RecordDensify(s, rate, crossed) == NextDensify(s)

\* Search::record.
RecordVerdict(s, rate, crossed) ==
  CASE s.phase = "ramp"    -> RecordRamp(s, rate, crossed)
    [] s.phase = "bisect"  -> RecordBisect(s, rate, crossed)
    [] s.phase = "densify" -> RecordDensify(s, rate, crossed)

=============================================================================
