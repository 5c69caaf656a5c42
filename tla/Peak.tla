--------------------------------- MODULE Peak ---------------------------------
(***************************************************************************)
(* A sweep for the highest throughput (src/src/bin/sweep/peak.rs and the   *)
(* loop run_peak of main.rs): ramp by doubling until a number of rates in  *)
(* a row brought no gain, draw the gap below the plateau, and report the   *)
(* best rate and the plateau around it.  Points are kept on disk as in     *)
(* module Sweep, and the sweep may be killed and started again.            *)
(*                                                                         *)
(* Rates and throughputs are integers in units small enough that the rates *)
(* drawn are exact; gain and tolerance are percentages.  The server may    *)
(* answer any rate with any throughput, every time it is asked.            *)
(***************************************************************************)
EXTENDS Sorting

CONSTANTS
  Configs,      \* the configurations
  Throughputs,  \* what a run may measure
  MaxStarts     \* bound on the times the sweep is started

ConfigType == [start : Nat \ {0}, max : Nat \ {0}, gain : Nat, patience : Nat,
               densify : Nat, tolerance : 0 .. 100]

Smaller(a, b) == IF a <= b THEN a ELSE b

\* The last conjunct is what exact means: the narrowest gap of a ramp, from its first
\* rate to the second, has room for as many rates as are drawn.
ASSUME PeakAssumption ==
  /\ Configs \subseteq ConfigType /\ Throughputs \subseteq Nat /\ MaxStarts \in Nat \ {0}
  /\ \A c \in Configs : c.densify < Smaller(c.start, c.max)

VARIABLES
  search,  \* the PeakSearch of this process
  resume,  \* not --no-resume
  step,    \* where the sweep is
  disk,    \* the completed points: rate and throughput, {} where it has none
  starts   \* how often the sweep was started

vars == <<search, resume, step, disk, starts>>

\* PeakSearch::new.  pending is a rate, or 0 when there is none to measure.
\* measured keeps the order of the visit; stale and outcome are as in the code.
NewSearch(c) ==
  [config |-> c, phase |-> "ramp", pending |-> Smaller(c.start, c.max),
   measured |-> <<>>, stale |-> 0, queue |-> <<>>, outcome |-> "open"]

-----------------------------------------------------------------------------
(* What the points measured so far say. *)

SortedByRate(s) ==
  SortBy(s.measured, [i \in DOMAIN s.measured |-> s.measured[i].rate])

\* best: max_by returns the last of several.
Best(s) ==
  LET m == s.measured IN
  m[CHOOSE i \in DOMAIN m : \A j \in DOMAIN m :
      /\ m[j].throughput <= m[i].throughput
      /\ j > i => m[j].throughput < m[i].throughput]

\* On the plateau, or better.
Level(s, throughput) ==
  100 * throughput >= Best(s).throughput * (100 - s.config.tolerance)

\* A variant that looks for the edge from the far end, across a hole.
LowEdgeAcrossHoles(s, sorted) ==
  CHOOSE i \in DOMAIN sorted :
    /\ Level(s, sorted[i].throughput)
    /\ \A j \in DOMAIN sorted : Level(s, sorted[j].throughput) => i <= j

\* The two loops of peak: from the best rate down, and up, while it is level.
LowEdge(s, sorted) ==
  LET down[i \in DOMAIN sorted] ==
        IF i > 1 /\ Level(s, sorted[i - 1].throughput) THEN down[i - 1] ELSE i
  IN  down[CHOOSE i \in DOMAIN sorted : sorted[i].rate = Best(s).rate]

HighEdge(s, sorted) ==
  LET up[i \in DOMAIN sorted] ==
        IF i < Len(sorted) /\ Level(s, sorted[i + 1].throughput) THEN up[i + 1] ELSE i
  IN  up[CHOOSE i \in DOMAIN sorted : sorted[i].rate = Best(s).rate]

\* peak.  The decline is absolute here.
PeakOf(s) ==
  LET sorted == SortedByRate(s) IN
  [rate |-> Best(s).rate, throughput |-> Best(s).throughput,
   low |-> sorted[LowEdge(s, sorted)].rate, high |-> sorted[HighEdge(s, sorted)].rate,
   decline |-> Best(s).throughput - sorted[Len(sorted)].throughput]

-----------------------------------------------------------------------------
(* PeakSearch::record. *)

Rates(s) == {s.measured[i].rate : i \in DOMAIN s.measured}

Finish(s) ==
  [s EXCEPT !.pending = 0, !.outcome = IF @ = "open" THEN "located" ELSE @]

NextDensify(s) ==
  IF s.queue = <<>> THEN Finish(s)
  ELSE [s EXCEPT !.pending = Head(s.queue), !.queue = Tail(s.queue)]

\* densify_rates, ascending: the gap between the plateau and the next lower rate.
DensifyRates(s) ==
  LET low   == PeakOf(s).low
      lower == {r \in Rates(s) : r < low}
      below == CHOOSE r \in lower : \A q \in lower : q <= r
      n     == s.config.densify
  IN  IF lower = {} THEN <<>>
      ELSE [i \in 1 .. n |-> below + ((low - below) * i) \div (n + 1)]

BeginDensify(s) ==
  NextDensify([s EXCEPT !.phase = "densify", !.queue = DensifyRates(s)])

Lower(s, rate) == {i \in DOMAIN s.measured : s.measured[i].rate < rate}

\* A variant that compares with the point before instead of the best one below.
ImprovedOnTheLast(s, rate, throughput) ==
  \A i \in Lower(s, rate) : i = Len(s.measured) =>
    100 * throughput > s.measured[i].throughput * (100 + s.config.gain)

\* throughput > best_below * (1 + min_gain), or nothing was measured below.
Improved(s, rate, throughput) ==
  \A i \in Lower(s, rate) :
    100 * throughput > s.measured[i].throughput * (100 + s.config.gain)

RecordRamp(s, rate, improved) ==
  LET t == [s EXCEPT !.stale = IF improved THEN 0 ELSE @ + 1] IN
  IF t.stale >= t.config.patience THEN BeginDensify(t)
  ELSE IF 2 * rate > t.config.max
    THEN [t EXCEPT !.pending = 0,
                   !.outcome = IF t.stale = 0 THEN "still_rising" ELSE "located"]
  ELSE [t EXCEPT !.pending = 2 * rate]

RecordPoint(s, rate, throughput) ==
  LET t == [s EXCEPT !.measured = Append(@, [rate |-> rate, throughput |-> throughput])] IN
  IF s.phase = "ramp" THEN RecordRamp(t, rate, Improved(s, rate, throughput))
                      ELSE NextDensify(t)

-----------------------------------------------------------------------------
(* run_peak. *)

Offered == search.pending
Completed(rate) == {p \in disk : p.rate = rate}

\* A point without the metric to maximize ends the sweep.
Take(throughput) ==
  IF throughput = {}
    THEN step' = "failed" /\ UNCHANGED search
    ELSE /\ \E t \in throughput : search' = RecordPoint(search, Offered, t)
         /\ UNCHANGED step

Reuse ==
  /\ step = "running" /\ Offered # 0 /\ resume
  /\ \E p \in Completed(Offered) : Take(p.throughput)
  /\ UNCHANGED <<resume, disk, starts>>

Measure ==
  /\ step = "running" /\ Offered # 0
  /\ resume => Completed(Offered) = {}
  /\ \E throughput \in {{}} \cup {{t} : t \in Throughputs} :
       /\ Take(throughput)
       /\ disk' = (disk \ Completed(Offered))
                    \cup {[rate |-> Offered, throughput |-> throughput]}
  /\ UNCHANGED <<resume, starts>>

\* The run fails, or the process is killed before the point is complete.
Interrupted ==
  /\ step = "running" /\ Offered # 0
  /\ step' = "failed"
  /\ disk' \in {disk} \cup (IF resume THEN {} ELSE {disk \ Completed(Offered)})
  /\ UNCHANGED <<search, resume, starts>>

\* The report is assembled from PeakOf.
Assemble ==
  /\ step = "running" /\ Offered = 0
  /\ step' = "finished"
  /\ UNCHANGED <<search, resume, disk, starts>>

Restart ==
  /\ step = "failed" /\ starts < MaxStarts
  /\ starts' = starts + 1
  /\ search' = NewSearch(search.config)
  /\ resume' \in BOOLEAN
  /\ step' = "running"
  /\ UNCHANGED disk

Stop == step \in {"finished", "failed"} /\ UNCHANGED vars

Init ==
  /\ \E c \in Configs : search = NewSearch(c)
  /\ resume \in BOOLEAN
  /\ step = "running" /\ disk = {} /\ starts = 1

Next == Reuse \/ Measure \/ Interrupted \/ Assemble \/ Restart \/ Stop

Spec == Init /\ [][Next]_vars

-----------------------------------------------------------------------------
(* Properties. *)

N == Len(search.measured)
RateOf(i) == search.measured[i].rate
Got(i) == search.measured[i].throughput

\* i and j are neighbours in the order of their rates.
Adjacent(i, j) ==
  RateOf(i) < RateOf(j) /\ \A k \in 1 .. N : RateOf(k) <= RateOf(i) \/ RateOf(j) <= RateOf(k)

\* The peak that is reported is the best that was measured, at a rate that gave it,
\* in whatever order the rates were visited (peak.rs:91-92).  The plateau is the
\* longest unbroken run of measured rates around it within the tolerance, and a
\* decline beyond the tolerance lies above the plateau.
PeakIsTheBest ==
  step = "finished" =>
    LET peak  == PeakOf(search)
        Ok(i) == 100 * Got(i) >= peak.throughput * (100 - search.config.tolerance)
        Top   == {i \in 1 .. N : \A j \in 1 .. N : Got(j) <= Got(i)}
    IN  /\ \A i \in Top : Got(i) = peak.throughput
        /\ \E i \in Top : RateOf(i) = peak.rate
        /\ peak.low <= peak.rate /\ peak.rate <= peak.high
        /\ \A i \in 1 .. N : RateOf(i) \in peak.low .. peak.high => Ok(i)
        /\ \A i, j \in 1 .. N : Adjacent(i, j) =>
             (RateOf(j) = peak.low => ~Ok(i)) /\ (RateOf(i) = peak.high => ~Ok(j))
        /\ 100 * peak.decline > peak.throughput * search.config.tolerance =>
             \E i \in 1 .. N : RateOf(i) > peak.high

\* A point is no gain when it does not exceed by the minimal gain the best of all
\* rates below it, in whatever order they were measured.
NoGain(i) ==
  \E j \in 1 .. N : RateOf(j) < RateOf(i) /\ 100 * Got(i) <= Got(j) * (100 + search.config.gain)

\* The ramp is the points before the first that does not double the one before.
Ramp == {i \in 1 .. N : \A j \in 2 .. i : RateOf(j) = 2 * RateOf(j - 1)}
RampEnd == CHOOSE i \in Ramp : \A j \in Ramp : j <= i

\* As many rates of the ramp as were asked for, in a row and at its end, brought no
\* gain.
OutOfPatience ==
  Cardinality({i \in Ramp : \A j \in i .. RampEnd : NoGain(j)}) >= search.config.patience

\* What is reported of the search has been measured.  A peak is still rising only
\* at the ceiling, at the highest rate measured.  A ramp that had room for another
\* rate was given up because it was out of patience, with the best of all lower
\* rates for its measure.  No rate is above the ceiling, and none is measured twice.
LocatedIsEvidence ==
  /\ \A i \in 1 .. N : RateOf(i) <= search.config.max
  /\ \A i, j \in 1 .. N : i # j => RateOf(i) # RateOf(j)
  /\ search.outcome = "still_rising" =>
       /\ N \in Ramp /\ ~NoGain(N) /\ 2 * RateOf(N) > search.config.max
       /\ PeakOf(search).rate = RateOf(N)
  /\ search.outcome = "located" /\ 2 * RateOf(RampEnd) <= search.config.max =>
       OutOfPatience

\* What the comments say of a peak that is located: "the ramp ended on its own"
\* (peak.rs:59), which takes patience many rates without gain, "because a single noisy
\* run should not end the search" (peak.rs:33).
LocatedIsOutOfPatience == search.outcome = "located" => OutOfPatience
===============================================================================
