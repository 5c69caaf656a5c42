--------------------------------- MODULE Slo ---------------------------------
(***************************************************************************)
(* Service-level objectives (src/src/slo.rs, src/src/slo_source.rs): which *)
(* bounds a step is held to, the verdict on each, and the counts that are  *)
(* kept of the verdicts.  An Option is a set of at most one element, and   *)
(* the attainment of a count, attained over evaluated, is left to whoever  *)
(* reads it: it is None exactly where nothing was evaluated.               *)
(***************************************************************************)
EXTENDS Naturals

Option(S) == {X \in SUBSET S : \A x, y \in X : x = y}
The(option) == CHOOSE x \in option : TRUE

Metrics == {"ttft", "tpot", "e2e"}

\* SloSpec and RequestSlo: an upper bound on each metric, or none.
Bounds == [Metrics -> Option(Nat)]
NoBounds == [k \in Metrics |-> {}]

Measurement == [succeeded : BOOLEAN, measured : Bounds, declared : Bounds]

Verdicts == {"attained", "violated", "unmeasured"}

\* MetricAttainment without its threshold, and PerRequestMetricAttainment.
Counts == [evaluated : Nat, attained : Nat, violated : Nat, unmeasured : Nat]
NoCounts == [evaluated |-> 0, attained |-> 0, violated |-> 0, unmeasured |-> 0]

Count(counts, verdict) ==
  [counts EXCEPT !.evaluated  = @ + 1,
                 !.attained   = IF verdict = "attained" THEN @ + 1 ELSE @,
                 !.violated   = IF verdict = "violated" THEN @ + 1 ELSE @,
                 !.unmeasured = IF verdict = "unmeasured" THEN @ + 1 ELSE @]

\* A variant for which what was not measured was not late either.
JudgeUnmeasuredAttains(succeeded, measured, threshold) ==
  IF \A value \in measured : succeeded /\ value <= threshold THEN "attained" ELSE "violated"

\* judge: a step that failed is never measured, whatever its clocks say.
Judge(succeeded, measured, threshold) ==
  IF ~succeeded \/ measured = {} THEN "unmeasured"
  ELSE IF The(measured) <= threshold THEN "attained" ELSE "violated"

\* The verdicts of one step on those of some bounds that are set.
Verdict(m, bounds) ==
  [k \in {j \in Metrics : bounds[j] # {}} |->
     Judge(m.succeeded, m.measured[k], The(bounds[k]))]

Met(verdict) == \A k \in DOMAIN verdict : verdict[k] = "attained"

CountEach(counts, verdict) ==
  [k \in Metrics |-> IF k \in DOMAIN verdict THEN Count(counts[k], verdict[k]) ELSE counts[k]]

-----------------------------------------------------------------------------

\* resolve: the flag wins, and a document that sets no bound is an error.
ResolveFails(flag, sidecar) == flag = {} /\ sidecar = {NoBounds}
Resolved(flag, sidecar) == IF flag # {} THEN flag ELSE sidecar

\* SloSummary: counts of whole steps against all bounds in force, of the steps
\* whose row sets bounds of its own, and of each metric against either.
SloType ==
  [spec : Option(Bounds), all : Counts, metric : [Metrics -> Counts],
   rows : BOOLEAN, declared : Counts, declared_metric : [Metrics -> Counts]]

\* SloSummary::new: None where there is nothing to hold the run to.
NewSlo(objective, tag) ==
  IF objective = {} /\ ~tag THEN {}
  ELSE {[spec |-> objective, all |-> NoCounts, metric |-> [k \in Metrics |-> NoCounts],
         rows |-> tag, declared |-> NoCounts,
         declared_metric |-> [k \in Metrics |-> NoCounts]]}

\* DeclaredSloAttainment::add: a row without bounds is not counted.
AddDeclared(slo, verdict) ==
  IF DOMAIN verdict = {} THEN slo
  ELSE [slo EXCEPT
         !.declared = Count(@, IF Met(verdict) THEN "attained"
                               ELSE IF \E k \in DOMAIN verdict : verdict[k] = "unmeasured"
                                 THEN "unmeasured" ELSE "violated"),
         !.declared_metric = CountEach(@, verdict)]

\* SloSummary::add.  Of whole steps only evaluated and attained are kept; the rest
\* counts as violated here.
Add(slo, m) ==
  LET run == Verdict(m, IF slo.spec = {} THEN NoBounds ELSE The(slo.spec))
      row == Verdict(m, IF slo.rows THEN m.declared ELSE NoBounds)
      folded == AddDeclared([slo EXCEPT !.metric = CountEach(@, run)], row)
  IN  IF DOMAIN run \cup DOMAIN row = {} THEN folded
      ELSE [folded EXCEPT
             !.all = Count(@, IF Met(run) /\ Met(row) THEN "attained" ELSE "violated")]
===============================================================================
