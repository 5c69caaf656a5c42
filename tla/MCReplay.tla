------------------------------ MODULE MCReplay ------------------------------
(* Bounds for TLC. *)
EXTENDS Replay

Plan(w, s, t, k, r) ==
  [window |-> w, stop |-> s, timeline |-> t, skips |-> k, realtime |-> FALSE, rounds |-> r]

\* Two sessions of up to two rounds, one slot or two, with and without timelines of
\* up to two events each.
MCSessions ==
  { Plan(1, TRUE, FALSE, TRUE, <<2, 1>>), Plan(2, TRUE, FALSE, TRUE, <<2, 2>>),
    Plan(2, FALSE, TRUE, FALSE, <<1, 1>>), Plan(1, FALSE, TRUE, FALSE, <<2, 1>>) }

\* Two turns over the realtime surface.
MCTurns == { [Plan(2, FALSE, FALSE, FALSE, <<1, 1>>) EXCEPT !.realtime = TRUE] }

MCPlans == MCSessions \cup MCTurns
MCRequests == (1 .. 2) \X (1 .. 2)
=============================================================================
