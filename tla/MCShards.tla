------------------------------- MODULE MCShards -------------------------------
(* Bounds for TLC. *)
EXTENDS Shards

Base == [status |-> "SUCCESS", media |-> FALSE, submit |-> 0, complete |-> 4, total |-> 4,
         token_id |-> {1}, token |-> {2}, output |-> {1}, tpot |-> {1},
         target |-> 3, actual |-> 3, prefix |-> 0, prompt |-> 2, usage |-> {},
         declared |-> NoBounds]

\* Only text events, late, with the cache read by the server.
TextOnly == [Base EXCEPT !.token_id = {}, !.token = {3}, !.submit = 2, !.complete = 9,
                         !.total = 7, !.prefix = 2, !.prompt = 4,
                         !.usage = {[cached |-> 1, prompt |-> 4]}]

\* Failed after its first token.
Failed == [Base EXCEPT !.status = "FAILED", !.tpot = {}, !.actual = 1, !.total = 3,
                       !.complete = 3]

\* Skipped: nothing was sent, no time passed.
Skipped == [Base EXCEPT !.status = "SKIPPED_CONTEXT_OVERFLOW", !.token_id = {}, !.token = {},
                        !.output = {}, !.tpot = {}, !.actual = 0, !.complete = 0, !.total = 0]

\* An image: only a first output.
Image == [Base EXCEPT !.media = TRUE, !.token_id = {}, !.token = {}, !.output = {4},
                      !.tpot = {}, !.actual = 0, !.submit = 1, !.complete = 6, !.total = 5]

\* A row that bounds two metrics.
Bound == [Base EXCEPT !.declared = [ttft |-> {2}, tpot |-> {}, e2e |-> {3}]]

Unit(arrival, steps) == [arrival |-> arrival, steps |-> steps]

MCTraces ==
  { <<Unit(0, <<Base, TextOnly>>), Unit(1, <<Failed>>), Unit(4, <<Bound>>)>>,
    <<Unit(0, <<Bound>>), Unit(0, <<Skipped>>), Unit(0, <<TextOnly>>), Unit(0, <<Failed>>)>>,
    <<Unit(0, <<Image>>), Unit(2, <<Image>>), Unit(3, <<TextOnly>>), Unit(5, <<Bound>>)>>,
    <<Unit(0, <<Skipped>>), Unit(3, <<Base>>)>>,
    <<Unit(1, <<TextOnly, Bound, Failed>>)>> }

Tight == [ttft |-> {1}, tpot |-> {1}, e2e |-> {}]
Loose == [ttft |-> {3}, tpot |-> {}, e2e |-> {5}]

MCLaunches ==
  {[processes |-> n, by_hand |-> hand, saturated |-> rate = 0, rate |-> rate,
    max_items |-> max, dry_run |-> dry, flag |-> objective[1], sidecar |-> objective[2],
    tag |-> tag] :
     <<n, hand, rate>> \in {<<1, FALSE, 0>>, <<1, FALSE, 2>>, <<2, FALSE, 0>>,
                            <<3, FALSE, 0>>, <<2, TRUE, 2>>},
     max \in {{}, {3}}, dry \in BOOLEAN, tag \in BOOLEAN,
     objective \in {<<{}, {}>>, <<{Tight}, {Loose}>>, <<{}, {Loose}>>, <<{}, {NoBounds}>>}}
===============================================================================
