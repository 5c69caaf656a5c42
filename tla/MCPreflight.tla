------------------------------ MODULE MCPreflight ------------------------------
(* The gate on small responses and small pools. *)
EXTENDS Preflight

Choice(ids, text, delta, finish) ==
  [ids |-> ids, text |-> text, delta |-> delta, finish |-> finish]

Object(choices, usage, ids, meta) ==
  [choices |-> choices, usage |-> usage, output_ids |-> ids, meta |-> meta]

\* An object of an OpenAI shape with a usage report, and one of an SGLang shape.
Reporting(prompt, cached) ==
  Object(<<>>, {[prompt |-> prompt, completion |-> 1, total |-> None, cached |-> cached]},
         <<>>, {})
Running(prompt, completion, cached) ==
  Object(<<>>, {}, <<1>>, {[prompt |-> prompt, completion |-> completion, output |-> None,
                            cached |-> cached, finish |-> FALSE]})

MCObjects ==
  { Object(<<Choice(<<1>>, <<1>>, <<1>>, TRUE)>>, {}, <<>>, {}),
    Reporting(9, <<None, None, None>>), Reporting(9, <<8, None, None>>),
    Reporting(None, <<None, None, 4>>), Running(9, 1, 8), Running(9, 2, None),
    Running(None, None, None) }

\* Comments, events and the end, with and without the blank after the field.
MCLines ==
  {Line(field, FALSE, {object}) : field \in {"data: ", "data:"}, object \in MCObjects} \cup
  {Line("data: ", FALSE, {}), Line(": ", FALSE, {}), Line("data: ", TRUE, {})}

MCResponses == UNION {[1 .. n -> MCLines] : n \in 0 .. 3}

\* Lines as servers write them: a blank after every field, nothing after [DONE].
Ordinary(lines) ==
  \A i \in DOMAIN lines : lines[i].field # "data:" /\ (lines[i].done => i = Len(lines))

\* A server that lets the gate pass reports the same hit to a client that reads
\* the same lines, whatever the spelling of its report.  The other way round it
\* need not be so: the gate takes the last report as it stands, the client the
\* newest value of each of its fields.  And a server that leaves out the blank after
\* the field passes the gate, although the client reads nothing of its answers
\* (preflight.rs:160-178, client.rs:317).
ASSUME GateAssumption ==
  /\ \A protocol \in Protocols, lines \in MCResponses :
       (Starts("sessions", protocol, lines) /\ Ordinary(lines)) =>
         {ServerUsage(protocol, lines).cached} = {u.cached : u \in FinalUsage(protocol, lines)}
  /\ \E lines \in MCResponses :
       /\ Ordinary(lines) /\ ServerUsage("sglang-tokens", lines).cached > 0
       /\ ~Starts("sessions", "sglang-tokens", lines)
  /\ \E lines \in MCResponses :
       Starts("sessions", "openai", lines) /\ ServerUsage("openai", lines).cached = None

\* A block of any length, and pools up to a little more than the probe.
ASSUME ProbeAssumption ==
  \A block \in 1 .. ProbeTokens, pool_len \in 1 .. ProbeTokens + 3 : ProbeIsApart(block, pool_len)

\* No two units begin at the same place while their number and a stride prime to the
\* pool stay below its length.
ASSUME SeedsAssumption ==
  \A pool_len \in 7 .. 9, stride \in {2, 5}, i, j \in 0 .. 3, len \in 1 .. 3 :
    /\ SeedsAreApart(pool_len, stride, i, j, len)
    /\ i # j => SeedOffset(stride, i) % pool_len # SeedOffset(stride, j) % pool_len
===============================================================================
