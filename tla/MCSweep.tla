------------------------------- MODULE MCSweep -------------------------------
(* Bounds for TLC. *)
EXTENDS Sweep

Config(m, s, lo, hi, t, d) ==
  [mode |-> m, start |-> s, min |-> lo, max |-> hi, tolerance |-> t, densify |-> d]

Server(k, r) == [knee |-> k, resets |-> r]

\* Both boundaries; a start inside, below and above the range; a tolerance of
\* nothing and of a fifth; brackets at the ceiling and at the floor, and a floor
\* of zero, where a rate is halved until no run accepts it.
MCConfigs ==
  { Config("max-sustainable-rate", 3, 2, 9, 20, 2),
    Config("max-rate-under-slo", 1, 2, 7, 0, 1),
    Config("max-rate-under-slo", 20, 2, 12, 25, 0),
    Config("max-sustainable-rate", 4, 0, 8, 20, 0) }

\* A knee below, inside and above every range, with and without a cache reset,
\* one whose reset fails at times, and a server without a knee.
MCServers ==
  { Server(k, {r}) : k \in {0, 1, 5, 30}, r \in {"done", "unsupported"} }
    \cup { Server(7, {"done", "failed"}), Server(Noisy, {"done"}) }
=============================================================================
