-------------------------------- MODULE MCPeak --------------------------------
(* Bounds for TLC. *)
EXTENDS Peak

Config(start, max, patience, densify, tolerance) ==
  [start |-> start, max |-> max, gain |-> 3, patience |-> patience, densify |-> densify,
   tolerance |-> tolerance]

\* Up to four rates of the ramp and two drawn; a start above the ceiling; patience
\* of none, one and two; a plateau wide enough to have a hole next to it.
MCConfigs ==
  { Config(12, 100, 2, 2, 2), Config(12, 60, 1, 1, 10), Config(6, 30, 2, 1, 30),
    Config(12, 96, 0, 2, 2), Config(24, 12, 1, 1, 2), Config(12, 200, 2, 0, 2) }
===============================================================================
