--------------------------- MODULE MCTimelinePipe ---------------------------
(* Bounds for TLC: four requests of up to two events, a channel of two and   *)
(* row groups of three rows, so that row groups end inside and between       *)
(* timelines, the channel fills, and a short last row group remains.         *)
EXTENDS TimelinePipe

MCRequests == 1 .. 4
=============================================================================
