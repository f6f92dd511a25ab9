---------------------------- MODULE MC_LiveVideo ----------------------------
(* LiveVideo for TLC: one stream, two viewers.                               *)
EXTENDS LiveVideo
CONSTANTS v1, v2
OneStream == {0}
TwoViewers == {v1, v2}
=============================================================================
