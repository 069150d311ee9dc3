---------------------------- MODULE MCSessionHub ----------------------------
(* The instance of SessionHub that the MCSessionHub*.cfg files complete:    *)
(* callers, tabs and cache entries as model values.                         *)
EXTENDS SessionHub, TLC

CONSTANTS o1, o2, s1, s2, w1

MCObjects == {o1, o2}
MCStreams == {s1, s2}
MCWriters == {w1}
=============================================================================
