---------------------------- MODULE MCStreamClose ----------------------------
(* Instances of StreamClose for TLC: two calls of one response.             *)
EXTENDS StreamClose

CONSTANTS c1, c2

MCCalls == {c1, c2}
MCOneCall == {c1}
=============================================================================
