------------------------------- MODULE MCStats -------------------------------
(* Stats with two handlers and three latencies.                             *)
EXTENDS Stats

CONSTANTS h1, h2, h3

TwoHandlers == {h1, h2}
ThreeHandlers == {h1, h2, h3}
ThreeLatencies == 1..3
==============================================================================
