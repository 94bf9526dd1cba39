----------------------------- MODULE MCHecParse -----------------------------
(* HecParse with tokens that may write to any index or to one of two, and   *)
(* values that fail each check alone or two checks at once.                 *)
EXTENDS HecParse

Good == [shape |-> "envelope", event |-> "text", index |-> "none", fields |-> "none"]

MCEnvelopes ==
  {Good, [Good EXCEPT !.index = "main", !.fields = "flat"],
   [Good EXCEPT !.shape = "other"],
   [Good EXCEPT !.event = "missing", !.index = "Bad.Index"],
   [Good EXCEPT !.event = "blank", !.fields = "nested"],
   [Good EXCEPT !.index = "audit"],
   [Good EXCEPT !.index = "Bad.Index", !.fields = "notObject"],
   [Good EXCEPT !.fields = "nested"], [Good EXCEPT !.fields = "notObject"]}

MCValidNames == {"main", "audit"}
MCTokens ==
  {[default |-> "none", allowed |-> {}], [default |-> "none", allowed |-> {"main"}],
   [default |-> "main", allowed |-> {"main"}]}
=============================================================================
