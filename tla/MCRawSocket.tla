---------------------------- MODULE MCRawSocket ----------------------------
(* RawSocket with all cases and the default times, in ticks of 500 ms: the  *)
(* slow body comes in time for the idle timeout, with it, or after it.      *)
EXTENDS RawSocket

MCSelected == <<1, 2, 3, 4, 5, 6, 7, 8>>
MCSlowDelays == {8, 10, 12}
=============================================================================
