------------------------------- MODULE MCDebug -------------------------------
(* One breakpoint and a count of two turns, one client at a time whose      *)
(* stream may be read in any parts, a poll at every second call.            *)
EXTENDS BS3Debug
===============================================================================
