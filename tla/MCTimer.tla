-------------------------------- MODULE MCTimer --------------------------------
(* Instances of the timer device; the constants are given in the .cfg files. *)
EXTENDS BS3Timer
================================================================================
