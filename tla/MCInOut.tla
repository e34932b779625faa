--------------------------------- MODULE MCInOut ---------------------------------
(* Instances of the in-out device; the bounds are given in the .cfg file.  *)
EXTENDS BS3InOut
==================================================================================
