-------------------------------- MODULE MCInput --------------------------------
(* Instances of the input device; the bounds are given in the .cfg files.  *)
EXTENDS BS3Input
================================================================================
