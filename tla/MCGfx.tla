-------------------------------- MODULE MCGfx --------------------------------
(* Instances of the graphic device on surfaces of two by two pixels.       *)
EXTENDS BS3Gfx

(* The whole surface, a column that wraps to the top, and the pixel whose  *)
(* address is refused.                                                     *)
MCAreas ==
  {ZeroArea,
   [surface |-> 1, base |-> 2, w |-> 1, h |-> 0],
   [surface |-> 0, base |-> 3, w |-> 1, h |-> 1]}
===============================================================================
