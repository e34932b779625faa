----------------------------- MODULE BS3Transfer -----------------------------
(***************************************************************************)
(* What the graphic device promises of SURFACE_BLIT_TRANSFER               *)
(* (BackSlashThree_GFX.txt): the bytes the program writes while a transfer *)
(* is open fill one rectangle of one surface, row by row, until its last   *)
(* pixel or until the transfer is broken.                                  *)
(*                                                                         *)
(* A surface is a square of Side by Side pixels; a rectangle that leaves   *)
(* it on the right goes on in the next row, one that leaves it at the      *)
(* bottom goes on at the top.                                              *)
(***************************************************************************)
EXTENDS Integers

CONSTANTS Side,      \* pixels in a row, rows in a surface: 256 in the device
          Colours    \* the values of a pixel

Size == Side * Side
NoArea == [surface |-> 0, base |-> 0, w |-> 0, h |-> 0]
AllAreas == [surface : {0, 1}, base : 0 .. Size - 1, w : 0 .. Side - 1, h : 0 .. Side - 1]

Wrap(a) == IF a < Size THEN a ELSE a - Size

(* A width or height of 0 is that of the surface.                          *)
Length(n) == IF n = 0 THEN Side ELSE n

Cell(a, x, y) == Wrap(a.base + y * Side + x)

VARIABLES open, area,    \* a transfer is open, and into which rectangle
          x, y,          \* the column and the row of its next pixel
          pixel          \* the pixel stored last

transferVars == <<open, area, x, y, pixel>>

TransferInit ==
  /\ open = FALSE /\ area = NoArea /\ x = 0 /\ y = 0
  /\ pixel = [surface |-> 0, at |-> 0, value |-> 0]

Open(a) ==
  /\ ~open /\ open' = TRUE
  /\ area' = a /\ x' = 0 /\ y' = 0
  /\ UNCHANGED pixel

Closed == open' = FALSE /\ area' = NoArea /\ x' = 0 /\ y' = 0

Break ==
  /\ open /\ Closed
  /\ UNCHANGED pixel

Store(v) ==
  /\ open
  /\ pixel' = [surface |-> area.surface, at |-> Cell(area, x, y), value |-> v]
  /\ \/ /\ x + 1 < Length(area.w)
        /\ x' = x + 1
        /\ UNCHANGED <<open, area, y>>
     \/ /\ x + 1 = Length(area.w) /\ y + 1 < Length(area.h)
        /\ x' = 0 /\ y' = y + 1
        /\ UNCHANGED <<open, area>>
     \/ /\ x + 1 = Length(area.w) /\ y + 1 = Length(area.h)
        /\ Closed

TransferNext ==
  \/ \E a \in AllAreas : Open(a)
  \/ \E v \in Colours : Store(v)
  \/ Break

TransferSpec == TransferInit /\ [][TransferNext]_transferVars
=================================================================================
