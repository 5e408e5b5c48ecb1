---------------------------- MODULE MCPaletteLut ----------------------------
(* Instances of PaletteLut for TLC: two entries, so that a rebuild can be   *)
(* interrupted between one and the other, and two colours.                  *)
EXTENDS PaletteLut

TwoColours == {"c0", "c1"}
=============================================================================
