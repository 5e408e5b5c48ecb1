-------------------------- MODULE MCConfigBlock ----------------------------
(* ConfigBlock for TLC: the three rows the VDP side reads; version 2 is    *)
(* the release before the last row, 3 this one, 4 a later one.             *)
EXTENDS ConfigBlock

Rows       == {"SCANLINES", "SPRITES", "BASE"}
RowMax     == [f \in Rows |-> 1]
RowSince   == [f \in Rows |-> IF f = "BASE" THEN 3 ELSE 1]

Stored(scan, sprites, base, marked, version, commands) ==
  [set |-> [f \in Rows |-> CASE f = "SCANLINES" -> scan [] f = "SPRITES" -> sprites [] OTHER -> base],
   palette |-> "user", marked |-> marked, version |-> version, commands |-> commands]

(* An erased unit, this release's block, the release before with nothing,  *)
(* a value and another value left in the byte it did not know, a damaged   *)
(* block and a later release's.                                            *)
Units == {Stored(2, 2, 2, FALSE, 0, {}), Stored(1, 0, 1, TRUE, 3, {"SAVE_TO_FLASH"})}
           \cup {Stored(0, 1, left, TRUE, 2, {}) : left \in 0..2}
           \cup {Stored(1, 2, 0, TRUE, 3, {}), Stored(1, 1, 0, TRUE, 4, {})}
=============================================================================
