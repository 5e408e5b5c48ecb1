----------------------------- MODULE MCFrameInt -----------------------------
(* Instances of FrameInt for TLC: two active lines (line 0, which cannot   *)
(* match R19, and line 1, which can), the sprite numbers the merge tells   *)
(* apart (none, two latched ones, the reset value) and, for the temporal   *)
(* runs, a display with one kind of sprite report or with none.            *)
EXTENDS FrameInt

AllNums    == {0, 5, 31}
FewNums    == {0, 31}
FewReports == {[flags |-> {}, num |-> 0], [flags |-> {"5S"}, num |-> 31]}
SomeReports == {[flags |-> {}, num |-> 0], [flags |-> {"COL"}, num |-> 0],
                [flags |-> {"5S"}, num |-> 5], [flags |-> {"5S", "COL"}, num |-> 31]}
NoReports  == {[flags |-> {}, num |-> 0]}
=============================================================================
