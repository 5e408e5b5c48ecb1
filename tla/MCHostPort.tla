---------------------------- MODULE MCHostPort -----------------------------
(* HostPort for TLC.  As a register's value the first bytes are nothing,   *)
(* 80 columns and the unlock value at once, and R47 in auto-increment at   *)
(* entry 62; as an address they are low bytes.  On the F18A the second     *)
(* bytes select R0, R8 (R0 while locked), R47, R50, R57 and a register     *)
(* with bit 6 set, and an address; on the TMS9918A R0, R1, R47 (its R7)    *)
(* and two rows for writing, the first for reading too.                    *)
EXTENDS HostPort

BothChips == {"F18A", "TMS9918A"}
First     == {0, 28, 254}
Second    == [c \in BothChips |-> IF c = "F18A" THEN {128, 136, 175, 178, 185, 193, 64}
                                                ELSE {128, 129, 175, 16, 64, 80}]
Data      == {1, 2}
=============================================================================
