----------------------------- MODULE StatusLatch -----------------------------
(***************************************************************************)
(* What SR0 promises the host CPU, whoever writes it and in whatever       *)
(* order: a flag, once latched, stays until the CPU has been handed it;    *)
(* a read takes away the flags it handed over and no others; the number    *)
(* that came with a latched fifth sprite stands as long as its flag; and   *)
(* while the frame flag is unread nothing but a collision joins it.        *)
(***************************************************************************)
EXTENDS Integers

CONSTANT SpriteNums     (* values of the sprite-number field, 0 and 31 among them *)

VARIABLES
  status,   (* SR0: its flags and its sprite number                       *)
  got       (* flags handed to the CPU whose removal is still due         *)

LatchFlags  == {"INT", "5S", "COL"}
LatchStatus == [flags : SUBSET LatchFlags, num : SpriteNums]

LatchInit == status = [flags |-> {}, num |-> 0] /\ got = {}

(* The display raises flags. *)
Raise ==
  /\ status' \in LatchStatus
  /\ status.flags \subseteq status'.flags
  /\ "5S" \in status.flags => status'.num = status.num
  /\ "INT" \in status.flags => /\ status'.flags \subseteq status.flags \cup {"COL"}
                               /\ status'.num = status.num
  /\ UNCHANGED got

(* The CPU reads.  It may miss a flag raised this instant; it never sees   *)
(* one that is not there.                                                  *)
Read ==
  /\ got = {}
  /\ got' \in SUBSET status.flags
  /\ UNCHANGED status

(* What it saw is taken away, a fifth sprite together with its number. *)
Acknowledge ==
  /\ status' = [flags |-> status.flags \ got,
                num   |-> IF "5S" \in got THEN 31 ELSE status.num]
  /\ got' = {}

LatchNext == Raise \/ Read \/ Acknowledge

LatchSpec == LatchInit /\ [][LatchNext]_<<status, got>>
=============================================================================
