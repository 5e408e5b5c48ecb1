----------------------------- MODULE MCTms9900 -----------------------------
(* Tms9900 for TLC with bytes of 6 bits: words of 12, a map of 4096 bytes, *)
(* the six status flags exactly one byte, and products inside TLC's        *)
(* integers.  The scenes are small programs over chosen values.            *)
EXTENDS Tms9900, TLC

Bits == 6

Reg(r)    == [m |-> "reg", r |-> r, x |-> 0]
Ind(r)    == [m |-> "ind", r |-> r, x |-> 0]
Inc(r)    == [m |-> "inc", r |-> r, x |-> 0]
Idx(r, x) == [m |-> "idx", r |-> r, x |-> x]

Ins(op, s, d, n) == [op |-> op, s |-> s, d |-> d, n |-> n, x |-> <<>>]
One(op, s)       == Ins(op, s, Reg(0), 0)
Imm(op, r, n)    == Ins(op, Reg(r), Reg(0), n)
X(s, held)       == [One("X", s) EXCEPT !.x = held]

(* Memory from words, by address.                                          *)
Words(f) ==
  [a \in UNION {{w, w + 1} : w \in DOMAIN f} |->
     IF a \in DOMAIN f THEN f[a] \div 64 ELSE f[a - 1] % 64]
Machine(wp, st, regs, words) ==
  [pc |-> 256, wp |-> wp, st |-> st, f18a |-> FALSE, on |-> TRUE,
   mem |-> Words([a \in {wp + (2 * r) : r \in DOMAIN regs} |-> regs[(a - wp) \div 2]] @@ words)]
Scene(c, s) == [cpu |-> c, code |-> s]

(* Arithmetic: two values in R1 and R2 (and a pair in R2, R3), both status *)
(* extremes, through a register, memory and a register that steps.         *)
Edges  == {0, 1, 63, 64, 2047, 2048, 2049, 4095}
AllSt  == {"LGT", "AGT", "EQ", "C", "OV", "P"}
Sums   == {Ins(op, s, d, 0) : op \in {"A", "S"}, s \in {Reg(1)}, d \in {Reg(2), Ind(4)}}
          \cup {Ins(op, Reg(1), d, 0) : op \in {"AB", "SB"}, d \in {Reg(2), Inc(5)}}
          \cup {One(op, d) : op \in {"INC", "INCT", "DEC", "DECT", "NEG", "ABS"}, d \in {Reg(2), Ind(4)}}
          \cup {Imm("AI", 2, n) : n \in {1, 2048}}
Logic  == {Ins(op, Reg(1), Reg(2), 0) : op \in {"SZC", "SZCB", "SOC", "SOCB", "MOV", "MOVB",
                                                "COC", "CZC", "XOR"}}
          \cup {One(op, Reg(2)) : op \in {"CLR", "SETO", "INV", "SWPB", "LDCR", "B"}}
          \cup {Imm(op, 2, 2047) : op \in {"LI", "ANDI", "ORI", "STWP", "STST", "LWPI", "LIMI", "CKON"}}
Mul    == {Ins(op, s, Reg(2), 0) : op \in {"MPY", "DIV"}, s \in {Reg(1), Ind(4)}}
Alu    == {Scene(Machine(1024, st, 1 :> a @@ 2 :> b @@ 3 :> 4095 @@ 4 :> 512 @@ 5 :> 515,
                         512 :> b @@ 514 :> a),
                 <<Sums \cup Logic \cup Mul>>) : a \in Edges, b \in Edges, st \in {{}, AllSt}}
Shifts == {Scene(Machine(1024, st, 0 :> z @@ 1 :> v, <<>>),
                 <<{Imm(op, 1, n) : op \in ShiftOps, n \in {0, 1, 5, 11}}>>) :
             v \in Edges \cup {1365, 2730, 3072}, z \in {0, 3}, st \in {{}, AllSt}}

(* A comparison, then a jump, or X on either; the budget may end between.  *)
Cmps   == {Ins("C", Reg(1), Reg(2), 0), Ins("CB", Reg(1), Reg(2), 0), Imm("CI", 1, 2048)}
Jumps  == {Ins(op, Reg(0), Reg(0), n) : op \in JumpOps, n \in {3, -4}}
          \cup {Ins("JMP", Reg(0), Reg(0), -1), One("IDLE", Reg(0)),
              X(Reg(1), <<One("IDLE", Reg(0))>>), X(Reg(1), <<One("X", Reg(2)), Ins("JMP", Reg(0), Reg(0), -1)>>)}
Tests  == {Scene(Machine(1024, st, 1 :> a @@ 2 :> b, <<>>), <<Cmps, Jumps>>) :
             a \in Edges \cup {129}, b \in Edges \cup {129}, st \in {AllSt}}

(* Calls to any depth the stream allows: a stack in the middle of memory    *)
(* and one that grows past address 0 to the top, three workspaces, a vector *)
(* in memory and one in registers.                                         *)
Calls  == {Scene(Machine(1024, stack.st, 1 :> 1536 @@ 2 :> 600 @@ 6 :> 1792 @@ 7 :> 700
                                         @@ 15 :> stack.sp,
                         640 :> 1536 @@ 642 :> 900),
                 [k \in 1 .. 5 |->
                    {One("CALL", Idx(0, 300)), One("CALL", Ind(2)), One("RET", Reg(0)),
                     One("PUSH", Reg(1)), One("PUSH", Inc(2)), One("POP", Reg(3)), One("BL", Idx(0, 400)),
                     One("B", Ind(11)), One("BLWP", Idx(0, 640)), One("BLWP", Reg(6)),
                     One("RTWP", Reg(0))}]) :
             stack \in {[st |-> {"C"}, sp |-> 768], [st |-> {"EQ", "P"}, sp |-> 2]}}

(* The pixels of a bitmap 5 or 64 wide (2 and 22 bytes a row), 3 a byte.   *)
PixFlags == {0, 2, 49, 64 * 2 + 17, 64 * 3 + 18, 64 * 4 + 3, 64 * 8 + 1, 64 * 15 + 33,
             2048, 1024}
Pixs   == {Scene(Machine(2560, {}, 1 :> (x * 64) + y @@ 2 :> f,
                         1540 :> p @@ 1568 :> 16 * 64 @@ 1570 :> w @@ 256 :> 2458 @@ 258 :> 1234),
                 <<{Ins("PIX", Reg(1), Reg(2), 0)}>>) :
             x \in {0, 1, 4, 5, 6}, y \in {0, 1, 2}, f \in PixFlags, w \in {0, 5}, p \in {0, 256}}

(* Transfers: a source and a destination apart, overlapping either way and *)
(* off both ends; forwards, backwards and fills; strides that turn back.   *)
(* A counter of zero, a whole byte, is a copy too long to be followed here. *)
Dma    == {Scene(Machine(512, {}, 1 :> 64 @@ 2 :> 2056,
                         2048 :> src @@ 2050 :> dst @@ 2052 :> (w * 64) + h @@ 2054 :> (stride * 64) + p
                         @@ 256 :> 65 @@ 258 :> 195 @@ 260 :> 325 @@ 4094 :> 715 @@ 0 :> 845),
                 <<{Ins("MOVB", Reg(1), Ind(2), 0), Ins("MOV", Reg(1), Ind(2), 0)}>>) :
             src \in {256, 258, 4094, 1}, dst \in {256, 257, 261, 300, 4093, 2},
             w \in {1, 3}, h \in {1, 3}, stride \in {0, 1, 3, 5, 40}, p \in 0 .. 3}

(* An F18A program writes and reads through every window, the workspace    *)
(* where the core leaves it, at the map's last word.                       *)
F18a   == {Scene([Machine(4094, {}, 1 :> v @@ 2 :> a @@ 3 :> 0 @@ 15 :> a, 2818 :> 32 * 64)
                    EXCEPT !.f18a = TRUE],
                 <<{Ins("MOV", Reg(1), Ind(2), 0), Ins("MOVB", Reg(1), Inc(2), 0), One("PUSH", Reg(1)),
                    One("INC", Ind(2)), One("SETO", Idx(2, 3))},
                   {Ins("MOV", Idx(2, 16), Reg(3), 0), One("POP", Ind(2)), One("CLR", Idx(2, 256))}>>) :
             v \in {65, 4095}, a \in {w * 256 + k : w \in 0 .. 15, k \in {0, 2, 66, 254}}}

(* It also starts transfers, through the port or the port's repeat: into   *)
(* VRAM, a window's absent half, an absent window and over SR2; then writes *)
(* again around what the transfer left there.                              *)
F18aDma == {Scene([Machine(512, {}, 1 :> 64 @@ 2 :> port @@ 3 :> dst @@ 15 :> dst,
                           2048 :> src @@ 2050 :> dst @@ 2052 :> (w * 64) + h @@ 2054 :> (5 * 64) + p
                           @@ 256 :> 2458 @@ 258 :> 1234 @@ 260 :> 2210 @@ 2818 :> sr2 * 64)
                     EXCEPT !.f18a = TRUE],
                   <<{Ins("MOVB", Reg(1), Ind(2), 0), Ins("MOV", Reg(1), Ind(2), 0), One("INC", Ind(2))},
                     {One("SETO", Ind(3)), Ins("MOVB", Reg(1), Inc(3), 0), One("PUSH", Reg(1)),
                      One("INC", Ind(2))}>>) :
               port \in {2056, 2072}, src \in {256, 257}, dst \in {300, 1180, 2304, 2817, 4000},
               w \in {1, 3}, h \in {1, 2}, p \in {0, 1, 2}, sr2 \in {0, 32}}

AllScenes == Alu \cup Shifts \cup Tests \cup Calls \cup Pixs \cup Dma \cup F18a \cup F18aDma
=============================================================================
