------------------------------ MODULE Tms9900 ------------------------------
(***************************************************************************)
(* The GPU's processor, src/gpu/tms9900.c: the operand decoder, every      *)
(* instruction, the F18A's memory windows, and the slices run9900Budget    *)
(* (src/gpu/gpu.c) cuts a program into.                                    *)
(*                                                                         *)
(* Programs are streams: step k of a scene executes any instruction of     *)
(* code[k].  An instruction is [op, s, d, n, x]: its operands [m, r, x]    *)
(* (mode, register, index word), its immediate, count or displacement, and *)
(* for X what its operand holds: the instruction, or one X after another   *)
(* and the instruction the last one holds.  The program counter moves as   *)
(* in the code, but the words it moves over are not looked at.             *)
(* All widths follow ByteBits; registers, windows and flags keep theirs.   *)
(***************************************************************************)
EXTENDS GpuDma, FiniteSets

CONSTANT Scenes \* the machines and the streams: [cpu, code]

VARIABLES
  cpu,    \* [pc, wp, st, mem, f18a, on]: the core, its memory, still running
  saved,  \* <<pc, wp, st>> between two slices: what the device keeps of it
  code,   \* what is left of the stream
  last,   \* <<the instruction just executed>>
  twin,   \* the same program, never cut
  frames  \* what the calls in progress have left to come back to

vars == <<cpu, saved, code, last, twin, frames>>

Sign == Word \div 2
Even(a) == a - (a % 2)

-----------------------------------------------------------------------------
(* Memory.  A PICO9918 has all 64K; on an F18A every nibble of the address *)
(* is a window on a few bytes, repeated to its end.                        *)
Nibble == Word \div 16
Reads  == (0 .. 8) \cup {10}
Writes == (0 .. 6) \cup {8, 11}

GpuAddr(a) ==
  LET w == a \div Nibble
  IN CASE w < 4                    -> a % (Word \div 4)
       [] w = 4                    -> (w * Nibble) + (a % (Nibble \div 2))
       [] w \in {5, 6, 7, 8}       -> (w * Nibble) + (a % (<<128, 64, 2, 16>>[w - 4]))
       [] w = 10                   -> (11 * Nibble) + 14
       [] w = 11                   -> (11 * Nibble) + 2
       [] OTHER                    -> 0

Read8(c, a) ==
  IF ~c.f18a THEN At(c.mem, a)
  ELSE IF (a \div Nibble) \in Reads THEN At(c.mem, GpuAddr(a)) ELSE 0

Put(c, a, v) == [c EXCEPT !.mem = With(c.mem, a, v)]

(* mutant: the window is written as it stands, bit 7 of SR2 with it        *)
TestWrite8(c, a, v) ==
  IF ~c.f18a THEN Put(c, a, v)
  ELSE IF (a \div Nibble) \in Writes THEN Put(c, GpuAddr(a), v) ELSE c

(* The top bit of SR2, in window B, is the GPU's: a program keeps it.      *)
Write8(c, a, v) ==
  LET at   == GpuAddr(a)
      half == Byte \div 2
      mine == (v % half) + ((At(c.mem, at) \div half) * half)
  IN IF ~c.f18a THEN Put(c, a, v)
     ELSE IF (a \div Nibble) \notin Writes THEN c
     ELSE Put(c, at, IF at = (11 * Nibble) + 2 THEN mine ELSE v)

Read16(c, a)     == (Read8(c, a) * Byte) + Read8(c, (a + 1) % Word)
Write16(c, a, v) == Write8(Write8(c, a, v \div Byte), (a + 1) % Word, v % Byte)

(* A write that lands in the DMA port runs the transfer, once its trigger  *)
(* is set (gpuDmaWatch).                                                   *)
WatchWrite(c, addr) ==
  LET at == IF c.f18a THEN GpuAddr(addr) ELSE addr
  IN IF at - (at % 32) = Port /\ At(c.mem, Port + 8) # 0
     THEN [c EXCEPT !.mem = TriggerGpuDma(c.mem)] ELSE c

(* The workspace goes round the windows, and runs past the end of the map. *)
WpAddr(c, r)    == c.wp + (2 * r)
GetReg(c, r)    == AtWord(c.mem, WpAddr(c, r))
SetReg(c, r, v) == Put(Put(c, WpAddr(c, r), v \div Byte), WpAddr(c, r) + 1, v % Byte)

Fetched(c) == [c EXCEPT !.pc = (@ + 2) % Word]

-----------------------------------------------------------------------------
(* Operands: the machine after the decoding (an index word fetched, a      *)
(* register stepped), the place and its value.                             *)
Decode(c, f, byte) ==
  LET reg == GetReg(c, f.r)
      raw == IF f.m # "idx" THEN reg
             ELSE ((IF f.r = 0 THEN 0 ELSE reg) + f.x) % Word
      at  == IF byte THEN raw ELSE Even(raw)
      after == CASE f.m = "idx" -> Fetched(c)
                 [] f.m = "inc" -> SetReg(c, f.r, (reg + (IF byte THEN 1 ELSE 2)) % Word)
                 [] OTHER       -> c
  IN IF f.m = "reg"
     THEN [c |-> c, m |-> "reg", r |-> f.r, at |-> WpAddr(c, f.r), byte |-> byte,
           val |-> IF byte THEN At(c.mem, WpAddr(c, f.r)) ELSE reg]
     ELSE [c |-> after, m |-> f.m, r |-> f.r, at |-> at, byte |-> byte,
           val |-> IF byte THEN Read8(after, at) ELSE Read16(after, at)]

Store(c, o, v) ==
  CASE o.m = "reg" /\ o.byte  -> Put(c, o.at, v)
    [] o.m = "reg" /\ ~o.byte -> SetReg(c, o.r, v)
    [] o.m # "reg" /\ o.byte  -> WatchWrite(Write8(c, o.at, v), o.at)
    [] o.m # "reg" /\ ~o.byte -> WatchWrite(Write16(c, o.at, v), o.at)

Target(o) == Even(o.at)

-----------------------------------------------------------------------------
(* Words and bytes bit by bit.                                             *)
Size(byte) == IF byte THEN Byte ELSE Word

And(a, b, byte) ==
  LET bits == IF byte THEN ByteBits ELSE 2 * ByteBits
      top[k \in 0 .. bits] ==
        IF k = 0 THEN 0
        ELSE (2 * top[k - 1]) + (((a \div 2 ^ (bits - k)) % 2) * ((b \div 2 ^ (bits - k)) % 2))
  IN top[bits]

Not(a, byte)    == Size(byte) - 1 - a
Ior(a, b, byte) == Not(And(Not(a, byte), Not(b, byte), byte), byte)
Xor(a, b, byte) == And(Ior(a, b, byte), Not(And(a, b, byte), byte), byte)

(* Flags and arithmetic: a result is [v, st].                              *)
OddParity(v) == Cardinality({i \in 0 .. ByteBits - 1 : (v \div 2 ^ i) % 2 = 1}) % 2 = 1

Order(v, size) ==
  CASE v = 0                       -> {"EQ"}
    [] v # 0 /\ v < size \div 2    -> {"LGT", "AGT"}
    [] v # 0 /\ v >= size \div 2   -> {"LGT"}

(* set_flags_word keeps carry, overflow and parity; set_flags_byte sets    *)
(* the parity too.                                                         *)
Flagged(st, v, byte) ==
  IF byte
  THEN [v |-> v, st |-> (st \cap {"C", "OV"}) \cup Order(v, Byte)
                         \cup (IF OddParity(v) THEN {"P"} ELSE {})]
  ELSE [v |-> v, st |-> (st \cap {"C", "OV", "P"}) \cup Order(v, Word)]

High(v, size) == v >= size \div 2
If(b, f) == IF b THEN {f} ELSE {}

Add(st, a, b, byte) ==
  LET size == Size(byte)
      r    == (a + b) % size
      ov   == High(a, size) = High(b, size) /\ High(a, size) # High(r, size)
  IN Flagged((st \cap {"P"}) \cup If(a + b >= size, "C") \cup If(ov, "OV"), r, byte)

Sub(st, a, b, byte) ==
  LET size == Size(byte)
      r    == (a - b) % size
      ov   == High(a, size) # High(b, size) /\ High(a, size) # High(r, size)
  IN Flagged((st \cap {"P"}) \cup If(a >= b, "C") \cup If(ov, "OV"), r, byte)

(* cmp16 and cmp8: the byte form takes the parity of its source.           *)
Compare(st, a, b, byte) ==
  LET size == Size(byte)
      kept == IF byte THEN (st \cap {"C", "OV"}) \cup If(OddParity(a), "P")
              ELSE st \cap {"C", "OV", "P"}
  IN kept \cup If(a = b, "EQ") \cup If(a > b, "LGT")
       \cup If(Signed(a, size) > Signed(b, size), "AGT")

(* The shifts, by 1 to the whole width.                                    *)
Shifted(op, st, v, n) ==
  LET bits  == 2 * ByteBits
      p     == 2 ^ n
      wide  == Signed(v, Word)
      left  == wide * p
      slaV  == left % Word
      Bit(x, i) == (x \div 2 ^ i) % 2 = 1
      turned(k) == ((v \div 2 ^ k) + (v * 2 ^ (bits - k))) % Word
      keep  == st \cap {"OV", "P"}
  IN CASE op = "SLA" -> Flagged((st \cap {"P"}) \cup If(Bit(left, bits), "C")
                                  \cup If(left # Signed(slaV, Word), "OV"), slaV, FALSE)
       [] op = "SRA" -> Flagged(keep \cup If(Bit(wide, n - 1), "C"), (wide \div p) % Word, FALSE)
       [] op = "SRL" -> Flagged(keep \cup If(Bit(v, n - 1), "C"), v \div p, FALSE)
       [] op = "SRC" -> Flagged(keep \cup If(Bit(v, n - 1), "C"), turned(n), FALSE)
       [] op = "SLC" -> Flagged(keep \cup If(Bit(v, bits - n), "C"), turned(bits - n), FALSE)

-----------------------------------------------------------------------------
(* The status register as the byte BLWP, RTWP and STST move: its six flags; *)
(* the two low bits, which no instruction tests, are left out.              *)
FlagBits == <<"LGT", "AGT", "EQ", "C", "OV", "P">>
StByte(st) ==
  LET Value(i) == IF FlagBits[i] \in st THEN 2 ^ (ByteBits - i) ELSE 0
  IN Value(1) + Value(2) + Value(3) + Value(4) + Value(5) + Value(6)
StFlags(b) == {FlagBits[i] : i \in {j \in 1 .. 6 : (b \div 2 ^ (ByteBits - j)) % 2 = 1}}

Flags(c, st)     == [c EXCEPT !.st = st]
ToReg(c, r, res) == Flags(SetReg(c, r, res.v), res.st)
ToPlace(o, res)  == Flags(Store(o.c, o, res.v), res.st)
Logical(c, v, byte) == Flagged(c.st, v, byte)
Jump(c, to)      == [c EXCEPT !.pc = to % Word]

(* handle_immediate_system: LI to LREX, the register in s.r.               *)
ImmediateOps == {"LI", "AI", "ANDI", "ORI", "CI", "STWP", "STST", "LWPI", "LIMI",
                 "IDLE", "RTWP", "CKON"}

Immediate(c, i) ==
  LET f == Fetched(c)
      r == i.s.r
      v == GetReg(f, r)
  IN CASE i.op = "LI"   -> ToReg(f, r, Logical(f, i.n, FALSE))
       [] i.op = "AI"   -> ToReg(f, r, Add(f.st, v, i.n, FALSE))
       [] i.op = "ANDI" -> ToReg(f, r, Logical(f, And(v, i.n, FALSE), FALSE))
       [] i.op = "ORI"  -> ToReg(f, r, Logical(f, Ior(v, i.n, FALSE), FALSE))
       [] i.op = "CI"   -> Flags(f, Compare(f.st, v, i.n, FALSE))
       [] i.op = "LWPI" -> [f EXCEPT !.wp = Even(i.n)]
       [] i.op = "LIMI" -> f
       [] i.op = "STWP" -> SetReg(c, r, c.wp)
       [] i.op = "STST" -> SetReg(c, r, StByte(c.st) * Byte)
       [] i.op = "IDLE" -> [c EXCEPT !.on = FALSE]
       [] i.op = "CKON" -> c
       [] i.op = "RTWP" ->
            [c EXCEPT !.st = StFlags(At(c.mem, c.wp + 30)),
                      !.pc = Even(AtWord(c.mem, c.wp + 28)),
                      !.wp = Even(AtWord(c.mem, c.wp + 26))]

(* handle_branch_group: the condition of every jump, over the flags.       *)
JumpOps == {"JMP", "JLT", "JLE", "JEQ", "JHE", "JGT", "JNE", "JNC", "JOC", "JNO",
            "JL", "JH", "JOP", "SBO", "TB"}

(* mutant: JLE tests the signed flag                                       *)
TestTaken(op, st) ==
  CASE op = "JMP" -> TRUE
    [] op = "JLT" -> "AGT" \notin st /\ "EQ" \notin st
    [] op = "JLE" -> "AGT" \notin st \/ "EQ" \in st
    [] op = "JEQ" -> "EQ" \in st
    [] op = "JHE" -> "LGT" \in st \/ "EQ" \in st
    [] op = "JGT" -> "AGT" \in st
    [] op = "JNE" -> "EQ" \notin st
    [] op = "JNC" -> "C" \notin st
    [] op = "JOC" -> "C" \in st
    [] op = "JNO" -> "OV" \notin st
    [] op = "JL"  -> "LGT" \notin st /\ "EQ" \notin st
    [] op = "JH"  -> "LGT" \in st /\ "EQ" \notin st
    [] op = "JOP" -> "P" \in st
    [] OTHER      -> FALSE

Taken(op, st) ==
  CASE op = "JMP" -> TRUE
    [] op = "JLT" -> "AGT" \notin st /\ "EQ" \notin st
    [] op = "JLE" -> "LGT" \notin st \/ "EQ" \in st
    [] op = "JEQ" -> "EQ" \in st
    [] op = "JHE" -> "LGT" \in st \/ "EQ" \in st
    [] op = "JGT" -> "AGT" \in st
    [] op = "JNE" -> "EQ" \notin st
    [] op = "JNC" -> "C" \notin st
    [] op = "JOC" -> "C" \in st
    [] op = "JNO" -> "OV" \notin st
    [] op = "JL"  -> "LGT" \notin st /\ "EQ" \notin st
    [] op = "JH"  -> "LGT" \in st /\ "EQ" \notin st
    [] op = "JOP" -> "P" \in st
    [] OTHER      -> FALSE

(* A jump to itself stops the core; a test of the CRU finds nothing.       *)
Branch(c, i) ==
  CASE i.op = "JMP" /\ i.n = -1 -> [Jump(c, c.pc - 2) EXCEPT !.on = FALSE]
    [] i.op = "TB"              -> Flags(c, c.st \ {"EQ"})
    [] OTHER -> IF Taken(i.op, c.st) THEN Jump(c, c.pc + (2 * i.n)) ELSE c

(* handle_shift_rotate: a count of zero is R0's, and zero there is all.    *)
ShiftOps == {"SRA", "SRL", "SLA", "SRC", "SLC"}

ShiftCount(c, i) ==
  LET bits == 2 * ByteBits
      n    == IF i.n = 0 THEN GetReg(c, 0) % bits ELSE i.n
  IN IF n = 0 THEN bits ELSE n

Shift(c, i) == ToReg(c, i.s.r, Shifted(i.op, c.st, GetReg(c, i.s.r), ShiftCount(c, i)))

(* PIX (in handle_format9): the flags in the destination register's high   *)
(* byte, x in the source's high byte and y in its low one.  Two bits a     *)
(* pixel, a row of the bitmap starting on a byte of its own.               *)
Pixels == ByteBits \div 2 \* in a byte

(* mutant: the stride rounds down                                          *)
TestPixStride(c) == At(c.mem, (6 * Nibble) + 35) \div Pixels

PixStride(c) == (((At(c.mem, (6 * Nibble) + 35) - 1) % Byte) \div Pixels) + 1

PixAddr(c, x, y) ==
  ((At(c.mem, (6 * Nibble) + 32) * 2 ^ (ByteBits - 2)) + (y * PixStride(c)) + (x \div Pixels))
    % (Word \div 4)

PixShift(x) == ByteBits - 2 - (2 * (x % Pixels))
PixAt(mem, a, x) == (At(mem, a) \div 2 ^ PixShift(x)) % 4

Pix(c, dreg, xy) ==
  LET flags == GetReg(c, dreg)
      high  == flags \div Byte
      Has(b) == (high \div 2 ^ b) % 2 = 1
      x     == xy \div Byte
      y     == xy % Byte
      a     == PixAddr(c, x, y)
      was   == PixAt(c.mem, a, x)
      same  == was = (flags \div 16) % 4
      write == ~Has(2) /\ (Has(1) => (same <=> Has(0)))
      page  == IF (At(c.mem, (6 * Nibble) + 4) \div 4) % 2 = 1 THEN Word \div 8 ELSE 0
      drawn == At(c.mem, a) + (((flags % 4) - was) * 2 ^ PixShift(x))
      painted == IF write THEN WatchWrite(Put(c, a, drawn), a) ELSE c
  IN IF Has(ByteBits - 1)
     THEN SetReg(c, dreg, ((y \div 8) * Byte) + (x - (x % 8)) + (y % 8) + page)
     ELSE IF Has(ByteBits - 2) THEN SetReg(c, dreg, a)
     ELSE IF Has(3) THEN SetReg(painted, dreg, (flags - (flags % 4)) + was)
     ELSE painted

(* handle_format9: a source and a register, in d.r.                        *)
Format9Ops == {"COC", "CZC", "XOR", "PIX", "MPY", "DIV"}

(* mutant: only a quotient far too large is refused                        *)
TestDivides(c, d, by) == GetReg(c, d) <= by /\ by # 0

Divides(c, d, by) == GetReg(c, d) < by

Format9(c0, i) ==
  LET o == Decode(c0, i.s, FALSE)
      c == o.c
      d == i.d.r
      v == GetReg(c, d)
      Equal(b) == Flags(c, IF b THEN c.st \cup {"EQ"} ELSE c.st \ {"EQ"})
      Pair(hi, lo) == SetReg(SetReg(c, d, hi), d + 1, lo)
      dividend == (v * Word) + GetReg(c, d + 1)
  IN CASE i.op = "COC" -> Equal(And(v, o.val, FALSE) = o.val)
       [] i.op = "CZC" -> Equal(And(v, o.val, FALSE) = 0)
       [] i.op = "XOR" -> ToReg(c, d, Logical(c, Xor(v, o.val, FALSE), FALSE))
       [] i.op = "PIX" -> Pix(c, d, o.val)
       [] i.op = "MPY" -> Pair((v * o.val) \div Word, (v * o.val) % Word)
       [] i.op = "DIV" ->
            IF Divides(c, d, o.val)
            THEN Flags(Pair((dividend \div o.val) % Word, dividend % o.val), c.st \ {"OV"})
            ELSE Flags(c, c.st \cup {"OV"})

(* handle_f18a_stack: the stack grows down from R15, a pushed word is at   *)
(* the old stack pointer.                                                  *)
StackOps == {"CALL", "RET", "PUSH", "POP"}

(* mutant: CALL pushes at the new stack pointer                            *)
TestPushed(c, v) ==
  LET sp == Even(GetReg(c, 15))
  IN Write16(SetReg(c, 15, (sp - 2) % Word), (sp - 2) % Word, v)

Pushed(c, v) ==
  LET sp == Even(GetReg(c, 15))
  IN Write16(SetReg(c, 15, (sp - 2) % Word), sp, v)

Stack(c0, i) ==
  LET o  == Decode(c0, i.s, FALSE)
      c  == IF i.op = "RET" THEN c0 ELSE o.c
      sp == (Even(GetReg(c, 15)) + 2) % Word
      up == SetReg(c, 15, sp)
  IN CASE i.op = "CALL" -> Jump(Pushed(c, c.pc), Target(o))
       [] i.op = "RET"  -> Jump(up, Even(Read16(c, sp)))
       [] i.op = "PUSH" -> Pushed(c, o.val)
       [] i.op = "POP"  -> Store(up, o, Read16(up, sp))

(* handle_two_operand: words and bytes, MOV and MOVB without a read of the *)
(* destination.                                                            *)
WordOps == {"SZC", "S", "C", "A", "MOV", "SOC"}
ByteOps == {"SZCB", "SB", "CB", "AB", "MOVB", "SOCB"}

TwoOperand(c0, i) ==
  LET byte == i.op \in ByteOps
      s == Decode(c0, i.s, byte)
      o == Decode(s.c, i.d, byte)
      c == o.c
      res == CASE i.op \in {"SZC", "SZCB"} -> Logical(c, And(o.val, Not(s.val, byte), byte), byte)
               [] i.op \in {"S", "SB"}     -> Sub(c.st, o.val, s.val, byte)
               [] i.op \in {"A", "AB"}     -> Add(c.st, o.val, s.val, byte)
               [] i.op \in {"MOV", "MOVB"} -> Logical(c, s.val, byte)
               [] i.op \in {"SOC", "SOCB"} -> Logical(c, Ior(o.val, s.val, byte), byte)
  IN IF i.op \in {"C", "CB"} THEN Flags(c, Compare(c.st, s.val, o.val, byte))
     ELSE ToPlace(o, res)

(* handle_jump_single: one operand.  BLWP saves the old context in the new *)
(* workspace; BL leaves its return in R11; X executes its operand.         *)
SingleOps == {"BLWP", "B", "X", "CLR", "NEG", "INV", "INC", "INCT", "DEC", "DECT", "BL",
              "SWPB", "SETO", "ABS", "LDCR"}

Switch(c, o) ==
  LET wp  == Even(o.val)
      in  == Write16(Write16(Write16([c EXCEPT !.wp = wp], (wp + 26) % Word, c.wp),
                             (wp + 28) % Word, c.pc),
                     (wp + 30) % Word, StByte(c.st) * Byte)
      to  == IF o.m = "reg" THEN AtWord(in.mem, o.at + 2) ELSE Read16(in, (o.at + 2) % Word)
  IN [in EXCEPT !.pc = Even(to)]

Single(c, i) ==
  LET o   == Decode(c, i.s, FALSE)
      v   == o.val
      st  == o.c.st
      neg == (-v) % Word
      kept == [v |-> v, st |-> Order(v, Word) \cup If(v = Sign, "OV") \cup (st \cap {"P"})]
  IN CASE i.op = "BLWP" -> Switch(o.c, o)
       [] i.op = "B"    -> Jump(o.c, Target(o))
       [] i.op = "BL"   -> Jump(SetReg(o.c, 11, o.c.pc), Target(o))
       [] i.op = "CLR"  -> Store(o.c, o, 0)
       [] i.op = "SETO" -> Store(o.c, o, Word - 1)
       [] i.op = "SWPB" -> Store(o.c, o, ((v % Byte) * Byte) + (v \div Byte))
       [] i.op = "INV"  -> ToPlace(o, Logical(o.c, Not(v, FALSE), FALSE))
       [] i.op = "INC"  -> ToPlace(o, Add(st, v, 1, FALSE))
       [] i.op = "INCT" -> ToPlace(o, Add(st, v, 2, FALSE))
       [] i.op = "DEC"  -> ToPlace(o, Sub(st, v, 1, FALSE))
       [] i.op = "DECT" -> ToPlace(o, Sub(st, v, 2, FALSE))
       [] i.op = "NEG"  -> IF v = Sign THEN Flags(o.c, kept.st)
                           ELSE ToPlace(o, Flagged((st \cap {"P"}) \cup If(v = 0, "C"), neg, FALSE))
       [] i.op = "ABS"  -> IF High(v, Word) /\ v # Sign THEN Flags(Store(o.c, o, neg), kept.st)
                           ELSE Flags(o.c, kept.st)
       [] i.op = "LDCR" -> c

-----------------------------------------------------------------------------
(* X dispatches its operand as run9900_budget_c would, and that one's if   *)
(* it is an X again, without the stop IDLE and JMP $ ask for: Reached is   *)
(* the machine that executes the last of i.x.                              *)
Dispatch(c, i) ==
  CASE i.op \in ImmediateOps         -> Immediate(c, i)
    [] i.op \in JumpOps              -> Branch(c, i)
    [] i.op \in ShiftOps             -> Shift(c, i)
    [] i.op \in Format9Ops           -> Format9(c, i)
    [] i.op \in StackOps             -> Stack(c, i)
    [] i.op \in WordOps \cup ByteOps -> TwoOperand(c, i)
    [] i.op \in SingleOps \ {"X"}    -> Single(c, i)

Reached(c, i) ==
  LET after[k \in 1 .. Len(i.x)] ==
        IF k = 1 THEN Decode(c, i.s, FALSE).c ELSE Decode(after[k - 1], i.x[k - 1].s, FALSE).c
  IN after[Len(i.x)]

JumpSingle(c, i) ==
  IF i.op # "X" THEN Single(c, i)
  ELSE [Dispatch(Reached(c, i), i.x[Len(i.x)]) EXCEPT !.on = TRUE]

-----------------------------------------------------------------------------
(* The program's own account of its calls: what each must come back to.    *)
(* A workspace entered twice, or a stack used under a BLWP (its R15 is the *)
(* saved status), is the program's mistake and forgets the older calls.    *)
Length(i) == 2 * (1 + (IF i.s.m = "idx" THEN 1 ELSE 0) + (IF i.d.m = "idx" THEN 1 ELSE 0))
LeafReturn(i) == i.op = "B" /\ i.s.m = "ind" /\ i.s.r = 11
InContext == \E k \in DOMAIN frames : frames[k].kind = "BLWP"

Frame(c, i) ==
  [kind |-> i.op, pc |-> (c.pc + Length(i)) % Word, wp |-> c.wp, st |-> c.st,
   sp |-> Even(GetReg(c, 15)), val |-> Decode(c, i.s, FALSE).val]

Closes(i) ==
  /\ frames # <<>>
  /\ \/ i.op = "RET"  /\ Head(frames).kind = "CALL"
     \/ i.op = "POP"  /\ Head(frames).kind = "PUSH"
     \/ i.op = "RTWP" /\ Head(frames).kind = "BLWP"
     \/ LeafReturn(i) /\ Head(frames).kind = "BL"

FramesAfter(i, after) ==
  LET here    == Frame(cpu, i)
      entered == {frames[k].wp : k \in DOMAIN frames} \cup {cpu.wp}
      NotLeaf(f) == ~(f.kind = "BL" /\ f.wp = cpu.wp)
  IN CASE InContext /\ i.op \in StackOps -> <<>>
       [] i.op \in {"CALL", "PUSH"} /\ ~InContext -> <<here>> \o frames
       [] i.op = "BL"   -> <<here>> \o SelectSeq(frames, NotLeaf)
       [] i.op = "BLWP" -> IF after.wp \in entered THEN <<here>> ELSE <<here>> \o frames
       [] Closes(i) /\ ~(InContext /\ i.op \in StackOps) -> Tail(frames)
       [] ~Closes(i) /\ (i.op \in {"RTWP", "LWPI"} \/ (i.op \in StackOps /\ ~InContext)) -> <<>>
       [] OTHER -> frames

-----------------------------------------------------------------------------
(* What a machine is, and what the decoder can make of an opcode's fields. *)
FlagNames == {"LGT", "AGT", "EQ", "C", "OV", "P"}
AnyByte   == 0 .. Byte - 1
AnyWord   == 0 .. Word - 1

IsMachine(c) ==
  /\ c \in [pc : AnyWord, wp : AnyWord, st : SUBSET FlagNames, mem : {c.mem},
            f18a : BOOLEAN, on : BOOLEAN]
  /\ c.mem \in [DOMAIN c.mem -> AnyByte]

Operands == [m : {"reg", "ind", "inc", "idx"}, r : 0 .. 15, x : AnyWord]
AllOps   == ImmediateOps \cup JumpOps \cup ShiftOps \cup Format9Ops \cup StackOps
            \cup WordOps \cup ByteOps \cup SingleOps

IsFields(i) ==
  /\ i \in [op : AllOps, s : Operands, d : Operands, n : Int, x : {i.x}]
  /\ i.op \in ImmediateOps \cup ShiftOps => i.s.m = "reg"
  /\ i.op \in ImmediateOps => i.n \in AnyWord
  /\ i.op \in ShiftOps => i.n \in 0 .. (2 * ByteBits) - 1

IsInstruction(i) ==
  /\ IsFields(i)
  /\ i.op = "X" =>
       /\ i.x # <<>> /\ i.x \in Seq({i.x[k] : k \in DOMAIN i.x})
       /\ \A k \in 1 .. Len(i.x) :
            IsFields(i.x[k]) /\ (i.x[k].op = "X") = (k < Len(i.x))

IsStream(s) ==
  /\ s \in Seq({s[k] : k \in DOMAIN s})
  /\ \A k \in DOMAIN s : \A i \in s[k] : IsInstruction(i)

ASSUME ScenesAssumption == \A sc \in Scenes : IsMachine(sc.cpu) /\ IsStream(sc.code)

-----------------------------------------------------------------------------
Init ==
  \E sc \in Scenes :
    /\ cpu = sc.cpu /\ twin = sc.cpu /\ code = sc.code
    /\ saved = <<>> /\ last = <<>> /\ frames = <<>>

(* A turn of run9900_budget_c's loop: an instruction is fetched, the        *)
(* handler of its group called, and the stream moves on.                   *)
Running == cpu.on /\ saved = <<>> /\ code # <<>>

Turn(i) ==
  /\ last'   = <<i>>
  /\ frames' = FramesAfter(i, cpu')
  /\ code'   = Tail(code)
  /\ UNCHANGED saved

Run(ops, Handle(_, _)) ==
  /\ Running
  /\ \E i \in Head(code) :
       /\ i.op \in ops
       /\ cpu'  = Handle(Fetched(cpu), i)
       /\ twin' = Handle(Fetched(twin), i)
       /\ Turn(i)

HandleImmediateSystem == Run(ImmediateOps, Immediate)
HandleJumpSingle      == Run(SingleOps, JumpSingle)
HandleBranchGroup     == Run(JumpOps, Branch)
HandleShiftRotate     == Run(ShiftOps, Shift)
HandleFormat9         == Run(Format9Ops, Format9)
HandleF18aStack       == Run(StackOps, Stack)
HandleTwoOperand      == Run(WordOps \cup ByteOps, TwoOperand)

(* The budget runs out between two instructions: run9900Budget keeps the   *)
(* program counter, the workspace and the status, and its core is gone.    *)
SliceEnds ==
  /\ Running /\ last # <<>>
  /\ saved' = <<[pc |-> cpu.pc, wp |-> cpu.wp, st |-> cpu.st]>>
  /\ cpu' = [cpu EXCEPT !.pc = 0, !.wp = 0, !.st = {}]
  /\ UNCHANGED <<code, last, twin, frames>>

(* mutant: the next slice starts with the status tms9900_init gives it     *)
TestResumed(kept) == [cpu EXCEPT !.pc = kept.pc, !.wp = kept.wp, !.st = {}]

Resumed(kept) == [cpu EXCEPT !.pc = kept.pc, !.wp = kept.wp, !.st = kept.st]

SliceStarts ==
  /\ saved # <<>>
  /\ cpu' = Resumed(saved[1])
  /\ saved' = <<>>
  /\ UNCHANGED <<code, last, twin, frames>>

Next ==
  \/ HandleImmediateSystem \/ HandleJumpSingle \/ HandleBranchGroup \/ HandleShiftRotate
  \/ HandleFormat9 \/ HandleF18aStack \/ HandleTwoOperand
  \/ SliceEnds \/ SliceStarts

Spec == Init /\ [][Next]_vars

-----------------------------------------------------------------------------
(* What the instructions are for.  Each property looks at one step, from   *)
(* the machine before the instruction to the one after it.                 *)
Executed(i) == code' # code /\ last' = <<i>>

(* Cutting a program into slices changes nothing it can see: wherever the  *)
(* budget ran out, the machine is the one that was never stopped.          *)
SlicedEqualsWhole == saved = <<>> => cpu = twin

(* A jump after a comparison goes where the order of the two numbers says, *)
(* as words, as bytes, signed or not, also when a slice ended in between.  *)
(* The numbers are read again, so no operand is one that steps a register. *)
Comparison(i) == i.op \in {"C", "CB", "CI"} /\ i.s.m # "inc" /\ i.d.m # "inc"

Compared(i) ==
  [a |-> Decode(cpu, i.s, i.op = "CB").val,
   b |-> IF i.op = "CI" THEN i.n ELSE Decode(cpu, i.d, i.op = "CB").val]

Holds(op, a, b, size) ==
  CASE op = "JEQ" -> a = b
    [] op = "JNE" -> a # b
    [] op = "JL"  -> a < b
    [] op = "JLE" -> a <= b
    [] op = "JH"  -> a > b
    [] op = "JHE" -> a >= b
    [] op = "JLT" -> Signed(a, size) < Signed(b, size)
    [] op = "JGT" -> Signed(a, size) > Signed(b, size)
    [] op = "JMP" -> TRUE

JumpsFollowTheCompare ==
  [][\A j \in Head(code) :
       (/\ last # <<>> /\ Comparison(last[1])
        /\ Executed(j) /\ j.op \in {"JEQ", "JNE", "JL", "JLE", "JH", "JHE", "JLT", "JGT", "JMP"})
       => LET v == Compared(last[1])
              to == IF Holds(j.op, v.a, v.b, Size(last[1].op = "CB")) THEN 2 * j.n ELSE 0
          IN cpu'.pc = (cpu.pc + 2 + to) % Word]_vars

(* A call comes back: every kind of return restores the place, the stack   *)
(* and the context its call left, however the calls are nested, while the   *)
(* stack is in memory (on an F18A it may be in a window that is not).      *)
CallsReturn ==
  [][\A i \in Head(code) :
       (Executed(i) /\ ~cpu.f18a /\ Closes(i) /\ ~(InContext /\ i.op \in StackOps))
       => LET f == Head(frames)
          IN CASE f.kind = "BLWP" -> cpu'.pc = f.pc /\ cpu'.wp = f.wp /\ cpu'.st = f.st
               [] f.kind = "BL"   -> cpu'.pc = f.pc
               [] f.kind = "CALL" -> cpu'.pc = f.pc /\ GetReg(cpu', 15) = f.sp
               [] f.kind = "PUSH" -> /\ Decode(cpu', i.s, FALSE).val = f.val
                                     /\ GetReg(cpu', 15) = f.sp]_vars

(* Arithmetic on integers: the exact result of an instruction, the carry,  *)
(* and what the flags say of it.  Operands are the decoder's, the second   *)
(* after the first; a result is read where the code put it.                *)
First(i, byte)  == Decode(cpu, i.s, byte)
Second(i, byte) == Decode(First(i, byte).c, i.d, byte)

Stored(c, o) ==
  CASE o.m = "reg" /\ o.byte  -> At(c.mem, o.at)
    [] o.m = "reg" /\ ~o.byte -> GetReg(c, o.r)
    [] o.m # "reg" /\ o.byte  -> Read8(c, o.at)
    [] o.m # "reg" /\ ~o.byte -> Read16(c, o.at)

InPort(o) == o.m # "reg" /\ o.at \in Port .. Port + 31

SumOps  == {"A", "AB", "S", "SB", "AI", "INC", "INCT", "DEC", "DECT", "NEG", "ABS"}

Exact(i, s, d, size) ==
  CASE i.op \in {"A", "AB"} -> [v |-> Signed(d, size) + Signed(s, size), c |-> d + s >= size]
    [] i.op \in {"S", "SB"} -> [v |-> Signed(d, size) - Signed(s, size), c |-> d >= s]
    [] i.op = "AI"          -> [v |-> Signed(s, size) + Signed(i.n, size), c |-> s + i.n >= size]
    [] i.op = "INC"         -> [v |-> Signed(s, size) + 1, c |-> s + 1 >= size]
    [] i.op = "INCT"        -> [v |-> Signed(s, size) + 2, c |-> s + 2 >= size]
    [] i.op = "DEC"         -> [v |-> Signed(s, size) - 1, c |-> s >= 1]
    [] i.op = "DECT"        -> [v |-> Signed(s, size) - 2, c |-> s >= 2]
    [] i.op = "NEG"         -> [v |-> -Signed(s, size), c |-> s = 0]
    [] i.op = "ABS"         -> [v |-> IF High(s, size) THEN -Signed(s, size) ELSE s, c |-> FALSE]

FlagsTell(st, v) ==
  /\ ("EQ" \in st) = (v = 0)
  /\ ("LGT" \in st) = (v # 0)
  /\ ("AGT" \in st) = (v > 0)

SumIsExact(i) ==
  LET byte == i.op \in ByteOps
      two  == i.op \in {"A", "AB", "S", "SB"}
      size == Size(byte)
      s    == First(i, byte).val
      o    == IF two THEN Second(i, byte) ELSE First(i, byte)
      x    == Exact(i, s, o.val, size)
      r    == Stored(cpu', o)
  IN ~InPort(o) =>
       /\ r = x.v % size
       /\ ("OV" \in cpu'.st) = (x.v \notin -(size \div 2) .. (size \div 2) - 1)
       /\ ("C" \in cpu'.st) = x.c
       /\ FlagsTell(cpu'.st, Signed(IF i.op = "ABS" THEN s ELSE r, size))

(* A shift by n is n shifts by one, the carry the last bit that fell out   *)
(* and SLA's overflow a sign that changed on the way.                      *)
Bit(v, k) == (v \div 2 ^ k) % 2

OneShift(op, v) ==
  LET top == Bit(v, (2 * ByteBits) - 1)
  IN CASE op \in {"SLA"} -> (v * 2) % Word
       [] op = "SLC"     -> ((v * 2) % Word) + top
       [] op = "SRL"     -> v \div 2
       [] op = "SRA"     -> (v \div 2) + (top * Sign)
       [] op = "SRC"     -> (v \div 2) + (Bit(v, 0) * Sign)

ShiftIsStepwise(i) ==
  LET n     == ShiftCount(cpu, i)
      left  == i.op \in {"SLA", "SLC"}
      step[k \in 0 .. n] ==
        IF k = 0 THEN [v |-> GetReg(cpu, i.s.r), c |-> 0, ov |-> FALSE]
        ELSE LET t == step[k - 1]
                 v == OneShift(i.op, t.v)
             IN [v  |-> v,
                 c  |-> IF left THEN Bit(t.v, (2 * ByteBits) - 1) ELSE Bit(t.v, 0),
                 ov |-> t.ov \/ High(v, Word) # High(t.v, Word)]
      e == step[n]
  IN /\ GetReg(cpu', i.s.r) = e.v
     /\ ("C" \in cpu'.st) = (e.c = 1)
     /\ ("OV" \in cpu'.st) = (IF i.op = "SLA" THEN e.ov ELSE "OV" \in cpu.st)
     /\ FlagsTell(cpu'.st, Signed(e.v, Word))

ProductIsExact(i) ==
  LET s  == First(i, FALSE).val
      hi == GetReg(First(i, FALSE).c, i.d.r)
      lo == GetReg(First(i, FALSE).c, i.d.r + 1)
      q  == GetReg(cpu', i.d.r)
      r  == GetReg(cpu', i.d.r + 1)
      fits == s # 0 /\ ((hi * Word) + lo) \div s < Word
  IN IF i.op = "MPY" THEN (q * Word) + r = hi * s
     ELSE /\ ("OV" \in cpu'.st) = ~fits
          /\ IF fits THEN (q * s) + r = (hi * Word) + lo /\ r < s ELSE q = hi /\ r = lo

(* Every arithmetic instruction computes on integers, at every edge of the *)
(* word and of the byte: result, carry, overflow and the order flags (on a *)
(* PICO9918, where every operand is memory; a sum written to the DMA port  *)
(* may be what a transfer then writes over).                               *)
ArithmeticExact ==
  [][\A i \in Head(code) :
       (Executed(i) /\ ~cpu.f18a)
       => /\ i.op \in SumOps => SumIsExact(i)
          /\ i.op \in ShiftOps => ShiftIsStepwise(i)
          /\ i.op \in {"MPY", "DIV"} => ProductIsExact(i)]_vars

(* PIX writes the pixel the renderer shows at that place of the bitmap     *)
(* layer (bitmap_layer_scan_line) and no other, for a pixel of the layer,  *)
(* which lies in VRAM; on its conditions, and reads back what was there.   *)
ShownStride(c) ==
  LET w == At(c.mem, (6 * Nibble) + 35)
  IN IF w = 0 THEN ((Byte + Pixels) - 1) \div Pixels ELSE ((w + Pixels) - 1) \div Pixels

ShownAt(c, x, y) ==
  LET base == At(c.mem, (6 * Nibble) + 32) * 2 ^ (ByteBits - 2)
  IN PixAt(c.mem, base + (y * ShownStride(c)) + (x \div Pixels), x)

PixPaintsWhatIsShown ==
  [][\A i \in Head(code) :
       LET xy     == Decode(cpu, i.s, FALSE).val
           x      == xy \div Byte
           y      == xy % Byte
           flags  == GetReg(cpu, i.d.r)
           Has(b) == Bit(flags \div Byte, b) = 1
           was    == ShownAt(cpu, x, y)
           equal  == was = (flags \div 16) % 4
           asked  == ~Has(2) /\ (~Has(1) \/ (Has(0) /\ equal) \/ (~Has(0) /\ ~equal))
           Layer  == {p \in (0 .. (4 * Pixels) - 1) \X (0 .. 2) : p[1] < ShownStride(cpu) * Pixels}
       IN (Executed(i) /\ i.op = "PIX" /\ flags < Word \div 4 /\ <<x, y>> \in Layer)
          => /\ \A p \in Layer :
                  ShownAt(cpu', p[1], p[2]) =
                    IF asked /\ p = <<x, y>> THEN flags % 4 ELSE ShownAt(cpu, p[1], p[2])
             /\ Has(3) => GetReg(cpu', i.d.r) % 4 = was]_vars

(* A transfer the program triggers is the engine's, byte for byte and in   *)
(* its order, whichever of the four ways the code took, and the trigger    *)
(* is clear again before the next instruction.  An F18A reaches the port   *)
(* through its window; the transfer itself walks the whole map.            *)
DmaWalks ==
  [][\A i \in Head(code) :
       LET byte  == i.op = "MOVB"
           s     == Decode(cpu, i.s, byte)
           o     == Decode(s.c, i.d, byte)
           at    == IF cpu.f18a THEN GpuAddr(o.at) ELSE o.at
           wrote == (IF byte THEN Write8(o.c, o.at, s.val) ELSE Write16(o.c, o.at, s.val)).mem
       IN (Executed(i) /\ i.op \in {"MOV", "MOVB"} /\ i.d.m # "reg" /\ at \in Port .. Port + 31)
          => SameMemory(cpu'.mem, IF At(wrote, Port + 8) = 0 THEN wrote ELSE EngineWalk(wrote))]_vars

(* The memory an F18A has, and bit 7 of SR2, which is the GPU's own.       *)
RealBytes ==
  (0 .. (Word \div 4) - 1) \cup (4 * Nibble .. (4 * Nibble) + (Nibble \div 2) - 1)
  \cup (5 * Nibble .. (5 * Nibble) + 127) \cup (6 * Nibble .. (6 * Nibble) + 63)
  \cup (8 * Nibble .. (8 * Nibble) + 15) \cup {(11 * Nibble) + 2}

PartKept ==
  /\ \A a \in DOMAIN cpu'.mem \ RealBytes :
       At(cpu'.mem, a) = At(cpu.mem, a) \/ a \in cpu.wp .. cpu.wp + 33
  /\ LET sr2 == (11 * Nibble) + 2
     IN High(At(cpu'.mem, sr2), Byte) = High(At(cpu.mem, sr2), Byte)

(* The instruction may start a transfer: its destination is in the port's  *)
(* window, and is the trigger itself, or finds it set, or may find it set  *)
(* because the workspace lies over it.                                     *)
MayTransfer(i) ==
  LET x == i.op = "X"
      j == IF x THEN i.x[Len(i.x)] ELSE i
      s == Decode(IF x THEN Reached(cpu, i) ELSE cpu, j.s, j.op \in ByteOps)
      o == IF j.op \in WordOps \cup ByteOps THEN Decode(s.c, j.d, j.op \in ByteOps) ELSE s
      trigger == Port + 8
  IN /\ o.m # "reg" /\ o.at \div Nibble = 8
     /\ \/ GpuAddr(o.at) = trigger \/ At(cpu.mem, trigger) # 0
        \/ trigger \in cpu.wp .. cpu.wp + 33

(* An instruction of an F18A program that starts no transfer changes       *)
(* nothing but the memory the part has and its workspace, and never the    *)
(* GPU's busy bit in SR2.                                                  *)
PartKeepsItsMemory ==
  [][cpu.f18a => \A i \in Head(code) : Executed(i) /\ ~MayTransfer(i) => PartKept]_vars

(* Of a transfer this is not true: gpu.c writes the map as it stands, the  *)
(* absent windows and all of SR2 with it, which no write of the core does. *)
(* Refuted by TLC, stated and not a run.                                   *)
TransfersKeepPart == [][cpu.f18a /\ code' # code => PartKept]_vars
=============================================================================
