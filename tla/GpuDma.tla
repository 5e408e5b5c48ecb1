------------------------------- MODULE GpuDma -------------------------------
(***************************************************************************)
(* The GPU's DMA engine, src/gpu/gpu.c: one transfer, taken from the port  *)
(* at >8000 when a program writes its trigger.  The code walks a rectangle *)
(* in one of four ways; EngineWalk is the engine they all stand for, one   *)
(* byte at a time with a counter that wraps.                               *)
(* Memory is sparse: a byte outside the function's domain is zero.         *)
(***************************************************************************)
EXTENDS Integers, Sequences

CONSTANT ByteBits \* width of a byte; a word is two of them (the code: 8)

ASSUME ByteBitsAssumption == ByteBits \in 6 .. 8

Byte == 2 ^ ByteBits
Word == Byte * Byte
Port == Word \div 2 \* >8000

At(mem, a)      == IF a \in DOMAIN mem THEN mem[a] ELSE 0
AtWord(mem, a)  == At(mem, a) * Byte + At(mem, a + 1)
Signed(v, size) == IF v < size \div 2 THEN v ELSE v - size

(* Memory after other bytes came over it: all of new, or v alone at a.     *)
Over(new, mem) ==
  [a \in DOMAIN new \cup DOMAIN mem |-> IF a \in DOMAIN new THEN new[a] ELSE mem[a]]
With(mem, a, v) == Over([b \in {a} |-> v], mem)

-----------------------------------------------------------------------------
(* The registers of the port: a zero width or height is a whole byte.      *)
Transfer(mem) ==
  LET Counter(a) == IF At(mem, a) = 0 THEN Byte ELSE At(mem, a)
      params     == At(mem, Port + 7)
      inc        == IF (params \div 2) % 2 = 1 THEN -1 ELSE 1
      wm1        == Counter(Port + 4) - 1
      stride     == At(mem, Port + 6)
      diff       == Signed((IF inc < 0 THEN wm1 - stride ELSE stride - wm1) % Byte, Byte)
  IN [src    |-> AtWord(mem, Port),     dst    |-> AtWord(mem, Port + 2),
      width  |-> wm1 + 1,               height |-> Counter(Port + 5),
      dstInc |-> inc,                   srcInc |-> IF params % 2 = 1 THEN 0 ELSE inc,
      pitch  |-> (wm1 * inc) + diff,    diff   |-> diff]

(* mutant: the reach of the first row is taken for the whole transfer's    *)
TestReach(t, a) ==
  LET row == (t.width - 1) * t.dstInc
  IN [lo |-> a + (IF row < 0 THEN row ELSE 0), hi |-> a + (IF row > 0 THEN row ELSE 0)]

(* How far the transfer reaches either side of its start, each axis        *)
(* counting whichever way it runs.                                         *)
Reach(t, a) ==
  LET row     == (t.width - 1) * t.dstInc
      col     == (t.height - 1) * t.pitch
      Neg(v)  == IF v < 0 THEN v ELSE 0
      Pos(v)  == IF v > 0 THEN v ELSE 0
  IN [lo |-> a + Neg(row) + Neg(col), hi |-> a + Pos(row) + Pos(col)]

Leaves(r)   == r.lo < 0 \/ r.hi >= Word
Apart(r, q) == r.lo > q.hi \/ q.lo > r.hi

(* The byte offsets of a transfer, row by row, and bytes copied one after *)
(* the other (dmaWrapped, and the last branch of triggerGpuDma).           *)
Cells(t) == [i \in 1 .. t.width * t.height |->
               [x |-> (i - 1) % t.width, y |-> (i - 1) \div t.width]]

Copied(mem, moves) ==
  LET reached == DOMAIN mem \cup {moves[k].to : k \in 1 .. Len(moves)}
      after[k \in 0 .. Len(moves)] ==
        IF k = 0 THEN [a \in reached |-> At(mem, a)]
        ELSE LET before == after[k - 1]
             IN [before EXCEPT ![moves[k].to] = At(before, moves[k].from)]
  IN after[Len(moves)]

MoveOf(t, c) ==
  [from |-> (IF t.srcInc = 0 THEN t.src ELSE t.src + (c.x * t.srcInc) + (c.y * t.pitch)) % Word,
   to   |-> (t.dst + (c.x * t.dstInc) + (c.y * t.pitch)) % Word]

Walk(mem, t) == Copied(mem, [i \in 1 .. t.width * t.height |-> MoveOf(t, Cells(t)[i])])

(* memset and memcpy of whole rows, from the row's lowest address.         *)
Rows(t) ==
  LET first == IF t.dstInc < 0 THEN 1 - t.width ELSE 0
  IN {first + (c.y * t.pitch) + c.x : c \in {Cells(t)[i] : i \in DOMAIN Cells(t)}}

Fill(mem, t) == Over([a \in {t.dst + o : o \in Rows(t)} |-> At(mem, t.src)], mem)
Move(mem, t) == Over([a \in {t.dst + o : o \in Rows(t)} |-> At(mem, (a - t.dst) + t.src)], mem)
Cleared(mem) == Over([a \in {Port + 8, Port + 9} |-> 0], mem)

(* triggerGpuDma: the way is chosen by the reach, the trigger is cleared.  *)
TriggerGpuDma(mem) ==
  LET t   == Transfer(mem)
      dst == Reach(t, t.dst)
      src == Reach(t, t.src)
      moved ==
        IF Leaves(dst) \/ (t.srcInc # 0 /\ Leaves(src)) THEN Walk(mem, t)
        ELSE IF t.srcInc = 0 THEN Fill(mem, t)
        ELSE IF Apart(dst, src) THEN Move(mem, t) ELSE Walk(mem, t)
  IN Cleared(moved)

-----------------------------------------------------------------------------
(* The engine: two counters of a word's width.  Every byte moves them by   *)
(* the increment, the last byte of a row by the eight-bit difference of    *)
(* stride and width instead; a fill's source counter never moves.          *)
Counters(t) ==
  LET at[k \in 1 .. t.width * t.height] ==
        IF k = 1 THEN [from |-> t.src, to |-> t.dst]
        ELSE LET e  == at[k - 1]
                 by == IF Cells(t)[k - 1].x = t.width - 1 THEN t.diff ELSE t.dstInc
             IN [from |-> IF t.srcInc = 0 THEN e.from ELSE (e.from + by) % Word,
                 to   |-> (e.to + by) % Word]
  IN at

EngineWalk(mem) == Cleared(Copied(mem, Counters(Transfer(mem))))

SameMemory(m, n) == \A a \in DOMAIN m \cup DOMAIN n : At(m, a) = At(n, a)
=============================================================================
