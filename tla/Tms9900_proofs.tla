--------------------------- MODULE Tms9900_proofs ---------------------------
(***************************************************************************)
(* The GPU's processor for every width the assumption allows and every     *)
(* program.                                                                *)
(***************************************************************************)
EXTENDS Tms9900, FiniteSetTheorems, SequenceTheorems, TLAPS

-----------------------------------------------------------------------------
(* An instruction of any group: what one turn of the loop does to a        *)
(* machine.                                                                *)
Execute(c, i) ==
  IF i.op # "X" THEN Dispatch(Fetched(c), i)
  ELSE [Dispatch(Reached(Fetched(c), i), i.x[Len(i.x)]) EXCEPT !.on = TRUE]

-----------------------------------------------------------------------------
(* The widths a byte may have, and what they make of a word.               *)
LEMMA Widths ==
  \/ ByteBits = 6 /\ Byte = 64 /\ Word = 4096
  \/ ByteBits = 7 /\ Byte = 128 /\ Word = 16384
  \/ ByteBits = 8 /\ Byte = 256 /\ Word = 65536
<1>1. CASE ByteBits = 6 BY <1>1 DEF Byte, Word
<1>2. CASE ByteBits = 7 BY <1>2 DEF Byte, Word
<1>3. CASE ByteBits = 8 BY <1>3 DEF Byte, Word
<1> QED BY <1>1, <1>2, <1>3, ByteBitsAssumption

(* Memory after a write is memory, whose other bytes are as they were.     *)
LEMMA OverFacts ==
  ASSUME NEW new, NEW mem
  PROVE  /\ DOMAIN Over(new, mem) = DOMAIN new \cup DOMAIN mem
         /\ \A a \in DOMAIN new : At(Over(new, mem), a) = new[a]
         /\ \A a : a \notin DOMAIN new => At(Over(new, mem), a) = At(mem, a)
         /\ (new \in [DOMAIN new -> AnyByte] /\ mem \in [DOMAIN mem -> AnyByte])
              => Over(new, mem) \in [DOMAIN Over(new, mem) -> AnyByte]
BY DEF Over, At

(* Writing one byte changes that byte alone and leaves a memory of bytes.  *)
LEMMA WithFacts ==
  ASSUME NEW mem, mem \in [DOMAIN mem -> AnyByte], NEW a \in Nat, NEW v \in AnyByte
  PROVE  /\ With(mem, a, v) \in [DOMAIN With(mem, a, v) -> AnyByte]
         /\ At(With(mem, a, v), a) = v
         /\ \A b \in Nat : b # a => At(With(mem, a, v), b) = At(mem, b)
BY DEF With, Over, At

(* A byte of memory is a byte, two are a word.                             *)
LEMMA AtFacts ==
  ASSUME NEW mem, mem \in [DOMAIN mem -> AnyByte], NEW a
  PROVE  At(mem, a) \in AnyByte /\ AtWord(mem, a) \in AnyWord
<1>1. 0 \in AnyByte
  BY Widths DEF AnyByte
<1>2. At(mem, a) \in AnyByte /\ At(mem, a + 1) \in AnyByte
  BY <1>1 DEF At
<1> QED BY <1>2, Widths DEF AtWord, AnyByte, AnyWord

(* What a step of a program may do to a machine besides changing memory.   *)
OnlyMemory(c, d) == /\ d.pc = c.pc /\ d.wp = c.wp /\ d.st = c.st
                    /\ d.f18a = c.f18a /\ d.on = c.on

(* The fields of a machine and the ranges they keep.                       *)
LEMMA MachineFields ==
  ASSUME NEW c, IsMachine(c)
  PROVE  /\ c.pc \in AnyWord /\ c.wp \in AnyWord /\ c.st \in SUBSET FlagNames
         /\ c.f18a \in BOOLEAN /\ c.on \in BOOLEAN /\ c.mem \in [DOMAIN c.mem -> AnyByte]
BY DEF IsMachine

(* Replacing one field of a machine by a value in range gives a machine.   *)
LEMMA MachineParts ==
  ASSUME NEW c, IsMachine(c)
  PROVE  /\ \A m : m \in [DOMAIN m -> AnyByte] =>
              /\ IsMachine([c EXCEPT !.mem = m]) /\ OnlyMemory(c, [c EXCEPT !.mem = m])
              /\ [c EXCEPT !.mem = m].mem = m
         /\ \A p \in AnyWord : IsMachine([c EXCEPT !.pc = p])
         /\ \A p \in AnyWord : IsMachine([c EXCEPT !.wp = p])
         /\ \A s \in SUBSET FlagNames : IsMachine([c EXCEPT !.st = s])
         /\ IsMachine([c EXCEPT !.on = FALSE]) /\ IsMachine([c EXCEPT !.on = TRUE])
BY DEF IsMachine, OnlyMemory

(* One byte put in the machine's memory: nothing else of the machine       *)
(* moves.                                                                  *)
LEMMA PutFacts ==
  ASSUME NEW c, IsMachine(c), NEW a \in Nat, NEW v \in AnyByte
  PROVE  /\ IsMachine(Put(c, a, v)) /\ OnlyMemory(c, Put(c, a, v))
         /\ At(Put(c, a, v).mem, a) = v
         /\ \A b \in Nat : b # a => At(Put(c, a, v).mem, b) = At(c.mem, b)
<1>1. c.mem \in [DOMAIN c.mem -> AnyByte]
  BY MachineFields
<1>2. With(c.mem, a, v) \in [DOMAIN With(c.mem, a, v) -> AnyByte]
  BY <1>1, WithFacts
<1>3. /\ IsMachine(Put(c, a, v)) /\ OnlyMemory(c, Put(c, a, v))
      /\ Put(c, a, v).mem = With(c.mem, a, v)
  BY <1>2, MachineParts DEF Put
<1> QED BY <1>1, <1>3, WithFacts

-----------------------------------------------------------------------------
(* A word in memory and a register is one; what is written is read again.  *)
LEMMA Halves ==
  ASSUME NEW v \in AnyWord
  PROVE  v \div Byte \in AnyByte /\ v % Byte \in AnyByte /\ ((v \div Byte) * Byte) + (v % Byte) = v
BY Widths DEF AnyByte, AnyWord

(* A workspace register holds a word, whatever it lies on.                 *)
LEMMA GetRegFacts ==
  ASSUME NEW c, IsMachine(c), NEW r
  PROVE  GetReg(c, r) \in AnyWord
BY MachineFields, AtFacts DEF GetReg

(* Two bytes put at two places: both are there, nothing else has moved.    *)
LEMMA TwoPuts ==
  ASSUME NEW c, IsMachine(c), NEW a \in Nat, NEW b \in Nat, a # b,
         NEW v \in AnyByte, NEW w \in AnyByte
  PROVE  /\ IsMachine(Put(Put(c, a, v), b, w)) /\ OnlyMemory(c, Put(Put(c, a, v), b, w))
         /\ At(Put(Put(c, a, v), b, w).mem, a) = v /\ At(Put(Put(c, a, v), b, w).mem, b) = w
         /\ \A x \in Nat : (x # a /\ x # b) => At(Put(Put(c, a, v), b, w).mem, x) = At(c.mem, x)
<1>1. PICK d : d = Put(c, a, v)
  OBVIOUS
<1>2. PICK e : e = Put(d, b, w)
  OBVIOUS
<1>3. IsMachine(d) /\ OnlyMemory(c, d) /\ At(d.mem, a) = v
  BY <1>1, PutFacts
<1>4. \A x \in Nat : x # a => At(d.mem, x) = At(c.mem, x)
  BY <1>1, PutFacts
<1>5. IsMachine(e) /\ OnlyMemory(d, e) /\ At(e.mem, b) = w
  BY <1>2, <1>3, PutFacts
<1>6. \A x \in Nat : x # b => At(e.mem, x) = At(d.mem, x)
  BY <1>2, <1>3, PutFacts, SMTT(60)
<1>7. OnlyMemory(c, e)
  BY <1>3, <1>5 DEF OnlyMemory
<1>8. At(e.mem, a) = v
  BY <1>3, <1>6
<1>9. \A x \in Nat : (x # a /\ x # b) => At(e.mem, x) = At(c.mem, x)
  BY <1>4, <1>6
<1> QED BY <1>1, <1>2, <1>5, <1>7, <1>8, <1>9

(* A register is read back as it was written, and only its two bytes are   *)
(* written.                                                                *)
LEMMA SetRegFacts ==
  ASSUME NEW c, IsMachine(c), NEW r \in Nat, NEW v \in AnyWord
  PROVE  /\ IsMachine(SetReg(c, r, v)) /\ OnlyMemory(c, SetReg(c, r, v))
         /\ GetReg(SetReg(c, r, v), r) = v
         /\ \A b \in Nat : (b # WpAddr(c, r) /\ b # WpAddr(c, r) + 1) =>
              At(SetReg(c, r, v).mem, b) = At(c.mem, b)
<1>3. WpAddr(c, r) \in Nat
  BY MachineFields, Widths DEF WpAddr, AnyWord
<1>1. PICK a \in Nat, b \in Nat : a = WpAddr(c, r) /\ b = a + 1
  BY <1>3
<1>2. PICK hi \in AnyByte, lo \in AnyByte : hi = v \div Byte /\ lo = v % Byte /\ (hi * Byte) + lo = v
  BY Halves
<1>4. a # b
  BY <1>1
<1>5. PICK e : e = Put(Put(c, a, hi), b, lo)
  OBVIOUS
<1>6. /\ IsMachine(e) /\ OnlyMemory(c, e) /\ At(e.mem, a) = hi /\ At(e.mem, b) = lo
      /\ \A x \in Nat : (x # a /\ x # b) => At(e.mem, x) = At(c.mem, x)
  BY <1>4, <1>5, TwoPuts
<1>7. SetReg(c, r, v) = e
  BY <1>1, <1>2, <1>5 DEF SetReg
<1>8. WpAddr(e, r) = a
  BY <1>1, <1>6 DEF WpAddr, OnlyMemory
<1>9. GetReg(e, r) = v
  BY <1>1, <1>2, <1>6, <1>8 DEF GetReg, AtWord
<1> QED BY <1>1, <1>6, <1>7, <1>9

(* What the processor reads is a byte or a word.                           *)
LEMMA ReadFacts ==
  ASSUME NEW c, IsMachine(c), NEW a
  PROVE  Read8(c, a) \in AnyByte /\ Read16(c, a) \in AnyWord
<1>1. 0 \in AnyByte
  BY Widths DEF AnyByte
<1>2. \A b : Read8(c, b) \in AnyByte
  BY <1>1, MachineFields, AtFacts DEF Read8
<1> QED BY <1>2, Widths DEF Read16, AnyByte, AnyWord

(* The addresses the chip answers are natural numbers.                     *)
LEMMA AddressFacts ==
  ASSUME NEW a \in Nat
  PROVE  GpuAddr(a) \in Nat /\ (a + 1) % Word \in Nat
<1>1. Nibble \in Nat /\ Word \in Nat /\ Word > 0 /\ Word \div 4 > 0 /\ Nibble \div 2 > 0
  BY Widths DEF Nibble
<1>2. a \div Nibble \in Nat
  BY Widths DEF Nibble
<1>3. (a + 1) % Word \in Nat
  BY <1>1
<1>4. CASE a \div Nibble < 4
  <2>1. GpuAddr(a) = a % (Word \div 4)
    BY <1>2, <1>4 DEF GpuAddr
  <2> QED BY <1>1, <1>3, <2>1
<1>5. CASE a \div Nibble = 4
  <2>1. GpuAddr(a) = ((a \div Nibble) * Nibble) + (a % (Nibble \div 2))
    BY <1>2, <1>5 DEF GpuAddr
  <2> QED BY <1>1, <1>3, <1>5, <2>1
<1>6. CASE a \div Nibble \in {5, 6, 7, 8}
  <2>1. PICK n : n = <<128, 64, 2, 16>>[(a \div Nibble) - 4]
    OBVIOUS
  <2>2. n \in {128, 64, 2, 16}
    BY <1>6, <2>1
  <2>3. GpuAddr(a) = ((a \div Nibble) * Nibble) + (a % n)
    BY <1>2, <1>6, <2>1 DEF GpuAddr
  <2>4. a % n \in Nat
    BY <2>2
  <2> QED BY <1>1, <1>3, <1>6, <2>3, <2>4
<1>7. CASE a \div Nibble \in {10, 11}
  <2>1. GpuAddr(a) \in {(11 * Nibble) + 14, (11 * Nibble) + 2}
    BY <1>2, <1>7 DEF GpuAddr
  <2> QED BY <1>1, <1>3, <2>1
<1>8. CASE a \div Nibble = 9 \/ a \div Nibble > 11
  <2>1. GpuAddr(a) = 0
    BY <1>2, <1>8 DEF GpuAddr
  <2> QED BY <1>3, <2>1
<1> QED BY <1>2, <1>4, <1>5, <1>6, <1>7, <1>8

(* A byte written, on either personality of the part.                      *)
LEMMA Write8Facts ==
  ASSUME NEW c, IsMachine(c), NEW a \in Nat, NEW v \in AnyByte
  PROVE  /\ IsMachine(Write8(c, a, v)) /\ OnlyMemory(c, Write8(c, a, v))
         /\ ~c.f18a => Write8(c, a, v) = Put(c, a, v)
<1> DEFINE at == GpuAddr(a)
<1> DEFINE half == Byte \div 2
<1> DEFINE mine == (v % half) + ((At(c.mem, at) \div half) * half)
<1>1. At(c.mem, at) \in AnyByte
  BY MachineFields, AtFacts
<1>2. mine \in AnyByte
  <2> HIDE DEF at
  <2> QED BY <1>1, Widths DEF AnyByte
<1>3. OnlyMemory(c, c)
  BY DEF OnlyMemory
<1>4. CASE ~c.f18a
  <2>1. Write8(c, a, v) = Put(c, a, v)
    BY <1>4 DEF Write8
  <2> QED BY <2>1, PutFacts
<1>5. CASE c.f18a /\ (a \div Nibble) \notin Writes
  <2>1. Write8(c, a, v) = c
    BY <1>5 DEF Write8
  <2> QED BY <2>1, <1>3, <1>5
<1>6. CASE c.f18a /\ (a \div Nibble) \in Writes
  <2>1. PICK w \in AnyByte : Write8(c, a, v) = Put(c, at, w)
    BY <1>2, <1>6 DEF Write8
  <2> HIDE DEF at, mine
  <2>2. at \in Nat
    BY AddressFacts DEF at
  <2> QED BY <2>1, <2>2, <1>2, <1>6, PutFacts
<1> QED BY <1>4, <1>5, <1>6

(* A word written, on either personality of the part.                      *)
LEMMA Write16Facts ==
  ASSUME NEW c, IsMachine(c), NEW a \in Nat, NEW v \in AnyWord
  PROVE  IsMachine(Write16(c, a, v)) /\ OnlyMemory(c, Write16(c, a, v))
<1> DEFINE d == Write8(c, a, v \div Byte)
<1>1. IsMachine(d) /\ OnlyMemory(c, d)
  BY Halves, Write8Facts
<1> HIDE DEF d
<1>2. IsMachine(Write8(d, (a + 1) % Word, v % Byte)) /\ OnlyMemory(d, Write8(d, (a + 1) % Word, v % Byte))
  BY <1>1, Halves, Write8Facts, AddressFacts
<1> QED BY <1>1, <1>2 DEF Write16, OnlyMemory, d

-----------------------------------------------------------------------------
(* A nonempty set of naturals has a least element: what stands in for      *)
(* induction in this module.                                               *)
LEMMA LeastNatural ==
  ASSUME NEW T, T \subseteq Nat, T # {}
  PROVE  \E x \in T : \A y \in T : x <= y
<1> DEFINE Below == {0 .. x - 1 : x \in T}
<1>1. Below \subseteq FiniteSubsetsOf(Nat) /\ Below # {}
  <2>1. ASSUME NEW x \in T PROVE 0 .. x - 1 \in FiniteSubsetsOf(Nat)
    <3>1. 0 .. x - 1 \subseteq Nat /\ x - 1 \in Int
      OBVIOUS
    <3>2. IsFiniteSet(0 .. x - 1)
      BY <3>1, FS_Interval
    <3> QED BY <3>1, <3>2 DEF FiniteSubsetsOf
  <2> QED BY <2>1
<1>2. PICK least \in Below : \A c \in Below : ~(<<c, least>> \in StrictSubsetOrdering(Nat))
  <2> HIDE DEF Below
  <2> QED BY <1>1, FS_StrictSubsetOrderingWellFounded, WFMin, Zenon
<1>3. PICK x \in T : least = 0 .. x - 1
  OBVIOUS
<1>4. ASSUME NEW y \in T, y < x PROVE FALSE
  <2>1. 0 .. y - 1 \in Below OBVIOUS
  <2>2. 0 .. y - 1 \subseteq 0 .. x - 1 /\ 0 .. x - 1 \subseteq Nat /\ 0..y-1 \subseteq Nat
    BY <1>4
  <2>3. y \in 0 .. x - 1 /\ y \notin 0 .. y - 1
    BY <1>4
  <2>4. <<0 .. y - 1, 0 .. x - 1>> \in StrictSubsetOrdering(Nat)
    <3>1. <<0 .. y - 1, 0 .. x - 1>> \in (SUBSET Nat) \X (SUBSET Nat)
      BY <2>2
    <3>2. 0 .. y - 1 # 0 .. x - 1 BY <2>3, Zenon
    <3> QED BY <2>2, <3>1, <3>2 DEF StrictSubsetOrdering
  <2> QED BY <2>1, <2>4, <1>2, <1>3
<1> QED BY <1>3, <1>4

(* Induction over 0 .. N for a set of numbers, from the least number       *)
(* outside it.                                                             *)
LEMMA Induction ==
  ASSUME NEW N \in Nat, NEW G, 0 \in G, \A k \in 1 .. N : k - 1 \in G => k \in G
  PROVE  \A k \in 0 .. N : k \in G
<1> DEFINE T == (0 .. N) \ G
<1>1. SUFFICES ASSUME T # {} PROVE FALSE
  OBVIOUS
<1>2. T \subseteq Nat
  OBVIOUS
<1>3. PICK k \in T : \A y \in T : k <= y
  <2> HIDE DEF T
  <2> QED BY <1>1, <1>2, LeastNatural
<1>4. k \in 1 .. N /\ k - 1 \in 0 .. N /\ ~(k <= k - 1)
  OBVIOUS
<1> QED BY <1>3, <1>4

(* Copied follows its own equation, and each of its steps is memory.       *)
Copies(mem, moves, f) ==
  f = [k \in 0 .. Len(moves) |->
        IF k = 0 THEN [a \in DOMAIN mem \cup {moves[j].to : j \in 1 .. Len(moves)} |-> At(mem, a)]
        ELSE [f[k - 1] EXCEPT ![moves[k].to] = At(f[k - 1], moves[k].from)]]

(* The recursive function that copies a list of moves one by one exists.   *)
LEMMA CopiesExist ==
  ASSUME NEW mem, NEW moves, Len(moves) \in Nat
  PROVE  \E f : Copies(mem, moves, f) /\ Copied(mem, moves) = f[Len(moves)]
<1> DEFINE first == [a \in DOMAIN mem \cup {moves[j].to : j \in 1 .. Len(moves)} |-> At(mem, a)]
<1> DEFINE next(b, k) == [b EXCEPT ![moves[k].to] = At(b, moves[k].from)]
<1> DEFINE To(n, f) == f = [k \in 0 .. n |-> IF k = 0 THEN first ELSE next(f[k - 1], k)]
<1> DEFINE Bad == {n \in Nat : ~\E f : To(n, f)}
<1>1. ASSUME Bad # {} PROVE FALSE
  <2> HIDE DEF first, next
  <2>1. PICK n \in Bad : \A m \in Bad : n <= m
    BY <1>1, LeastNatural
  <2>2. n # 0
    <3>1. To(0, [k \in 0 .. 0 |-> first])
      OBVIOUS
    <3> QED BY <3>1, <2>1
  <2>3. PICK f : To(n - 1, f)
    BY <2>1, <2>2
  <2> DEFINE g == [k \in 0 .. n |-> IF k = n THEN next(f[n - 1], n) ELSE f[k]]
  <2>4. To(n, g)
    <3>1. \A k \in 0 .. n - 1 : g[k] = f[k]
      OBVIOUS
    <3>2. \A k \in 0 .. n : g[k] = IF k = 0 THEN first ELSE next(g[k - 1], k)
      BY <2>1, <2>2, <2>3, <3>1
    <3> QED BY <3>2
  <2> QED BY <2>1, <2>4
<1>2. \E f : To(Len(moves), f)
  BY <1>1
<1>3. \E f : Copies(mem, moves, f)
  BY <1>2 DEF Copies
<1> DEFINE f == CHOOSE x : Copies(mem, moves, x)
<1>4. Copies(mem, moves, f)
  BY <1>3
<1>5. Copied(mem, moves) = f[Len(moves)]
  BY DEF Copied, Copies
<1> QED BY <1>4, <1>5

(* A copy whose sources are never overwritten with anything else is the    *)
(* one assignment v: what the four ways of the engine have in common.      *)
LEMMA CopiedIsOver ==
  ASSUME NEW mem, NEW moves, Len(moves) \in Nat, NEW v,
         DOMAIN v = {moves[i].to : i \in 1 .. Len(moves)},
         \A i \in 1 .. Len(moves) : v[moves[i].to] = At(mem, moves[i].from),
         \A i \in 1 .. Len(moves) : moves[i].from \in DOMAIN v =>
            v[moves[i].from] = At(mem, moves[i].from)
  PROVE  \A a : At(Copied(mem, moves), a) = At(Over(v, mem), a)
<1> DEFINE N == Len(moves)
<1> DEFINE reached == DOMAIN mem \cup DOMAIN v
<1>1. PICK f : Copies(mem, moves, f) /\ Copied(mem, moves) = f[N]
  BY CopiesExist
<1> DEFINE Done(k) == {moves[i].to : i \in 1 .. k}
<1> DEFINE Right(k) ==
      /\ DOMAIN f[k] = reached
      /\ \A a \in reached : f[k][a] = IF a \in Done(k) THEN v[a] ELSE At(mem, a)
<1>2. Right(0)
  <2>1. f[0] = [a \in reached |-> At(mem, a)]
    BY <1>1 DEF Copies
  <2>2. Done(0) = {}
    OBVIOUS
  <2> QED BY <2>1, <2>2
<1>3. ASSUME NEW k \in 1 .. N, Right(k - 1) PROVE Right(k)
  <2> DEFINE to == moves[k].to
  <2> DEFINE from == moves[k].from
  <2>1. f[k] = [f[k - 1] EXCEPT ![to] = At(f[k - 1], from)]
    <3>1. k \in 0 .. N /\ k # 0
      OBVIOUS
    <3>2. \A j \in 0 .. N : j # 0 => f[j] = [f[j - 1] EXCEPT ![moves[j].to] = At(f[j - 1], moves[j].from)]
      BY <1>1, Zenon DEF Copies
    <3> QED BY <3>1, <3>2
  <2>2. to \in DOMAIN v /\ v[to] = At(mem, from) /\ (from \in DOMAIN v => v[from] = At(mem, from))
    OBVIOUS
  <2>3. Done(k) = Done(k - 1) \cup {to}
    OBVIOUS
  <2>4. Done(k - 1) \subseteq DOMAIN v
    OBVIOUS
  <2> HIDE DEF to, from, Done
  <2>5. At(f[k - 1], from) = At(mem, from)
    <3>1. CASE from \in reached
      BY <1>3, <2>2, <2>4, <3>1 DEF At
    <3>2. CASE from \notin reached
      BY <1>3, <3>2 DEF At
    <3> QED BY <3>1, <3>2
  <2>6. DOMAIN f[k] = reached
    BY <1>3, <2>1
  <2>7. ASSUME NEW a \in reached PROVE f[k][a] = IF a \in Done(k) THEN v[a] ELSE At(mem, a)
    <3>1. CASE a = to
      BY <1>3, <2>1, <2>2, <2>3, <2>5, <3>1
    <3>2. CASE a # to
      BY <1>3, <2>1, <2>3, <3>2
    <3> QED BY <3>1, <3>2
  <2> QED BY <2>6, <2>7
<1>4. Right(N)
  <2> DEFINE G == {k \in 0 .. N : Right(k)}
  <2>1. 0 \in G /\ \A k \in 1 .. N : k - 1 \in G => k \in G
    <3> HIDE DEF Right
    <3> QED BY <1>2, <1>3
  <2>2. N \in G
    <3> HIDE DEF G
    <3>1. \A k \in 0 .. N : k \in G
      BY <2>1, Induction
    <3> QED BY <3>1
  <2> HIDE DEF Right
  <2> QED BY <2>2
<1>5. Done(N) = DOMAIN v
  OBVIOUS
<1>6. \A a : At(f[N], a) = IF a \in DOMAIN v THEN v[a] ELSE At(mem, a)
  <2> HIDE DEF Done
  <2> QED BY <1>4, <1>5 DEF At
<1>7. \A a : At(Over(v, mem), a) = IF a \in DOMAIN v THEN v[a] ELSE At(mem, a)
  BY DEF Over, At
<1> QED BY <1>1, <1>6, <1>7

(* A copied memory is memory.                                              *)
LEMMA CopiedMemory ==
  ASSUME NEW mem, mem \in [DOMAIN mem -> AnyByte], NEW moves, Len(moves) \in Nat
  PROVE  Copied(mem, moves) \in [DOMAIN Copied(mem, moves) -> AnyByte]
<1> DEFINE N == Len(moves)
<1>1. PICK f : Copies(mem, moves, f) /\ Copied(mem, moves) = f[N]
  BY CopiesExist
<1> DEFINE Right(k) == f[k] \in [DOMAIN f[k] -> AnyByte]
<1>2. Right(0)
  <2>1. f[0] = [a \in DOMAIN mem \cup {moves[j].to : j \in 1 .. N} |-> At(mem, a)]
    BY <1>1 DEF Copies
  <2> QED BY <2>1, AtFacts
<1>3. ASSUME NEW k \in 1 .. N, Right(k - 1) PROVE Right(k)
  <2>1. f[k] = [f[k - 1] EXCEPT ![moves[k].to] = At(f[k - 1], moves[k].from)]
    <3>1. k \in 0 .. N /\ k # 0
      OBVIOUS
    <3>2. \A j \in 0 .. N : j # 0 => f[j] = [f[j - 1] EXCEPT ![moves[j].to] = At(f[j - 1], moves[j].from)]
      BY <1>1, Zenon DEF Copies
    <3> QED BY <3>1, <3>2
  <2>2. At(f[k - 1], moves[k].from) \in AnyByte
    BY <1>3, AtFacts
  <2> QED BY <1>3, <2>1, <2>2
<1>4. Right(N)
  <2> DEFINE G == {k \in 0 .. N : Right(k)}
  <2>1. 0 \in G /\ \A k \in 1 .. N : k - 1 \in G => k \in G
    <3> HIDE DEF Right
    <3> QED BY <1>2, <1>3
  <2>2. N \in G
    <3> HIDE DEF G
    <3>1. \A k \in 0 .. N : k \in G
      BY <2>1, Induction
    <3> QED BY <3>1
  <2> HIDE DEF Right
  <2> QED BY <2>2
<1> QED BY <1>1, <1>4

-----------------------------------------------------------------------------
(* A transfer's numbers.                                                   *)
LEMMA TransferFacts ==
  ASSUME NEW mem, mem \in [DOMAIN mem -> AnyByte], NEW t, t = Transfer(mem)
  PROVE  /\ t.src \in AnyWord /\ t.dst \in AnyWord
         /\ t.width \in 1 .. Byte /\ t.height \in 1 .. Byte
         /\ t.dstInc \in {-1, 1} /\ t.srcInc \in {0, t.dstInc}
         /\ t.diff \in Int /\ t.pitch \in Int
         /\ t.pitch = ((t.width - 1) * t.dstInc) + t.diff
<1> DEFINE Counter(a) == IF At(mem, a) = 0 THEN Byte ELSE At(mem, a)
<1> DEFINE params == At(mem, Port + 7)
<1> DEFINE inc == IF (params \div 2) % 2 = 1 THEN -1 ELSE 1
<1> DEFINE wm1 == Counter(Port + 4) - 1
<1> DEFINE stride == At(mem, Port + 6)
<1> DEFINE gap == (IF inc < 0 THEN wm1 - stride ELSE stride - wm1) % Byte
<1> DEFINE diff == Signed(gap, Byte)
<1>1. \A a : At(mem, a) \in AnyByte /\ AtWord(mem, a) \in AnyWord
  BY AtFacts
<1>2. \A a : Counter(a) \in 1 .. Byte
  BY <1>1, Widths DEF AnyByte
<1>3. wm1 \in Int /\ stride \in Int /\ inc \in {-1, 1}
  <2>1. Counter(Port + 4) \in 1 .. Byte
    BY <1>2
  <2>2. At(mem, Port + 6) \in AnyByte
    BY <1>1
  <2> QED BY <2>1, <2>2, Widths DEF AnyByte
<1>4. gap \in Int
  <2> HIDE DEF wm1, stride, inc
  <2> QED BY <1>3, Widths
<1>5. diff \in Int
  <2> HIDE DEF gap
  <2> QED BY <1>4, Widths DEF Signed
<1>6. /\ t.src = AtWord(mem, Port) /\ t.dst = AtWord(mem, Port + 2)
      /\ t.width = wm1 + 1 /\ t.height = Counter(Port + 5)
      /\ t.dstInc = inc /\ t.srcInc = (IF params % 2 = 1 THEN 0 ELSE inc)
      /\ t.pitch = (wm1 * inc) + diff /\ t.diff = diff
  BY DEF Transfer
<1>7. wm1 + 1 \in 1 .. Byte
  <2>1. Counter(Port + 4) \in 1 .. Byte
    BY <1>2
  <2> HIDE DEF Counter
  <2> QED BY <2>1, Widths
<1>8. Counter(Port + 5) \in 1 .. Byte /\ AtWord(mem, Port) \in AnyWord /\ AtWord(mem, Port + 2) \in AnyWord
  BY <1>1, <1>2
<1> HIDE DEF Counter, params, inc, wm1, stride, gap, diff
<1>9. t.pitch \in Int /\ t.pitch = ((t.width - 1) * t.dstInc) + t.diff
  <2>1. CASE inc = 1 BY <1>3, <1>5, <1>6, <2>1
  <2>2. CASE inc = -1 BY <1>3, <1>5, <1>6, <2>2
  <2> QED BY <1>3, <2>1, <2>2
<1> QED BY <1>3, <1>5, <1>6, <1>7, <1>8, <1>9

(* The cells of a rectangle are all its places, one after the other.       *)
LEMMA CellFacts ==
  ASSUME NEW t, t.width \in Nat \ {0}, t.height \in Nat \ {0}
  PROVE  /\ t.width * t.height \in Nat
         /\ DOMAIN Cells(t) = 1 .. t.width * t.height
         /\ \A i \in 1 .. t.width * t.height :
              Cells(t)[i].x \in 0 .. t.width - 1 /\ Cells(t)[i].y \in 0 .. t.height - 1
         /\ \A x \in 0 .. t.width - 1, y \in 0 .. t.height - 1 :
              \E i \in 1 .. t.width * t.height : Cells(t)[i].x = x /\ Cells(t)[i].y = y
<1>1. PICK w \in Nat \ {0}, h \in Nat \ {0} : w = t.width /\ h = t.height
  OBVIOUS
<1>2. w * h \in Nat
  OBVIOUS
<1>3. Cells(t) = [i \in 1 .. w * h |-> [x |-> (i - 1) % w, y |-> (i - 1) \div w]]
  BY <1>1 DEF Cells
<1>4. ASSUME NEW i \in 1 .. w * h
      PROVE  Cells(t)[i].x \in 0 .. w - 1 /\ Cells(t)[i].y \in 0 .. h - 1
  <2>1. Cells(t)[i].x = (i - 1) % w /\ Cells(t)[i].y = (i - 1) \div w
    BY <1>3
  <2>2. PICK n \in Nat : n = i - 1 /\ n < w * h
    BY <1>2
  <2>3. PICK q \in Int, r \in 0 .. w - 1 : q = n \div w /\ r = n % w /\ n = (w * q) + r
    OBVIOUS
  <2>4. q >= 0
    <3>1. SUFFICES ASSUME q <= -1 PROVE FALSE
      OBVIOUS
    <3>2. w * q <= -w
      BY <3>1
    <3> QED BY <2>2, <2>3, <3>2
  <2>5. q < h
    <3>1. SUFFICES ASSUME q >= h PROVE FALSE
      OBVIOUS
    <3>2. w * q >= w * h
      BY <3>1
    <3> QED BY <1>2, <2>2, <2>3, <3>2
  <2> QED BY <2>1, <2>2, <2>3, <2>4, <2>5
<1>5. ASSUME NEW x \in 0 .. w - 1, NEW y \in 0 .. h - 1
      PROVE  \E i \in 1 .. w * h : Cells(t)[i].x = x /\ Cells(t)[i].y = y
  <2>1. PICK n \in Nat : n = (w * y) + x
    OBVIOUS
  <2>2. n % w = x /\ n \div w = y
    BY <2>1
  <2>3. n < w * h
    <3>1. w * y <= w * (h - 1)
      OBVIOUS
    <3>2. w * (h - 1) = (w * h) - w
      OBVIOUS
    <3> QED BY <1>2, <2>1, <3>1, <3>2
  <2>4. PICK i \in 1 .. w * h : i - 1 = n
    <3>1. n + 1 \in 1 .. w * h /\ (n + 1) - 1 = n
      BY <1>2, <2>3
    <3> QED BY <3>1
  <2>5. Cells(t)[i].x = (i - 1) % w /\ Cells(t)[i].y = (i - 1) \div w
    BY <1>3
  <2> QED BY <2>2, <2>4, <2>5
<1>6. DOMAIN Cells(t) = 1 .. w * h
  BY <1>3
<1> HIDE <1>3
<1> QED BY <1>1, <1>2, <1>4, <1>5, <1>6

(* A transfer as the following lemmas know it.                             *)
IsTransfer(t) ==
  /\ t.src \in AnyWord /\ t.dst \in AnyWord
  /\ t.width \in 1 .. Byte /\ t.height \in 1 .. Byte
  /\ t.dstInc \in {-1, 1} /\ t.srcInc \in {0, t.dstInc}
  /\ t.diff \in Int /\ t.pitch \in Int
  /\ t.pitch = ((t.width - 1) * t.dstInc) + t.diff

(* The next cell: one further on its row, or the first of the next row.    *)
LEMMA NextCell ==
  ASSUME NEW t, t.width \in Nat \ {0}, t.height \in Nat \ {0},
         NEW k \in 2 .. t.width * t.height
  PROVE  IF Cells(t)[k - 1].x = t.width - 1
         THEN Cells(t)[k].x = 0 /\ Cells(t)[k].y = Cells(t)[k - 1].y + 1
         ELSE Cells(t)[k].x = Cells(t)[k - 1].x + 1 /\ Cells(t)[k].y = Cells(t)[k - 1].y
<1>1. PICK w \in Nat \ {0}, N \in Nat : w = t.width /\ N = t.width * t.height
  <2>1. t.width * t.height \in Nat
    BY CellFacts
  <2> QED BY <2>1
<1>2. PICK n \in Nat : n = k - 2 /\ k - 1 \in 1 .. N /\ k \in 1 .. N /\ (k - 1) - 1 = n /\ k - 1 = n + 1
  BY <1>1
<1>3. \A i \in 1 .. N : Cells(t)[i].x = (i - 1) % w /\ Cells(t)[i].y = (i - 1) \div w
  BY <1>1 DEF Cells
<1>4. /\ Cells(t)[k - 1].x = n % w /\ Cells(t)[k - 1].y = n \div w
      /\ Cells(t)[k].x = (n + 1) % w /\ Cells(t)[k].y = (n + 1) \div w
  BY <1>2, <1>3
<1>5. PICK q \in Int, r \in 0 .. w - 1 : q = n \div w /\ r = n % w /\ n = (w * q) + r
  OBVIOUS
<1>6. CASE r = w - 1
  <2>1. n + 1 = (w * (q + 1)) + 0
    BY <1>5, <1>6
  <2>2. (n + 1) % w = 0 /\ (n + 1) \div w = q + 1
    BY <2>1
  <2> QED BY <1>1, <1>4, <1>5, <1>6, <2>2
<1>7. CASE r # w - 1
  <2>1. n + 1 = (w * q) + (r + 1) /\ r + 1 \in 0 .. w - 1
    BY <1>5, <1>7
  <2>2. (n + 1) % w = r + 1 /\ (n + 1) \div w = q
    BY <2>1
  <2> QED BY <1>1, <1>4, <1>5, <1>7, <2>2
<1> QED BY <1>6, <1>7

(* The counters follow their own equation.                                 *)
Counts(t, f) ==
  f = [k \in 1 .. t.width * t.height |->
        IF k = 1 THEN [from |-> t.src, to |-> t.dst]
        ELSE LET e  == f[k - 1]
                 by == IF Cells(t)[k - 1].x = t.width - 1 THEN t.diff ELSE t.dstInc
             IN [from |-> IF t.srcInc = 0 THEN e.from ELSE (e.from + by) % Word,
                 to   |-> (e.to + by) % Word]]

(* The recursive function of the engine's two counters exists.             *)
LEMMA CountsExist ==
  ASSUME NEW t, t.width * t.height \in Nat
  PROVE  Counts(t, Counters(t))
<1> DEFINE next(e, k) ==
      LET by == IF Cells(t)[k - 1].x = t.width - 1 THEN t.diff ELSE t.dstInc
      IN [from |-> IF t.srcInc = 0 THEN e.from ELSE (e.from + by) % Word,
          to   |-> (e.to + by) % Word]
<1> DEFINE first == [from |-> t.src, to |-> t.dst]
<1> DEFINE To(n, f) == f = [k \in 1 .. n |-> IF k = 1 THEN first ELSE next(f[k - 1], k)]
<1> DEFINE G == {n \in Nat : \E f : To(n, f)}
<1> DEFINE N == t.width * t.height
<1>1. 0 \in G
  <2>1. To(0, [k \in 1 .. 0 |-> first])
    OBVIOUS
  <2> QED BY <2>1
<1>2. ASSUME NEW n \in 1 .. N, n - 1 \in G PROVE n \in G
  <2> HIDE DEF first, next
  <2>1. PICK f : To(n - 1, f)
    BY <1>2
  <2> DEFINE g == [k \in 1 .. n |-> IF k # n THEN f[k] ELSE IF n = 1 THEN first ELSE next(f[n - 1], n)]
  <2>2. To(n, g)
    <3>1. \A k \in 1 .. n - 1 : g[k] = f[k]
      OBVIOUS
    <3>2. \A k \in 1 .. n : g[k] = IF k = 1 THEN first ELSE next(g[k - 1], k)
      BY <2>1, <3>1
    <3> QED BY <3>2
  <2>3. n \in Nat /\ \E h : To(n, h)
    <3>1. n \in Nat
      OBVIOUS
    <3> HIDE DEF g, To
    <3> QED BY <2>2, <3>1
  <2> HIDE DEF To
  <2> QED BY <2>3
<1>3. \E f : To(N, f)
  <2>1. N \in G
    <3> HIDE DEF G
    <3>1. \A k \in 0 .. N : k \in G
      BY <1>1, <1>2, Induction
    <3> QED BY <3>1
  <2> QED BY <2>1
<1>4. \E f : Counts(t, f)
  BY <1>3 DEF Counts
<1>5. Counters(t) = CHOOSE f : Counts(t, f)
  BY DEF Counters, Counts
<1> QED BY <1>4, <1>5

(* A sum that wraps on the way is the sum.                                 *)
LEMMA Wraps ==
  ASSUME NEW a \in Int, NEW b \in Int
  PROVE  ((a % Word) + b) % Word = (a + b) % Word /\ a % Word \in AnyWord
BY Widths DEF AnyWord

(* The engine's counters, moved by one byte after the other, are at every  *)
(* byte where the walk computes it to be.                                  *)
LEMMA CountersAreMoves ==
  ASSUME NEW t, IsTransfer(t), NEW k \in 1 .. t.width * t.height
  PROVE  Counters(t)[k] = MoveOf(t, Cells(t)[k])
<1>1. /\ t.width \in Nat \ {0} /\ t.height \in Nat \ {0} /\ t.src \in Int /\ t.dst \in Int
      /\ t.src % Word = t.src /\ t.dst % Word = t.dst
  <2>1. ASSUME NEW s \in AnyWord PROVE s \in Int /\ s % Word = s
    BY Widths DEF AnyWord
  <2>2. t.src \in AnyWord /\ t.dst \in AnyWord /\ t.width \in 1 .. Byte /\ t.height \in 1 .. Byte
    BY DEF IsTransfer
  <2>3. 1 .. Byte \subseteq Nat \ {0}
    BY Widths
  <2> QED BY <2>1, <2>2, <2>3
<1>2. PICK N \in Nat : N = t.width * t.height
  BY <1>1, CellFacts
<1>3. PICK f : f = Counters(t)
  OBVIOUS
<1> DEFINE c(j) == Cells(t)[j]
<1>4. /\ \A j \in 1 .. N : c(j).x \in Nat /\ c(j).y \in Nat
      /\ 1 <= N => c(1).x = 0 /\ c(1).y = 0
  <2>1. \A j \in 1 .. N : c(j).x \in 0 .. t.width - 1 /\ c(j).y \in 0 .. t.height - 1
    BY <1>1, <1>2, CellFacts
  <2>2. 1 <= N => c(1).x = 0 /\ c(1).y = 0
    <3>1. 1 <= N => c(1).x = (1 - 1) % t.width /\ c(1).y = (1 - 1) \div t.width
      BY <1>2 DEF Cells
    <3>2. PICK w \in Nat \ {0} : w = t.width
      BY <1>1
    <3>3. 0 % w = 0 /\ 0 \div w = 0
      OBVIOUS
    <3> QED BY <3>1, <3>2, <3>3
  <2> QED BY <1>1, <2>1, <2>2
<1> DEFINE G == {j \in Nat : j \in 1 .. N => f[j] = MoveOf(t, c(j))}
<1>5. \A j \in 1 .. N :
        f[j] = IF j = 1 THEN [from |-> t.src, to |-> t.dst]
               ELSE LET e  == f[j - 1]
                        by == IF c(j - 1).x = t.width - 1 THEN t.diff ELSE t.dstInc
                    IN [from |-> IF t.srcInc = 0 THEN e.from ELSE (e.from + by) % Word,
                        to   |-> (e.to + by) % Word]
  <2>1. Counts(t, f)
    BY <1>2, <1>3, CountsExist
  <2> QED BY <1>2, <2>1, Zenon DEF Counts
<1>6. ASSUME NEW j \in 1 .. N, j - 1 \in G PROVE j \in G
  <2>1. CASE j = 1
    <3>1. f[j] = [from |-> t.src, to |-> t.dst]
      BY <1>5, <2>1
    <3>2. c(j).x = 0 /\ c(j).y = 0
      BY <1>4, <2>1
    <3>3. PICK inc \in {-1, 1}, sinc \in Int, p \in Int : inc = t.dstInc /\ sinc = t.srcInc /\ p = t.pitch
      BY DEF IsTransfer
    <3>4. 0 * inc = 0 /\ 0 * sinc = 0 /\ 0 * p = 0
      OBVIOUS
    <3>5. MoveOf(t, c(j)) = [from |-> t.src, to |-> t.dst]
      <4>1. PICK s \in Int, d \in Int : s = t.src /\ d = t.dst /\ s % Word = s /\ d % Word = d
        BY <1>1
      <4>2. s + 0 + 0 = s /\ d + 0 + 0 = d
        OBVIOUS
      <4> QED BY <3>2, <3>3, <3>4, <4>1, <4>2 DEF MoveOf
    <3> QED BY <3>1, <3>5
  <2>2. CASE j # 1
    <3>1. f[j - 1] = MoveOf(t, c(j - 1)) /\ j - 1 \in 1 .. N
      BY <1>6, <2>2
    <3> DEFINE by == IF c(j - 1).x = t.width - 1 THEN t.diff ELSE t.dstInc
    <3> DEFINE at(b, i, d) == b + (c(d).x * i) + (c(d).y * t.pitch)
    <3>2. f[j] = [from |-> IF t.srcInc = 0 THEN f[j - 1].from ELSE (f[j - 1].from + by) % Word,
                  to   |-> (f[j - 1].to + by) % Word]
      BY <1>5, <2>2
    <3>3. f[j - 1].to = at(t.dst, t.dstInc, j - 1) % Word
      BY <3>1 DEF MoveOf
    <3>4. t.srcInc = 0 => f[j - 1].from = t.src
      BY <1>1, <3>1 DEF MoveOf
    <3>5. t.srcInc # 0 => f[j - 1].from = at(t.src, t.srcInc, j - 1) % Word
      BY <3>1 DEF MoveOf
    <3>6. ASSUME NEW b \in Int
          PROVE  at(b, t.dstInc, j - 1) \in Int /\ by \in Int /\ at(b, t.dstInc, j) = at(b, t.dstInc, j - 1) + by
      <4>1. PICK inc \in {-1, 1}, p \in Int, d \in Int, w \in Nat \ {0} :
              inc = t.dstInc /\ p = t.pitch /\ d = t.diff /\ w = t.width /\ p = ((w - 1) * inc) + d
        BY <1>1 DEF IsTransfer
      <4>2. PICK x \in Nat, y \in Nat : x = c(j - 1).x /\ y = c(j - 1).y
        BY <1>4, <3>1
      <4>3. PICK u \in Nat, v \in Nat : u = c(j).x /\ v = c(j).y
        BY <1>4
      <4>4. IF x = w - 1 THEN u = 0 /\ v = y + 1 ELSE u = x + 1 /\ v = y
        <5>1. j \in 2 .. t.width * t.height
          BY <1>2, <2>2
        <5> QED BY <1>1, <4>1, <4>2, <4>3, <5>1, NextCell
      <4>5. y * p \in Int /\ (y + 1) * p = (y * p) + p /\ x * inc \in Int
        OBVIOUS
      <4>6. CASE x = w - 1
        <5>1. by = d /\ u = 0 /\ v = y + 1
          BY <4>1, <4>2, <4>4, <4>6
        <5>2. b + (u * inc) + (v * p) = b + (x * inc) + (y * p) + d
          BY <4>1, <4>5, <4>6, <5>1
        <5> QED BY <4>1, <4>2, <4>3, <4>5, <5>1, <5>2
      <4>7. CASE x # w - 1
        <5>1. by = inc /\ u = x + 1 /\ v = y
          BY <4>1, <4>2, <4>4, <4>7
        <5>2. b + (u * inc) + (v * p) = b + (x * inc) + (y * p) + inc
          BY <4>1, <4>5, <5>1
        <5> QED BY <4>1, <4>2, <4>3, <4>5, <5>1, <5>2
      <4> QED BY <4>6, <4>7
    <3> HIDE DEF by, at
    <3>7. (f[j - 1].to + by) % Word = at(t.dst, t.dstInc, j) % Word
      <4>1. /\ at(t.dst, t.dstInc, j - 1) \in Int /\ by \in Int
            /\ at(t.dst, t.dstInc, j) = at(t.dst, t.dstInc, j - 1) + by
        BY <1>1, <3>6
      <4> QED BY <3>3, <4>1, Wraps
    <3>8. t.srcInc # 0 => (f[j - 1].from + by) % Word = at(t.src, t.srcInc, j) % Word
      <4>1. t.srcInc # 0 => t.srcInc = t.dstInc
        BY DEF IsTransfer
      <4>2. /\ at(t.src, t.dstInc, j - 1) \in Int /\ by \in Int
            /\ at(t.src, t.dstInc, j) = at(t.src, t.dstInc, j - 1) + by
        BY <1>1, <3>6
      <4> QED BY <3>5, <4>1, <4>2, Wraps
    <3>9. MoveOf(t, c(j)) = [from |-> IF t.srcInc = 0 THEN t.src ELSE at(t.src, t.srcInc, j) % Word,
                             to   |-> at(t.dst, t.dstInc, j) % Word]
      BY <1>1 DEF MoveOf, at
    <3>10. f[j] = MoveOf(t, c(j))
      <4>1. CASE t.srcInc = 0 BY <3>2, <3>4, <3>7, <3>9, <4>1
      <4>2. CASE t.srcInc # 0 BY <3>2, <3>7, <3>8, <3>9, <4>2
      <4> QED BY <4>1, <4>2
    <3> QED BY <3>10
  <2> QED BY <2>1, <2>2
<1>7. 0 \in G
  OBVIOUS
<1>8. k \in G
  <2> HIDE DEF G
  <2>1. \A j \in 0 .. N : j \in G
    BY <1>6, <1>7, Induction
  <2> QED BY <1>2, <2>1
<1> QED BY <1>2, <1>3, <1>8

Moves(t) == [i \in 1 .. t.width * t.height |-> MoveOf(t, Cells(t)[i])]

(* The engine's counters visit the rectangle cell by cell, row by row.     *)
LEMMA MovesFacts ==
  ASSUME NEW t, IsTransfer(t)
  PROVE  /\ t.width \in Nat \ {0} /\ t.height \in Nat \ {0}
         /\ Len(Moves(t)) = t.width * t.height /\ t.width * t.height \in Nat
         /\ DOMAIN Moves(t) = 1 .. t.width * t.height
         /\ Counters(t) = Moves(t)
<1>1. t.width \in Nat \ {0} /\ t.height \in Nat \ {0}
  BY Widths DEF IsTransfer
<1>2. PICK N \in Nat : N = t.width * t.height
  BY <1>1, CellFacts
<1>3. Moves(t) = [i \in 1 .. N |-> MoveOf(t, Cells(t)[i])]
  BY <1>2 DEF Moves
<1>4. Len(Moves(t)) = N /\ DOMAIN Moves(t) = 1 .. N
  BY <1>3
<1>5. Counts(t, Counters(t))
  BY <1>2, CountsExist
<1>6. Counters(t) = [i \in 1 .. N |-> Counters(t)[i]]
  BY <1>2, <1>5, Zenon DEF Counts
<1>7. \A i \in 1 .. N : Counters(t)[i] = MoveOf(t, Cells(t)[i])
  BY <1>2, CountersAreMoves
<1>8. Counters(t) = Moves(t)
  BY <1>3, <1>6, <1>7, Zenon
<1> QED BY <1>1, <1>2, <1>4, <1>8

(* How far a cell of the transfer may lie from its start.                  *)
LEMMA Products ==
  ASSUME NEW p \in Int, NEW y \in Nat, NEW m \in Nat, y <= m
  PROVE  /\ y * p \in Int /\ m * p \in Int
         /\ p >= 0 => 0 <= y * p /\ y * p <= m * p
         /\ p < 0 => m * p <= y * p /\ y * p <= 0
<1>1. PICK d \in Nat : m = y + d
  <2>1. m - y \in Nat /\ m = y + (m - y)
    OBVIOUS
  <2> QED BY <2>1
<1>2. m * p = (y * p) + (d * p) /\ y * p \in Int /\ d * p \in Int
  BY <1>1
<1>3. p >= 0 => y * p >= 0 /\ d * p >= 0
  OBVIOUS
<1>4. p < 0 => y * p <= 0 /\ d * p <= 0
  OBVIOUS
<1> QED BY <1>2, <1>3, <1>4

(* Every address a rectangle touches lies in the reach the engine          *)
(* computes.                                                               *)
LEMMA ReachFacts ==
  ASSUME NEW t, IsTransfer(t), NEW a \in Int,
         NEW x \in 0 .. t.width - 1, NEW y \in 0 .. t.height - 1
  PROVE  /\ Reach(t, a).lo \in Int /\ Reach(t, a).hi \in Int
         /\ a + (x * t.dstInc) + (y * t.pitch) \in Reach(t, a).lo .. Reach(t, a).hi
<1>1. PICK w \in Nat \ {0}, h \in Nat \ {0}, inc \in {-1, 1}, p \in Int :
        w = t.width /\ h = t.height /\ inc = t.dstInc /\ p = t.pitch
  BY MovesFacts DEF IsTransfer
<1>2. PICK row \in Int, col \in Int : row = (w - 1) * inc /\ col = (h - 1) * p
  OBVIOUS
<1>3. /\ Reach(t, a).lo = a + (IF row < 0 THEN row ELSE 0) + (IF col < 0 THEN col ELSE 0)
      /\ Reach(t, a).hi = a + (IF row > 0 THEN row ELSE 0) + (IF col > 0 THEN col ELSE 0)
  BY <1>1, <1>2 DEF Reach
<1>4. PICK u \in Int, v \in Int : u = x * inc /\ v = y * p
  BY <1>1
<1>5. IF row < 0 THEN row <= u /\ u <= 0 ELSE 0 <= u /\ u <= row
  <2>1. x \in Nat /\ w - 1 \in Nat /\ x <= w - 1 /\ inc \in Int
    BY <1>1
  <2>2. /\ inc >= 0 => 0 <= u /\ u <= row
        /\ inc < 0 => row <= u /\ u <= 0
    BY <1>2, <1>4, <2>1, Products
  <2> QED BY <2>2, <1>2
<1>6. IF col < 0 THEN col <= v /\ v <= 0 ELSE 0 <= v /\ v <= col
  <2>1. y \in Nat /\ h - 1 \in Nat /\ y <= h - 1
    BY <1>1
  <2>2. /\ p >= 0 => 0 <= v /\ v <= col
        /\ p < 0 => col <= v /\ v <= 0
    BY <1>2, <1>4, <2>1, Products
  <2> QED BY <2>2, <1>2
<1>7. a + (x * t.dstInc) + (y * t.pitch) = a + u + v
  BY <1>1, <1>4
<1> QED BY <1>3, <1>5, <1>6, <1>7

(* The rows memset and memcpy write are the places the walk writes.        *)
LEMMA RowFacts ==
  ASSUME NEW t, IsTransfer(t)
  PROVE  Rows(t) = {(Cells(t)[i].x * t.dstInc) + (Cells(t)[i].y * t.pitch) :
                      i \in 1 .. t.width * t.height}
<1>1. PICK w \in Nat \ {0}, h \in Nat \ {0}, inc \in {-1, 1}, p \in Int, N \in Nat :
        w = t.width /\ h = t.height /\ inc = t.dstInc /\ p = t.pitch /\ N = w * h
  BY MovesFacts DEF IsTransfer
<1> DEFINE c(i) == Cells(t)[i]
<1> DEFINE first == IF inc < 0 THEN 1 - w ELSE 0
<1>2. /\ \A i \in 1 .. N : c(i).x \in 0 .. w - 1 /\ c(i).y \in 0 .. h - 1
      /\ \A x \in 0 .. w - 1, y \in 0 .. h - 1 : \E i \in 1 .. N : c(i).x = x /\ c(i).y = y
      /\ DOMAIN Cells(t) = 1 .. N
  BY <1>1, CellFacts
<1>2a. \A x \in 0 .. w - 1, y \in 0 .. h - 1 : \E i \in 1 .. N : c(i).x = x /\ c(i).y = y
  BY <1>2, Zenon
<1>3. Rows(t) = {first + (c(i).y * p) + c(i).x : i \in 1 .. N}
  <2> DEFINE g(d) == first + (d.y * p) + d.x
  <2>1. Rows(t) = {g(d) : d \in {Cells(t)[i] : i \in DOMAIN Cells(t)}}
    BY <1>1 DEF Rows
  <2>2. {g(d) : d \in {Cells(t)[i] : i \in DOMAIN Cells(t)}} = {g(Cells(t)[i]) : i \in 1 .. N}
    <3> HIDE DEF g
    <3>1. DOMAIN Cells(t) = 1 .. N
      BY <1>2
    <3> HIDE DEF c
    <3> QED BY <3>1, Zenon
  <2> QED BY <2>1, <2>2, Zenon
<1> HIDE DEF c
<1>4. ASSUME NEW i \in 1 .. N
      PROVE  \E j \in 1 .. N : first + (c(i).y * p) + c(i).x = (c(j).x * inc) + (c(j).y * p)
  <2>1. PICK x \in 0 .. w - 1, y \in 0 .. h - 1 : x = c(i).x /\ y = c(i).y
    BY <1>2
  <2>2. PICK z \in 0 .. w - 1 : z = IF inc < 0 THEN (w - 1) - x ELSE x
    <3>1. (w - 1) - x \in 0 .. w - 1
      OBVIOUS
    <3> QED BY <3>1
  <2>3. PICK j \in 1 .. N : c(j).x = z /\ c(j).y = y
    BY <1>2a, Zenon
  <2>4. first + (y * p) + x = (z * inc) + (y * p)
    <3>1. PICK v \in Int : v = y * p
      OBVIOUS
    <3>2. z * 1 = z /\ z * (-1) = -z
      OBVIOUS
    <3>3. PICK u \in Int : u = z * inc /\ u = IF inc < 0 THEN -z ELSE z
      <4>1. CASE inc = 1
        BY <3>2, <4>1
      <4>2. CASE inc = -1
        BY <3>2, <4>2
      <4> QED BY <4>1, <4>2
    <3>4. first + x = u
      BY <2>2, <3>3
    <3> QED BY <3>1, <3>3, <3>4
  <2> QED BY <2>1, <2>3, <2>4
<1>5. ASSUME NEW j \in 1 .. N
      PROVE  \E i \in 1 .. N : first + (c(i).y * p) + c(i).x = (c(j).x * inc) + (c(j).y * p)
  <2>1. PICK z \in 0 .. w - 1, y \in 0 .. h - 1 : z = c(j).x /\ y = c(j).y
    BY <1>2
  <2>2. PICK x \in 0 .. w - 1 : x = IF inc < 0 THEN (w - 1) - z ELSE z
    <3>1. (w - 1) - z \in 0 .. w - 1
      OBVIOUS
    <3> QED BY <3>1
  <2>3. PICK i \in 1 .. N : c(i).x = x /\ c(i).y = y
    BY <1>2a, Zenon
  <2>4. first + (y * p) + x = (z * inc) + (y * p)
    <3>1. PICK v \in Int : v = y * p
      OBVIOUS
    <3>2. z * 1 = z /\ z * (-1) = -z
      OBVIOUS
    <3>3. PICK u \in Int : u = z * inc /\ u = IF inc < 0 THEN -z ELSE z
      <4>1. CASE inc = 1
        BY <3>2, <4>1
      <4>2. CASE inc = -1
        BY <3>2, <4>2
      <4> QED BY <4>1, <4>2
    <3>4. first + x = u
      BY <2>2, <3>3
    <3> QED BY <3>1, <3>3, <3>4
  <2> QED BY <2>1, <2>3, <2>4
<1>6. Rows(t) = {(c(j).x * inc) + (c(j).y * p) : j \in 1 .. N}
  <2> HIDE DEF first
  <2> QED BY <1>3, <1>4, <1>5
<1> QED BY <1>1, <1>6 DEF c

(* A transfer that stays in the map goes where it is aimed, no wrap.       *)
LEMMA Aimed ==
  ASSUME NEW t, IsTransfer(t), NEW i \in 1 .. t.width * t.height
  PROVE  LET off == (Cells(t)[i].x * t.dstInc) + (Cells(t)[i].y * t.pitch)
         IN /\ off \in Int
            /\ t.dst + off \in Reach(t, t.dst).lo .. Reach(t, t.dst).hi
            /\ t.src + off \in Reach(t, t.src).lo .. Reach(t, t.src).hi
            /\ ~Leaves(Reach(t, t.dst)) => MoveOf(t, Cells(t)[i]).to = t.dst + off
            /\ t.srcInc = 0 => MoveOf(t, Cells(t)[i]).from = t.src
            /\ t.srcInc # 0 /\ ~Leaves(Reach(t, t.src)) => MoveOf(t, Cells(t)[i]).from = t.src + off
<1>1. PICK x \in 0 .. t.width - 1, y \in 0 .. t.height - 1 : x = Cells(t)[i].x /\ y = Cells(t)[i].y
  <2>1. t.width \in Nat \ {0} /\ t.height \in Nat \ {0}
    BY MovesFacts
  <2> QED BY <2>1, CellFacts
<1>2. PICK src \in AnyWord, dst \in AnyWord, w \in Nat \ {0}, h \in Nat \ {0}, inc \in {-1, 1}, p \in Int :
        /\ src = t.src /\ dst = t.dst /\ inc = t.dstInc /\ p = t.pitch /\ w = t.width /\ h = t.height
        /\ t.srcInc \in {0, inc}
  BY MovesFacts DEF IsTransfer
<1>3. PICK u \in Int, v \in Int : u = x * inc /\ v = y * p
  BY <1>2
<1>4. PICK off \in Int : off = u + v
  OBVIOUS
<1>5. off = (Cells(t)[i].x * t.dstInc) + (Cells(t)[i].y * t.pitch)
  BY <1>1, <1>2, <1>3, <1>4
<1>6. src \in Int /\ dst \in Int
  BY Widths DEF AnyWord
<1>7. ASSUME NEW a \in Int
      PROVE  /\ Reach(t, a).lo \in Int /\ Reach(t, a).hi \in Int
             /\ a + off \in Reach(t, a).lo .. Reach(t, a).hi
             /\ ~Leaves(Reach(t, a)) => (a + off) % Word = a + off
  <2>1. /\ Reach(t, a).lo \in Int /\ Reach(t, a).hi \in Int
        /\ a + (x * t.dstInc) + (y * t.pitch) \in Reach(t, a).lo .. Reach(t, a).hi
    BY ReachFacts
  <2>2. a + (x * t.dstInc) + (y * t.pitch) = a + off
    BY <1>2, <1>3, <1>4
  <2>3. PICK lo \in Int, hi \in Int, s \in Int :
          lo = Reach(t, a).lo /\ hi = Reach(t, a).hi /\ s = a + off /\ s \in lo .. hi
    BY <2>1, <2>2
  <2>4. ~Leaves(Reach(t, a)) => s % Word = s
    BY <2>3, Widths DEF Leaves
  <2> QED BY <2>3, <2>4
<1>8. MoveOf(t, Cells(t)[i]).to = (dst + off) % Word
  <2>1. MoveOf(t, Cells(t)[i]).to = (dst + u + v) % Word
    BY <1>1, <1>2, <1>3 DEF MoveOf
  <2>2. dst + u + v = dst + off
    BY <1>4, <1>6
  <2> QED BY <2>1, <2>2
<1>9. t.srcInc = 0 => MoveOf(t, Cells(t)[i]).from = src
  <2>1. src % Word = src
    BY Widths DEF AnyWord
  <2> QED BY <1>2, <2>1 DEF MoveOf
<1>10. t.srcInc # 0 => MoveOf(t, Cells(t)[i]).from = (src + off) % Word
  <2>1. t.srcInc # 0 => MoveOf(t, Cells(t)[i]).from = (src + u + v) % Word
    BY <1>1, <1>2, <1>3 DEF MoveOf
  <2>2. src + u + v = src + off
    BY <1>4, <1>6
  <2> QED BY <2>1, <2>2
<1>11. /\ dst + off \in Reach(t, dst).lo .. Reach(t, dst).hi
       /\ src + off \in Reach(t, src).lo .. Reach(t, src).hi
       /\ ~Leaves(Reach(t, dst)) => (dst + off) % Word = dst + off
       /\ ~Leaves(Reach(t, src)) => (src + off) % Word = src + off
  BY <1>6, <1>7
<1> QED BY <1>2, <1>5, <1>8, <1>9, <1>10, <1>11

(* The engine in the code is the engine: whichever of the four ways a      *)
(* transfer takes, it leaves the memory that one byte after the other with *)
(* wrapping counters leaves (triggerGpuDma).                               *)
LEMMA MovedIsOver ==
  ASSUME NEW mem, NEW t, IsTransfer(t), NEW v,
         DOMAIN v = {t.dst + o : o \in Rows(t)}, ~Leaves(Reach(t, t.dst)),
         \A i \in 1 .. t.width * t.height :
           LET m == MoveOf(t, Cells(t)[i])
           IN /\ v[m.to] = At(mem, m.from)
              /\ m.from \in DOMAIN v => v[m.from] = At(mem, m.from)
  PROVE  \A a : At(Copied(mem, Moves(t)), a) = At(Over(v, mem), a)
<1>1. PICK N \in Nat : N = t.width * t.height /\ Len(Moves(t)) = N
  BY MovesFacts
<1> DEFINE off(i) == (Cells(t)[i].x * t.dstInc) + (Cells(t)[i].y * t.pitch)
<1>2. \A i \in 1 .. N : Moves(t)[i] = MoveOf(t, Cells(t)[i])
  BY <1>1 DEF Moves
<1>3. \A i \in 1 .. N : Moves(t)[i].to = t.dst + off(i)
  BY <1>1, <1>2, Aimed
<1>4. Rows(t) = {off(i) : i \in 1 .. N}
  BY <1>1, RowFacts
<1>5. DOMAIN v = {Moves(t)[i].to : i \in 1 .. Len(Moves(t))}
  <2> HIDE DEF off
  <2> QED BY <1>1, <1>3, <1>4
<1>6. \A i \in 1 .. Len(Moves(t)) :
        /\ v[Moves(t)[i].to] = At(mem, Moves(t)[i].from)
        /\ Moves(t)[i].from \in DOMAIN v => v[Moves(t)[i].from] = At(mem, Moves(t)[i].from)
  BY <1>1, <1>2
<1>7. Len(Moves(t)) \in Nat
  BY <1>1
<1> QED BY <1>5, <1>6, <1>7, CopiedIsOver

(* Whichever of its four ways the engine takes, it is the walk of its      *)
(* counters.                                                               *)
LEMMA TriggerIsWalk ==
  ASSUME NEW mem, mem \in [DOMAIN mem -> AnyByte], NEW t, t = Transfer(mem), NEW moved,
         moved = IF Leaves(Reach(t, t.dst)) \/ (t.srcInc # 0 /\ Leaves(Reach(t, t.src)))
                 THEN Walk(mem, t)
                 ELSE IF t.srcInc = 0 THEN Fill(mem, t)
                 ELSE IF Apart(Reach(t, t.dst), Reach(t, t.src)) THEN Move(mem, t) ELSE Walk(mem, t)
  PROVE  \A a : At(moved, a) = At(Copied(mem, Counters(t)), a)
<1>1. IsTransfer(t) /\ t.dst \in Int /\ t.src \in Int
  <2>1. t.src \in AnyWord /\ t.dst \in AnyWord
    BY TransferFacts
  <2>2. AnyWord \subseteq Int
    BY Widths DEF AnyWord
  <2>3. IsTransfer(t)
    BY TransferFacts DEF IsTransfer
  <2> QED BY <2>1, <2>2, <2>3
<1>2. Walk(mem, t) = Copied(mem, Moves(t)) /\ Counters(t) = Moves(t)
  BY <1>1, MovesFacts DEF Walk, Moves
<1> DEFINE off(i) == (Cells(t)[i].x * t.dstInc) + (Cells(t)[i].y * t.pitch)
<1>3. Rows(t) = {off(i) : i \in 1 .. t.width * t.height}
  BY <1>1, RowFacts
<1>4. ASSUME NEW i \in 1 .. t.width * t.height
      PROVE  /\ off(i) \in Int
             /\ t.dst + off(i) \in Reach(t, t.dst).lo .. Reach(t, t.dst).hi
             /\ t.src + off(i) \in Reach(t, t.src).lo .. Reach(t, t.src).hi
             /\ ~Leaves(Reach(t, t.dst)) => MoveOf(t, Cells(t)[i]).to = t.dst + off(i)
             /\ t.srcInc = 0 => MoveOf(t, Cells(t)[i]).from = t.src
             /\ t.srcInc # 0 /\ ~Leaves(Reach(t, t.src)) => MoveOf(t, Cells(t)[i]).from = t.src + off(i)
  BY <1>1, Aimed
<1> HIDE DEF off
<1>5. CASE moved = Walk(mem, t)
  BY <1>2, <1>5
<1>6. CASE moved = Fill(mem, t) /\ ~Leaves(Reach(t, t.dst)) /\ t.srcInc = 0
  <2> DEFINE v == [a \in {t.dst + o : o \in Rows(t)} |-> At(mem, t.src)]
  <2>1. moved = Over(v, mem)
    BY <1>6 DEF Fill
  <2>2. DOMAIN v = {t.dst + o : o \in Rows(t)} /\ \A a \in DOMAIN v : v[a] = At(mem, t.src)
    OBVIOUS
  <2> HIDE DEF v
  <2>3. ASSUME NEW i \in 1 .. t.width * t.height
        PROVE  LET m == MoveOf(t, Cells(t)[i])
               IN /\ v[m.to] = At(mem, m.from)
                  /\ m.from \in DOMAIN v => v[m.from] = At(mem, m.from)
    <3>1. PICK to, from : to = MoveOf(t, Cells(t)[i]).to /\ from = MoveOf(t, Cells(t)[i]).from
      OBVIOUS
    <3>2. to = t.dst + off(i) /\ from = t.src
      BY <1>4, <1>6, <3>1
    <3>3. to \in DOMAIN v
      BY <1>3, <2>2, <3>2
    <3> QED BY <2>2, <3>1, <3>2, <3>3
  <2>4. \A a : At(Copied(mem, Moves(t)), a) = At(Over(v, mem), a)
    BY <1>1, <1>6, <2>2, <2>3, MovedIsOver
  <2> QED BY <1>2, <2>1, <2>4
<1>7. CASE /\ moved = Move(mem, t) /\ ~Leaves(Reach(t, t.dst)) /\ ~Leaves(Reach(t, t.src))
           /\ t.srcInc # 0 /\ Apart(Reach(t, t.dst), Reach(t, t.src))
  <2> DEFINE v == [a \in {t.dst + o : o \in Rows(t)} |-> At(mem, (a - t.dst) + t.src)]
  <2>1. moved = Over(v, mem)
    BY <1>7 DEF Move
  <2>2. DOMAIN v = {t.dst + o : o \in Rows(t)} /\ \A a \in DOMAIN v : v[a] = At(mem, (a - t.dst) + t.src)
    OBVIOUS
  <2> HIDE DEF v
  <2>3. ASSUME NEW i \in 1 .. t.width * t.height
        PROVE  LET m == MoveOf(t, Cells(t)[i])
               IN /\ v[m.to] = At(mem, m.from)
                  /\ m.from \in DOMAIN v => v[m.from] = At(mem, m.from)
    <3>1. PICK to, from : to = MoveOf(t, Cells(t)[i]).to /\ from = MoveOf(t, Cells(t)[i]).from
      OBVIOUS
    <3>2. to = t.dst + off(i) /\ from = t.src + off(i)
      BY <1>4, <1>7, <3>1
    <3>3. to \in DOMAIN v
      BY <1>3, <2>2, <3>2
    <3>4. (to - t.dst) + t.src = from
      BY <1>1, <1>4, <3>2
    <3>5. from \notin DOMAIN v
      <4>1. SUFFICES ASSUME NEW j \in 1 .. t.width * t.height, from = t.dst + off(j) PROVE FALSE
        BY <1>3, <2>2
      <4>2. /\ from \in Reach(t, t.src).lo .. Reach(t, t.src).hi
            /\ from \in Reach(t, t.dst).lo .. Reach(t, t.dst).hi
        BY <1>4, <3>2, <4>1
      <4>3. /\ Reach(t, t.src).lo \in Int /\ Reach(t, t.src).hi \in Int
            /\ Reach(t, t.dst).lo \in Int /\ Reach(t, t.dst).hi \in Int
        <5>1. 0 \in 0 .. t.width - 1 /\ 0 \in 0 .. t.height - 1
          BY <1>1, MovesFacts
        <5> QED BY <1>1, <5>1, ReachFacts
      <4> QED BY <1>7, <4>2, <4>3 DEF Apart
    <3> QED BY <2>2, <3>1, <3>3, <3>4, <3>5
  <2>4. \A a : At(Copied(mem, Moves(t)), a) = At(Over(v, mem), a)
    BY <1>1, <1>7, <2>2, <2>3, MovedIsOver
  <2> QED BY <1>2, <2>1, <2>4
<1> QED BY <1>5, <1>6, <1>7

(* Every way the engine has of running a transfer leaves the memory its    *)
(* two counters' walk leaves, byte for byte (gpu.c, triggerGpuDma).        *)
THEOREM EngineIsTheWalk ==
  ASSUME NEW mem, mem \in [DOMAIN mem -> AnyByte]
  PROVE  /\ SameMemory(TriggerGpuDma(mem), EngineWalk(mem))
         /\ \A a : At(TriggerGpuDma(mem), a) = At(EngineWalk(mem), a)
<1>1. PICK t : t = Transfer(mem)
  OBVIOUS
<1>2. PICK moved : /\ TriggerGpuDma(mem) = Cleared(moved)
                   /\ moved = IF Leaves(Reach(t, t.dst)) \/ (t.srcInc # 0 /\ Leaves(Reach(t, t.src)))
                              THEN Walk(mem, t)
                              ELSE IF t.srcInc = 0 THEN Fill(mem, t)
                              ELSE IF Apart(Reach(t, t.dst), Reach(t, t.src)) THEN Move(mem, t) ELSE Walk(mem, t)
  BY <1>1 DEF TriggerGpuDma
<1>3. \A a : At(moved, a) = At(Copied(mem, Counters(t)), a)
  BY <1>1, <1>2, TriggerIsWalk
<1>4. EngineWalk(mem) = Cleared(Copied(mem, Counters(t)))
  BY <1>1 DEF EngineWalk
<1>5. \A a : At(Cleared(moved), a) = At(Cleared(Copied(mem, Counters(t))), a)
  <2> DEFINE zero == [a \in {Port + 8, Port + 9} |-> 0]
  <2>1. \A m : Cleared(m) = Over(zero, m)
    BY DEF Cleared
  <2> HIDE DEF zero
  <2>2. ASSUME NEW a PROVE At(Over(zero, moved), a) = At(Over(zero, Copied(mem, Counters(t))), a)
    <3>1. CASE a \in DOMAIN zero BY <3>1 DEF Over, At
    <3>2. CASE a \notin DOMAIN zero BY <1>3, <3>2 DEF Over, At
    <3> QED BY <3>1, <3>2
  <2> QED BY <2>1, <2>2
<1> QED BY <1>2, <1>4, <1>5 DEF SameMemory

(* And what it leaves is memory.                                           *)
LEMMA TriggerMemory ==
  ASSUME NEW mem, mem \in [DOMAIN mem -> AnyByte]
  PROVE  TriggerGpuDma(mem) \in [DOMAIN TriggerGpuDma(mem) -> AnyByte]
<1>1. PICK t : t = Transfer(mem)
  OBVIOUS
<1>2. PICK moved : /\ TriggerGpuDma(mem) = Cleared(moved)
                   /\ moved \in {Walk(mem, t), Fill(mem, t), Move(mem, t)}
  BY <1>1 DEF TriggerGpuDma
<1>3. \A b : At(mem, b) \in AnyByte
  BY AtFacts
<1>4. Walk(mem, t) \in [DOMAIN Walk(mem, t) -> AnyByte]
  <2>1. IsTransfer(t)
    BY <1>1, TransferFacts DEF IsTransfer
  <2>2. Walk(mem, t) = Copied(mem, Moves(t)) /\ Len(Moves(t)) \in Nat
    BY <2>1, MovesFacts DEF Walk, Moves
  <2> QED BY <2>2, CopiedMemory
<1>5. Fill(mem, t) \in [DOMAIN Fill(mem, t) -> AnyByte]
  <2> DEFINE v == [a \in {t.dst + o : o \in Rows(t)} |-> At(mem, t.src)]
  <2>1. Fill(mem, t) = Over(v, mem) /\ v \in [DOMAIN v -> AnyByte]
    BY <1>3 DEF Fill
  <2> HIDE DEF v
  <2>2. Over(v, mem) \in [DOMAIN Over(v, mem) -> AnyByte]
    BY <2>1, OverFacts
  <2> QED BY <2>1, <2>2
<1>6. Move(mem, t) \in [DOMAIN Move(mem, t) -> AnyByte]
  <2> DEFINE v == [a \in {t.dst + o : o \in Rows(t)} |-> At(mem, (a - t.dst) + t.src)]
  <2>1. Move(mem, t) = Over(v, mem) /\ v \in [DOMAIN v -> AnyByte]
    BY <1>3 DEF Move
  <2> HIDE DEF v
  <2>2. Over(v, mem) \in [DOMAIN Over(v, mem) -> AnyByte]
    BY <2>1, OverFacts
  <2> QED BY <2>1, <2>2
<1>7. \A m : m \in [DOMAIN m -> AnyByte] => Cleared(m) \in [DOMAIN Cleared(m) -> AnyByte]
  <2> DEFINE zero == [a \in {Port + 8, Port + 9} |-> 0]
  <2>1. zero \in [DOMAIN zero -> AnyByte] /\ \A m : Cleared(m) = Over(zero, m)
    BY Widths DEF AnyByte, Cleared
  <2> HIDE DEF zero
  <2> QED BY <2>1, OverFacts
<1> QED BY <1>2, <1>4, <1>5, <1>6, <1>7

-----------------------------------------------------------------------------
(* What an operand is once decoded, and what storing into it does.         *)
LEMMA WatchFacts ==
  ASSUME NEW c, IsMachine(c), NEW a \in Nat
  PROVE  IsMachine(WatchWrite(c, a)) /\ OnlyMemory(c, WatchWrite(c, a))
<1>1. OnlyMemory(c, c)
  BY DEF OnlyMemory
<1>2. TriggerGpuDma(c.mem) \in [DOMAIN TriggerGpuDma(c.mem) -> AnyByte]
  BY MachineFields, TriggerMemory
<1>3. /\ IsMachine([c EXCEPT !.mem = TriggerGpuDma(c.mem)])
      /\ OnlyMemory(c, [c EXCEPT !.mem = TriggerGpuDma(c.mem)])
  BY <1>2, MachineParts
<1> QED BY <1>1, <1>3 DEF WatchWrite

IsOperand(o) ==
  /\ IsMachine(o.c) /\ o.m \in {"reg", "ind", "inc", "idx"} /\ o.r \in 0 .. 15
  /\ o.at \in Nat /\ o.byte \in BOOLEAN
  /\ o.val \in IF o.byte THEN AnyByte ELSE AnyWord

(* A word lies at an even address and its second byte inside the memory.   *)
LEMMA EvenFacts ==
  ASSUME NEW a \in AnyWord
  PROVE  Even(a) \in AnyWord /\ Even(a) + 1 \in AnyWord /\ (Even(a) + 1) % Word = Even(a) + 1
BY Widths DEF Even, AnyWord

(* The fetch moves the program counter on and nothing else.                *)
LEMMA FetchedFacts ==
  ASSUME NEW c, IsMachine(c)
  PROVE  /\ IsMachine(Fetched(c)) /\ Fetched(c).mem = c.mem /\ Fetched(c).wp = c.wp
         /\ Fetched(c).st = c.st /\ Fetched(c).f18a = c.f18a /\ Fetched(c).on = c.on
         /\ Fetched(c).pc = (c.pc + 2) % Word
<1>1. (c.pc + 2) % Word \in AnyWord
  BY MachineFields, Widths DEF AnyWord
<1> QED BY <1>1, MachineParts DEF Fetched, IsMachine

(* An operand decoded: its address and value are in range, and only an     *)
(* incremented register is written.                                        *)
LEMMA DecodeFacts ==
  ASSUME NEW c, IsMachine(c), NEW f \in Operands, NEW byte \in BOOLEAN
  PROVE  /\ IsOperand(Decode(c, f, byte))
         /\ Decode(c, f, byte).m = f.m /\ Decode(c, f, byte).r = f.r
         /\ Decode(c, f, byte).byte = byte
         /\ Decode(c, f, byte).c.wp = c.wp /\ Decode(c, f, byte).c.st = c.st
         /\ Decode(c, f, byte).c.f18a = c.f18a /\ Decode(c, f, byte).c.on = c.on
         /\ f.m # "inc" => Decode(c, f, byte).c.mem = c.mem
<1>1. f.m \in {"reg", "ind", "inc", "idx"} /\ f.r \in 0 .. 15 /\ f.x \in AnyWord
  BY DEF Operands
<1> DEFINE reg == GetReg(c, f.r)
<1> DEFINE raw == IF f.m # "idx" THEN reg ELSE ((IF f.r = 0 THEN 0 ELSE reg) + f.x) % Word
<1> DEFINE at == IF byte THEN raw ELSE Even(raw)
<1> DEFINE step == (reg + (IF byte THEN 1 ELSE 2)) % Word
<1> DEFINE after == CASE f.m = "idx" -> Fetched(c)
                      [] f.m = "inc" -> SetReg(c, f.r, step)
                      [] OTHER       -> c
<1>2. reg \in AnyWord
  BY GetRegFacts
<1> HIDE DEF reg
<1>3. raw \in AnyWord
  BY <1>1, <1>2, Widths DEF AnyWord
<1>4. step \in AnyWord
  BY <1>2, Widths DEF AnyWord
<1> HIDE DEF raw, step
<1>5. at \in AnyWord /\ at \in Nat
  BY <1>3, EvenFacts, Widths DEF AnyWord
<1>6. /\ IsMachine(after) /\ after.wp = c.wp /\ after.st = c.st /\ after.f18a = c.f18a
      /\ after.on = c.on /\ (f.m # "inc" => after.mem = c.mem)
  <2>1. CASE f.m = "idx"
    <3>1. after = Fetched(c)
      BY <2>1
    <3> QED BY <2>1, <3>1, FetchedFacts
  <2>2. CASE f.m = "inc"
    <3>1. after = SetReg(c, f.r, step) /\ f.r \in Nat
      BY <1>1, <2>2
    <3>2. IsMachine(SetReg(c, f.r, step)) /\ OnlyMemory(c, SetReg(c, f.r, step))
      BY <1>4, <3>1, SetRegFacts
    <3> HIDE DEF after
    <3> QED BY <2>2, <3>1, <3>2 DEF OnlyMemory
  <2>3. CASE f.m \in {"reg", "ind"}
    BY <2>3
  <2> QED BY <1>1, <2>1, <2>2, <2>3
<1> HIDE DEF at, after
<1>7. CASE f.m = "reg"
  <2>1. Decode(c, f, byte) =
          [c |-> c, m |-> "reg", r |-> f.r, at |-> WpAddr(c, f.r), byte |-> byte,
           val |-> IF byte THEN At(c.mem, WpAddr(c, f.r)) ELSE reg]
    BY <1>7 DEF Decode, reg
  <2>2. WpAddr(c, f.r) \in Nat
    BY <1>1, MachineFields, Widths DEF WpAddr, AnyWord
  <2>3. At(c.mem, WpAddr(c, f.r)) \in AnyByte
    BY MachineFields, AtFacts
  <2> QED BY <1>1, <1>2, <1>7, <2>1, <2>2, <2>3 DEF IsOperand
<1>8. CASE f.m # "reg"
  <2>1. Decode(c, f, byte) =
          [c |-> after, m |-> f.m, r |-> f.r, at |-> at, byte |-> byte,
           val |-> IF byte THEN Read8(after, at) ELSE Read16(after, at)]
    BY <1>8 DEF Decode, after, at, raw, reg, step
  <2>2. Read8(after, at) \in AnyByte /\ Read16(after, at) \in AnyWord
    BY <1>6, ReadFacts
  <2> QED BY <1>1, <1>5, <1>6, <2>1, <2>2 DEF IsOperand
<1> QED BY <1>7, <1>8

(* A result stored: only the memory changes, whatever the place is.        *)
LEMMA StoreFacts ==
  ASSUME NEW c, IsMachine(c), NEW o, IsOperand(o), NEW v \in IF o.byte THEN AnyByte ELSE AnyWord
  PROVE  IsMachine(Store(c, o, v)) /\ OnlyMemory(c, Store(c, o, v))
<1>1. o.at \in Nat /\ o.byte \in BOOLEAN /\ o.r \in Nat
  BY DEF IsOperand
<1>2. CASE o.m = "reg" /\ o.byte
  BY <1>1, <1>2, PutFacts DEF Store
<1>3. CASE o.m = "reg" /\ ~o.byte
  BY <1>1, <1>3, SetRegFacts DEF Store
<1>4. CASE o.m # "reg" /\ o.byte
  <2>1. PICK d : d = Write8(c, o.at, v) /\ Store(c, o, v) = WatchWrite(d, o.at)
    BY <1>4 DEF Store
  <2>2. IsMachine(d) /\ OnlyMemory(c, d)
    BY <1>1, <1>4, <2>1, Write8Facts
  <2>3. IsMachine(WatchWrite(d, o.at)) /\ OnlyMemory(d, WatchWrite(d, o.at))
    BY <1>1, <2>2, WatchFacts
  <2> QED BY <2>1, <2>2, <2>3 DEF OnlyMemory
<1>5. CASE o.m # "reg" /\ ~o.byte
  <2>1. PICK d : d = Write16(c, o.at, v) /\ Store(c, o, v) = WatchWrite(d, o.at)
    BY <1>5 DEF Store
  <2>2. IsMachine(d) /\ OnlyMemory(c, d)
    BY <1>1, <1>5, <2>1, Write16Facts
  <2>3. IsMachine(WatchWrite(d, o.at)) /\ OnlyMemory(d, WatchWrite(d, o.at))
    BY <1>1, <2>2, WatchFacts
  <2> QED BY <2>1, <2>2, <2>3 DEF OnlyMemory
<1> QED BY <1>1, <1>2, <1>3, <1>4, <1>5

-----------------------------------------------------------------------------
(* Results: flags and values of the widths they belong to.                 *)
IsResult(res, byte) ==
  /\ res.st \in SUBSET FlagNames
  /\ res.v \in IF byte THEN AnyByte ELSE AnyWord

(* The three order flags of a value tell it from zero, signed and          *)
(* unsigned.                                                               *)
LEMMA OrderFacts ==
  ASSUME NEW size \in {Byte, Word}, NEW v \in 0 .. size - 1
  PROVE  /\ Order(v, size) \subseteq {"EQ", "LGT", "AGT"}
         /\ FlagsTell(Order(v, size), Signed(v, size))
<1>1. v \in Nat /\ size \div 2 \in Nat /\ size \div 2 > 0 /\ size \in Nat /\ v < size
  BY Widths
<1>2. CASE v = 0
  BY <1>1, <1>2 DEF Order, Signed, FlagsTell
<1>3. CASE v # 0 /\ v < size \div 2
  BY <1>1, <1>3 DEF Order, Signed, FlagsTell
<1>4. CASE v # 0 /\ v >= size \div 2
  BY <1>1, <1>4 DEF Order, Signed, FlagsTell
<1> QED BY <1>1, <1>2, <1>3, <1>4

(* The flags of a result: order, and parity for a byte; carry and overflow *)
(* are left alone.                                                         *)
LEMMA FlaggedFacts ==
  ASSUME NEW st \in SUBSET FlagNames, NEW byte \in BOOLEAN, NEW v \in 0 .. Size(byte) - 1
  PROVE  /\ IsResult(Flagged(st, v, byte), byte) /\ Flagged(st, v, byte).v = v
         /\ Flagged(st, v, byte).st \cap {"C", "OV"} = st \cap {"C", "OV"}
         /\ ~byte => Flagged(st, v, byte).st \cap {"P"} = st \cap {"P"}
         /\ FlagsTell(Flagged(st, v, byte).st, Signed(v, Size(byte)))
<1>1. PICK size \in {Byte, Word} : size = Size(byte)
  BY DEF Size
<1>2. /\ Order(v, size) \subseteq {"EQ", "LGT", "AGT"}
      /\ FlagsTell(Order(v, size), Signed(v, size))
  BY <1>1, OrderFacts
<1>3. CASE byte
  <2>1. PICK parity \in SUBSET {"P"} :
          Flagged(st, v, byte) = [v |-> v, st |-> (st \cap {"C", "OV"}) \cup Order(v, size) \cup parity]
    BY <1>1, <1>3 DEF Flagged, Size
  <2>2. Flagged(st, v, byte).v = v /\ v \in AnyByte
    <3>1. Size(byte) = Byte
      BY <1>3 DEF Size
    <3> QED BY <2>1, <3>1 DEF AnyByte
  <2>3. Flagged(st, v, byte).st \in SUBSET FlagNames
    <3>1. Flagged(st, v, byte).st = (st \cap {"C", "OV"}) \cup Order(v, size) \cup parity
      BY <2>1
    <3>2. {"C", "OV"} \subseteq FlagNames /\ {"EQ", "LGT", "AGT"} \subseteq FlagNames /\ {"P"} \subseteq FlagNames
      BY DEF FlagNames
    <3> QED BY <1>2, <3>1, <3>2, Zenon
  <2>4. Flagged(st, v, byte).st \cap {"C", "OV"} = st \cap {"C", "OV"}
    BY <1>2, <2>1
  <2>5. FlagsTell(Flagged(st, v, byte).st, Signed(v, size))
    BY <1>2, <2>1 DEF FlagsTell
  <2> QED BY <1>1, <1>3, <2>2, <2>3, <2>4, <2>5 DEF IsResult
<1>4. CASE ~byte
  <2>1. Flagged(st, v, byte) = [v |-> v, st |-> (st \cap {"C", "OV", "P"}) \cup Order(v, size)]
    BY <1>1, <1>4 DEF Flagged, Size
  <2> QED BY <1>1, <1>2, <1>4, <2>1 DEF IsResult, FlagNames, FlagsTell, Size, AnyWord
<1> QED BY <1>3, <1>4

(* Adding and subtracting are exact: the value, the carry, the overflow    *)
(* and what the flags say of the result (add16, add8, sub16, sub8).        *)
LEMMA HalfSize ==
  ASSUME NEW size \in {Byte, Word}
  PROVE  \E h \in Nat : h > 0 /\ size = 2 * h /\ size \div 2 = h
<1>1. 64 \div 2 = 32 /\ 128 \div 2 = 64 /\ 256 \div 2 = 128
      /\ 4096 \div 2 = 2048 /\ 16384 \div 2 = 8192 /\ 65536 \div 2 = 32768
  OBVIOUS
<1>2. size \in {64, 128, 256, 4096, 16384, 65536}
  BY Widths
<1> QED BY <1>1, <1>2

(* A number less than two sizes away is reduced by adding or taking one,   *)
(* and sizes added or taken do not matter.                                 *)
LEMMA Reduced ==
  ASSUME NEW size \in Nat, size > 0, NEW v \in Int
  PROVE  /\ v % size \in 0 .. size - 1
         /\ v \in 0 .. size - 1 => v % size = v
         /\ v \in size .. (2 * size) - 1 => v % size = v - size
         /\ v \in -size .. -1 => v % size = v + size
         /\ v \in -(2 * size) .. -size - 1 => v % size = v + (2 * size)
OBVIOUS

(* The sign test of an addition's overflow is the test that the sum leaves *)
(* the range.                                                              *)
LEMMA SumFacts ==
  ASSUME NEW size \in {Byte, Word}, NEW a \in 0 .. size - 1, NEW b \in 0 .. size - 1
  PROVE  LET r == (a + b) % size
             x == Signed(a, size) + Signed(b, size)
         IN /\ r \in 0 .. size - 1 /\ r = x % size
            /\ (High(a, size) = High(b, size) /\ High(a, size) # High(r, size))
                 = (x \notin -(size \div 2) .. (size \div 2) - 1)
<1>1. PICK h \in Nat : h > 0 /\ size = 2 * h /\ size \div 2 = h
  BY HalfSize
<1>2. PICK x \in Int : x = Signed(a, size) + Signed(b, size)
  BY <1>1 DEF Signed
<1>3. PICK r \in Int : r = (a + b) % size
  BY <1>1
<1>4. r \in 0 .. size - 1 /\ r \in {a + b, a + b - size}
  BY <1>1, <1>3, Reduced
<1>5. \E k \in {-1, 0, 1, 2} : x = r - (k * size)
  BY <1>1, <1>2, <1>4 DEF Signed
<1>6. r = x % size
  BY <1>1, <1>4, <1>5, Reduced
<1>7. (High(a, size) = High(b, size) /\ High(a, size) # High(r, size)) = (x \notin -h .. h - 1)
  BY <1>1, <1>2, <1>4 DEF Signed, High
<1> QED BY <1>1, <1>2, <1>3, <1>4, <1>6, <1>7

(* The sign test of a subtraction's overflow is the test that the          *)
(* difference leaves the range.                                            *)
LEMMA DifferenceFacts ==
  ASSUME NEW size \in {Byte, Word}, NEW a \in 0 .. size - 1, NEW b \in 0 .. size - 1
  PROVE  LET r == (a - b) % size
             x == Signed(a, size) - Signed(b, size)
         IN /\ r \in 0 .. size - 1 /\ r = x % size
            /\ (High(a, size) # High(b, size) /\ High(a, size) # High(r, size))
                 = (x \notin -(size \div 2) .. (size \div 2) - 1)
<1>1. PICK h \in Nat : h > 0 /\ size = 2 * h /\ size \div 2 = h
  BY HalfSize
<1>2. PICK x \in Int : x = Signed(a, size) - Signed(b, size)
  <2>1. Signed(a, size) \in Int /\ Signed(b, size) \in Int
    BY <1>1 DEF Signed
  <2> QED BY <2>1
<1>3. PICK r \in Int : r = (a - b) % size
  BY <1>1
<1>4. r \in 0 .. size - 1 /\ r \in {a - b, a - b + size}
  BY <1>1, <1>3, Reduced
<1>5. \E k \in {-1, 0, 1, 2} : x = r - (k * size)
  BY <1>1, <1>2, <1>4 DEF Signed
<1>6. r = x % size
  BY <1>1, <1>4, <1>5, Reduced
<1>7. (High(a, size) # High(b, size) /\ High(a, size) # High(r, size)) = (x \notin -h .. h - 1)
  BY <1>1, <1>2, <1>4 DEF Signed, High
<1> QED BY <1>1, <1>2, <1>3, <1>4, <1>6, <1>7

(* The flags an addition, a subtraction or a shift hands over: the parity, *)
(* a carry and an overflow.                                                *)
Kept(st, c, o) == (st \cap {"P"}) \cup c \cup o

(* A flag set on a condition holds it exactly when the condition does.     *)
LEMMA IfFacts ==
  ASSUME NEW b \in BOOLEAN, NEW f
  PROVE  \E s \in SUBSET {f} : s = If(b, f) /\ (f \in s <=> b)
<1>1. If(b, f) \in SUBSET {f} /\ (f \in If(b, f) <=> b)
  BY DEF If
<1> QED BY <1>1

(* The flags put together from a result's carry and overflow hold exactly  *)
(* these.                                                                  *)
LEMMA KeptFacts ==
  ASSUME NEW st, NEW c \in SUBSET {"C"}, NEW o \in SUBSET {"OV"}
  PROVE  /\ Kept(st, c, o) \subseteq FlagNames
         /\ "C" \in Kept(st, c, o) <=> "C" \in c
         /\ "OV" \in Kept(st, c, o) <=> "OV" \in o
<1>1. Kept(st, c, o) \subseteq FlagNames
  BY DEF FlagNames, Kept
<1>2. "C" \in Kept(st, c, o) <=> "C" \in c
  BY DEF Kept
<1>3. "OV" \in Kept(st, c, o) <=> "OV" \in o
  BY DEF Kept
<1> QED BY <1>1, <1>2, <1>3

(* An addition: the value, the carry, the overflow and the order flags are *)
(* exact.                                                                  *)
LEMMA AddFacts ==
  ASSUME NEW st \in SUBSET FlagNames, NEW byte \in BOOLEAN, NEW size, size = Size(byte),
         NEW a \in 0 .. size - 1, NEW b \in 0 .. size - 1,
         NEW res, res = Add(st, a, b, byte)
  PROVE  /\ IsResult(res, byte)
         /\ res.v = (Signed(a, size) + Signed(b, size)) % size
         /\ "C" \in res.st <=> a + b >= size
         /\ "OV" \in res.st <=> (Signed(a, size) + Signed(b, size) \notin -(size \div 2) .. (size \div 2) - 1)
         /\ FlagsTell(res.st, Signed(res.v, size))
<1>1. size \in {Byte, Word}
  BY DEF Size
<1> DEFINE r == (a + b) % size
<1> DEFINE ov == High(a, size) = High(b, size) /\ High(a, size) # High(r, size)
<1>2. /\ r \in 0 .. size - 1 /\ r = (Signed(a, size) + Signed(b, size)) % size
      /\ ov = (Signed(a, size) + Signed(b, size) \notin -(size \div 2) .. (size \div 2) - 1)
  BY <1>1, SumFacts
<1>3. res = Flagged(Kept(st, If(a + b >= size, "C"), If(ov, "OV")), r, byte)
  BY DEF Add, Kept
<1> HIDE DEF r, ov
<1>4. PICK c \in SUBSET {"C"} : c = If(a + b >= size, "C") /\ ("C" \in c <=> a + b >= size)
  <2>1. (a + b >= size) \in BOOLEAN
    OBVIOUS
  <2> QED BY <2>1, IfFacts
<1>5. PICK o \in SUBSET {"OV"} : o = If(ov, "OV") /\ ("OV" \in o <=> ov)
  <2>1. ov \in BOOLEAN
    BY DEF ov
  <2> QED BY <2>1, IfFacts
<1>6. PICK keep : keep = Kept(st, c, o)
  OBVIOUS
<1>7. keep \subseteq FlagNames /\ ("C" \in keep <=> a + b >= size) /\ ("OV" \in keep <=> ov)
  BY <1>4, <1>5, <1>6, KeptFacts
<1>8. /\ IsResult(res, byte) /\ res.v = r /\ res.st \cap {"C", "OV"} = keep \cap {"C", "OV"}
      /\ FlagsTell(res.st, Signed(r, size))
  <2>1. r \in 0 .. Size(byte) - 1 /\ keep \in SUBSET FlagNames
    BY <1>2, <1>7
  <2>2. /\ IsResult(Flagged(keep, r, byte), byte) /\ Flagged(keep, r, byte).v = r
        /\ Flagged(keep, r, byte).st \cap {"C", "OV"} = keep \cap {"C", "OV"}
        /\ FlagsTell(Flagged(keep, r, byte).st, Signed(r, Size(byte)))
    BY <2>1, FlaggedFacts
  <2>3. res = Flagged(keep, r, byte)
    BY <1>3, <1>4, <1>5, <1>6
  <2> QED BY <2>2, <2>3
<1>9. ("C" \in res.st <=> "C" \in keep) /\ ("OV" \in res.st <=> "OV" \in keep)
  BY <1>8
<1> QED BY <1>2, <1>7, <1>8, <1>9

(* A subtraction: the value, the carry, the overflow and the order flags   *)
(* are exact.                                                              *)
LEMMA SubFacts ==
  ASSUME NEW st \in SUBSET FlagNames, NEW byte \in BOOLEAN, NEW size, size = Size(byte),
         NEW a \in 0 .. size - 1, NEW b \in 0 .. size - 1,
         NEW res, res = Sub(st, a, b, byte)
  PROVE  /\ IsResult(res, byte)
         /\ res.v = (Signed(a, size) - Signed(b, size)) % size
         /\ "C" \in res.st <=> a >= b
         /\ "OV" \in res.st <=> (Signed(a, size) - Signed(b, size) \notin -(size \div 2) .. (size \div 2) - 1)
         /\ FlagsTell(res.st, Signed(res.v, size))
<1>1. size \in {Byte, Word}
  BY DEF Size
<1> DEFINE r == (a - b) % size
<1> DEFINE ov == High(a, size) # High(b, size) /\ High(a, size) # High(r, size)
<1>2. /\ r \in 0 .. size - 1 /\ r = (Signed(a, size) - Signed(b, size)) % size
      /\ ov = (Signed(a, size) - Signed(b, size) \notin -(size \div 2) .. (size \div 2) - 1)
  BY <1>1, DifferenceFacts
<1>3. res = Flagged(Kept(st, If(a >= b, "C"), If(ov, "OV")), r, byte)
  BY DEF Sub, Kept
<1> HIDE DEF r, ov
<1>4. PICK c \in SUBSET {"C"} : c = If(a >= b, "C") /\ ("C" \in c <=> a >= b)
  <2>1. (a >= b) \in BOOLEAN
    OBVIOUS
  <2> QED BY <2>1, IfFacts
<1>5. PICK o \in SUBSET {"OV"} : o = If(ov, "OV") /\ ("OV" \in o <=> ov)
  <2>1. ov \in BOOLEAN
    BY DEF ov
  <2> QED BY <2>1, IfFacts
<1>6. PICK keep : keep = Kept(st, c, o)
  OBVIOUS
<1>7. keep \subseteq FlagNames /\ ("C" \in keep <=> a >= b) /\ ("OV" \in keep <=> ov)
  BY <1>4, <1>5, <1>6, KeptFacts
<1>8. /\ IsResult(res, byte) /\ res.v = r /\ res.st \cap {"C", "OV"} = keep \cap {"C", "OV"}
      /\ FlagsTell(res.st, Signed(r, size))
  <2>1. r \in 0 .. Size(byte) - 1 /\ keep \in SUBSET FlagNames
    BY <1>2, <1>7
  <2>2. /\ IsResult(Flagged(keep, r, byte), byte) /\ Flagged(keep, r, byte).v = r
        /\ Flagged(keep, r, byte).st \cap {"C", "OV"} = keep \cap {"C", "OV"}
        /\ FlagsTell(Flagged(keep, r, byte).st, Signed(r, Size(byte)))
    BY <2>1, FlaggedFacts
  <2>3. res = Flagged(keep, r, byte)
    BY <1>3, <1>4, <1>5, <1>6
  <2> QED BY <2>2, <2>3
<1>9. ("C" \in res.st <=> "C" \in keep) /\ ("OV" \in res.st <=> "OV" \in keep)
  BY <1>8
<1> QED BY <1>2, <1>7, <1>8, <1>9

(* A comparison: the order flags tell the two numbers apart, signed and    *)
(* unsigned.                                                               *)
LEMMA CompareFacts ==
  ASSUME NEW st \in SUBSET FlagNames, NEW byte \in BOOLEAN, NEW a, NEW b
  PROVE  /\ Compare(st, a, b, byte) \in SUBSET FlagNames
         /\ ("EQ" \in Compare(st, a, b, byte)) = (a = b)
         /\ ("LGT" \in Compare(st, a, b, byte)) = (a > b)
         /\ ("AGT" \in Compare(st, a, b, byte)) = (Signed(a, Size(byte)) > Signed(b, Size(byte)))
<1>1. PICK kept \in SUBSET {"C", "OV", "P"} :
        Compare(st, a, b, byte) = kept \cup If(a = b, "EQ") \cup If(a > b, "LGT")
                                   \cup If(Signed(a, Size(byte)) > Signed(b, Size(byte)), "AGT")
  BY DEF Compare, If
<1> QED BY <1>1 DEF If, FlagNames

-----------------------------------------------------------------------------
(* Powers of two, and words built bit by bit.                              *)
LEMMA Powers ==
  \A n \in 0 .. 16 : 2 ^ n \in Nat /\ 2 ^ n > 0
<1> DEFINE P(n) == 2 ^ n
<1>1. /\ P(0) = 1 /\ P(1) = 2 /\ P(2) = 4 /\ P(3) = 8 /\ P(4) = 16 /\ P(5) = 32 /\ P(6) = 64
      /\ P(7) = 128 /\ P(8) = 256 /\ P(9) = 512 /\ P(10) = 1024 /\ P(11) = 2048
      /\ P(12) = 4096 /\ P(13) = 8192 /\ P(14) = 16384 /\ P(15) = 32768 /\ P(16) = 65536
  OBVIOUS
<1> HIDE DEF P
<1>2. \A n \in 0 .. 16 : P(n) \in Nat /\ P(n) > 0
  BY <1>1
<1> QED BY <1>2, Zenon DEF P

(* A number built bit by bit from the top fits in as many bits.            *)
LEMMA Doubled ==
  ASSUME NEW N \in Nat, NEW f \in [0 .. N -> Nat], f[0] = 0,
         \A k \in 1 .. N : f[k] = 2 * f[k - 1] \/ f[k] = (2 * f[k - 1]) + 1
  PROVE  N \in {6, 7, 8, 12, 14, 16} => f[N] \in 0 .. (2 ^ N) - 1
<1>1. ASSUME NEW k \in 1 .. N, NEW m \in Nat, f[k - 1] <= m PROVE f[k] <= (2 * m) + 1
  <2>1. f[k] \in Nat /\ f[k - 1] \in Nat
    OBVIOUS
  <2> QED BY <2>1, <1>1
<1>2. N >= 6 => f[1] <= 1 /\ f[2] <= 3
  <2>1. N >= 6 => f[1 - 1] <= 0
    OBVIOUS
  <2>2. N >= 6 => f[1] <= 1
    BY <2>1, <1>1
  <2> QED BY <2>2, <1>1
<1>3. N >= 6 => f[3] <= 7 
  BY <1>1, <1>2
<1>4. N >= 6 => f[4] <= 15
  BY <1>1, <1>3
<1>5. N >= 6 => f[5] <= 31
  BY <1>1, <1>4
<1>6. N >= 6 => f[6] <= 63
  BY <1>1, <1>5
<1>7. N >= 7 => f[7] <= 127
  BY <1>1, <1>6
<1>8. N >= 8 => f[8] <= 255
  BY <1>1, <1>7
<1>9. N >= 9 => f[9] <= 511
  BY <1>1, <1>8
<1>10. N >= 10 => f[10] <= 1023
  BY <1>1, <1>9
<1>11. N >= 11 => f[11] <= 2047
  BY <1>1, <1>10
<1>12. N >= 12 => f[12] <= 4095
  BY <1>1, <1>11
<1>13. N >= 13 => f[13] <= 8191
  BY <1>1, <1>12
<1>14. N >= 14 => f[14] <= 16383
  BY <1>1, <1>13
<1>15. N >= 15 => f[15] <= 32767
  BY <1>1, <1>14
<1>16. N >= 16 => f[16] <= 65535
  BY <1>1, <1>15
<1>17. f[N] \in Nat
  OBVIOUS
<1>18. N = 6 => f[N] \in 0 .. (2 ^ N) - 1
  <2>1. N = 6 => 2 ^ N = 2 ^ 6
    OBVIOUS
  <2> QED BY <2>1, <1>6, <1>17
<1>19. N = 7 => f[N] \in 0 .. (2 ^ N) - 1
  <2>1. N = 7 => 2 ^ N = 2 ^ 7
    OBVIOUS
  <2> QED BY <2>1, <1>7, <1>17
<1>20. N = 8 => f[N] \in 0 .. (2 ^ N) - 1
  <2>1. N = 8 => 2 ^ N = 2 ^ 8
    OBVIOUS
  <2> QED BY <2>1, <1>8, <1>17
<1>21. N = 12 => f[N] \in 0 .. (2 ^ N) - 1
  <2>1. N = 12 => 2 ^ N = 2 ^ 12
    OBVIOUS
  <2> QED BY <2>1, <1>12, <1>17
<1>22. N = 14 => f[N] \in 0 .. (2 ^ N) - 1
  <2>1. N = 14 => 2 ^ N = 2 ^ 14
    OBVIOUS
  <2> QED BY <2>1, <1>14, <1>17
<1>23. N = 16 => f[N] \in 0 .. (2 ^ N) - 1
  <2>1. N = 16 => 2 ^ N = 2 ^ 16
    OBVIOUS
  <2> QED BY <2>1, <1>16, <1>17
<1> QED BY <1>18, <1>19, <1>20, <1>21, <1>22, <1>23

(* A byte and a word have one of a few widths.                             *)
LEMMA SizeIs ==
  ASSUME NEW byte \in BOOLEAN
  PROVE  \E N \in {6, 7, 8, 12, 14, 16} :
           N = (IF byte THEN ByteBits ELSE 2 * ByteBits) /\ Size(byte) = 2 ^ N
<1>1. /\ 2 ^ 6 = 64 /\ 2 ^ 7 = 128 /\ 2 ^ 8 = 256 /\ 2 ^ 12 = 4096 /\ 2 ^ 14 = 16384
      /\ 2 ^ 16 = 65536
  OBVIOUS
<1>2. CASE ByteBits = 6
  BY <1>1, <1>2, Widths DEF Size
<1>3. CASE ByteBits = 7
  BY <1>1, <1>3, Widths DEF Size
<1>4. CASE ByteBits = 8
  BY <1>1, <1>4, Widths DEF Size
<1> QED BY <1>2, <1>3, <1>4, Widths

(* A conjunction of bits fits in the width it is taken in.                 *)
LEMMA AndFacts ==
  ASSUME NEW a \in Nat, NEW b \in Nat, NEW byte \in BOOLEAN
  PROVE  And(a, b, byte) \in 0 .. Size(byte) - 1
<1>1. PICK N \in {6, 7, 8, 12, 14, 16} :
        N = (IF byte THEN ByteBits ELSE 2 * ByteBits) /\ Size(byte) = 2 ^ N
  BY SizeIs
<1> DEFINE bit(k) == ((a \div 2 ^ (N - k)) % 2) * ((b \div 2 ^ (N - k)) % 2)
<1> DEFINE To(n, f) == f = [k \in 0 .. n |-> IF k = 0 THEN 0 ELSE (2 * f[k - 1]) + bit(k)]
<1>2. ASSUME NEW k \in 1 .. N PROVE bit(k) = 0 \/ bit(k) = 1
  <2>1. N - k \in 0 .. 16
    OBVIOUS
  <2>2. PICK p \in Nat : p = 2 ^ (N - k) /\ p > 0
    BY <2>1, Powers
  <2>3. (a \div p) % 2 \in {0, 1} /\ (b \div p) % 2 \in {0, 1}
    BY <2>2
  <2> QED BY <2>2, <2>3
<1> HIDE DEF bit
<1> DEFINE G == {n \in 0 .. N : \E f \in [0 .. n -> Nat] : To(n, f)}
<1>3. N \in G
  <2>1. 0 \in G
    <3>1. [k \in 0 .. 0 |-> 0] \in [0 .. 0 -> Nat] /\ To(0, [k \in 0 .. 0 |-> 0])
      OBVIOUS
    <3>2. \E f \in [0 .. 0 -> Nat] : To(0, f)
      BY <3>1, Zenon
    <3> QED BY <3>2
  <2>2. ASSUME NEW n \in 1 .. N, n - 1 \in G PROVE n \in G
    <3>1. PICK f \in [0 .. n - 1 -> Nat] : To(n - 1, f)
      BY <2>2
    <3> DEFINE g == [k \in 0 .. n |-> IF k = n THEN (2 * f[n - 1]) + bit(n) ELSE f[k]]
    <3>2. \A k \in 0 .. n - 1 : g[k] = f[k]
      OBVIOUS
    <3>3. g \in [0 .. n -> Nat]
      <4>1. f[n - 1] \in Nat /\ (bit(n) = 0 \/ bit(n) = 1)
        BY <1>2
      <4>2. \A k \in 0 .. n : k # n => k \in 0 .. n - 1 /\ f[k] \in Nat
        OBVIOUS
      <4> QED BY <4>1, <4>2
    <3>4. \A k \in 0 .. n : g[k] = IF k = 0 THEN 0 ELSE (2 * g[k - 1]) + bit(k)
      BY <3>1, <3>2
    <3>5. To(n, g)
      BY <3>3, <3>4
    <3>6. \E h \in [0 .. n -> Nat] : To(n, h)
      BY <3>3, <3>5, Zenon
    <3>7. n \in 0 .. N
      OBVIOUS
    <3> HIDE DEF g
    <3> QED BY <3>6, <3>7, Zenon
  <2> HIDE DEF G
  <2> QED BY <2>1, <2>2, Induction
<1>4. \E f \in [0 .. N -> Nat] : To(N, f)
  BY <1>3
<1> DEFINE f == CHOOSE x : To(N, x)
<1>5. To(N, f)
  BY <1>4, Zenon
<1>6. And(a, b, byte) = f[N]
  BY <1>1 DEF And, bit
<1>7. f \in [0 .. N -> Nat]
  <2>1. PICK e \in [0 .. N -> Nat] : To(N, e)
    BY <1>4, Zenon
  <2> HIDE DEF f
  <2> DEFINE H == {k \in 0 .. N : f[k] = e[k]}
  <2>2. 0 \in H
    BY <1>5, <2>1
  <2>3. ASSUME NEW k \in 1 .. N, k - 1 \in H PROVE k \in H
    <3>1. f[k] = (2 * f[k - 1]) + bit(k) /\ e[k] = (2 * e[k - 1]) + bit(k) /\ f[k - 1] = e[k - 1]
      BY <1>5, <2>1, <2>3
    <3> QED BY <3>1
  <2> HIDE DEF H
  <2>4. \A k \in 0 .. N : k \in H
    BY <2>2, <2>3, Induction
  <2>5. \A k \in 0 .. N : f[k] = e[k]
    BY <2>4 DEF H
  <2> QED BY <1>5, <2>5
<1> HIDE DEF f, G
<1>8. f[0] = 0
  BY <1>5
<1>9. \A k \in 1 .. N : f[k] = 2 * f[k - 1] \/ f[k] = (2 * f[k - 1]) + 1
  <2> TAKE k \in 1 .. N
  <2>1. f[k] = (2 * f[k - 1]) + bit(k) /\ f[k - 1] \in Nat
    BY <1>5, <1>7
  <2> QED BY <1>2, <2>1
<1>10. f[N] \in 0 .. (2 ^ N) - 1
  <2>1. N \in Nat
    OBVIOUS
  <2>2. N \in {6, 7, 8, 12, 14, 16} => f[N] \in 0 .. (2 ^ N) - 1
    BY <2>1, <1>7, <1>8, <1>9, Doubled
  <2> QED BY <2>2
<1> QED BY <1>1, <1>6, <1>10

(* The four bitwise operators stay in their width.                         *)
LEMMA LogicFacts ==
  ASSUME NEW byte \in BOOLEAN, NEW a \in 0 .. Size(byte) - 1, NEW b \in 0 .. Size(byte) - 1
  PROVE  /\ And(a, b, byte) \in 0 .. Size(byte) - 1
         /\ Not(a, byte) \in 0 .. Size(byte) - 1
         /\ Ior(a, b, byte) \in 0 .. Size(byte) - 1
         /\ Xor(a, b, byte) \in 0 .. Size(byte) - 1
<1>1. PICK size \in Nat : size = Size(byte)
  BY Widths DEF Size
<1>2. \A x \in 0 .. size - 1 : x \in Nat /\ Not(x, byte) \in 0 .. size - 1
  BY <1>1 DEF Not
<1>3. \A x \in 0 .. size - 1 : \A y \in 0 .. size - 1 : And(x, y, byte) \in 0 .. size - 1
  BY <1>1, <1>2, AndFacts
<1>4. Ior(a, b, byte) \in 0 .. size - 1
  BY <1>1, <1>2, <1>3 DEF Ior
<1>5. Xor(a, b, byte) \in 0 .. size - 1
  BY <1>1, <1>2, <1>3, <1>4 DEF Xor
<1> QED BY <1>1, <1>2, <1>3, <1>4, <1>5
-----------------------------------------------------------------------------
(* The status register as a byte, and back.                                *)
LEMMA StByteFacts ==
  ASSUME NEW st
  PROVE  StByte(st) \in AnyByte
<1> DEFINE V(i) == IF FlagBits[i] \in st THEN 2 ^ (ByteBits - i) ELSE 0
<1>1. CASE ByteBits = 6
  <2>1. /\ V(1) \in 0 .. 32 /\ V(2) \in 0 .. 16 /\ V(3) \in 0 .. 8 /\ V(4) \in 0 .. 4
        /\ V(5) \in 0 .. 2 /\ V(6) \in 0 .. 1
    <3>1. /\ 2 ^ (ByteBits - 1) = 2 ^ 5 /\ 2 ^ (ByteBits - 2) = 2 ^ 4 /\ 2 ^ (ByteBits - 3) = 2 ^ 3
          /\ 2 ^ (ByteBits - 4) = 2 ^ 2 /\ 2 ^ (ByteBits - 5) = 2 ^ 1 /\ 2 ^ (ByteBits - 6) = 2 ^ 0
      BY <1>1
    <3> QED BY <3>1
  <2>2. StByte(st) = V(1) + V(2) + V(3) + V(4) + V(5) + V(6)
    BY DEF StByte
  <2> HIDE DEF V
  <2> QED BY <1>1, <2>1, <2>2, Widths DEF AnyByte
<1>2. CASE ByteBits = 7
  <2>1. /\ V(1) \in 0 .. 64 /\ V(2) \in 0 .. 32 /\ V(3) \in 0 .. 16 /\ V(4) \in 0 .. 8
        /\ V(5) \in 0 .. 4 /\ V(6) \in 0 .. 2
    <3>1. /\ 2 ^ (ByteBits - 1) = 2 ^ 6 /\ 2 ^ (ByteBits - 2) = 2 ^ 5 /\ 2 ^ (ByteBits - 3) = 2 ^ 4
          /\ 2 ^ (ByteBits - 4) = 2 ^ 3 /\ 2 ^ (ByteBits - 5) = 2 ^ 2 /\ 2 ^ (ByteBits - 6) = 2 ^ 1
      BY <1>2
    <3> QED BY <3>1
  <2>2. StByte(st) = V(1) + V(2) + V(3) + V(4) + V(5) + V(6)
    BY DEF StByte
  <2> HIDE DEF V
  <2> QED BY <1>2, <2>1, <2>2, Widths DEF AnyByte
<1>3. CASE ByteBits = 8
  <2>1. /\ V(1) \in 0 .. 128 /\ V(2) \in 0 .. 64 /\ V(3) \in 0 .. 32 /\ V(4) \in 0 .. 16
        /\ V(5) \in 0 .. 8 /\ V(6) \in 0 .. 4
    <3>1. /\ 2 ^ (ByteBits - 1) = 2 ^ 7 /\ 2 ^ (ByteBits - 2) = 2 ^ 6 /\ 2 ^ (ByteBits - 3) = 2 ^ 5
          /\ 2 ^ (ByteBits - 4) = 2 ^ 4 /\ 2 ^ (ByteBits - 5) = 2 ^ 3 /\ 2 ^ (ByteBits - 6) = 2 ^ 2
      BY <1>3
    <3> QED BY <3>1
  <2>2. StByte(st) = V(1) + V(2) + V(3) + V(4) + V(5) + V(6)
    BY DEF StByte
  <2> HIDE DEF V
  <2>3. AnyByte = 0 .. 255
    BY <1>3, Widths DEF AnyByte
  <2>4. PICK v1 \in 0 .. 128, v2 \in 0 .. 64, v3 \in 0 .. 32, v4 \in 0 .. 16, v5 \in 0 .. 8,
          v6 \in 0 .. 4 : StByte(st) = v1 + v2 + v3 + v4 + v5 + v6
    BY <2>1, <2>2, Zenon
  <2> QED BY <2>3, <2>4
<1> QED BY <1>1, <1>2, <1>3, Widths

(* A byte read back into the status register gives flags.                  *)
LEMMA StFlagsFacts ==
  ASSUME NEW b
  PROVE  StFlags(b) \in SUBSET FlagNames
<1>1. \A i \in 1 .. 6 : FlagBits[i] \in FlagNames
  BY DEF FlagBits, FlagNames
<1>2. PICK J \in SUBSET (1 .. 6) : StFlags(b) = {FlagBits[i] : i \in J}
  BY DEF StFlags
<1> QED BY <1>1, <1>2

(* What an instruction does with its result keeps the machine one.         *)
LEMMA FlagsFacts ==
  ASSUME NEW c, IsMachine(c), NEW st \in SUBSET FlagNames
  PROVE  IsMachine(Flags(c, st)) /\ Flags(c, st) = [c EXCEPT !.st = st]
BY MachineParts DEF Flags

(* A result kept in a register leaves a machine.                           *)
LEMMA ToRegFacts ==
  ASSUME NEW c, IsMachine(c), NEW r \in Nat, NEW res, IsResult(res, FALSE)
  PROVE  IsMachine(ToReg(c, r, res))
<1>1. res.v \in AnyWord /\ res.st \in SUBSET FlagNames
  BY DEF IsResult
<1>2. IsMachine(SetReg(c, r, res.v))
  BY <1>1, SetRegFacts
<1> QED BY <1>1, <1>2, FlagsFacts DEF ToReg

(* A result kept in the operand's place leaves a machine.                  *)
LEMMA ToPlaceFacts ==
  ASSUME NEW o, IsOperand(o), NEW res, IsResult(res, o.byte)
  PROVE  IsMachine(ToPlace(o, res))
<1>1. res.v \in (IF o.byte THEN AnyByte ELSE AnyWord) /\ res.st \in SUBSET FlagNames
  BY DEF IsResult
<1>2. IsMachine(o.c)
  BY DEF IsOperand
<1>3. IsMachine(Store(o.c, o, res.v))
  BY <1>1, <1>2, StoreFacts
<1> QED BY <1>1, <1>3, FlagsFacts DEF ToPlace

(* A jump leaves a machine: the program counter wraps.                     *)
LEMMA JumpFacts ==
  ASSUME NEW c, IsMachine(c), NEW to \in Int
  PROVE  IsMachine(Jump(c, to))
<1>1. to % Word \in AnyWord
  BY Widths DEF AnyWord
<1> QED BY <1>1, MachineParts DEF Jump

(* A logical instruction's result is in range, and its value what it was   *)
(* computed to be.                                                         *)
LEMMA LogicalFacts ==
  ASSUME NEW c, IsMachine(c), NEW byte \in BOOLEAN, NEW v \in 0 .. Size(byte) - 1
  PROVE  IsResult(Logical(c, v, byte), byte) /\ Logical(c, v, byte).v = v
<1>1. c.st \in SUBSET FlagNames
  BY MachineFields
<1> QED BY <1>1, FlaggedFacts DEF Logical

(* The size of an operation names the bytes or the words.                  *)
LEMMA SizeFacts ==
  /\ 0 .. Size(TRUE) - 1 = AnyByte /\ 0 .. Size(FALSE) - 1 = AnyWord
  /\ Size(TRUE) = Byte /\ Size(FALSE) = Word /\ Size(TRUE) \in Nat /\ Size(FALSE) \in Nat
BY Widths DEF Size, AnyByte, AnyWord

-----------------------------------------------------------------------------
(* Every instruction leaves a machine.                                     *)
LEMMA ImmediateFacts ==
  ASSUME NEW c, IsMachine(c), NEW i, IsFields(i), i.op \in ImmediateOps
  PROVE  IsMachine(Immediate(c, i))
<1>1. PICK f : f = Fetched(c)
  OBVIOUS
<1>2. PICK r \in Nat : r = i.s.r
  BY DEF IsFields, Operands
<1>3. PICK n \in AnyWord : n = i.n
  BY DEF IsFields
<1>4. IsMachine(f)
  BY <1>1, FetchedFacts
<1>5. PICK v \in AnyWord : v = GetReg(f, r)
  BY <1>4, GetRegFacts
<1>6. f.st \in SUBSET FlagNames
  BY <1>4, MachineFields
<1>7. n \in 0 .. Size(FALSE) - 1 /\ v \in 0 .. Size(FALSE) - 1
  BY SizeFacts
<1>8. CASE i.op \in {"LI", "ANDI", "ORI"}
  <2>1. PICK w \in 0 .. Size(FALSE) - 1 : w \in {n, And(v, n, FALSE), Ior(v, n, FALSE)} /\ Immediate(c, i) = ToReg(f, r, Logical(f, w, FALSE))
    <3>1. And(v, n, FALSE) \in 0 .. Size(FALSE) - 1 /\ Ior(v, n, FALSE) \in 0 .. Size(FALSE) - 1
      BY <1>7, LogicFacts
    <3> QED BY <3>1, <1>1, <1>2, <1>3, <1>5, <1>7, <1>8 DEF Immediate
  <2>2. IsResult(Logical(f, w, FALSE), FALSE)
    BY <1>4, <2>1, LogicalFacts
  <2> QED BY <1>4, <2>1, <2>2, ToRegFacts
<1>9. CASE i.op = "AI"
  <2>1. PICK res : res = Add(f.st, v, n, FALSE) /\ Immediate(c, i) = ToReg(f, r, res)
    BY <1>1, <1>2, <1>3, <1>5, <1>9 DEF Immediate
  <2>2. IsResult(res, FALSE)
    BY <1>6, <1>7, <2>1, AddFacts
  <2> QED BY <1>4, <2>1, <2>2, ToRegFacts
<1>10. CASE i.op = "CI"
  <2>1. PICK st : st = Compare(f.st, v, n, FALSE) /\ Immediate(c, i) = Flags(f, st)
    BY <1>1, <1>2, <1>3, <1>5, <1>10 DEF Immediate
  <2>2. st \in SUBSET FlagNames
    BY <1>6, <2>1, CompareFacts
  <2>3. IsMachine(Flags(f, st))
    BY <1>4, <2>2, FlagsFacts
  <2> QED BY <2>1, <2>3
<1>11. CASE i.op \in {"LWPI", "LIMI", "CKON", "IDLE"}
  <2>1. Immediate(c, i) \in {[f EXCEPT !.wp = Even(n)], f, c, [c EXCEPT !.on = FALSE]}
    BY <1>1, <1>3, <1>11 DEF Immediate
  <2>2. Even(n) \in AnyWord
    BY EvenFacts
  <2>3. IsMachine([f EXCEPT !.wp = Even(n)]) /\ IsMachine([c EXCEPT !.on = FALSE])
    BY <1>4, <2>2, MachineParts
  <2> QED BY <1>4, <2>1, <2>3
<1>12. CASE i.op \in {"STWP", "STST"}
  <2>1. PICK w : w \in {c.wp, StByte(c.st) * Byte} /\ Immediate(c, i) = SetReg(c, r, w)
    BY <1>2, <1>12 DEF Immediate
  <2>2. StByte(c.st) * Byte \in AnyWord
    BY StByteFacts, Widths DEF AnyByte, AnyWord
  <2>3. w \in AnyWord
    BY <2>1, <2>2, MachineFields
  <2> QED BY <2>1, <2>3, SetRegFacts
<1>13. CASE i.op = "RTWP"
  <2>1. PICK st, pc, wp : /\ st = StFlags(At(c.mem, c.wp + 30)) /\ pc = Even(AtWord(c.mem, c.wp + 28))
                          /\ wp = Even(AtWord(c.mem, c.wp + 26))
    OBVIOUS
  <2>2. Immediate(c, i) = [c EXCEPT !.st = st, !.pc = pc, !.wp = wp]
    BY <1>13, <2>1 DEF Immediate
  <2>3. st \in SUBSET FlagNames /\ pc \in AnyWord /\ wp \in AnyWord
    BY <2>1, StFlagsFacts, EvenFacts, AtFacts, MachineFields
  <2> QED BY <2>2, <2>3 DEF IsMachine
<1> QED BY <1>8, <1>9, <1>10, <1>11, <1>12, <1>13 DEF ImmediateOps

(* The jump instructions leave a machine.                                  *)
LEMMA BranchFacts ==
  ASSUME NEW c, IsMachine(c), NEW i, IsFields(i), i.op \in JumpOps
  PROVE  IsMachine(Branch(c, i))
<1>1. i.n \in Int /\ c.pc \in Int /\ c.st \in SUBSET FlagNames
  BY MachineFields, Widths DEF IsFields, AnyWord
<1>2. IsMachine(Jump(c, c.pc - 2)) /\ IsMachine(Jump(c, c.pc + (2 * i.n)))
  BY <1>1, JumpFacts
<1>3. IsMachine([Jump(c, c.pc - 2) EXCEPT !.on = FALSE])
  BY <1>2, MachineParts
<1>4. IsMachine(Flags(c, c.st \ {"EQ"}))
  BY <1>1, FlagsFacts
<1> QED BY <1>2, <1>3, <1>4 DEF Branch

(* A shift count is never zero: register 0 with count 0 shifts a whole     *)
(* word.                                                                   *)
LEMMA ShiftCountFacts ==
  ASSUME NEW c, IsMachine(c), NEW i, IsFields(i), i.op \in ShiftOps
  PROVE  ShiftCount(c, i) \in 1 .. 2 * ByteBits
<1>1. i.n \in 0 .. (2 * ByteBits) - 1
  BY DEF IsFields
<1>2. PICK n \in Nat : n = GetReg(c, 0)
  BY GetRegFacts, Widths DEF AnyWord
<1>3. n % (2 * ByteBits) \in 0 .. (2 * ByteBits) - 1
  BY Widths
<1> QED BY <1>1, <1>2, <1>3, Widths DEF ShiftCount

(* A shifted value fits in a word whatever the count.                      *)
LEMMA ShiftedFacts ==
  ASSUME NEW op \in ShiftOps, NEW st \in SUBSET FlagNames, NEW v \in AnyWord, NEW n \in 1 .. 2 * ByteBits
  PROVE  IsResult(Shifted(op, st, v, n), FALSE)
<1>1. v \in Int /\ Signed(v, Word) \in Int
  BY Widths DEF AnyWord, Signed
<1>2. n \in 0 .. 16 /\ (2 * ByteBits) - n \in 0 .. 16
  BY Widths
<1>3. PICK p \in Nat : p = 2 ^ n /\ p > 0
  BY <1>2, Powers
<1>4. PICK q \in Nat : q = 2 ^ ((2 * ByteBits) - n) /\ q > 0
  BY <1>2, Powers
<1>5. ASSUME NEW x \in Int PROVE x % Word \in AnyWord
  BY Widths DEF AnyWord
<1>6. ASSUME NEW keep, keep \subseteq FlagNames, NEW w \in AnyWord
      PROVE  IsResult(Flagged(keep, w, FALSE), FALSE)
  <2>1. keep \in SUBSET FlagNames /\ w \in 0 .. Size(FALSE) - 1
    BY <1>6, SizeFacts
  <2> QED BY <2>1, FlaggedFacts
<1>7. \A b : If(b, "C") \subseteq FlagNames /\ If(b, "OV") \subseteq FlagNames
  BY DEF If, FlagNames
<1>8. \A s : st \cap s \subseteq FlagNames
  OBVIOUS
<1>9. ASSUME NEW a, NEW b, a \subseteq FlagNames, b \subseteq FlagNames PROVE (a \cup b) \subseteq FlagNames
  BY <1>9
<1>10. CASE op = "SLA"
  <2>1. PICK b1, b2 : Shifted(op, st, v, n) = Flagged((st \cap {"P"}) \cup If(b1, "C") \cup If(b2, "OV"), (Signed(v, Word) * p) % Word, FALSE)
    BY <1>3, <1>10 DEF Shifted
  <2>2. (Signed(v, Word) * p) % Word \in AnyWord
    BY <1>1, <1>5
  <2>3. ((st \cap {"P"}) \cup If(b1, "C") \cup If(b2, "OV")) \subseteq FlagNames
    BY <1>7, <1>8, <1>9
  <2> QED BY <2>1, <2>2, <2>3, <1>6
<1>11. CASE op # "SLA"
  <2>1. PICK b, w : /\ Shifted(op, st, v, n) = Flagged((st \cap {"OV", "P"}) \cup If(b, "C"), w, FALSE)
                    /\ \/ w = (Signed(v, Word) \div p) % Word
                       \/ w = v \div p
                       \/ w = ((v \div p) + (v * q)) % Word
                       \/ w = ((v \div q) + (v * 2 ^ ((2 * ByteBits) - ((2 * ByteBits) - n)))) % Word
    BY <1>3, <1>4, <1>11 DEF Shifted, ShiftOps
  <2>2. 2 ^ ((2 * ByteBits) - ((2 * ByteBits) - n)) = p
    <3>1. (2 * ByteBits) - ((2 * ByteBits) - n) = n
      BY Widths
    <3> QED BY <3>1, <1>3
  <2>3. /\ (Signed(v, Word) \div p) % Word \in AnyWord /\ ((v \div p) + (v * q)) % Word \in AnyWord
        /\ ((v \div q) + (v * p)) % Word \in AnyWord
    <3>1. Signed(v, Word) \div p \in Int /\ (v \div p) + (v * q) \in Int /\ (v \div q) + (v * p) \in Int
      BY <1>1, <1>3, <1>4
    <3> QED BY <3>1, <1>5
  <2>4. v \div p \in AnyWord
    <3>1. v \div p \in 0 .. v
      BY <1>3, Widths DEF AnyWord
    <3> QED BY <3>1, Widths DEF AnyWord
  <2>5. w \in AnyWord
    BY <2>1, <2>2, <2>3, <2>4
  <2>6. ((st \cap {"OV", "P"}) \cup If(b, "C")) \subseteq FlagNames
    BY <1>7, <1>8, <1>9
  <2> QED BY <2>1, <2>5, <2>6, <1>6
<1> QED BY <1>10, <1>11

(* The shift instructions leave a machine.                                 *)
LEMMA ShiftFacts ==
  ASSUME NEW c, IsMachine(c), NEW i, IsFields(i), i.op \in ShiftOps
  PROVE  IsMachine(Shift(c, i))
<1>1. PICK r \in Nat : r = i.s.r
  BY DEF IsFields, Operands
<1>2. PICK res : res = Shifted(i.op, c.st, GetReg(c, r), ShiftCount(c, i))
  OBVIOUS
<1>3. c.st \in SUBSET FlagNames /\ GetReg(c, r) \in AnyWord
  BY MachineFields, GetRegFacts
<1>4. ShiftCount(c, i) \in 1 .. 2 * ByteBits
  BY ShiftCountFacts
<1>5. IsResult(res, FALSE)
  BY <1>2, <1>3, <1>4, ShiftedFacts
<1>6. Shift(c, i) = ToReg(c, r, res)
  BY <1>1, <1>2 DEF Shift
<1> QED BY <1>5, <1>6, ToRegFacts

(* A word pushed on the part's stack leaves a machine.                     *)
LEMMA PushedFacts ==
  ASSUME NEW c, IsMachine(c), NEW v \in AnyWord
  PROVE  IsMachine(Pushed(c, v))
<1>1. PICK sp \in AnyWord : sp = Even(GetReg(c, 15))
  BY GetRegFacts, EvenFacts
<1>2. PICK d : d = SetReg(c, 15, (sp - 2) % Word)
  OBVIOUS
<1>3. (sp - 2) % Word \in AnyWord /\ sp \in Nat
  BY Widths DEF AnyWord
<1>4. IsMachine(d)
  BY <1>2, <1>3, SetRegFacts
<1>5. IsMachine(Write16(d, sp, v))
  BY <1>3, <1>4, Write16Facts
<1> QED BY <1>1, <1>2, <1>5 DEF Pushed

(* CALL, RET, PUSH and POP leave a machine.                           *)
LEMMA StackFacts ==
  ASSUME NEW c, IsMachine(c), NEW i, IsFields(i), i.op \in StackOps
  PROVE  IsMachine(Stack(c, i))
<1>1. PICK o : o = Decode(c, i.s, FALSE)
  OBVIOUS
<1>2. i.s \in Operands
  BY DEF IsFields
<1>3. IsOperand(o) /\ o.byte = FALSE
  BY <1>1, <1>2, DecodeFacts
<1>4. PICK d : d = IF i.op = "RET" THEN c ELSE o.c
  OBVIOUS
<1>5. IsMachine(o.c) /\ IsMachine(d)
  BY <1>3, <1>4 DEF IsOperand
<1>6. PICK sp : sp = (Even(GetReg(d, 15)) + 2) % Word
  OBVIOUS
<1>7. sp \in AnyWord
  BY <1>5, <1>6, GetRegFacts, EvenFacts, Widths DEF AnyWord
<1>8. PICK up : up = SetReg(d, 15, sp)
  OBVIOUS
<1>9. IsMachine(up)
  BY <1>5, <1>7, <1>8, SetRegFacts
<1>10. o.at \in Nat /\ Target(o) \in Int /\ o.val \in AnyWord
  <2>1. o.at \in Nat /\ o.val \in AnyWord
    BY <1>3 DEF IsOperand
  <2> QED BY <2>1 DEF Target, Even
<1>11. CASE i.op = "CALL"
  <2>1. Stack(c, i) = Jump(Pushed(d, d.pc), Target(o))
    BY <1>1, <1>4, <1>11 DEF Stack
  <2>2. IsMachine(Pushed(d, d.pc))
    BY <1>5, MachineFields, PushedFacts
  <2> QED BY <1>10, <2>1, <2>2, JumpFacts
<1>12. CASE i.op = "RET"
  <2>1. Stack(c, i) = Jump(up, Even(Read16(d, sp)))
    BY <1>1, <1>4, <1>6, <1>8, <1>12 DEF Stack
  <2>2. Even(Read16(d, sp)) \in Int
    BY <1>5, ReadFacts, EvenFacts, Widths DEF AnyWord
  <2> QED BY <1>9, <2>1, <2>2, JumpFacts
<1>13. CASE i.op = "PUSH"
  <2>1. Stack(c, i) = Pushed(d, o.val)
    BY <1>1, <1>4, <1>13 DEF Stack
  <2> QED BY <1>5, <1>10, <2>1, PushedFacts
<1>14. CASE i.op = "POP"
  <2>1. Stack(c, i) = Store(up, o, Read16(up, sp))
    BY <1>1, <1>4, <1>6, <1>8, <1>14 DEF Stack
  <2>2. Read16(up, sp) \in IF o.byte THEN AnyByte ELSE AnyWord
    BY <1>3, <1>9, ReadFacts
  <2> QED BY <1>3, <1>9, <2>1, <2>2, StoreFacts
<1> QED BY <1>11, <1>12, <1>13, <1>14 DEF StackOps

(* The word and byte instructions of two operands leave a machine.         *)
LEMMA TwoOperandFacts ==
  ASSUME NEW c0, IsMachine(c0), NEW i, IsFields(i), i.op \in WordOps \cup ByteOps
  PROVE  IsMachine(TwoOperand(c0, i))
<1>1. PICK byte \in BOOLEAN : byte = (i.op \in ByteOps)
  <2>1. (i.op \in ByteOps) \in BOOLEAN
    OBVIOUS
  <2> QED BY <2>1, Zenon
<1>2. PICK s : s = Decode(c0, i.s, byte)
  OBVIOUS
<1>3. i.s \in Operands /\ i.d \in Operands
  BY DEF IsFields
<1>4. IsOperand(s) /\ s.byte = byte
  BY <1>2, <1>3, DecodeFacts
<1>5. PICK o : o = Decode(s.c, i.d, byte)
  OBVIOUS
<1>6. IsMachine(s.c)
  BY <1>4 DEF IsOperand
<1>7. IsOperand(o) /\ o.byte = byte
  BY <1>3, <1>5, <1>6, DecodeFacts
<1>8. PICK c : c = o.c
  OBVIOUS
<1>9. IsMachine(c) /\ c.st \in SUBSET FlagNames
  BY <1>7, <1>8, MachineFields DEF IsOperand
<1>10. PICK size \in Nat : size = Size(byte)
  BY SizeFacts
<1>11. s.val \in 0 .. size - 1 /\ o.val \in 0 .. size - 1
  BY <1>4, <1>7, <1>10, SizeFacts DEF IsOperand
<1>12. /\ And(o.val, Not(s.val, byte), byte) \in 0 .. Size(byte) - 1
       /\ Ior(o.val, s.val, byte) \in 0 .. Size(byte) - 1
       /\ s.val \in 0 .. Size(byte) - 1
  <2>1. Not(s.val, byte) \in 0 .. Size(byte) - 1
    BY <1>10, <1>11, LogicFacts
  <2> QED BY <1>10, <1>11, <2>1, LogicFacts
<1>13. ASSUME NEW res, IsResult(res, byte), TwoOperand(c0, i) = ToPlace(o, res)
       PROVE  IsMachine(TwoOperand(c0, i))
  BY <1>7, <1>13, ToPlaceFacts
<1>14. CASE i.op \in {"C", "CB"}
  <2>1. PICK st : st = Compare(c.st, s.val, o.val, byte) /\ TwoOperand(c0, i) = Flags(c, st)
    BY <1>1, <1>2, <1>5, <1>8, <1>14 DEF TwoOperand
  <2>2. st \in SUBSET FlagNames
    BY <1>9, <2>1, CompareFacts
  <2>3. IsMachine(Flags(c, st))
    BY <1>9, <2>2, FlagsFacts
  <2> QED BY <2>1, <2>3
<1>15. CASE i.op \in {"SZC", "SZCB", "MOV", "MOVB", "SOC", "SOCB"}
  <2>1. PICK w \in 0 .. Size(byte) - 1 : TwoOperand(c0, i) = ToPlace(o, Logical(c, w, byte))
    BY <1>1, <1>2, <1>5, <1>8, <1>12, <1>15 DEF TwoOperand
  <2>2. IsResult(Logical(c, w, byte), byte)
    BY <1>9, LogicalFacts
  <2> QED BY <1>13, <2>1, <2>2
<1>16. CASE i.op \in {"S", "SB"}
  <2>1. PICK res : res = Sub(c.st, o.val, s.val, byte) /\ TwoOperand(c0, i) = ToPlace(o, res)
    BY <1>1, <1>2, <1>5, <1>8, <1>16 DEF TwoOperand
  <2>2. IsResult(res, byte)
    BY <1>9, <1>10, <1>11, <2>1, SubFacts
  <2> QED BY <1>13, <2>1, <2>2
<1>17. CASE i.op \in {"A", "AB"}
  <2>1. PICK res : res = Add(c.st, o.val, s.val, byte) /\ TwoOperand(c0, i) = ToPlace(o, res)
    BY <1>1, <1>2, <1>5, <1>8, <1>17 DEF TwoOperand
  <2>2. IsResult(res, byte)
    BY <1>9, <1>10, <1>11, <2>1, AddFacts
  <2> QED BY <1>13, <2>1, <2>2
<1> QED BY <1>14, <1>15, <1>16, <1>17 DEF WordOps, ByteOps

(* BLWP leaves a machine, whatever lies at the vector.                     *)
LEMMA SwitchFacts ==
  ASSUME NEW c, IsMachine(c), NEW o, IsOperand(o), o.val \in AnyWord
  PROVE  IsMachine(Switch(c, o))
<1>1. PICK wp \in AnyWord : wp = Even(o.val)
  BY EvenFacts
<1>2. PICK c1 : c1 = [c EXCEPT !.wp = wp]
  OBVIOUS
<1>3. PICK c2 : c2 = Write16(c1, (wp + 26) % Word, c.wp)
  OBVIOUS
<1>4. PICK c3 : c3 = Write16(c2, (wp + 28) % Word, c.pc)
  OBVIOUS
<1>5. PICK in : in = Write16(c3, (wp + 30) % Word, StByte(c.st) * Byte)
  OBVIOUS
<1>6. /\ (wp + 26) % Word \in Nat /\ (wp + 28) % Word \in Nat /\ (wp + 30) % Word \in Nat
      /\ StByte(c.st) * Byte \in AnyWord
  BY StByteFacts, Widths DEF AnyByte, AnyWord
<1>7. c.wp \in AnyWord /\ c.pc \in AnyWord
  BY MachineFields
<1>8. IsMachine(c1)
  BY <1>2, MachineParts
<1>9. IsMachine(c2)
  BY <1>3, <1>6, <1>7, <1>8, Write16Facts
<1>10. IsMachine(c3)
  BY <1>4, <1>6, <1>7, <1>9, Write16Facts
<1>11. IsMachine(in)
  BY <1>5, <1>6, <1>10, Write16Facts
<1>12. PICK to \in AnyWord : to = IF o.m = "reg" THEN AtWord(in.mem, o.at + 2) ELSE Read16(in, (o.at + 2) % Word)
  BY <1>11, MachineFields, AtFacts, ReadFacts
<1>13. Even(to) \in AnyWord
  BY EvenFacts
<1>14. Switch(c, o) = [in EXCEPT !.pc = Even(to)]
  BY <1>1, <1>2, <1>3, <1>4, <1>5, <1>12 DEF Switch
<1>15. IsMachine([in EXCEPT !.pc = Even(to)])
  BY <1>11, <1>13, MachineParts
<1> QED BY <1>14, <1>15

(* The instructions of one operand leave a machine.                        *)
LEMMA SingleFacts ==
  ASSUME NEW c, IsMachine(c), NEW i, IsFields(i), i.op \in SingleOps \ {"X"}
  PROVE  IsMachine(Single(c, i))
<1>1. PICK o : o = Decode(c, i.s, FALSE)
  OBVIOUS
<1>2. i.s \in Operands
  BY DEF IsFields
<1>3. IsOperand(o) /\ o.byte = FALSE
  BY <1>1, <1>2, DecodeFacts
<1>4. IsMachine(o.c) /\ o.val \in AnyWord /\ o.at \in Nat /\ Target(o) \in Int
  <2>1. IsMachine(o.c) /\ o.val \in AnyWord /\ o.at \in Nat
    BY <1>3 DEF IsOperand
  <2> QED BY <2>1 DEF Target, Even
<1>5. PICK v \in AnyWord : v = o.val
  BY <1>4
<1>6. PICK st \in SUBSET FlagNames : st = o.c.st
  BY <1>4, MachineFields
<1>7. PICK neg : neg = (-v) % Word
  OBVIOUS
<1>8. /\ neg \in AnyWord /\ 0 \in AnyWord /\ Word - 1 \in AnyWord
      /\ ((v % Byte) * Byte) + (v \div Byte) \in AnyWord
      /\ v \in 0 .. Size(FALSE) - 1 /\ 1 \in 0 .. Size(FALSE) - 1 /\ 2 \in 0 .. Size(FALSE) - 1
  <2>1. neg \in AnyWord
    BY <1>7, Widths DEF AnyWord
  <2>2. 0 \in AnyWord /\ Word - 1 \in AnyWord /\ 1 \in AnyWord /\ 2 \in AnyWord
    BY Widths DEF AnyWord
  <2>3. ((v % Byte) * Byte) + (v \div Byte) \in AnyWord
    BY Widths, Halves DEF AnyByte, AnyWord
  <2> QED BY <2>1, <2>2, <2>3, SizeFacts
<1>9. PICK kept : kept = Order(v, Word) \cup If(v = Sign, "OV") \cup (st \cap {"P"})
  OBVIOUS
<1>10. kept \in SUBSET FlagNames
  <2>1. Order(v, Word) \subseteq FlagNames
    <3>1. Order(v, Word) \subseteq {"EQ", "LGT", "AGT"}
      BY OrderFacts DEF AnyWord
    <3> QED BY <3>1 DEF FlagNames
  <2>2. If(v = Sign, "OV") \subseteq FlagNames
    BY DEF If, FlagNames
  <2> QED BY <1>9, <2>1, <2>2
<1>11. ASSUME NEW w \in AnyWord PROVE IsMachine(Store(o.c, o, w))
  BY <1>3, <1>4, StoreFacts
<1>12. ASSUME NEW res, IsResult(res, FALSE) PROVE IsMachine(ToPlace(o, res))
  BY <1>3, <1>12, ToPlaceFacts
<1>13. CASE i.op = "BLWP"
  <2>1. Single(c, i) = Switch(o.c, o)
    BY <1>1, <1>13 DEF Single
  <2> QED BY <1>3, <1>4, <2>1, SwitchFacts
<1>14. CASE i.op = "B"
  <2>1. Single(c, i) = Jump(o.c, Target(o))
    BY <1>1, <1>14 DEF Single
  <2> QED BY <1>4, <2>1, JumpFacts
<1>15. CASE i.op = "BL"
  <2>1. Single(c, i) = Jump(SetReg(o.c, 11, o.c.pc), Target(o))
    BY <1>1, <1>15 DEF Single
  <2>2. IsMachine(SetReg(o.c, 11, o.c.pc))
    BY <1>4, MachineFields, SetRegFacts
  <2> QED BY <1>4, <2>1, <2>2, JumpFacts
<1>16. CASE i.op \in {"CLR", "SETO", "SWPB"}
  <2>1. PICK w \in AnyWord : Single(c, i) = Store(o.c, o, w)
    BY <1>1, <1>5, <1>8, <1>16 DEF Single
  <2> QED BY <1>11, <2>1
<1>17. CASE i.op = "INV"
  <2>1. PICK w : w = Not(v, FALSE) /\ Single(c, i) = ToPlace(o, Logical(o.c, w, FALSE))
    BY <1>1, <1>5, <1>17 DEF Single
  <2>2. w \in 0 .. Size(FALSE) - 1
    BY <1>8, <2>1, LogicFacts
  <2>3. IsResult(Logical(o.c, w, FALSE), FALSE)
    BY <1>4, <2>2, LogicalFacts
  <2> QED BY <1>12, <2>1, <2>3
<1>18. CASE i.op \in {"INC", "INCT"}
  <2>1. PICK b \in {1, 2} : Single(c, i) = ToPlace(o, Add(st, v, b, FALSE))
    BY <1>1, <1>5, <1>6, <1>18 DEF Single
  <2>2. b \in 0 .. Size(FALSE) - 1
    BY <1>8, <2>1
  <2>a. PICK res : res = Add(st, v, b, FALSE)
    OBVIOUS
  <2>3. IsResult(res, FALSE)
    BY <1>8, <2>a, <2>2, AddFacts
  <2> QED BY <1>12, <2>1, <2>a, <2>3
<1>19. CASE i.op \in {"DEC", "DECT"}
  <2>1. PICK b \in {1, 2} : Single(c, i) = ToPlace(o, Sub(st, v, b, FALSE))
    BY <1>1, <1>5, <1>6, <1>19 DEF Single
  <2>2. b \in 0 .. Size(FALSE) - 1
    BY <1>8, <2>1
  <2>a. PICK res : res = Sub(st, v, b, FALSE)
    OBVIOUS
  <2>3. IsResult(res, FALSE)
    BY <1>8, <2>a, <2>2, SubFacts
  <2> QED BY <1>12, <2>1, <2>a, <2>3
<1>20. CASE i.op = "NEG"
  <2>1. CASE v = Sign
    <3>1. Single(c, i) = Flags(o.c, kept)
      BY <1>1, <1>5, <1>6, <1>9, <1>20, <2>1 DEF Single
    <3>2. IsMachine(Flags(o.c, kept))
      BY <1>4, <1>10, FlagsFacts
    <3> QED BY <3>1, <3>2
  <2>2. CASE v # Sign
    <3>1. PICK s : s = (st \cap {"P"}) \cup If(v = 0, "C")
      OBVIOUS
    <3>2. Single(c, i) = ToPlace(o, Flagged(s, neg, FALSE))
      BY <1>1, <1>5, <1>6, <1>7, <1>20, <2>2, <3>1 DEF Single
    <3>3. s \in SUBSET FlagNames
      BY <3>1 DEF If, FlagNames
    <3>4. neg \in 0 .. Size(FALSE) - 1
      BY <1>8, SizeFacts
    <3>5. IsResult(Flagged(s, neg, FALSE), FALSE)
      BY <3>3, <3>4, FlaggedFacts
    <3> QED BY <1>12, <3>2, <3>5
  <2> QED BY <2>1, <2>2
<1>21. CASE i.op = "ABS"
  <2>1. Single(c, i) \in {Flags(Store(o.c, o, neg), kept), Flags(o.c, kept)}
    BY <1>1, <1>5, <1>6, <1>7, <1>9, <1>21 DEF Single
  <2>2. IsMachine(Store(o.c, o, neg))
    BY <1>8, <1>11
  <2>3. IsMachine(Flags(Store(o.c, o, neg), kept)) /\ IsMachine(Flags(o.c, kept))
    BY <1>4, <1>10, <2>2, FlagsFacts
  <2> QED BY <2>1, <2>3
<1>22. CASE i.op = "LDCR"
  <2>1. Single(c, i) = c
    BY <1>22 DEF Single
  <2> QED BY <2>1
<1> QED BY <1>13, <1>14, <1>15, <1>16, <1>17, <1>18, <1>19, <1>20, <1>21, <1>22 DEF SingleOps

(* A pixel painted over a byte of them leaves a byte.                      *)
LEMMA DrawnFacts ==
  ASSUME NEW m \in AnyByte, NEW x \in Nat, NEW ink \in 0 .. 3
  PROVE  /\ 2 ^ PixShift(x) \in Nat /\ 2 ^ PixShift(x) > 0
         /\ m + ((ink - ((m \div 2 ^ PixShift(x)) % 4)) * 2 ^ PixShift(x)) \in AnyByte
<1>1. CASE ByteBits = 6
  <2>1. PixShift(x) \in {0, 2, 4} /\ AnyByte = 0 .. 63
    BY <1>1, Widths DEF PixShift, Pixels, AnyByte
  <2>2. PICK p \in {1, 4, 16} : p = 2 ^ PixShift(x)
    <3>1. PixShift(x) = 0 => 2 ^ PixShift(x) = 2 ^ 0
      OBVIOUS
    <3>2. PixShift(x) = 2 => 2 ^ PixShift(x) = 2 ^ 2
      OBVIOUS
    <3>3. PixShift(x) = 4 => 2 ^ PixShift(x) = 2 ^ 4
      OBVIOUS
    <3> QED BY <2>1, <3>1, <3>2, <3>3
  <2>3. m + ((ink - ((m \div p) % 4)) * p) \in AnyByte
    <3>1. CASE p = 1
      <4>1. m + ((ink - ((m \div 1) % 4)) * 1) \in AnyByte
        BY <2>1
      <4> QED BY <3>1, <4>1
    <3>2. CASE p = 4
      <4>1. m + ((ink - ((m \div 4) % 4)) * 4) \in AnyByte
        BY <2>1
      <4> QED BY <3>2, <4>1
    <3>3. CASE p = 16
      <4>1. m + ((ink - ((m \div 16) % 4)) * 16) \in AnyByte
        BY <2>1
      <4> QED BY <3>3, <4>1
    <3> QED BY <2>2, <3>1, <3>2, <3>3
  <2> QED BY <2>2, <2>3
<1>2. CASE ByteBits = 7
  <2>1. PixShift(x) \in {1, 3, 5} /\ AnyByte = 0 .. 127
    BY <1>2, Widths DEF PixShift, Pixels, AnyByte
  <2>2. PICK p \in {2, 8, 32} : p = 2 ^ PixShift(x)
    <3>1. PixShift(x) = 1 => 2 ^ PixShift(x) = 2 ^ 1
      OBVIOUS
    <3>2. PixShift(x) = 3 => 2 ^ PixShift(x) = 2 ^ 3
      OBVIOUS
    <3>3. PixShift(x) = 5 => 2 ^ PixShift(x) = 2 ^ 5
      OBVIOUS
    <3> QED BY <2>1, <3>1, <3>2, <3>3
  <2>3. m + ((ink - ((m \div p) % 4)) * p) \in AnyByte
    <3>1. CASE p = 2
      <4>1. m + ((ink - ((m \div 2) % 4)) * 2) \in AnyByte
        BY <2>1
      <4> QED BY <3>1, <4>1
    <3>2. CASE p = 8
      <4>1. m + ((ink - ((m \div 8) % 4)) * 8) \in AnyByte
        BY <2>1
      <4> QED BY <3>2, <4>1
    <3>3. CASE p = 32
      <4>1. m + ((ink - ((m \div 32) % 4)) * 32) \in AnyByte
        BY <2>1
      <4> QED BY <3>3, <4>1
    <3> QED BY <2>2, <3>1, <3>2, <3>3
  <2> QED BY <2>2, <2>3
<1>3. CASE ByteBits = 8
  <2>1. PixShift(x) \in {0, 2, 4, 6} /\ AnyByte = 0 .. 255
    BY <1>3, Widths DEF PixShift, Pixels, AnyByte
  <2>2. PICK p \in {1, 4, 16, 64} : p = 2 ^ PixShift(x)
    <3>1. PixShift(x) = 0 => 2 ^ PixShift(x) = 2 ^ 0
      OBVIOUS
    <3>2. PixShift(x) = 2 => 2 ^ PixShift(x) = 2 ^ 2
      OBVIOUS
    <3>3. PixShift(x) = 4 => 2 ^ PixShift(x) = 2 ^ 4
      OBVIOUS
    <3>4. PixShift(x) = 6 => 2 ^ PixShift(x) = 2 ^ 6
      OBVIOUS
    <3> QED BY <2>1, <3>1, <3>2, <3>3, <3>4
  <2>3. m + ((ink - ((m \div p) % 4)) * p) \in AnyByte
    <3>1. CASE p = 1
      <4>1. m + ((ink - ((m \div 1) % 4)) * 1) \in AnyByte
        BY <2>1
      <4> QED BY <3>1, <4>1
    <3>2. CASE p = 4
      <4>1. m + ((ink - ((m \div 4) % 4)) * 4) \in AnyByte
        BY <2>1
      <4> QED BY <3>2, <4>1
    <3>3. CASE p = 16
      <4>1. m + ((ink - ((m \div 16) % 4)) * 16) \in AnyByte
        BY <2>1
      <4> QED BY <3>3, <4>1
    <3>4. CASE p = 64
      <4>1. m + ((ink - ((m \div 64) % 4)) * 64) \in AnyByte
        BY <2>1
      <4> QED BY <3>4, <4>1
    <3> QED BY <2>2, <3>1, <3>2, <3>3, <3>4
  <2> QED BY <2>2, <2>3
<1> QED BY <1>1, <1>2, <1>3, Widths

(* The pixel instruction leaves a machine, whatever it reads and writes.   *)
LEMMA PixFacts ==
  ASSUME NEW c, IsMachine(c), NEW d \in Nat, NEW xy \in AnyWord
  PROVE  IsMachine(Pix(c, d, xy))
<1>1. PICK flags \in AnyWord : flags = GetReg(c, d)
  BY GetRegFacts
<1>2. PICK x \in AnyByte, y \in AnyByte : x = xy \div Byte /\ y = xy % Byte
  BY Halves
<1>3. x \in Nat /\ y \in Nat /\ flags \in Nat
  BY Widths DEF AnyByte, AnyWord
<1>4. \A a : At(c.mem, a) \in AnyByte
  BY MachineFields, AtFacts
<1>5. PICK a : a = PixAddr(c, x, y)
  OBVIOUS
<1>6. a \in 0 .. (Word \div 4) - 1
  <2>1. PICK base \in Nat, stride \in Nat :
          base = At(c.mem, (6 * Nibble) + 32) * 2 ^ (ByteBits - 2) /\ stride = PixStride(c)
    <3>1. PICK m \in AnyByte, w \in AnyByte : m = At(c.mem, (6 * Nibble) + 32) /\ w = At(c.mem, (6 * Nibble) + 35)
      BY <1>4
    <3>2. PICK p \in Nat : p = 2 ^ (ByteBits - 2)
      <4>1. ByteBits - 2 \in 0 .. 16
        BY Widths
      <4> QED BY <4>1, Powers
    <3>3. m * p \in Nat
      BY Widths DEF AnyByte
    <3>4. (((w - 1) % Byte) \div Pixels) + 1 \in Nat
      BY Widths DEF AnyByte, Pixels
    <3>5. PixStride(c) \in Nat
      BY <3>1, <3>4 DEF PixStride
    <3> QED BY <3>1, <3>2, <3>3, <3>5
  <2>2. PICK q \in Nat : q = x \div Pixels
    BY <1>3, Widths DEF Pixels
  <2>3. base + (y * stride) + q \in Nat
    BY <1>3
  <2>4. (base + (y * stride) + q) % (Word \div 4) \in 0 .. (Word \div 4) - 1
    BY <2>3, Widths
  <2> QED BY <1>5, <2>1, <2>2, <2>4 DEF PixAddr
<1>7. a \in AnyWord /\ a \in Nat
  BY <1>6, Widths DEF AnyWord
<1>8. PICK m \in AnyByte : m = At(c.mem, a)
  BY <1>4
<1>9. PICK was : was = PixAt(c.mem, a, x)
  OBVIOUS
<1>10. was = (m \div 2 ^ PixShift(x)) % 4 /\ was \in 0 .. 3
  <2>1. PICK p \in Nat : p = 2 ^ PixShift(x) /\ p > 0
    <3>1. 0 \in 0 .. 3
      OBVIOUS
    <3> QED BY <1>3, <3>1, DrawnFacts
  <2>2. (m \div p) % 4 \in 0 .. 3
    BY <2>1, Widths DEF AnyByte
  <2> QED BY <1>8, <1>9, <2>1, <2>2 DEF PixAt
<1>11. PICK drawn : drawn = m + (((flags % 4) - was) * 2 ^ PixShift(x))
  OBVIOUS
<1>12. drawn \in AnyByte
  <2>1. PICK ink \in 0 .. 3 : ink = flags % 4
    BY <1>3
  <2> QED BY <1>3, <1>10, <1>11, <2>1, DrawnFacts
<1>13. PICK page : page = IF (At(c.mem, (6 * Nibble) + 4) \div 4) % 2 = 1 THEN Word \div 8 ELSE 0
  OBVIOUS
<1>14. PICK tile : tile = ((y \div 8) * Byte) + (x - (x % 8)) + (y % 8) + page
  OBVIOUS
<1>15. tile \in AnyWord
  <2>1. page \in {0, Word \div 8}
    BY <1>13
  <2>2. CASE ByteBits = 6
    BY <1>14, <2>1, <2>2, Widths DEF AnyByte, AnyWord
  <2>3. CASE ByteBits = 7
    BY <1>14, <2>1, <2>3, Widths DEF AnyByte, AnyWord
  <2>4. CASE ByteBits = 8
    BY <1>14, <2>1, <2>4, Widths DEF AnyByte, AnyWord
  <2> QED BY <2>2, <2>3, <2>4, Widths
<1>16. (flags - (flags % 4)) + was \in AnyWord
  BY <1>10, Widths DEF AnyWord
<1>17. PICK painted : /\ painted \in {WatchWrite(Put(c, a, drawn), a), c}
                      /\ Pix(c, d, xy) \in {SetReg(c, d, tile), SetReg(c, d, a), painted,
                                            SetReg(painted, d, (flags - (flags % 4)) + was)}
  BY <1>1, <1>2, <1>5, <1>8, <1>9, <1>11, <1>13, <1>14 DEF Pix
<1>18. IsMachine(painted)
  <2>1. IsMachine(Put(c, a, drawn))
    BY <1>7, <1>12, PutFacts
  <2>2. IsMachine(WatchWrite(Put(c, a, drawn), a))
    BY <1>7, <2>1, WatchFacts
  <2> QED BY <1>17, <2>2
<1>19. /\ IsMachine(SetReg(c, d, tile)) /\ IsMachine(SetReg(c, d, a))
       /\ IsMachine(SetReg(painted, d, (flags - (flags % 4)) + was))
  BY <1>7, <1>15, <1>16, <1>18, SetRegFacts
<1> QED BY <1>17, <1>18, <1>19

(* A product fits two words, a quotient that is not refused fits one.      *)
LEMMA ProductFits ==
  ASSUME NEW a \in AnyWord, NEW b \in AnyWord
  PROVE  /\ a * b \in Nat /\ (a * b) \div Word \in AnyWord /\ (a * b) % Word \in AnyWord
         /\ (((a * b) \div Word) * Word) + ((a * b) % Word) = a * b
<1>1. PICK w \in Nat : w = Word /\ w > 0 /\ a < w /\ b < w /\ a \in Nat /\ b \in Nat
  BY Widths DEF AnyWord
<1>2. PICK p \in Nat : p = a * b
  BY <1>1
<1>3. p < w * w
  <2>1. CASE b = 0
    BY <1>1, <1>2, <2>1
  <2>2. CASE b > 0
    <3>1. a * b < w * b
      BY <1>1, <2>2
    <3>2. w * b < w * w
      BY <1>1
    <3> QED BY <1>1, <1>2, <3>1, <3>2
  <2> QED BY <1>1, <2>1, <2>2
<1>4. p \div w \in Nat /\ p % w \in 0 .. w - 1 /\ p = ((p \div w) * w) + (p % w)
  BY <1>1
<1>5. p \div w < w
  <2>1. SUFFICES ASSUME p \div w >= w PROVE FALSE
    BY <1>1, <1>4
  <2>2. (p \div w) * w >= w * w
    BY <1>1, <1>4, <2>1
  <2> QED BY <1>1, <1>3, <1>4, <2>2
<1> QED BY <1>1, <1>2, <1>4, <1>5 DEF AnyWord

(* The instructions of a register and an operand leave a machine.          *)
LEMMA Format9Facts ==
  ASSUME NEW c0, IsMachine(c0), NEW i, IsFields(i), i.op \in Format9Ops
  PROVE  IsMachine(Format9(c0, i))
<1>1. PICK o : o = Decode(c0, i.s, FALSE)
  OBVIOUS
<1>2. i.s \in Operands
  BY DEF IsFields
<1>3. IsOperand(o) /\ o.byte = FALSE
  BY <1>1, <1>2, DecodeFacts
<1>4. PICK c : c = o.c
  OBVIOUS
<1>5. IsMachine(c) /\ o.val \in AnyWord
  BY <1>3, <1>4 DEF IsOperand
<1>6. PICK d \in Nat : d = i.d.r
  BY DEF IsFields, Operands
<1>7. PICK v \in AnyWord : v = GetReg(c, d)
  BY <1>5, GetRegFacts
<1>8. c.st \in SUBSET FlagNames
  BY <1>5, MachineFields
<1>9. ASSUME NEW s \in SUBSET FlagNames PROVE IsMachine(Flags(c, s))
  BY <1>5, FlagsFacts
<1>10. c.st \cup {"EQ"} \in SUBSET FlagNames /\ c.st \ {"EQ"} \in SUBSET FlagNames
  BY <1>8 DEF FlagNames
<1>11. c.st \cup {"OV"} \in SUBSET FlagNames /\ c.st \ {"OV"} \in SUBSET FlagNames
  BY <1>8 DEF FlagNames
<1>12. ASSUME NEW hi \in AnyWord, NEW lo \in AnyWord
       PROVE  IsMachine(SetReg(SetReg(c, d, hi), d + 1, lo))
  <2>1. PICK n \in Nat : \E x : x = SetReg(c, d, hi) /\ n = d + 1
    OBVIOUS
  <2> DEFINE e == SetReg(c, d, hi)
  <2>2. IsMachine(e)
    BY <1>5, SetRegFacts
  <2> HIDE DEF e
  <2>3. IsMachine(SetReg(e, n, lo))
    BY <2>2, SetRegFacts
  <2> QED BY <2>1, <2>3 DEF e
<1>13. CASE i.op \in {"COC", "CZC"}
  <2>1. Format9(c0, i) \in {Flags(c, c.st \cup {"EQ"}), Flags(c, c.st \ {"EQ"})}
    BY <1>1, <1>4, <1>13 DEF Format9
  <2> QED BY <1>9, <1>10, <2>1
<1>14. CASE i.op = "XOR"
  <2>1. PICK w : w = Xor(v, o.val, FALSE) /\ Format9(c0, i) = ToReg(c, d, Logical(c, w, FALSE))
    BY <1>1, <1>4, <1>6, <1>7, <1>14 DEF Format9
  <2>2. w \in 0 .. Size(FALSE) - 1
    BY <1>5, <2>1, SizeFacts, LogicFacts
  <2>3. IsResult(Logical(c, w, FALSE), FALSE)
    BY <1>5, <2>2, LogicalFacts
  <2> QED BY <1>5, <2>1, <2>3, ToRegFacts
<1>15. CASE i.op = "PIX"
  <2>1. Format9(c0, i) = Pix(c, d, o.val)
    BY <1>1, <1>4, <1>6, <1>15 DEF Format9
  <2> QED BY <1>5, <2>1, PixFacts
<1>16. CASE i.op = "MPY"
  <2>1. PICK hi, lo : /\ hi = (v * o.val) \div Word /\ lo = (v * o.val) % Word
                      /\ Format9(c0, i) = SetReg(SetReg(c, d, hi), d + 1, lo)
    BY <1>1, <1>4, <1>6, <1>7, <1>16 DEF Format9
  <2>2. hi \in AnyWord /\ lo \in AnyWord
    BY <1>5, <2>1, ProductFits
  <2> QED BY <1>12, <2>1, <2>2
<1>17. CASE i.op = "DIV" /\ Divides(c, d, o.val)
  <2>1. PICK dividend : dividend = (v * Word) + GetReg(c, d + 1)
    OBVIOUS
  <2>2. PICK hi, lo : /\ hi = (dividend \div o.val) % Word /\ lo = dividend % o.val
                      /\ Format9(c0, i) = Flags(SetReg(SetReg(c, d, hi), d + 1, lo), c.st \ {"OV"})
    BY <1>1, <1>4, <1>6, <1>7, <1>17, <2>1 DEF Format9
  <2>3. v < o.val
    BY <1>7, <1>17 DEF Divides
  <2>4. dividend \in Nat
    BY <1>5, <2>1, GetRegFacts, Widths DEF AnyWord
  <2>5. hi \in AnyWord /\ lo \in AnyWord
    <3>1. PICK by \in Nat : by = o.val /\ by > 0 /\ by < Word
      BY <1>5, <2>3, Widths DEF AnyWord
    <3>2. dividend \div by \in Nat /\ dividend % by \in 0 .. by - 1
      BY <2>4, <3>1
    <3> QED BY <2>2, <3>1, <3>2, Widths DEF AnyWord
  <2>6. IsMachine(SetReg(SetReg(c, d, hi), d + 1, lo))
    BY <1>12, <2>5
  <2>7. IsMachine(Flags(SetReg(SetReg(c, d, hi), d + 1, lo), c.st \ {"OV"}))
    BY <1>11, <2>6, FlagsFacts
  <2> QED BY <2>2, <2>7
<1>18. CASE i.op = "DIV" /\ ~Divides(c, d, o.val)
  <2>1. Format9(c0, i) = Flags(c, c.st \cup {"OV"})
    BY <1>1, <1>4, <1>6, <1>18 DEF Format9
  <2> QED BY <1>9, <1>11, <2>1
<1> QED BY <1>13, <1>14, <1>15, <1>16, <1>17, <1>18 DEF Format9Ops

(* Every instruction but X leaves a machine.                               *)
LEMMA DispatchFacts ==
  ASSUME NEW c, IsMachine(c), NEW i, IsFields(i), i.op # "X"
  PROVE  IsMachine(Dispatch(c, i))
<1>1. CASE i.op \in ImmediateOps
  <2>1. Dispatch(c, i) = Immediate(c, i)
    BY <1>1 DEF Dispatch, ImmediateOps, JumpOps, ShiftOps, Format9Ops, StackOps, WordOps, ByteOps, SingleOps
  <2> QED BY <1>1, <2>1, ImmediateFacts
<1>2. CASE i.op \in JumpOps
  <2>1. Dispatch(c, i) = Branch(c, i)
    BY <1>2 DEF Dispatch, ImmediateOps, JumpOps, ShiftOps, Format9Ops, StackOps, WordOps, ByteOps, SingleOps
  <2> QED BY <1>2, <2>1, BranchFacts
<1>3. CASE i.op \in ShiftOps
  <2>1. Dispatch(c, i) = Shift(c, i)
    BY <1>3 DEF Dispatch, ImmediateOps, JumpOps, ShiftOps, Format9Ops, StackOps, WordOps, ByteOps, SingleOps
  <2> QED BY <1>3, <2>1, ShiftFacts
<1>4. CASE i.op \in Format9Ops
  <2>1. Dispatch(c, i) = Format9(c, i)
    BY <1>4 DEF Dispatch, ImmediateOps, JumpOps, ShiftOps, Format9Ops, StackOps, WordOps, ByteOps, SingleOps
  <2> QED BY <1>4, <2>1, Format9Facts
<1>5. CASE i.op \in StackOps
  <2>1. Dispatch(c, i) = Stack(c, i)
    BY <1>5 DEF Dispatch, ImmediateOps, JumpOps, ShiftOps, Format9Ops, StackOps, WordOps, ByteOps, SingleOps
  <2> QED BY <1>5, <2>1, StackFacts
<1>6. CASE i.op \in WordOps \cup ByteOps
  <2>1. Dispatch(c, i) = TwoOperand(c, i)
    BY <1>6 DEF Dispatch, ImmediateOps, JumpOps, ShiftOps, Format9Ops, StackOps, WordOps, ByteOps, SingleOps
  <2> QED BY <1>6, <2>1, TwoOperandFacts
<1>7. CASE i.op \in SingleOps \ {"X"}
  <2>1. Dispatch(c, i) = Single(c, i)
    BY <1>7 DEF Dispatch, ImmediateOps, JumpOps, ShiftOps, Format9Ops, StackOps, WordOps, ByteOps, SingleOps
  <2> QED BY <1>7, <2>1, SingleFacts
<1>8. i.op \in AllOps
  BY DEF IsFields
<1> QED BY <1>1, <1>2, <1>3, <1>4, <1>5, <1>6, <1>7, <1>8 DEF AllOps

(* X after X: the machine that executes the last one.                      *)
LEMMA ReachedFacts ==
  ASSUME NEW c, IsMachine(c), NEW i, IsInstruction(i), i.op = "X"
  PROVE  IsMachine(Reached(c, i)) /\ IsFields(i.x[Len(i.x)]) /\ i.x[Len(i.x)].op # "X"
<1>1. PICK N \in Nat : N = Len(i.x) /\ N > 0
  <2>1. i.x # <<>> /\ i.x \in Seq({i.x[k] : k \in DOMAIN i.x})
    BY DEF IsInstruction
  <2>2. Len(i.x) \in Nat /\ Len(i.x) # 0
    BY <2>1, EmptySeq
  <2> QED BY <2>2
<1>2. IsFields(i) /\ \A k \in 1 .. N : IsFields(i.x[k]) /\ (i.x[k].op = "X") = (k < N)
  BY <1>1 DEF IsInstruction
<1>3. i.s \in Operands /\ \A k \in 1 .. N : i.x[k].s \in Operands
  BY <1>2 DEF IsFields
<1>4. IsFields(i.x[N]) /\ i.x[N].op # "X"
  BY <1>1, <1>2
<1> DEFINE next(m, k) == Decode(m, i.x[k - 1].s, FALSE).c
<1> DEFINE first == Decode(c, i.s, FALSE).c
<1> DEFINE To(n, f) == f = [k \in 1 .. n |-> IF k = 1 THEN first ELSE next(f[k - 1], k)]
<1>5. IsMachine(first)
  BY <1>3, DecodeFacts DEF IsOperand
<1>6. ASSUME NEW m, IsMachine(m), NEW k \in 2 .. N PROVE IsMachine(next(m, k))
  <2>1. PICK j \in 1 .. N : j = k - 1
    OBVIOUS
  <2>2. i.x[j].s \in Operands
    BY <1>3, <2>1
  <2>3. IsMachine(Decode(m, i.x[j].s, FALSE).c)
    BY <1>6, <2>2, DecodeFacts DEF IsOperand
  <2> QED BY <2>1, <2>3
<1> HIDE DEF next, first
<1> DEFINE G == {n \in 0 .. N : \E f : To(n, f)}
<1>7. N \in G
  <2>1. 0 \in G
    <3>1. To(0, [k \in 1 .. 0 |-> first])
      OBVIOUS
    <3>2. \E f : To(0, f)
      BY <3>1, Zenon
    <3>3. 0 \in 0 .. N
      OBVIOUS
    <3> QED BY <3>2, <3>3, Zenon
  <2>2. ASSUME NEW n \in 1 .. N, n - 1 \in G PROVE n \in G
    <3>1. PICK f : To(n - 1, f)
      BY <2>2
    <3> DEFINE g == [k \in 1 .. n |-> IF k # n THEN f[k] ELSE IF n = 1 THEN first ELSE next(f[n - 1], n)]
    <3>2. \A k \in 1 .. n - 1 : g[k] = f[k]
      OBVIOUS
    <3>3. \A k \in 1 .. n : g[k] = IF k = 1 THEN first ELSE next(g[k - 1], k)
      BY <3>1, <3>2
    <3>4. To(n, g)
      BY <3>3
    <3>5. \E h : To(n, h)
      BY <3>4, Zenon
    <3>6. n \in 0 .. N
      OBVIOUS
    <3> HIDE DEF g
    <3> QED BY <3>5, <3>6, Zenon
  <2> HIDE DEF G
  <2> QED BY <2>1, <2>2, Induction
<1> DEFINE f == CHOOSE x : To(N, x)
<1>8. To(N, f)
  <2>1. \E x : To(N, x)
    BY <1>7
  <2> QED BY <2>1, Zenon
<1>9. Reached(c, i) = f[N]
  BY <1>1 DEF Reached, first, next
<1> HIDE DEF f, G
<1> DEFINE H == {k \in 0 .. N : k = 0 \/ IsMachine(f[k])}
<1>10. 0 \in H
  OBVIOUS
<1>11. ASSUME NEW k \in 1 .. N, k - 1 \in H PROVE k \in H
  <2>1. CASE k = 1
    <3>1. f[1] = first
      BY <1>1, <1>8
    <3> QED BY <1>5, <2>1, <3>1
  <2>2. CASE k # 1
    <3>1. PICK m : m = f[k - 1]
      OBVIOUS
    <3>2. IsMachine(m) /\ k \in 2 .. N /\ f[k] = next(m, k)
      BY <1>8, <1>11, <2>2, <3>1
    <3> QED BY <1>6, <3>2
  <2> QED BY <2>1, <2>2
<1> HIDE DEF H
<1>12. N \in H
  BY <1>10, <1>11, Induction
<1>13. IsMachine(f[N])
  BY <1>1, <1>12 DEF H
<1> QED BY <1>1, <1>4, <1>9, <1>13

(* No instruction of a decoder's fields leaves anything but a machine.     *)
THEOREM MachineStaysOne ==
  ASSUME NEW c, IsMachine(c), NEW i, IsInstruction(i)
  PROVE  IsMachine(Execute(c, i))
<1>1. IsMachine(Fetched(c))
  BY FetchedFacts
<1>2. CASE i.op # "X"
  <2>1. Execute(c, i) = Dispatch(Fetched(c), i)
    BY <1>2 DEF Execute
  <2> QED BY <1>1, <1>2, <2>1, DispatchFacts DEF IsInstruction
<1>3. CASE i.op = "X"
  <2>1. PICK m, j : m = Reached(Fetched(c), i) /\ j = i.x[Len(i.x)]
    OBVIOUS
  <2>2. IsMachine(m) /\ IsFields(j) /\ j.op # "X"
    BY <1>1, <1>3, <2>1, ReachedFacts
  <2>3. IsMachine(Dispatch(m, j))
    BY <2>2, DispatchFacts
  <2>4. IsMachine([Dispatch(m, j) EXCEPT !.on = TRUE])
    BY <2>3, MachineParts
  <2> QED BY <1>3, <2>1, <2>4 DEF Execute
<1> QED BY <1>2, <1>3
-----------------------------------------------------------------------------
(* The inductive invariant: the whole program's machine is one, the sliced *)
(* one is the same machine or what the end of a slice leaves of it, and    *)
(* after a comparison the flags still tell the two numbers apart.          *)
SlicedInv ==
  \/ saved = <<>> /\ cpu = twin
  \/ /\ saved = <<[pc |-> twin.pc, wp |-> twin.wp, st |-> twin.st]>>
     /\ cpu = [twin EXCEPT !.pc = 0, !.wp = 0, !.st = {}]

ComparedBy(c, i) ==
  [a |-> Decode(c, i.s, i.op = "CB").val,
   b |-> IF i.op = "CI" THEN i.n ELSE Decode(c, i.d, i.op = "CB").val]

Tells(st, a, b, size) ==
  /\ a \in 0 .. size - 1 /\ b \in 0 .. size - 1
  /\ "EQ" \in st <=> a = b
  /\ "LGT" \in st <=> a > b
  /\ "AGT" \in st <=> Signed(a, size) > Signed(b, size)

ComparedInv ==
  last # <<>> /\ Comparison(last[1]) =>
    Tells(twin.st, ComparedBy(twin, last[1]).a, ComparedBy(twin, last[1]).b, Size(last[1].op = "CB"))

ProcessorInv == IsMachine(twin) /\ IsStream(code) /\ SlicedInv /\ ComparedInv

(* What is left of a stream is a stream.                                   *)
LEMMA StreamFacts ==
  ASSUME NEW s, IsStream(s), s # <<>>
  PROVE  IsStream(Tail(s)) /\ Tail(s) # s /\ \A i \in Head(s) : IsInstruction(i)
<1> DEFINE S == {s[k] : k \in DOMAIN s}
<1>1. s \in Seq(S) /\ \A k \in DOMAIN s : \A i \in s[k] : IsInstruction(i)
  BY DEF IsStream
<1>2. Len(s) \in Nat /\ Len(s) > 0 /\ DOMAIN s = 1 .. Len(s)
  BY <1>1, EmptySeq
<1>3. Head(s) = s[1]
  BY <1>1, <1>2
<1> DEFINE t == Tail(s)
<1>4. t \in Seq(S) /\ Len(t) = Len(s) - 1 /\ \A k \in 1 .. Len(t) : t[k] = s[k + 1]
  BY <1>1, HeadTailProperties
<1> HIDE DEF t
<1>5. t \in Seq({t[k] : k \in DOMAIN t})
  <2>1. DOMAIN t = 1 .. Len(t)
    BY <1>4
  <2> DEFINE T == {t[k] : k \in DOMAIN t}
  <2>2. \A k \in 1 .. Len(t) : t[k] \in T
    BY <2>1
  <2> HIDE DEF T
  <2>3. t \in Seq(T)
    BY <1>4, <2>2
  <2> QED BY <2>3 DEF T
<1>6. \A k \in DOMAIN t : \A i \in t[k] : IsInstruction(i)
  <2> TAKE k \in DOMAIN t
  <2>1. PICK j \in DOMAIN s : t[k] = s[j]
    <3>1. k \in 1 .. Len(t)
      BY <1>4
    <3>2. k + 1 \in DOMAIN s
      BY <1>2, <1>4, <3>1
    <3> QED BY <1>4, <3>1, <3>2
  <2> QED BY <1>1, <2>1
<1>7. IsStream(t)
  BY <1>5, <1>6 DEF IsStream
<1>8. t # s
  BY <1>2, <1>4
<1>9. \A i \in Head(s) : IsInstruction(i)
  BY <1>1, <1>2, <1>3
<1> QED BY <1>7, <1>8, <1>9 DEF t

(* What an operand's value depends on.                                     *)
LEMMA SameValue ==
  ASSUME NEW c, IsMachine(c), NEW d, IsMachine(d), d.mem = c.mem, d.wp = c.wp, d.f18a = c.f18a,
         NEW f \in Operands, f.m # "inc", NEW byte \in BOOLEAN
  PROVE  Decode(d, f, byte).val = Decode(c, f, byte).val
<1>1. GetReg(d, f.r) = GetReg(c, f.r) /\ WpAddr(d, f.r) = WpAddr(c, f.r)
  BY DEF GetReg, WpAddr
<1>2. /\ Fetched(c).mem = c.mem /\ Fetched(d).mem = c.mem
      /\ Fetched(c).f18a = c.f18a /\ Fetched(d).f18a = c.f18a
  BY FetchedFacts
<1>3. ASSUME NEW p, NEW q, p.mem = q.mem, p.f18a = q.f18a, NEW a
      PROVE  Read8(p, a) = Read8(q, a) /\ Read16(p, a) = Read16(q, a)
  BY <1>3 DEF Read8, Read16
<1>4. CASE f.m = "reg"
  BY <1>1, <1>4 DEF Decode
<1>5. CASE f.m # "reg"
  <2>1. PICK raw : raw = IF f.m # "idx" THEN GetReg(c, f.r)
                         ELSE ((IF f.r = 0 THEN 0 ELSE GetReg(c, f.r)) + f.x) % Word
    OBVIOUS
  <2>2. PICK at : at = IF byte THEN raw ELSE Even(raw)
    OBVIOUS
  <2>3. PICK ac : ac = IF f.m = "idx" THEN Fetched(c) ELSE c
    OBVIOUS
  <2>4. PICK ad : ad = IF f.m = "idx" THEN Fetched(d) ELSE d
    OBVIOUS
  <2>5. Decode(c, f, byte).val = IF byte THEN Read8(ac, at) ELSE Read16(ac, at)
    BY <1>5, <2>1, <2>2, <2>3 DEF Decode
  <2>6. Decode(d, f, byte).val = IF byte THEN Read8(ad, at) ELSE Read16(ad, at)
    BY <1>1, <1>5, <2>1, <2>2, <2>4 DEF Decode
  <2>7. ac.mem = ad.mem /\ ac.f18a = ad.f18a
    BY <1>2, <2>3, <2>4
  <2> QED BY <1>3, <2>5, <2>6, <2>7
<1> QED BY <1>4, <1>5

(* A comparison leaves the flags of what it compared.                      *)
LEMMA CompareTwo ==
  ASSUME NEW f, IsMachine(f), NEW i, IsFields(i), i.s.m # "inc", i.d.m # "inc",
         NEW byte \in BOOLEAN, i.op = IF byte THEN "CB" ELSE "C",
         NEW d, d = TwoOperand(f, i), IsMachine(d)
  PROVE  Tells(d.st, Decode(d, i.s, byte).val, Decode(d, i.d, byte).val, Size(byte))
<1>1. i.s \in Operands /\ i.d \in Operands
  BY DEF IsFields
<1>2. PICK s, o : s = Decode(f, i.s, byte) /\ o = Decode(s.c, i.d, byte)
  OBVIOUS
<1>3. PICK st : st = Compare(o.c.st, s.val, o.val, byte)
  OBVIOUS
<1>4. d = Flags(o.c, st)
  <2>1. CASE byte = TRUE
    BY <1>2, <1>3, <2>1 DEF TwoOperand, ByteOps
  <2>2. CASE byte = FALSE
    BY <1>2, <1>3, <2>2 DEF TwoOperand, ByteOps
  <2> QED BY <2>1, <2>2
<1>5. /\ IsOperand(s) /\ s.byte = byte /\ s.c.wp = f.wp /\ s.c.f18a = f.f18a /\ s.c.mem = f.mem
  BY <1>1, <1>2, DecodeFacts
<1>6. IsMachine(s.c)
  BY <1>5 DEF IsOperand
<1>7. /\ IsOperand(o) /\ o.byte = byte /\ o.c.wp = f.wp /\ o.c.f18a = f.f18a /\ o.c.mem = f.mem
  BY <1>1, <1>2, <1>5, <1>6, DecodeFacts
<1>8. IsMachine(o.c)
  BY <1>7 DEF IsOperand
<1>9. o.c.st \in SUBSET FlagNames
  BY <1>8, MachineFields
<1>10. st \in SUBSET FlagNames
  BY <1>3, <1>9, CompareFacts
<1>11. d = [o.c EXCEPT !.st = st]
  BY <1>4, <1>8, <1>10, FlagsFacts
<1>12. d.mem = f.mem /\ d.wp = f.wp /\ d.f18a = f.f18a /\ d.st = st
  BY <1>7, <1>8, <1>11 DEF IsMachine
<1>13. Decode(d, i.s, byte).val = s.val
  BY <1>1, <1>2, <1>12, SameValue
<1>14. Decode(d, i.d, byte).val = o.val
  BY <1>1, <1>2, <1>5, <1>6, <1>12, SameValue
<1>15. /\ ("EQ" \in st) = (s.val = o.val)
       /\ ("LGT" \in st) = (s.val > o.val)
       /\ ("AGT" \in st) = (Signed(s.val, Size(byte)) > Signed(o.val, Size(byte)))
  BY <1>3, <1>9, CompareFacts
<1>16. s.val \in 0 .. Size(byte) - 1 /\ o.val \in 0 .. Size(byte) - 1
  BY <1>5, <1>7, SizeFacts DEF IsOperand
<1>17. Tells(st, s.val, o.val, Size(byte))
  BY <1>15, <1>16 DEF Tells
<1> QED BY <1>12, <1>13, <1>14, <1>17

(* CI leaves flags that tell the register from the number.                 *)
LEMMA CompareImmediate ==
  ASSUME NEW f, IsMachine(f), NEW i, IsFields(i), i.op = "CI",
         NEW d, d = Immediate(f, i)
  PROVE  Tells(d.st, Decode(d, i.s, FALSE).val, i.n, Size(FALSE))
<1>1. PICK g : g = Fetched(f)
  OBVIOUS
<1>2. IsMachine(g)
  BY <1>1, FetchedFacts
<1>3. PICK a \in AnyWord : a = GetReg(g, i.s.r)
  BY <1>2, GetRegFacts
<1>4. PICK st : st = Compare(g.st, a, i.n, FALSE)
  OBVIOUS
<1>5. d = Flags(g, st)
  BY <1>1, <1>3, <1>4 DEF Immediate
<1>6. g.st \in SUBSET FlagNames
  BY <1>2, MachineFields
<1>7. st \in SUBSET FlagNames
  BY <1>4, <1>6, CompareFacts
<1>8. d = [g EXCEPT !.st = st]
  BY <1>2, <1>5, <1>7, FlagsFacts
<1>9. d.mem = g.mem /\ d.wp = g.wp /\ d.st = st
  BY <1>2, <1>8 DEF IsMachine
<1>10. i.s.m = "reg" /\ i.n \in AnyWord
  BY DEF IsFields, ImmediateOps
<1>11. Decode(d, i.s, FALSE).val = a
  BY <1>3, <1>9, <1>10 DEF Decode, GetReg, WpAddr
<1>12. /\ ("EQ" \in st) = (a = i.n)
       /\ ("LGT" \in st) = (a > i.n)
       /\ ("AGT" \in st) = (Signed(a, Size(FALSE)) > Signed(i.n, Size(FALSE)))
  <2>1. PICK b : b = i.n
    OBVIOUS
  <2>2. PICK fst \in SUBSET FlagNames : fst = g.st
    BY <1>6
  <2>3. PICK byte \in BOOLEAN : byte = FALSE
    OBVIOUS
  <2>4. st = Compare(fst, a, b, byte)
    BY <1>4, <2>1, <2>2, <2>3
  <2>5. /\ ("EQ" \in st) = (a = b)
        /\ ("LGT" \in st) = (a > b)
        /\ ("AGT" \in st) = (Signed(a, Size(byte)) > Signed(b, Size(byte)))
    BY <2>4, CompareFacts
  <2> QED BY <2>1, <2>3, <2>5
<1>13. Tells(st, a, i.n, Size(FALSE))
  BY <1>10, <1>12, SizeFacts DEF Tells
<1> QED BY <1>9, <1>11, <1>13

(* C, CB and CI leave flags that tell the numbers compared.                *)
LEMMA CompareTells ==
  ASSUME NEW c, IsMachine(c), NEW i, IsInstruction(i), Comparison(i),
         NEW d, d = Execute(c, i)
  PROVE  Tells(d.st, ComparedBy(d, i).a, ComparedBy(d, i).b, Size(i.op = "CB"))
<1>1. IsFields(i) /\ i.op \in {"C", "CB", "CI"} /\ i.s.m # "inc" /\ i.d.m # "inc"
  BY DEF IsInstruction, Comparison
<1>2. PICK f : f = Fetched(c)
  OBVIOUS
<1>3. IsMachine(f)
  BY <1>2, FetchedFacts
<1>4. IsMachine(d)
  BY MachineStaysOne
<1>5. d = Dispatch(f, i)
  BY <1>1, <1>2 DEF Execute
<1>6. CASE i.op = "CI"
  <2>1. d = Immediate(f, i)
    BY <1>5, <1>6 DEF Dispatch, ImmediateOps, JumpOps, ShiftOps, Format9Ops, StackOps, WordOps, ByteOps, SingleOps
  <2>2. Tells(d.st, Decode(d, i.s, FALSE).val, i.n, Size(FALSE))
    BY <1>1, <1>3, <1>6, <2>1, CompareImmediate
  <2>3. ComparedBy(d, i).a = Decode(d, i.s, FALSE).val /\ ComparedBy(d, i).b = i.n
    BY <1>6 DEF ComparedBy
  <2>4. Size(i.op = "CB") = Size(FALSE)
    BY <1>6 DEF Size
  <2> QED BY <2>2, <2>3, <2>4
<1>7. CASE i.op \in {"C", "CB"}
  <2>1. d = TwoOperand(f, i)
    BY <1>5, <1>7 DEF Dispatch, ImmediateOps, JumpOps, ShiftOps, Format9Ops, StackOps, WordOps, ByteOps, SingleOps
  <2>2. CASE i.op = "C"
    <3>1. Tells(d.st, Decode(d, i.s, FALSE).val, Decode(d, i.d, FALSE).val, Size(FALSE))
      BY <1>1, <1>3, <1>4, <2>1, <2>2, CompareTwo
    <3>2. ComparedBy(d, i).a = Decode(d, i.s, FALSE).val /\ ComparedBy(d, i).b = Decode(d, i.d, FALSE).val
      BY <2>2 DEF ComparedBy, Decode
    <3>3. Size(i.op = "CB") = Size(FALSE)
      BY <2>2 DEF Size
    <3> QED BY <3>1, <3>2, <3>3
  <2>3. CASE i.op = "CB"
    <3>1. Tells(d.st, Decode(d, i.s, TRUE).val, Decode(d, i.d, TRUE).val, Size(TRUE))
      BY <1>1, <1>3, <1>4, <2>1, <2>3, CompareTwo
    <3>2. ComparedBy(d, i).a = Decode(d, i.s, TRUE).val /\ ComparedBy(d, i).b = Decode(d, i.d, TRUE).val
      BY <2>3 DEF ComparedBy, Decode
    <3>3. Size(i.op = "CB") = Size(TRUE)
      BY <2>3 DEF Size
    <3> QED BY <3>1, <3>2, <3>3
  <2> QED BY <1>7, <2>2, <2>3
<1> QED BY <1>1, <1>6, <1>7

-----------------------------------------------------------------------------
(* The steps, by what they do.                                             *)
Ran == /\ cpu.on /\ saved = <<>> /\ code # <<>>
       /\ \E i \in Head(code) :
            cpu' = Execute(cpu, i) /\ twin' = Execute(twin, i) /\ last' = <<i>>
       /\ code' = Tail(code) /\ UNCHANGED saved

(* A step runs an instruction, ends a slice, starts one, or changes        *)
(* nothing.                                                                *)
LEMMA Steps ==
  ASSUME [Next]_vars
  PROVE  Ran \/ SliceEnds \/ SliceStarts \/ UNCHANGED vars
<1>1. CASE HandleImmediateSystem
  <2>1. ASSUME NEW c, NEW i, i.op \in ImmediateOps PROVE Immediate(Fetched(c), i) = Execute(c, i)
    BY <2>1 DEF Execute, Dispatch, ImmediateOps, JumpOps, ShiftOps, Format9Ops, StackOps, WordOps, ByteOps, SingleOps
  <2> QED BY <1>1, <2>1 DEF HandleImmediateSystem, Running, Turn, Run, Ran
<1>2. CASE HandleJumpSingle
  <2>1. ASSUME NEW c, NEW i, i.op \in SingleOps PROVE JumpSingle(Fetched(c), i) = Execute(c, i)
    <3>1. CASE i.op = "X" BY <3>1 DEF JumpSingle, Execute
    <3>2. CASE i.op # "X"
      BY <2>1, <3>2 DEF JumpSingle, Execute, Dispatch, ImmediateOps, JumpOps, ShiftOps, Format9Ops, StackOps, WordOps, ByteOps, SingleOps
    <3> QED BY <3>1, <3>2
  <2> QED BY <1>2, <2>1 DEF HandleJumpSingle, Running, Turn, Run, Ran
<1>3. CASE HandleBranchGroup
  <2>1. ASSUME NEW c, NEW i, i.op \in JumpOps PROVE Branch(Fetched(c), i) = Execute(c, i)
    BY <2>1 DEF Execute, Dispatch, ImmediateOps, JumpOps, ShiftOps, Format9Ops, StackOps, WordOps, ByteOps, SingleOps
  <2> QED BY <1>3, <2>1 DEF HandleBranchGroup, Running, Turn, Run, Ran
<1>4. CASE HandleShiftRotate
  <2>1. ASSUME NEW c, NEW i, i.op \in ShiftOps PROVE Shift(Fetched(c), i) = Execute(c, i)
    BY <2>1 DEF Execute, Dispatch, ImmediateOps, JumpOps, ShiftOps, Format9Ops, StackOps, WordOps, ByteOps, SingleOps
  <2> QED BY <1>4, <2>1 DEF HandleShiftRotate, Running, Turn, Run, Ran
<1>5. CASE HandleFormat9
  <2>1. ASSUME NEW c, NEW i, i.op \in Format9Ops PROVE Format9(Fetched(c), i) = Execute(c, i)
    BY <2>1 DEF Execute, Dispatch, ImmediateOps, JumpOps, ShiftOps, Format9Ops, StackOps, WordOps, ByteOps, SingleOps
  <2> QED BY <1>5, <2>1 DEF HandleFormat9, Running, Turn, Run, Ran
<1>6. CASE HandleF18aStack
  <2>1. ASSUME NEW c, NEW i, i.op \in StackOps PROVE Stack(Fetched(c), i) = Execute(c, i)
    BY <2>1 DEF Execute, Dispatch, ImmediateOps, JumpOps, ShiftOps, Format9Ops, StackOps, WordOps, ByteOps, SingleOps
  <2> QED BY <1>6, <2>1 DEF HandleF18aStack, Running, Turn, Run, Ran
<1>7. CASE HandleTwoOperand
  <2>1. ASSUME NEW c, NEW i, i.op \in WordOps \cup ByteOps PROVE TwoOperand(Fetched(c), i) = Execute(c, i)
    BY <2>1 DEF Execute, Dispatch, ImmediateOps, JumpOps, ShiftOps, Format9Ops, StackOps, WordOps, ByteOps, SingleOps
  <2> QED BY <1>7, <2>1 DEF HandleTwoOperand, Running, Turn, Run, Ran
<1> QED BY <1>1, <1>2, <1>3, <1>4, <1>5, <1>6, <1>7 DEF Next

(* The initial machines satisfy the invariant.                             *)
LEMMA InitHolds == Init => ProcessorInv
<1>1. SUFFICES ASSUME Init PROVE ProcessorInv
  OBVIOUS
<1>2. PICK sc \in Scenes : cpu = sc.cpu /\ twin = sc.cpu /\ code = sc.code /\ saved = <<>> /\ last = <<>>
  BY <1>1 DEF Init
<1> QED BY <1>2, ScenesAssumption DEF ProcessorInv, SlicedInv, ComparedInv

(* Every step keeps the invariant.                                         *)
LEMMA NextHolds == ProcessorInv /\ [Next]_vars => ProcessorInv'
<1>1. SUFFICES ASSUME ProcessorInv, [Next]_vars PROVE ProcessorInv'
  OBVIOUS
<1>2. IsMachine(twin) /\ IsStream(code) /\ SlicedInv /\ ComparedInv
  BY <1>1 DEF ProcessorInv
<1>3. CASE Ran
  <2>1. PICK i \in Head(code) : cpu' = Execute(cpu, i) /\ twin' = Execute(twin, i) /\ last' = <<i>>
    BY <1>3 DEF Ran
  <2>2. saved = <<>> /\ saved' = <<>> /\ code' = Tail(code) /\ code # <<>> /\ cpu = twin
    BY <1>2, <1>3 DEF Ran, SlicedInv
  <2>3. IsInstruction(i) /\ IsStream(code')
    BY <1>2, <2>1, <2>2, StreamFacts
  <2>4. IsMachine(twin')
    BY <1>2, <2>1, <2>3, MachineStaysOne
  <2>5. SlicedInv'
    BY <2>1, <2>2 DEF SlicedInv
  <2>6. ComparedInv'
    <3>1. SUFFICES ASSUME Comparison(i)
                   PROVE  Tells(twin'.st, ComparedBy(twin', i).a, ComparedBy(twin', i).b, Size(i.op = "CB"))
      BY <2>1 DEF ComparedInv
    <3> QED BY <1>2, <2>1, <2>3, <3>1, CompareTells
  <2> QED BY <2>3, <2>4, <2>5, <2>6 DEF ProcessorInv
<1>4. CASE SliceEnds
  <2>1. /\ saved' = <<[pc |-> cpu.pc, wp |-> cpu.wp, st |-> cpu.st]>> /\ cpu = twin
        /\ cpu' = [cpu EXCEPT !.pc = 0, !.wp = 0, !.st = {}]
        /\ code' = code /\ last' = last /\ twin' = twin
    BY <1>2, <1>4 DEF SliceEnds, Running, SlicedInv
  <2>2. SlicedInv'
    BY <2>1 DEF SlicedInv
  <2>3. ComparedInv'
    BY <1>2, <2>1 DEF ComparedInv
  <2> QED BY <1>2, <2>1, <2>2, <2>3 DEF ProcessorInv
<1>5. CASE SliceStarts
  <2>1. /\ saved = <<[pc |-> twin.pc, wp |-> twin.wp, st |-> twin.st]>> /\ saved' = <<>>
        /\ cpu = [twin EXCEPT !.pc = 0, !.wp = 0, !.st = {}] /\ cpu' = Resumed(saved[1])
        /\ code' = code /\ last' = last /\ twin' = twin
    BY <1>2, <1>5 DEF SliceStarts, SlicedInv
  <2>2. cpu' = twin
    BY <1>2, <2>1 DEF Resumed, IsMachine
  <2>3. SlicedInv'
    BY <2>1, <2>2 DEF SlicedInv
  <2>4. ComparedInv'
    BY <1>2, <2>1 DEF ComparedInv
  <2> QED BY <1>2, <2>1, <2>3, <2>4 DEF ProcessorInv
<1>6. CASE UNCHANGED vars
  <2>1. cpu' = cpu /\ saved' = saved /\ code' = code /\ last' = last /\ twin' = twin
    BY <1>6 DEF vars
  <2> QED BY <1>2, <2>1 DEF ProcessorInv, SlicedInv, ComparedInv
<1> QED BY <1>1, <1>3, <1>4, <1>5, <1>6, Steps

(* Whatever a program does and wherever its budget runs out, the machine   *)
(* is one, and the flags are the last comparison's.                        *)
THEOREM Invariance == Spec => []ProcessorInv
<1> QED
  BY InitHolds, NextHolds, PTL DEF Spec

(* Cutting a program into slices changes nothing it can see.               *)
THEOREM SlicedEqualsWholeHolds == Spec => []SlicedEqualsWhole
<1>1. ProcessorInv => SlicedEqualsWhole
  BY DEF ProcessorInv, SlicedInv, SlicedEqualsWhole
<1> QED
  BY <1>1, Invariance, PTL
-----------------------------------------------------------------------------
(* A jump after a comparison.                                              *)
OrderJumps == {"JEQ", "JNE", "JL", "JLE", "JH", "JHE", "JLT", "JGT", "JMP"}

(* A jump looks at the flags that tell the order it is named for.          *)
LEMMA TakenHolds ==
  ASSUME NEW st, NEW size \in {Byte, Word}, NEW a, NEW b, Tells(st, a, b, size), NEW op \in OrderJumps
  PROVE  Taken(op, st) <=> Holds(op, a, b, size)
<1>1. PICK h \in Nat : h > 0 /\ size = 2 * h /\ size \div 2 = h
  BY HalfSize
<1>2. a \in 0 .. size - 1 /\ b \in 0 .. size - 1 /\ a \in Int /\ b \in Int
  BY <1>1 DEF Tells
<1>3. /\ Signed(a, size) \in Int /\ Signed(b, size) \in Int
      /\ (a = b) <=> (Signed(a, size) = Signed(b, size))
  BY <1>1, <1>2 DEF Signed
<1>4. /\ "EQ" \in st <=> a = b
      /\ "LGT" \in st <=> a > b
      /\ "AGT" \in st <=> Signed(a, size) > Signed(b, size)
  BY DEF Tells
<1>5. CASE op \in {"JEQ", "JNE", "JMP"}
  BY <1>2, <1>4, <1>5 DEF Taken, Holds
<1>6. CASE op = "JL"
  BY <1>2, <1>4, <1>6 DEF Taken, Holds
<1>7. CASE op = "JLE"
  BY <1>2, <1>4, <1>7 DEF Taken, Holds
<1>8. CASE op = "JH"
  BY <1>2, <1>4, <1>8 DEF Taken, Holds
<1>9. CASE op = "JHE"
  BY <1>2, <1>4, <1>9 DEF Taken, Holds
<1>10. CASE op = "JLT"
  BY <1>2, <1>3, <1>4, <1>10 DEF Taken, Holds
<1>11. CASE op = "JGT"
  BY <1>2, <1>3, <1>4, <1>11 DEF Taken, Holds
<1> QED BY <1>5, <1>6, <1>7, <1>8, <1>9, <1>10, <1>11 DEF OrderJumps

(* A jump goes where it says when it is taken, and on when it is not.      *)
LEMMA JumpGoes ==
  ASSUME NEW c, IsMachine(c), NEW j, IsInstruction(j), j.op \in OrderJumps
  PROVE  Execute(c, j).pc = (c.pc + 2 + (IF Taken(j.op, c.st) THEN 2 * j.n ELSE 0)) % Word
<1>1. IsFields(j) /\ j.n \in Int /\ j.op \in JumpOps /\ j.op # "X" /\ j.op # "TB" /\ j.op \notin ImmediateOps
  BY DEF IsInstruction, IsFields, OrderJumps, JumpOps, ImmediateOps
<1>2. PICK f : f = Fetched(c)
  OBVIOUS
<1>3. IsMachine(f) /\ f.pc = (c.pc + 2) % Word /\ f.st = c.st
  BY <1>2, FetchedFacts
<1>4. Execute(c, j) = Branch(f, j)
  <2>1. Execute(c, j) = Dispatch(f, j)
    BY <1>1, <1>2 DEF Execute
  <2>2. Dispatch(f, j) = Branch(f, j)
    BY <1>1 DEF Dispatch, ImmediateOps, JumpOps, ShiftOps, Format9Ops, StackOps, WordOps, ByteOps, SingleOps
  <2> QED BY <2>1, <2>2
<1>5. PICK p \in Nat, n \in Int : p = c.pc /\ n = j.n
  BY <1>1, MachineFields, Widths DEF AnyWord
<1>6. ASSUME NEW to PROVE Jump(f, to).pc = to % Word /\ [Jump(f, to) EXCEPT !.on = FALSE].pc = to % Word
  BY <1>3 DEF Jump, IsMachine
<1>7. (((p + 2) % Word) + (2 * n)) % Word = (p + 2 + (2 * n)) % Word
  BY Widths
<1>8. (((p + 2) % Word) - 2) % Word = (p + 2 + (2 * (-1))) % Word
  BY Widths
<1>9. CASE j.op = "JMP" /\ j.n = -1
  <2>1. Branch(f, j) = [Jump(f, f.pc - 2) EXCEPT !.on = FALSE]
    BY <1>9 DEF Branch
  <2>2. Taken(j.op, c.st)
    BY <1>9 DEF Taken
  <2>3. Branch(f, j).pc = (f.pc - 2) % Word
    BY <1>6, <2>1
  <2> QED BY <1>3, <1>4, <1>5, <1>8, <1>9, <2>2, <2>3
<1>10. CASE ~(j.op = "JMP" /\ j.n = -1) /\ Taken(j.op, c.st)
  <2>1. Branch(f, j) = Jump(f, f.pc + (2 * j.n))
    BY <1>1, <1>3, <1>10 DEF Branch
  <2>2. Branch(f, j).pc = (f.pc + (2 * j.n)) % Word
    BY <1>6, <2>1
  <2> QED BY <1>3, <1>4, <1>5, <1>7, <1>10, <2>2
<1>11. CASE ~(j.op = "JMP" /\ j.n = -1) /\ ~Taken(j.op, c.st)
  <2>1. Branch(f, j) = f
    BY <1>1, <1>3, <1>11 DEF Branch
  <2>2. p + 2 + 0 = p + 2
    OBVIOUS
  <2> QED BY <1>3, <1>4, <1>5, <1>11, <2>1, <2>2
<1> QED BY <1>9, <1>10, <1>11

(* A jump after a comparison goes where the order of the numbers says.     *)
THEOREM JumpsFollowTheCompareHolds == Spec => JumpsFollowTheCompare
<1> DEFINE Goes ==
      \A j \in Head(code) :
       (/\ last # <<>> /\ Comparison(last[1])
        /\ Executed(j) /\ j.op \in {"JEQ", "JNE", "JL", "JLE", "JH", "JHE", "JLT", "JGT", "JMP"})
       => LET v == Compared(last[1])
              to == IF Holds(j.op, v.a, v.b, Size(last[1].op = "CB")) THEN 2 * j.n ELSE 0
          IN cpu'.pc = (cpu.pc + 2 + to) % Word
<1>1. ASSUME ProcessorInv, [Next]_vars PROVE Goes
  <2>1. SUFFICES ASSUME NEW j \in Head(code), last # <<>>, Comparison(last[1]), Executed(j), j.op \in OrderJumps
                 PROVE  LET v == Compared(last[1])
                            to == IF Holds(j.op, v.a, v.b, Size(last[1].op = "CB")) THEN 2 * j.n ELSE 0
                        IN cpu'.pc = (cpu.pc + 2 + to) % Word
    BY DEF OrderJumps
  <2>2. Ran
    BY <1>1, <2>1, Steps DEF SliceEnds, SliceStarts, vars, Executed
  <2>3. PICK i \in Head(code) : cpu' = Execute(cpu, i) /\ last' = <<i>>
    BY <2>2 DEF Ran
  <2>4. i = j /\ cpu = twin /\ code # <<>>
    BY <1>1, <2>1, <2>2, <2>3 DEF Executed, ProcessorInv, SlicedInv, Ran
  <2>5. IsMachine(cpu) /\ IsInstruction(j)
    BY <1>1, <2>4, StreamFacts DEF ProcessorInv
  <2>6. PICK size \in {Byte, Word} : size = Size(last[1].op = "CB")
    BY DEF Size
  <2>7. PICK a, b : a = Compared(last[1]).a /\ b = Compared(last[1]).b
    OBVIOUS
  <2>8. Tells(cpu.st, a, b, size)
    BY <1>1, <2>1, <2>4, <2>6, <2>7 DEF ProcessorInv, ComparedInv, Compared, ComparedBy
  <2>9. Taken(j.op, cpu.st) <=> Holds(j.op, a, b, size)
    BY <2>1, <2>8, TakenHolds
  <2>10. cpu'.pc = (cpu.pc + 2 + (IF Taken(j.op, cpu.st) THEN 2 * j.n ELSE 0)) % Word
    BY <2>1, <2>3, <2>4, <2>5, JumpGoes
  <2> QED BY <2>6, <2>7, <2>9, <2>10
<1> QED
  BY <1>1, Invariance, PTL DEF Spec, JumpsFollowTheCompare
-----------------------------------------------------------------------------
(* Decoding looks at the memory and the workspace, not at where the        *)
(* program is.                                                             *)
LEMMA PutMemory ==
  ASSUME NEW c, IsMachine(c), NEW a, NEW v
  PROVE  Put(c, a, v).mem = With(c.mem, a, v)
BY DEF Put, IsMachine

(* A register written is two bytes written.                                *)
LEMMA SetRegMemory ==
  ASSUME NEW c, IsMachine(c), NEW r \in Nat, NEW v \in AnyWord
  PROVE  SetReg(c, r, v).mem = With(With(c.mem, WpAddr(c, r), v \div Byte), WpAddr(c, r) + 1, v % Byte)
<1>1. PICK a \in Nat : a = WpAddr(c, r)
  BY MachineFields, Widths DEF WpAddr, AnyWord
<1>2. PICK d : d = Put(c, a, v \div Byte)
  OBVIOUS
<1>3. IsMachine(d) /\ d.mem = With(c.mem, a, v \div Byte)
  BY <1>1, <1>2, Halves, PutFacts, PutMemory
<1>4. Put(d, a + 1, v % Byte).mem = With(d.mem, a + 1, v % Byte)
  BY <1>3, PutMemory
<1> QED BY <1>1, <1>2, <1>3, <1>4 DEF SetReg

(* Decoding looks at the memory and the workspace, not at the program      *)
(* counter.                                                                *)
LEMMA SameDecode ==
  ASSUME NEW c, IsMachine(c), NEW d, IsMachine(d), d.mem = c.mem, d.wp = c.wp, d.f18a = c.f18a,
         NEW f \in Operands, NEW byte \in BOOLEAN,
         NEW p, p = Decode(c, f, byte), NEW q, q = Decode(d, f, byte)
  PROVE  /\ q.val = p.val /\ q.at = p.at
         /\ q.c.mem = p.c.mem /\ q.c.wp = p.c.wp /\ q.c.f18a = p.c.f18a
<1>1. PICK reg \in AnyWord : reg = GetReg(c, f.r)
  BY GetRegFacts
<1>2. GetReg(d, f.r) = reg /\ WpAddr(d, f.r) = WpAddr(c, f.r)
  BY <1>1 DEF GetReg, WpAddr
<1>3. q.c.wp = p.c.wp /\ q.c.f18a = p.c.f18a
  BY DecodeFacts
<1>4. CASE f.m = "reg"
  <2>1. p.val = (IF byte THEN At(c.mem, WpAddr(c, f.r)) ELSE reg) /\ p.at = WpAddr(c, f.r) /\ p.c = c
    BY <1>1, <1>4 DEF Decode
  <2>2. q.val = (IF byte THEN At(d.mem, WpAddr(d, f.r)) ELSE reg) /\ q.at = WpAddr(d, f.r) /\ q.c = d
    BY <1>2, <1>4 DEF Decode
  <2> QED BY <1>2, <1>3, <2>1, <2>2
<1>5. CASE f.m # "reg"
  <2>1. PICK raw : raw = IF f.m # "idx" THEN reg ELSE ((IF f.r = 0 THEN 0 ELSE reg) + f.x) % Word
    OBVIOUS
  <2>2. PICK at : at = IF byte THEN raw ELSE Even(raw)
    OBVIOUS
  <2>3. PICK step : step = (reg + (IF byte THEN 1 ELSE 2)) % Word
    OBVIOUS
  <2>4. step \in AnyWord /\ f.r \in Nat
    BY <2>3, Widths DEF AnyWord, Operands
  <2>5. PICK ac : ac = IF f.m = "idx" THEN Fetched(c) ELSE IF f.m = "inc" THEN SetReg(c, f.r, step) ELSE c
    OBVIOUS
  <2>6. PICK ad : ad = IF f.m = "idx" THEN Fetched(d) ELSE IF f.m = "inc" THEN SetReg(d, f.r, step) ELSE d
    OBVIOUS
  <2>7. p.at = at /\ p.c = ac /\ p.val = IF byte THEN Read8(ac, at) ELSE Read16(ac, at)
    BY <1>1, <1>5, <2>1, <2>2, <2>3, <2>5 DEF Decode
  <2>8. q.at = at /\ q.c = ad /\ q.val = IF byte THEN Read8(ad, at) ELSE Read16(ad, at)
    BY <1>2, <1>5, <2>1, <2>2, <2>3, <2>6 DEF Decode
  <2>9. ad.mem = ac.mem
    <3>1. CASE f.m = "idx" BY <2>5, <2>6, <3>1, FetchedFacts
    <3>2. CASE f.m = "inc"
      <4>1. ac = SetReg(c, f.r, step) /\ ad = SetReg(d, f.r, step)
        BY <2>5, <2>6, <3>2
      <4>2. SetReg(c, f.r, step).mem
              = With(With(c.mem, WpAddr(c, f.r), step \div Byte), WpAddr(c, f.r) + 1, step % Byte)
        BY <2>4, SetRegMemory
      <4>3. SetReg(d, f.r, step).mem
              = With(With(d.mem, WpAddr(d, f.r), step \div Byte), WpAddr(d, f.r) + 1, step % Byte)
        BY <2>4, SetRegMemory
      <4> QED BY <1>2, <4>1, <4>2, <4>3
    <3>3. CASE f.m # "idx" /\ f.m # "inc" BY <2>5, <2>6, <3>3
    <3> QED BY <3>1, <3>2, <3>3
  <2>10. ad.f18a = ac.f18a
    BY <1>3, <2>7, <2>8
  <2>11. Read8(ad, at) = Read8(ac, at) /\ Read16(ad, at) = Read16(ac, at)
    BY <2>9, <2>10 DEF Read8, Read16
  <2> QED BY <1>3, <2>7, <2>8, <2>9, <2>11
<1> QED BY <1>4, <1>5

(* A write of a MOV: the bytes that reach the part's memory.               *)
Wrote(c, at, val, byte) == IF byte THEN Write8(c, at, val) ELSE Write16(c, at, val)

(* A MOV outside the registers writes its bytes and then tells the watch.  *)
LEMMA WroteFacts ==
  ASSUME NEW c, IsMachine(c), NEW o, IsOperand(o), o.m # "reg",
         NEW v \in IF o.byte THEN AnyByte ELSE AnyWord
  PROVE  LET d == Wrote(c, o.at, v, o.byte)
         IN IsMachine(d) /\ OnlyMemory(c, d) /\ Store(c, o, v) = WatchWrite(d, o.at)
<1>1. o.at \in Nat /\ o.byte \in BOOLEAN
  BY DEF IsOperand
<1>2. CASE o.byte
  <2>1. v \in AnyByte /\ Wrote(c, o.at, v, o.byte) = Write8(c, o.at, v)
    BY <1>2 DEF Wrote
  <2>2. Store(c, o, v) = WatchWrite(Write8(c, o.at, v), o.at)
    BY <1>2 DEF Store
  <2> QED BY <1>1, <2>1, <2>2, Write8Facts
<1>3. CASE ~o.byte
  <2>1. v \in AnyWord /\ Wrote(c, o.at, v, o.byte) = Write16(c, o.at, v)
    BY <1>3 DEF Wrote
  <2>2. Store(c, o, v) = WatchWrite(Write16(c, o.at, v), o.at)
    BY <1>3 DEF Store
  <2> QED BY <1>1, <2>1, <2>2, Write16Facts
<1> QED BY <1>1, <1>2, <1>3

(* A write looks at the memory and the personality only.                   *)
LEMMA SameByte ==
  ASSUME NEW p, IsMachine(p), NEW q, IsMachine(q), q.mem = p.mem, q.f18a = p.f18a,
         NEW a \in Nat, NEW v \in AnyByte
  PROVE  Write8(q, a, v).mem = Write8(p, a, v).mem
<1>1. ASSUME NEW at \in Nat, NEW w \in AnyByte
      PROVE  Put(q, at, w).mem = Put(p, at, w).mem
  BY PutMemory
<1>2. CASE ~p.f18a
  BY <1>1, <1>2 DEF Write8
<1>3. CASE p.f18a /\ (a \div Nibble) \notin Writes
  BY <1>3 DEF Write8
<1>4. CASE p.f18a /\ (a \div Nibble) \in Writes
  <2>1. PICK at \in Nat : at = GpuAddr(a)
    BY AddressFacts
  <2>2. PICK w : w = IF at = (11 * Nibble) + 2
                     THEN (v % (Byte \div 2)) + ((At(p.mem, at) \div (Byte \div 2)) * (Byte \div 2))
                     ELSE v
    OBVIOUS
  <2>3. w \in AnyByte
    <3>1. At(p.mem, at) \in AnyByte
      BY MachineFields, AtFacts
    <3> QED BY <2>2, <3>1, Widths DEF AnyByte
  <2>4. Write8(p, a, v) = Put(p, at, w) /\ Write8(q, a, v) = Put(q, at, w)
    BY <1>4, <2>1, <2>2 DEF Write8
  <2> QED BY <1>1, <2>1, <2>3, <2>4
<1> QED BY <1>2, <1>3, <1>4

LEMMA SameWrite ==
  ASSUME NEW p, IsMachine(p), NEW q, IsMachine(q), q.mem = p.mem, q.f18a = p.f18a,
         NEW a \in Nat, NEW byte \in BOOLEAN, NEW v \in IF byte THEN AnyByte ELSE AnyWord
  PROVE  Wrote(q, a, v, byte).mem = Wrote(p, a, v, byte).mem
<1>1. CASE byte
  BY <1>1, SameByte DEF Wrote
<1>2. CASE ~byte
  <2>1. PICK hi \in AnyByte, lo \in AnyByte : hi = v \div Byte /\ lo = v % Byte
    BY <1>2, Halves
  <2>2. PICK b \in Nat : b = (a + 1) % Word
    BY AddressFacts
  <2>3. PICK s, t : s = Write8(p, a, hi) /\ t = Write8(q, a, hi)
    OBVIOUS
  <2>4. /\ IsMachine(s) /\ IsMachine(t) /\ t.mem = s.mem
        /\ s.f18a = p.f18a /\ t.f18a = q.f18a
    BY <2>3, Write8Facts, SameByte DEF OnlyMemory
  <2>5. Write8(t, b, lo).mem = Write8(s, b, lo).mem
    BY <2>4, SameByte
  <2>6. Write16(p, a, v) = Write8(s, b, lo) /\ Write16(q, a, v) = Write8(t, b, lo)
    BY <2>1, <2>2, <2>3 DEF Write16
  <2> QED BY <1>2, <2>5, <2>6 DEF Wrote
<1> QED BY <1>1, <1>2

(* The watch on the DMA port runs the engine when the trigger byte is not  *)
(* zero, on either personality.                                            *)
PortPlace(c, at) == IF c.f18a THEN GpuAddr(at) ELSE at

LEMMA PortWrite ==
  ASSUME NEW d, IsMachine(d), NEW a, PortPlace(d, a) \in Port .. Port + 31
  PROVE  SameMemory(WatchWrite(d, a).mem,
                    IF At(d.mem, Port + 8) = 0 THEN d.mem ELSE EngineWalk(d.mem))
<1>0. PICK at \in Port .. Port + 31 : at = PortPlace(d, a)
  OBVIOUS
<1>1. at - (at % 32) = Port
  <2>1. Port \in {2048, 8192, 32768}
    BY Widths DEF Port
  <2>2. CASE Port = 2048 BY <2>2
  <2>3. CASE Port = 8192 BY <2>3
  <2>4. CASE Port = 32768 BY <2>4
  <2> QED BY <2>1, <2>2, <2>3, <2>4
<1>2. CASE At(d.mem, Port + 8) = 0
  <2>1. WatchWrite(d, a) = d
    BY <1>2 DEF WatchWrite
  <2> QED BY <1>2, <2>1 DEF SameMemory
<1>3. CASE At(d.mem, Port + 8) # 0
  <2>1. WatchWrite(d, a) = [d EXCEPT !.mem = TriggerGpuDma(d.mem)]
    BY <1>0, <1>1, <1>3 DEF WatchWrite, PortPlace
  <2>2. WatchWrite(d, a).mem = TriggerGpuDma(d.mem)
    BY <2>1 DEF IsMachine
  <2>3. SameMemory(TriggerGpuDma(d.mem), EngineWalk(d.mem))
    BY MachineFields, EngineIsTheWalk
  <2> QED BY <1>3, <2>2, <2>3
<1> QED BY <1>2, <1>3

(* What a MOV into the DMA port leaves in memory is the walk of the        *)
(* engine.                                                                 *)
LEMMA MoveStores ==
  ASSUME NEW c, IsMachine(c), NEW i, IsInstruction(i), NEW byte \in BOOLEAN,
         i.op = IF byte THEN "MOVB" ELSE "MOV", i.d.m # "reg",
         NEW s, s = Decode(c, i.s, byte), NEW o, o = Decode(s.c, i.d, byte),
         PortPlace(c, o.at) \in Port .. Port + 31,
         NEW w, w = Wrote(o.c, o.at, s.val, byte).mem
  PROVE  SameMemory(Execute(c, i).mem, IF At(w, Port + 8) = 0 THEN w ELSE EngineWalk(w))
<1>1. IsFields(i) /\ i.s \in Operands /\ i.d \in Operands /\ i.op # "X"
  BY DEF IsInstruction, IsFields
<1>2. PICK f : f = Fetched(c)
  OBVIOUS
<1>3. IsMachine(f) /\ f.mem = c.mem /\ f.wp = c.wp /\ f.f18a = c.f18a
  BY <1>2, FetchedFacts
<1>4. PICK t, p : t = Decode(f, i.s, byte) /\ p = Decode(t.c, i.d, byte)
  OBVIOUS
<1>5. /\ IsOperand(s) /\ s.byte = byte /\ s.c.wp = c.wp /\ s.c.f18a = c.f18a
      /\ IsOperand(t) /\ t.byte = byte
      /\ t.val = s.val /\ t.c.mem = s.c.mem /\ t.c.wp = s.c.wp /\ t.c.f18a = s.c.f18a
  BY <1>1, <1>3, <1>4, DecodeFacts, SameDecode
<1>6. IsMachine(s.c) /\ IsMachine(t.c)
  BY <1>5 DEF IsOperand
<1>7. /\ IsOperand(p) /\ p.byte = byte /\ p.m = i.d.m /\ p.c.f18a = t.c.f18a
      /\ IsOperand(o) /\ o.c.f18a = s.c.f18a
  BY <1>1, <1>4, <1>6, DecodeFacts
<1>8. p.at = o.at /\ p.c.mem = o.c.mem
  BY <1>1, <1>4, <1>5, <1>6, SameDecode
<1>9. IsMachine(p.c) /\ IsMachine(o.c) /\ p.c.f18a = c.f18a /\ o.c.f18a = c.f18a /\ p.at \in Nat
  BY <1>3, <1>5, <1>7 DEF IsOperand
<1>10. PICK v : v = s.val
  OBVIOUS
<1>11. v \in IF byte THEN AnyByte ELSE AnyWord
  BY <1>5, <1>10 DEF IsOperand
<1>12. PICK d : d = Wrote(p.c, p.at, v, byte)
  OBVIOUS
<1>13. IsMachine(d) /\ OnlyMemory(p.c, d) /\ Store(p.c, p, v) = WatchWrite(d, p.at)
  BY <1>7, <1>9, <1>11, <1>12, WroteFacts
<1>14. d.mem = w
  BY <1>8, <1>9, <1>10, <1>11, <1>12, SameWrite
<1>15. PortPlace(d, p.at) \in Port .. Port + 31
  BY <1>8, <1>9, <1>13 DEF OnlyMemory, PortPlace
<1>16. Execute(c, i).mem = WatchWrite(d, p.at).mem
  <2>1. PICK st : st = Logical(p.c, v, byte).st
    OBVIOUS
  <2>2. Logical(p.c, v, byte).v = v /\ st \in SUBSET FlagNames
    <3>1. v \in 0 .. Size(byte) - 1
      BY <1>11, SizeFacts
    <3>2. Logical(p.c, v, byte).v = v /\ IsResult(Logical(p.c, v, byte), byte)
      BY <1>9, <3>1, LogicalFacts
    <3> QED BY <2>1, <3>2 DEF IsResult
  <2>3. Execute(c, i) = TwoOperand(f, i)
    <3>1. Execute(c, i) = Dispatch(f, i)
      BY <1>1, <1>2 DEF Execute
    <3>2. i.op \in {"MOV", "MOVB"}
      OBVIOUS
    <3>3. Dispatch(f, i) = TwoOperand(f, i)
      BY <3>2 DEF Dispatch, ImmediateOps, JumpOps, ShiftOps, Format9Ops, StackOps, WordOps, ByteOps, SingleOps
    <3> QED BY <3>1, <3>3
  <2>4. TwoOperand(f, i) = ToPlace(p, Logical(p.c, v, byte))
    <3>1. CASE byte = TRUE
      BY <1>4, <1>5, <1>10, <3>1 DEF TwoOperand, ByteOps
    <3>2. CASE byte = FALSE
      BY <1>4, <1>5, <1>10, <3>2 DEF TwoOperand, ByteOps
    <3> QED BY <3>1, <3>2
  <2>5. ToPlace(p, Logical(p.c, v, byte)) = Flags(WatchWrite(d, p.at), st)
    BY <1>13, <2>1, <2>2 DEF ToPlace
  <2>6. IsMachine(WatchWrite(d, p.at))
    BY <1>9, <1>13, WatchFacts
  <2>7. Flags(WatchWrite(d, p.at), st).mem = WatchWrite(d, p.at).mem
    BY <2>6 DEF Flags, IsMachine
  <2> QED BY <2>3, <2>4, <2>5, <2>7
<1>17. SameMemory(WatchWrite(d, p.at).mem, IF At(d.mem, Port + 8) = 0 THEN d.mem ELSE EngineWalk(d.mem))
  BY <1>13, <1>15, PortWrite
<1> QED BY <1>14, <1>16, <1>17

(* A transfer a program triggers is the engine's, byte for byte, whichever *)
(* personality the part has.                                               *)
THEOREM DmaWalksHolds == Spec => DmaWalks
<1> DEFINE Moves1 ==
      \A i \in Head(code) :
       LET byte  == i.op = "MOVB"
           s     == Decode(cpu, i.s, byte)
           o     == Decode(s.c, i.d, byte)
           at    == IF cpu.f18a THEN GpuAddr(o.at) ELSE o.at
           wrote == (IF byte THEN Write8(o.c, o.at, s.val) ELSE Write16(o.c, o.at, s.val)).mem
       IN (Executed(i) /\ i.op \in {"MOV", "MOVB"} /\ i.d.m # "reg" /\ at \in Port .. Port + 31)
          => SameMemory(cpu'.mem, IF At(wrote, Port + 8) = 0 THEN wrote ELSE EngineWalk(wrote))
<1>1. ASSUME ProcessorInv, [Next]_vars PROVE Moves1
  <2>a. TAKE i \in Head(code)
  <2> DEFINE byte  == i.op = "MOVB"
             s     == Decode(cpu, i.s, byte)
             o     == Decode(s.c, i.d, byte)
             at    == IF cpu.f18a THEN GpuAddr(o.at) ELSE o.at
             wrote == (IF byte THEN Write8(o.c, o.at, s.val) ELSE Write16(o.c, o.at, s.val)).mem
  <2>1. SUFFICES ASSUME Executed(i), i.op \in {"MOV", "MOVB"}, i.d.m # "reg", at \in Port .. Port + 31
                 PROVE  SameMemory(cpu'.mem, IF At(wrote, Port + 8) = 0 THEN wrote ELSE EngineWalk(wrote))
    OBVIOUS
  <2>2. Ran
    BY <1>1, <2>1, Steps DEF SliceEnds, SliceStarts, vars, Executed
  <2>3. PICK j \in Head(code) : cpu' = Execute(cpu, j) /\ last' = <<j>>
    BY <2>2 DEF Ran
  <2>4. i = j /\ cpu = twin /\ code # <<>>
    BY <1>1, <2>1, <2>2, <2>3 DEF Executed, ProcessorInv, SlicedInv, Ran
  <2>5. IsMachine(cpu) /\ IsInstruction(i)
    BY <1>1, <2>4, StreamFacts DEF ProcessorInv
  <2>6. SameMemory(Execute(cpu, i).mem, IF At(wrote, Port + 8) = 0 THEN wrote ELSE EngineWalk(wrote))
    <3>1. PICK b \in BOOLEAN : b = byte
      <4>1. byte \in BOOLEAN
        OBVIOUS
      <4> QED BY <4>1, Zenon
    <3>2. PICK t : t = Decode(cpu, i.s, b)
      OBVIOUS
    <3>3. PICK p : p = Decode(t.c, i.d, b)
      OBVIOUS
    <3>4. PICK w : w = Wrote(p.c, p.at, t.val, b).mem
      OBVIOUS
    <3>5. i.op = IF b THEN "MOVB" ELSE "MOV"
      BY <2>1, <3>1
    <3>6. t = s /\ p = o
      BY <3>1, <3>2, <3>3, Zenon
    <3>7. w = wrote
      BY <3>1, <3>4, <3>6 DEF Wrote
    <3>8. PortPlace(cpu, p.at) \in Port .. Port + 31
      BY <2>1, <3>6 DEF PortPlace
    <3> HIDE DEF byte, s, o, at, wrote
    <3>9. SameMemory(Execute(cpu, i).mem, IF At(w, Port + 8) = 0 THEN w ELSE EngineWalk(w))
      BY <2>1, <2>5, <3>2, <3>3, <3>4, <3>5, <3>8, MoveStores
    <3> QED BY <3>7, <3>9, Zenon
  <2> QED BY <2>3, <2>4, <2>6
<1> QED
  BY <1>1, Invariance, PTL DEF Spec, DmaWalks

-----------------------------------------------------------------------------
(* The arithmetic, for every operand and both widths: what an instruction  *)
(* stores, read back at its place, is the result on integers, and the flags *)
(* tell its carry, its overflow and its order.  The sums are one lemma per  *)
(* handler; MPY and DIV rest on the quotient that fits; a shift by n is     *)
(* compared with n shifts by one, by induction on n.                        *)

(* An operand at an address the decoder can have made.                     *)
IsPlace(o) ==
  /\ IsOperand(o)
  /\ o.m = "reg" => o.at = WpAddr(o.c, o.r)
  /\ o.m # "reg" => o.at \in AnyWord /\ (~o.byte => (o.at + 1) % Word = o.at + 1)

(* An operand decoded is a place, and its value is what the place holds.   *)
LEMMA PlaceFacts ==
  ASSUME NEW c, IsMachine(c), NEW f \in Operands, NEW byte \in BOOLEAN,
         NEW o, o = Decode(c, f, byte)
  PROVE  IsPlace(o) /\ Stored(o.c, o) = o.val
<1>1. /\ IsOperand(o) /\ o.m = f.m /\ o.r = f.r /\ o.byte = byte
  BY DecodeFacts
<1>2. PICK reg \in AnyWord : reg = GetReg(c, f.r)
  BY GetRegFacts
<1>3. CASE f.m = "reg"
  <2>1. o.c = c /\ o.at = WpAddr(c, f.r) /\ o.val = (IF byte THEN At(c.mem, WpAddr(c, f.r)) ELSE reg)
    BY <1>2, <1>3 DEF Decode
  <2> QED BY <1>1, <1>2, <1>3, <2>1 DEF IsPlace, Stored
<1>4. CASE f.m # "reg"
  <2>1. PICK raw : raw = IF f.m # "idx" THEN reg ELSE ((IF f.r = 0 THEN 0 ELSE reg) + f.x) % Word
    OBVIOUS
  <2>2. raw \in AnyWord
    BY <2>1, Widths DEF AnyWord, Operands
  <2>3. PICK at : at = IF byte THEN raw ELSE Even(raw)
    OBVIOUS
  <2>4. at \in AnyWord /\ (~byte => (at + 1) % Word = at + 1)
    BY <2>2, <2>3, EvenFacts
  <2>5. o.at = at /\ o.val = IF byte THEN Read8(o.c, at) ELSE Read16(o.c, at)
    BY <1>2, <1>4, <2>1, <2>3 DEF Decode
  <2> QED BY <1>1, <1>4, <2>4, <2>5 DEF IsPlace, Stored
<1> QED BY <1>3, <1>4

(* A write outside the port starts no transfer.                            *)
LEMMA NoTransfer ==
  ASSUME NEW d, ~d.f18a, NEW at \in AnyWord, at \notin Port .. Port + 31
  PROVE  WatchWrite(d, at) = d
<1>1. at - (at % 32) # Port
  BY Widths DEF AnyWord, Port
<1> QED BY <1>1 DEF WatchWrite

(* What is stored is read back, on a part whose operands are all memory,   *)
(* outside the DMA port.                                                   *)
LEMMA StoredIsRead ==
  ASSUME NEW o, IsPlace(o), ~o.c.f18a, ~InPort(o), NEW v \in IF o.byte THEN AnyByte ELSE AnyWord
  PROVE  /\ Stored(Store(o.c, o, v), o) = v
         /\ OnlyMemory(o.c, Store(o.c, o, v)) /\ IsMachine(Store(o.c, o, v))
<1>1. PICK c : c = o.c
  OBVIOUS
<1>2. /\ IsMachine(c) /\ IsOperand(o) /\ o.at \in Nat /\ o.r \in Nat /\ o.byte \in BOOLEAN /\ ~c.f18a
  BY <1>1 DEF IsPlace, IsOperand
<1>3. IsMachine(Store(c, o, v)) /\ OnlyMemory(c, Store(c, o, v))
  BY <1>2, StoreFacts
<1>4. CASE o.m = "reg" /\ o.byte
  <2>1. Store(c, o, v) = Put(c, o.at, v)
    BY <1>4 DEF Store
  <2>2. At(Put(c, o.at, v).mem, o.at) = v
    BY <1>2, <1>4, PutFacts
  <2> QED BY <1>1, <1>3, <1>4, <2>1, <2>2 DEF Stored
<1>5. CASE o.m = "reg" /\ ~o.byte
  <2>1. Store(c, o, v) = SetReg(c, o.r, v)
    BY <1>5 DEF Store
  <2>2. GetReg(SetReg(c, o.r, v), o.r) = v
    BY <1>2, <1>5, SetRegFacts
  <2> QED BY <1>1, <1>3, <1>5, <2>1, <2>2 DEF Stored
<1>6. CASE o.m # "reg" /\ o.byte
  <2>1. o.at \in AnyWord /\ o.at \notin Port .. Port + 31
    BY <1>6 DEF IsPlace, InPort
  <2>2. PICK d : d = Put(c, o.at, v)
    OBVIOUS
  <2>3. d = Write8(c, o.at, v) /\ IsMachine(d) /\ OnlyMemory(c, d) /\ At(d.mem, o.at) = v
    BY <1>2, <1>6, <2>2, PutFacts, Write8Facts
  <2>4. ~d.f18a
    BY <1>2, <2>3 DEF OnlyMemory
  <2>5. Store(c, o, v) = d
    BY <1>6, <2>1, <2>3, <2>4, NoTransfer DEF Store
  <2>6. Read8(d, o.at) = v
    BY <2>3, <2>4 DEF Read8
  <2> QED BY <1>1, <1>3, <1>6, <2>5, <2>6 DEF Stored
<1>7. CASE o.m # "reg" /\ ~o.byte
  <2>1. o.at \in AnyWord /\ o.at \notin Port .. Port + 31 /\ (o.at + 1) % Word = o.at + 1
    BY <1>7 DEF IsPlace, InPort
  <2>2. PICK a \in Nat, b \in Nat : a = o.at /\ b = o.at + 1 /\ a # b
    BY <1>2
  <2>3. PICK hi, lo : hi = v \div Byte /\ lo = v % Byte
    OBVIOUS
  <2>4. hi \in AnyByte /\ lo \in AnyByte /\ (hi * Byte) + lo = v
    BY <1>7, <2>3, Halves
  <2>5. PICK e : e = Put(c, a, hi)
    OBVIOUS
  <2>6. IsMachine(e) /\ OnlyMemory(c, e) /\ e = Write8(c, a, hi)
    BY <1>2, <2>4, <2>5, PutFacts, Write8Facts
  <2>7. ~e.f18a
    BY <1>2, <2>6 DEF OnlyMemory
  <2>8. PICK d : d = Put(e, b, lo)
    OBVIOUS
  <2>9. d = Write8(e, b, lo) /\ IsMachine(d) /\ OnlyMemory(e, d)
    BY <2>4, <2>6, <2>7, <2>8, PutFacts, Write8Facts
  <2>10. ~d.f18a
    BY <2>7, <2>9 DEF OnlyMemory
  <2>11. At(d.mem, a) = hi /\ At(d.mem, b) = lo
    <3>1. At(Put(c, a, hi).mem, a) = hi
      <4>1. IsMachine(c) /\ a \in Nat /\ hi \in AnyByte
        BY <1>2, <2>2, <2>4
      <4> QED BY <4>1, PutFacts
    <3>2. At(Put(e, b, lo).mem, b) = lo /\ At(Put(e, b, lo).mem, a) = At(e.mem, a)
      <4>1. IsMachine(e) /\ b \in Nat /\ lo \in AnyByte /\ a \in Nat /\ a # b
        BY <2>2, <2>4, <2>6
      <4> QED BY <4>1, PutFacts
    <3>3. At(e.mem, a) = hi /\ At(d.mem, b) = lo /\ At(d.mem, a) = At(e.mem, a)
      BY <2>5, <2>8, <3>1, <3>2
    <3> QED BY <3>3
  <2>12. Write16(c, o.at, v) = d
    BY <2>1, <2>2, <2>3, <2>6, <2>9 DEF Write16
  <2>13. Store(c, o, v) = d
    BY <1>7, <2>1, <2>10, <2>12, NoTransfer DEF Store
  <2>14. Read16(d, o.at) = v
    BY <2>1, <2>2, <2>4, <2>10, <2>11 DEF Read16, Read8
  <2> QED BY <1>1, <1>3, <1>7, <2>13, <2>14 DEF Stored
<1> QED BY <1>1, <1>2, <1>3, <1>4, <1>5, <1>6, <1>7

(* A place is the same place for the machine before the fetch.             *)
SamePlace(o, p) ==
  /\ p.val = o.val /\ p.at = o.at /\ p.m = o.m /\ p.r = o.r /\ p.byte = o.byte
  /\ p.c.mem = o.c.mem /\ p.c.wp = o.c.wp /\ p.c.f18a = o.c.f18a

(* The operand the instruction decodes is the one its machine would.       *)
LEMMA DecodedAlike ==
  ASSUME NEW c, IsMachine(c), NEW d, IsMachine(d), d.mem = c.mem, d.wp = c.wp, d.f18a = c.f18a,
         NEW f \in Operands, NEW byte \in BOOLEAN
  PROVE  SamePlace(Decode(c, f, byte), Decode(d, f, byte))
<1>1. PICK p, q : p = Decode(c, f, byte) /\ q = Decode(d, f, byte)
  OBVIOUS
<1>2. /\ q.val = p.val /\ q.at = p.at
      /\ q.c.mem = p.c.mem /\ q.c.wp = p.c.wp /\ q.c.f18a = p.c.f18a
  BY <1>1, SameDecode
<1>3. p.m = f.m /\ q.m = f.m /\ p.r = f.r /\ q.r = f.r /\ p.byte = byte /\ q.byte = byte
  BY <1>1, DecodeFacts
<1> QED BY <1>1, <1>2, <1>3 DEF SamePlace

(* What is read at one is what is read at the other, whatever the flags.   *)
LEMMA ReadAlike ==
  ASSUME NEW o, NEW p, SamePlace(o, p), NEW c, IsMachine(c), NEW st
  PROVE  Stored(Flags(c, st), o) = Stored(c, p)
<1>1. /\ Flags(c, st).mem = c.mem /\ Flags(c, st).wp = c.wp /\ Flags(c, st).f18a = c.f18a
  BY DEF Flags, IsMachine
<1>2. \A a : Read8(Flags(c, st), a) = Read8(c, a)
  BY <1>1 DEF Read8
<1>3. \A a : Read16(Flags(c, st), a) = Read16(c, a)
  BY <1>2 DEF Read16
<1>4. \A r : GetReg(Flags(c, st), r) = GetReg(c, r)
  BY <1>1 DEF GetReg, WpAddr
<1> QED BY <1>1, <1>2, <1>3, <1>4 DEF Stored, SamePlace
-----------------------------------------------------------------------------
(* A result put in its operand's place is read there again, also at the    *)
(* place the machine before the fetch would have decoded.                  *)
LEMMA ResultPlaced ==
  ASSUME NEW o, IsPlace(o), ~o.c.f18a, NEW p, SamePlace(o, p), ~InPort(p),
         NEW res, IsResult(res, o.byte)
  PROVE  Stored(ToPlace(o, res), p) = res.v /\ ToPlace(o, res).st = res.st
<1>1. ~InPort(o) /\ SamePlace(p, o)
  BY DEF SamePlace, InPort
<1>2. PICK d : d = Store(o.c, o, res.v)
  OBVIOUS
<1>3. res.v \in (IF o.byte THEN AnyByte ELSE AnyWord) /\ res.st \in SUBSET FlagNames
  BY DEF IsResult
<1>4. IsMachine(d) /\ Stored(d, o) = res.v
  BY <1>1, <1>2, <1>3, StoredIsRead
<1>5. Stored(Flags(d, res.st), p) = Stored(d, o)
  BY <1>1, <1>4, ReadAlike
<1>6. Flags(d, res.st).st = res.st
  BY <1>4 DEF Flags, IsMachine
<1> QED BY <1>2, <1>4, <1>5, <1>6 DEF ToPlace

(* A result is exactly x: its value in the operand's width, its carry, its *)
(* overflow and its order flags.                                           *)
ExactResult(res, x, byte) ==
  /\ IsResult(res, byte) /\ x.c \in BOOLEAN
  /\ res.v = x.v % Size(byte)
  /\ "C" \in res.st <=> x.c
  /\ "OV" \in res.st <=> (x.v \notin -(Size(byte) \div 2) .. (Size(byte) \div 2) - 1)
  /\ FlagsTell(res.st, Signed(res.v, Size(byte)))

(* The adder is exact.                                                     *)
LEMMA AddIsExact ==
  ASSUME NEW st \in SUBSET FlagNames, NEW byte \in BOOLEAN, NEW size, size = Size(byte),
         NEW a \in 0 .. size - 1, NEW b \in 0 .. size - 1,
         NEW x, x.v = Signed(a, size) + Signed(b, size), x.c = (a + b >= size)
  PROVE  ExactResult(Add(st, a, b, byte), x, byte)
<1>1. PICK res : res = Add(st, a, b, byte)
  OBVIOUS
<1>2. /\ IsResult(res, byte)
      /\ res.v = (Signed(a, size) + Signed(b, size)) % size
      /\ "C" \in res.st <=> a + b >= size
      /\ "OV" \in res.st <=> (Signed(a, size) + Signed(b, size) \notin -(size \div 2) .. (size \div 2) - 1)
      /\ FlagsTell(res.st, Signed(res.v, size))
  BY <1>1, AddFacts
<1>3. (a + b >= size) \in BOOLEAN
  OBVIOUS
<1>4. x.c \in BOOLEAN /\ ("C" \in res.st <=> x.c)
  BY <1>2, <1>3, Zenon
<1>5. IsResult(res, byte) /\ res.v = x.v % size /\ FlagsTell(res.st, Signed(res.v, size))
  BY <1>2
<1>6. "OV" \in res.st <=> (x.v \notin -(size \div 2) .. (size \div 2) - 1)
  BY <1>2
<1> QED BY <1>1, <1>4, <1>5, <1>6, Zenon DEF ExactResult

(* The subtracter is exact.                                                *)
LEMMA SubIsExact ==
  ASSUME NEW st \in SUBSET FlagNames, NEW byte \in BOOLEAN, NEW size, size = Size(byte),
         NEW a \in 0 .. size - 1, NEW b \in 0 .. size - 1,
         NEW x, x.v = Signed(a, size) - Signed(b, size), x.c = (a >= b)
  PROVE  ExactResult(Sub(st, a, b, byte), x, byte)
<1>1. PICK res : res = Sub(st, a, b, byte)
  OBVIOUS
<1>2. /\ IsResult(res, byte)
      /\ res.v = (Signed(a, size) - Signed(b, size)) % size
      /\ "C" \in res.st <=> a >= b
      /\ "OV" \in res.st <=> (Signed(a, size) - Signed(b, size) \notin -(size \div 2) .. (size \div 2) - 1)
      /\ FlagsTell(res.st, Signed(res.v, size))
  BY <1>1, SubFacts
<1>3. (a >= b) \in BOOLEAN
  OBVIOUS
<1>4. x.c \in BOOLEAN /\ ("C" \in res.st <=> x.c)
  BY <1>2, <1>3, Zenon
<1>5. IsResult(res, byte) /\ res.v = x.v % size /\ FlagsTell(res.st, Signed(res.v, size))
  BY <1>2
<1>6. "OV" \in res.st <=> (x.v \notin -(size \div 2) .. (size \div 2) - 1)
  BY <1>2
<1> QED BY <1>1, <1>4, <1>5, <1>6, Zenon DEF ExactResult

(* What the property asks of a sum, with its parts named.                  *)
LEMMA SumFrom ==
  ASSUME NEW i, NEW byte, byte = (i.op \in ByteOps), NEW size, size = Size(byte),
         NEW s, s = First(i, byte).val,
         NEW o, o = (IF i.op \in {"A", "AB", "S", "SB"} THEN Second(i, byte) ELSE First(i, byte)),
         NEW x, x = Exact(i, s, o.val, size),
         ~InPort(o) =>
           /\ Stored(cpu', o) = x.v % size
           /\ ("OV" \in cpu'.st) = (x.v \notin -(size \div 2) .. (size \div 2) - 1)
           /\ ("C" \in cpu'.st) = x.c
           /\ FlagsTell(cpu'.st, Signed(IF i.op = "ABS" THEN s ELSE Stored(cpu', o), size))
  PROVE  SumIsExact(i)
BY DEF SumIsExact

(* An exact result put in the operand's place is the property's sum.       *)
LEMMA PlacedIsExact ==
  ASSUME NEW i, i.op # "ABS", NEW byte \in BOOLEAN, byte = (i.op \in ByteOps),
         NEW o, o = (IF i.op \in {"A", "AB", "S", "SB"} THEN Second(i, byte) ELSE First(i, byte)),
         NEW p, IsPlace(p), ~p.c.f18a, SamePlace(p, o), p.byte = byte,
         NEW res, ExactResult(res, Exact(i, First(i, byte).val, o.val, Size(byte)), byte),
         cpu' = ToPlace(p, res)
  PROVE  SumIsExact(i)
<1>1. PICK size : size = Size(byte)
  OBVIOUS
<1>2. PICK s : s = First(i, byte).val
  OBVIOUS
<1>3. PICK x : x = Exact(i, s, o.val, size)
  OBVIOUS
<1>4. /\ IsResult(res, byte) /\ x.c \in BOOLEAN
      /\ res.v = x.v % size
      /\ "C" \in res.st <=> x.c
      /\ "OV" \in res.st <=> (x.v \notin -(size \div 2) .. (size \div 2) - 1)
      /\ FlagsTell(res.st, Signed(res.v, size))
  BY <1>1, <1>2, <1>3 DEF ExactResult
<1>5. ASSUME ~InPort(o)
      PROVE  /\ Stored(cpu', o) = x.v % size
             /\ ("OV" \in cpu'.st) = (x.v \notin -(size \div 2) .. (size \div 2) - 1)
             /\ ("C" \in cpu'.st) = x.c
             /\ FlagsTell(cpu'.st, Signed(Stored(cpu', o), size))
  <2>1. Stored(cpu', o) = res.v /\ cpu'.st = res.st
    BY <1>4, <1>5, ResultPlaced
  <2> QED BY <1>4, <2>1
<1> QED BY <1>1, <1>2, <1>3, <1>5, SumFrom

(* A, AB, S and SB on integers.                                            *)
LEMMA TwoOperandSums ==
  ASSUME NEW i, IsFields(i), i.op \in {"A", "AB", "S", "SB"}, IsMachine(cpu), ~cpu.f18a,
         cpu' = TwoOperand(Fetched(cpu), i)
  PROVE  SumIsExact(i)
<1>1. i.s \in Operands /\ i.d \in Operands
  BY DEF IsFields
<1>2. PICK byte \in BOOLEAN : byte = (i.op \in ByteOps)
  <2>1. (i.op \in ByteOps) \in BOOLEAN
    OBVIOUS
  <2> QED BY <2>1
<1>3. PICK size \in {Byte, Word} : size = Size(byte)
  BY DEF Size
<1>4. PICK f : f = Fetched(cpu)
  OBVIOUS
<1>5. IsMachine(f) /\ f.mem = cpu.mem /\ f.wp = cpu.wp /\ f.f18a = cpu.f18a /\ ~f.f18a
  BY <1>4, FetchedFacts
<1>6. PICK s0, s1 : s0 = Decode(cpu, i.s, byte) /\ s1 = Decode(f, i.s, byte)
  OBVIOUS
<1>7. /\ SamePlace(s0, s1) /\ IsMachine(s0.c) /\ IsMachine(s1.c)
      /\ s1.val \in (IF byte THEN AnyByte ELSE AnyWord) /\ ~s1.c.f18a
  <2>1. SamePlace(s0, s1)
    BY <1>1, <1>5, <1>6, DecodedAlike
  <2>2. IsOperand(s0) /\ IsOperand(s1) /\ s1.byte = byte /\ s1.c.f18a = f.f18a
    BY <1>1, <1>5, <1>6, DecodeFacts
  <2> QED BY <1>5, <2>1, <2>2 DEF IsOperand
<1>8. PICK o0, o1 : o0 = Decode(s0.c, i.d, byte) /\ o1 = Decode(s1.c, i.d, byte)
  OBVIOUS
<1>9. SamePlace(o0, o1)
  BY <1>1, <1>7, <1>8, DecodedAlike DEF SamePlace
<1>10. /\ IsOperand(o1) /\ IsPlace(o1) /\ o1.byte = byte /\ ~o1.c.f18a
       /\ IsMachine(o1.c) /\ o1.val \in (IF byte THEN AnyByte ELSE AnyWord)
  <2>1. IsOperand(o1) /\ o1.byte = byte /\ o1.c.f18a = s1.c.f18a
    BY <1>1, <1>7, <1>8, DecodeFacts
  <2>2. IsPlace(o1)
    BY <1>1, <1>7, <1>8, PlaceFacts
  <2> QED BY <1>7, <2>1, <2>2 DEF IsOperand
<1>11. o1.c.st \in SUBSET FlagNames
  BY <1>10, MachineFields
<1>12. PICK res : res = (IF i.op \in {"A", "AB"} THEN Add(o1.c.st, o1.val, s1.val, byte)
                         ELSE Sub(o1.c.st, o1.val, s1.val, byte))
  OBVIOUS
<1>13. cpu' = ToPlace(o1, res)
  <2>1. i.op \notin {"SZC", "SZCB", "C", "CB"}
    OBVIOUS
  <2>2. byte = (i.op \in ByteOps) /\ f = Fetched(cpu) /\ s1 = Decode(f, i.s, byte) /\ o1 = Decode(s1.c, i.d, byte)
    BY <1>2, <1>4, <1>6, <1>8
  <2>3. CASE i.op \in {"A", "AB"}
    BY <1>12, <2>1, <2>2, <2>3 DEF TwoOperand
  <2>4. CASE i.op \in {"S", "SB"}
    BY <1>12, <2>1, <2>2, <2>4 DEF TwoOperand
  <2> QED BY <2>3, <2>4
<1>14. PICK x : x = Exact(i, s0.val, o0.val, size)
  OBVIOUS
<1>15. PICK a, b : a = o1.val /\ b = s1.val /\ o0.val = a /\ s0.val = b /\ a \in 0 .. size - 1 /\ b \in 0 .. size - 1
  BY <1>3, <1>7, <1>9, <1>10 DEF SamePlace, Size, AnyByte, AnyWord
<1>16. ExactResult(res, x, byte)
  <2>1. CASE i.op \in {"A", "AB"}
    <3>1. x.v = Signed(a, size) + Signed(b, size) /\ x.c = (a + b >= size)
      BY <1>14, <1>15, <2>1 DEF Exact
    <3>2. res = Add(o1.c.st, a, b, byte)
      BY <1>12, <1>15, <2>1
    <3> QED BY <1>3, <1>11, <1>15, <3>1, <3>2, AddIsExact
  <2>2. CASE i.op \in {"S", "SB"}
    <3>1. x.v = Signed(a, size) - Signed(b, size) /\ x.c = (a >= b)
      BY <1>14, <1>15, <2>2 DEF Exact
    <3>2. res = Sub(o1.c.st, a, b, byte)
      BY <1>12, <1>15, <2>2
    <3> QED BY <1>3, <1>11, <1>15, <3>1, <3>2, SubIsExact
  <2> QED BY <2>1, <2>2
<1>17. SamePlace(o1, o0) /\ s0 = First(i, byte) /\ o0 = Second(i, byte) /\ i.op # "ABS"
  BY <1>6, <1>8, <1>9 DEF First, Second, SamePlace
<1> QED BY <1>2, <1>3, <1>10, <1>13, <1>14, <1>16, <1>17, PlacedIsExact
-----------------------------------------------------------------------------
(* AI on integers: its register is the place the machine decodes.          *)
LEMMA ImmediateSum ==
  ASSUME NEW i, IsFields(i), i.op = "AI", IsMachine(cpu), ~cpu.f18a,
         cpu' = Immediate(Fetched(cpu), i)
  PROVE  SumIsExact(i)
<1>1. i.s \in Operands /\ i.s.m = "reg" /\ i.n \in 0 .. Word - 1 /\ i.op \notin ByteOps
  BY DEF IsFields, ImmediateOps, ByteOps, AnyWord
<1>2. PICK f : f = Fetched(Fetched(cpu))
  OBVIOUS
<1>3. IsMachine(f) /\ f.mem = cpu.mem /\ f.wp = cpu.wp /\ f.f18a = cpu.f18a
  <2>1. PICK g : g = Fetched(cpu)
    OBVIOUS
  <2>2. IsMachine(g) /\ g.mem = cpu.mem /\ g.wp = cpu.wp /\ g.f18a = cpu.f18a
    BY <2>1, FetchedFacts
  <2>3. f = Fetched(g)
    BY <1>2, <2>1
  <2> QED BY <2>2, <2>3, FetchedFacts
<1>4. PICK o, p : o = Decode(cpu, i.s, FALSE) /\ p = Decode(f, i.s, FALSE)
  OBVIOUS
<1>5. SamePlace(p, o) /\ IsPlace(p)
  <2>1. SamePlace(o, p)
    BY <1>1, <1>3, <1>4, DecodedAlike
  <2>2. IsPlace(p)
    BY <1>1, <1>3, <1>4, PlaceFacts
  <2> QED BY <2>1, <2>2 DEF SamePlace
<1>6. p.c = f /\ p.m = "reg" /\ p.r = i.s.r /\ p.byte = FALSE /\ p.val = GetReg(f, i.s.r)
  BY <1>1, <1>4 DEF Decode
<1>7. PICK v : v = p.val /\ o.val = v /\ v \in 0 .. Word - 1
  BY <1>3, <1>5, <1>6, GetRegFacts DEF SamePlace, AnyWord
<1>8. f.st \in SUBSET FlagNames
  BY <1>3, MachineFields
<1>9. PICK res : res = Add(f.st, v, i.n, FALSE)
  OBVIOUS
<1>10. cpu' = ToPlace(p, res)
  <2>1. cpu' = ToReg(f, i.s.r, res)
    BY <1>2, <1>6, <1>7, <1>9 DEF Immediate
  <2>2. ToPlace(p, res) = ToReg(f, i.s.r, res)
    BY <1>6 DEF ToPlace, ToReg, Store
  <2> QED BY <2>1, <2>2
<1>11. PICK x : x = Exact(i, v, v, Word)
  OBVIOUS
<1>12. x.v = Signed(v, Word) + Signed(i.n, Word) /\ x.c = (v + i.n >= Word)
  BY <1>11 DEF Exact
<1>13. Size(FALSE) = Word
  BY DEF Size
<1>14. ExactResult(res, x, FALSE)
  BY <1>1, <1>7, <1>8, <1>9, <1>12, <1>13, AddIsExact
<1>15. o = First(i, FALSE) /\ FALSE = (i.op \in ByteOps) /\ ~p.c.f18a
  <2>1. FALSE = (i.op \in ByteOps)
    <3>1. (i.op \in ByteOps) \in BOOLEAN
      OBVIOUS
    <3> QED BY <1>1, <3>1
  <2> QED BY <1>3, <1>4, <1>6, <2>1, Zenon DEF First
<1> QED BY <1>5, <1>6, <1>7, <1>10, <1>11, <1>13, <1>14, <1>15, PlacedIsExact

(* INC, INCT, DEC and DECT on integers.                                    *)
LEMMA CountingSums ==
  ASSUME NEW i, IsFields(i), i.op \in {"INC", "INCT", "DEC", "DECT"}, IsMachine(cpu), ~cpu.f18a,
         cpu' = Single(Fetched(cpu), i)
  PROVE  SumIsExact(i)
<1>1. i.s \in Operands /\ i.op \notin ByteOps
  BY DEF IsFields, ByteOps
<1>2. PICK f : f = Fetched(cpu)
  OBVIOUS
<1>3. IsMachine(f) /\ f.mem = cpu.mem /\ f.wp = cpu.wp /\ f.f18a = cpu.f18a
  BY <1>2, FetchedFacts
<1>4. PICK o, p : o = Decode(cpu, i.s, FALSE) /\ p = Decode(f, i.s, FALSE)
  OBVIOUS
<1>5. SamePlace(p, o) /\ IsPlace(p)
  <2>1. SamePlace(o, p)
    BY <1>1, <1>3, <1>4, DecodedAlike
  <2>2. IsPlace(p)
    BY <1>1, <1>3, <1>4, PlaceFacts
  <2> QED BY <2>1, <2>2 DEF SamePlace
<1>6. IsOperand(p) /\ p.byte = FALSE /\ p.c.f18a = f.f18a
  BY <1>1, <1>3, <1>4, DecodeFacts
<1>7. PICK v : v = p.val /\ o.val = v /\ v \in 0 .. Word - 1
  BY <1>5, <1>6 DEF SamePlace, IsOperand, AnyWord
<1>8. p.c.st \in SUBSET FlagNames
  BY <1>6, MachineFields DEF IsOperand
<1>9. PICK n \in {1, 2} : n = IF i.op \in {"INC", "DEC"} THEN 1 ELSE 2
  OBVIOUS
<1>10. n \in 0 .. Word - 1 /\ Signed(n, Word) = n
  BY Widths DEF Signed
<1>11. PICK x : x = Exact(i, v, v, Word)
  OBVIOUS
<1>12. Size(FALSE) = Word
  BY DEF Size
<1>13. o = First(i, FALSE) /\ FALSE = (i.op \in ByteOps) /\ ~p.c.f18a
  <2>1. FALSE = (i.op \in ByteOps)
    <3>1. (i.op \in ByteOps) \in BOOLEAN
      OBVIOUS
    <3> QED BY <1>1, <3>1
  <2> QED BY <1>3, <1>4, <1>6, <2>1, Zenon DEF First
<1>14. CASE i.op \in {"INC", "INCT"}
  <2>1. x.v = Signed(v, Word) + Signed(n, Word) /\ x.c = (v + n >= Word)
    BY <1>9, <1>10, <1>11, <1>14 DEF Exact
  <2>2. PICK res : res = Add(p.c.st, v, n, FALSE)
    OBVIOUS
  <2>3. ExactResult(res, x, FALSE)
    BY <1>7, <1>8, <1>10, <1>12, <2>1, <2>2, AddIsExact
  <2>4. cpu' = ToPlace(p, res)
    BY <1>2, <1>4, <1>7, <1>9, <1>14, <2>2 DEF Single
  <2> QED BY <1>5, <1>6, <1>7, <1>11, <1>12, <1>13, <1>14, <2>3, <2>4, PlacedIsExact
<1>15. CASE i.op \in {"DEC", "DECT"}
  <2>1. x.v = Signed(v, Word) - Signed(n, Word) /\ x.c = (v >= n)
    BY <1>9, <1>10, <1>11, <1>15 DEF Exact
  <2>2. PICK res : res = Sub(p.c.st, v, n, FALSE)
    OBVIOUS
  <2>3. ExactResult(res, x, FALSE)
    BY <1>7, <1>8, <1>10, <1>12, <2>1, <2>2, SubIsExact
  <2>4. cpu' = ToPlace(p, res)
    BY <1>2, <1>4, <1>7, <1>9, <1>15, <2>2 DEF Single
  <2> QED BY <1>5, <1>6, <1>7, <1>11, <1>12, <1>13, <1>15, <2>3, <2>4, PlacedIsExact
<1> QED BY <1>14, <1>15

(* The flags NEG and ABS leave when they take the operand's own sign:      *)
(* overflow for the one word that has no opposite, never a carry.          *)
Own(st, v) == Order(v, Word) \cup If(v = Sign, "OV") \cup (st \cap {"P"})

(* They are the flags of the operand's own sign.                           *)
LEMMA OwnFlags ==
  ASSUME NEW st, NEW v \in 0 .. Word - 1
  PROVE  /\ Own(st, v) \in SUBSET FlagNames /\ "C" \notin Own(st, v)
         /\ "OV" \in Own(st, v) <=> v = Sign
         /\ FlagsTell(Own(st, v), Signed(v, Word))
<1> DEFINE k == Own(st, v)
<1>1. PICK r : r = Order(v, Word)
  OBVIOUS
<1>2. r \subseteq {"EQ", "LGT", "AGT"} /\ FlagsTell(r, Signed(v, Word))
  BY <1>1, OrderFacts
<1>3. (v = Sign) \in BOOLEAN
  OBVIOUS
<1>4. PICK s \in SUBSET {"OV"} : s = If(v = Sign, "OV") /\ ("OV" \in s <=> v = Sign)
  BY <1>3, IfFacts
<1>5. k = r \cup s \cup (st \cap {"P"})
  BY <1>1, <1>4 DEF Own
<1> HIDE DEF k
<1>6. k \in SUBSET FlagNames /\ "C" \notin k /\ ("OV" \in k <=> "OV" \in s)
  BY <1>2, <1>5 DEF FlagNames
<1>7. \A t \in {"EQ", "LGT", "AGT"} : t \in k <=> t \in r
  BY <1>2, <1>5
<1>8. FlagsTell(k, Signed(v, Word))
  <2>1. ("EQ" \in k) = ("EQ" \in r) /\ ("LGT" \in k) = ("LGT" \in r) /\ ("AGT" \in k) = ("AGT" \in r)
    BY <1>7
  <2> QED BY <1>2, <2>1, Zenon DEF FlagsTell
<1> QED BY <1>4, <1>6, <1>8 DEF k
-----------------------------------------------------------------------------
(* The opposite of a word, as the word that is stored.                     *)
LEMMA Opposite ==
  ASSUME NEW v \in 0 .. Word - 1
  PROVE  /\ (-v) % Word \in AnyWord /\ (-v) % Word = (-Signed(v, Word)) % Word
         /\ Sign \in 0 .. Word - 1 /\ (-Signed(Sign, Word)) % Word = Sign
         /\ v = Sign <=> -Signed(v, Word) \notin -(Word \div 2) .. (Word \div 2) - 1
         /\ v % Word = v
         /\ ~High(v, Word) => v \in -(Word \div 2) .. (Word \div 2) - 1 /\ v # Sign
         /\ High(v, Word) <=> v >= Sign
BY Widths DEF AnyWord, Signed, Sign, High

(* NEG and ABS on integers.                                                *)
LEMMA OppositeSums ==
  ASSUME NEW i, IsFields(i), i.op \in {"NEG", "ABS"}, IsMachine(cpu), ~cpu.f18a,
         cpu' = Single(Fetched(cpu), i)
  PROVE  SumIsExact(i)
<1>1. i.s \in Operands /\ i.op \notin ByteOps
  BY DEF IsFields, ByteOps
<1>2. PICK f : f = Fetched(cpu)
  OBVIOUS
<1>3. IsMachine(f) /\ f.mem = cpu.mem /\ f.wp = cpu.wp /\ f.f18a = cpu.f18a
  BY <1>2, FetchedFacts
<1>4. PICK o, p : o = Decode(cpu, i.s, FALSE) /\ p = Decode(f, i.s, FALSE)
  OBVIOUS
<1>5. SamePlace(p, o) /\ SamePlace(o, p) /\ IsPlace(p) /\ Stored(p.c, p) = p.val
  <2>1. SamePlace(o, p)
    BY <1>1, <1>3, <1>4, DecodedAlike
  <2>2. IsPlace(p) /\ Stored(p.c, p) = p.val
    BY <1>1, <1>3, <1>4, PlaceFacts
  <2> QED BY <2>1, <2>2 DEF SamePlace
<1>6. IsOperand(p) /\ p.byte = FALSE /\ p.c.f18a = f.f18a
  BY <1>1, <1>3, <1>4, DecodeFacts
<1>7. PICK v : v = p.val /\ o.val = v /\ v \in 0 .. Word - 1
  BY <1>5, <1>6 DEF SamePlace, IsOperand, AnyWord
<1>8. IsMachine(p.c) /\ p.c.st \in SUBSET FlagNames
  BY <1>6, MachineFields DEF IsOperand
<1>9. PICK x : x = Exact(i, v, v, Word)
  OBVIOUS
<1>10. Size(FALSE) = Word
  BY DEF Size
<1>11. FALSE = (i.op \in ByteOps)
  <2>1. (i.op \in ByteOps) \in BOOLEAN
    OBVIOUS
  <2> QED BY <1>1, <2>1
<1>12. o = First(i, FALSE) /\ ~p.c.f18a
  BY <1>3, <1>4, <1>6, Zenon DEF First
<1>13. PICK k : k = Order(v, Word) \cup If(v = Sign, "OV") \cup (p.c.st \cap {"P"})
  OBVIOUS
<1>14. /\ k \in SUBSET FlagNames /\ "C" \notin k
       /\ "OV" \in k <=> v = Sign
       /\ FlagsTell(k, Signed(v, Word))
  <2>1. v \in 0 .. Word - 1
    BY <1>7
  <2>2. k = Own(p.c.st, v)
    BY <1>13 DEF Own
  <2> QED BY <2>1, <2>2, OwnFlags
<1>15. PICK neg \in AnyWord : neg = (-v) % Word /\ neg = (-Signed(v, Word)) % Word
  BY <1>7, Opposite
<1>16. SUFFICES ASSUME ~InPort(o)
                PROVE  /\ Stored(cpu', o) = x.v % Word
                       /\ ("OV" \in cpu'.st) = (x.v \notin -(Word \div 2) .. (Word \div 2) - 1)
                       /\ ("C" \in cpu'.st) = x.c
                       /\ FlagsTell(cpu'.st, Signed(IF i.op = "ABS" THEN v ELSE Stored(cpu', o), Word))
  <2>1. o.val = First(i, FALSE).val /\ i.op \notin {"A", "AB", "S", "SB"}
    BY <1>12
  <2> QED BY <1>7, <1>9, <1>10, <1>11, <1>12, <2>1, SumFrom
<1>17. ASSUME NEW d, IsMachine(d), cpu' = Flags(d, k), Stored(d, p) = x.v % Word,
              v = Sign <=> (x.v \notin -(Word \div 2) .. (Word \div 2) - 1), x.c = FALSE,
              i.op = "ABS" \/ Stored(d, p) = v
       PROVE  /\ Stored(cpu', o) = x.v % Word
              /\ ("OV" \in cpu'.st) = (x.v \notin -(Word \div 2) .. (Word \div 2) - 1)
              /\ ("C" \in cpu'.st) = x.c
              /\ FlagsTell(cpu'.st, Signed(IF i.op = "ABS" THEN v ELSE Stored(cpu', o), Word))
  <2>1. Stored(cpu', o) = Stored(d, p)
    BY <1>5, <1>17, ReadAlike
  <2>2. cpu'.st = k
    BY <1>17 DEF Flags, IsMachine
  <2>3. ("OV" \in cpu'.st) = (x.v \notin -(Word \div 2) .. (Word \div 2) - 1)
    BY <1>14, <1>17, <2>2
  <2>4. ("C" \in cpu'.st) = x.c
    <3>1. ("C" \in k) \in BOOLEAN
      OBVIOUS
    <3>2. ("C" \in k) = FALSE
      BY <1>14, <3>1
    <3> QED BY <1>17, <2>2, <3>2
  <2>5. FlagsTell(cpu'.st, Signed(IF i.op = "ABS" THEN v ELSE Stored(cpu', o), Word))
    BY <1>14, <1>17, <2>1, <2>2
  <2> QED BY <1>17, <2>1, <2>3, <2>4, <2>5
<1>18. CASE i.op = "NEG" /\ v = Sign
  <2>1. cpu' = Flags(p.c, k)
    BY <1>2, <1>4, <1>7, <1>13, <1>18 DEF Single
  <2>2. x.v = -Signed(v, Word) /\ x.c = (v = 0)
    BY <1>9, <1>18 DEF Exact
  <2>3. (v = 0) = FALSE
    BY <1>18, Widths DEF Sign
  <2>4. Stored(p.c, p) = x.v % Word /\ (v = Sign <=> x.v \notin -(Word \div 2) .. (Word \div 2) - 1)
    BY <1>5, <1>7, <1>18, <2>2, Opposite
  <2> QED BY <1>5, <1>7, <1>8, <1>17, <2>1, <2>2, <2>3, <2>4
<1>19. CASE i.op = "NEG" /\ v # Sign
  <2>1. PICK st, res : st = (p.c.st \cap {"P"}) \cup If(v = 0, "C") /\ res = Flagged(st, neg, FALSE)
    OBVIOUS
  <2>2. cpu' = ToPlace(p, res)
    BY <1>2, <1>4, <1>7, <1>15, <1>19, <2>1 DEF Single
  <2>3. x.v = -Signed(v, Word) /\ x.c = (v = 0)
    BY <1>9, <1>19 DEF Exact
  <2>4. st \in SUBSET FlagNames /\ ("C" \in st <=> v = 0) /\ "OV" \notin st
    <3>1. (v = 0) \in BOOLEAN
      OBVIOUS
    <3>2. PICK s \in SUBSET {"C"} : s = If(v = 0, "C") /\ ("C" \in s <=> v = 0)
      BY <3>1, IfFacts
    <3>3. st = (p.c.st \cap {"P"}) \cup s
      BY <2>1, <3>2
    <3> QED BY <1>8, <3>2, <3>3 DEF FlagNames
  <2>5. /\ res.v = neg /\ IsResult(res, FALSE) /\ res.st \cap {"C", "OV"} = st \cap {"C", "OV"}
        /\ FlagsTell(res.st, Signed(neg, Word))
    <3>1. neg \in 0 .. Size(FALSE) - 1
      BY <1>10 DEF AnyWord
    <3>2. /\ IsResult(Flagged(st, neg, FALSE), FALSE) /\ Flagged(st, neg, FALSE).v = neg
          /\ Flagged(st, neg, FALSE).st \cap {"C", "OV"} = st \cap {"C", "OV"}
          /\ FlagsTell(Flagged(st, neg, FALSE).st, Signed(neg, Size(FALSE)))
      BY <2>4, <3>1, FlaggedFacts
    <3> QED BY <1>10, <2>1, <3>2
  <2>6. ("C" \in res.st <=> v = 0) /\ "OV" \notin res.st
    BY <2>4, <2>5
  <2>7. Stored(cpu', o) = neg /\ cpu'.st = res.st
    <3>1. IsResult(res, p.byte) /\ ~p.c.f18a
      BY <1>6, <1>12, <2>5
    <3> QED BY <1>5, <1>16, <2>2, <2>5, <3>1, ResultPlaced
  <2>8. x.v \in -(Word \div 2) .. (Word \div 2) - 1 /\ neg = x.v % Word
    BY <1>7, <1>15, <1>19, <2>3, Opposite
  <2> QED BY <1>19, <2>3, <2>5, <2>6, <2>7, <2>8
<1>20. CASE i.op = "ABS" /\ High(v, Word) /\ v # Sign
  <2>1. cpu' = Flags(Store(p.c, p, neg), k)
    BY <1>2, <1>4, <1>7, <1>13, <1>15, <1>20 DEF Single
  <2>2. x.v = -Signed(v, Word) /\ x.c = FALSE
    BY <1>9, <1>20 DEF Exact
  <2>3. ~InPort(p)
    BY <1>5, <1>16 DEF SamePlace, InPort
  <2>4. IsMachine(Store(p.c, p, neg)) /\ Stored(Store(p.c, p, neg), p) = neg
    <3>1. neg \in IF p.byte THEN AnyByte ELSE AnyWord
      BY <1>6
    <3> QED BY <1>5, <1>12, <2>3, <3>1, StoredIsRead
  <2>5. neg = x.v % Word /\ (v = Sign <=> x.v \notin -(Word \div 2) .. (Word \div 2) - 1)
    BY <1>7, <1>15, <2>2, Opposite
  <2> QED BY <1>17, <1>20, <2>1, <2>2, <2>4, <2>5
<1>21. CASE i.op = "ABS" /\ ~(High(v, Word) /\ v # Sign)
  <2>1. cpu' = Flags(p.c, k)
    BY <1>2, <1>4, <1>7, <1>13, <1>21 DEF Single
  <2>2. x.v = (IF High(v, Word) THEN -Signed(v, Word) ELSE v) /\ x.c = FALSE
    BY <1>9, <1>21 DEF Exact
  <2>3. v = x.v % Word /\ (v = Sign <=> x.v \notin -(Word \div 2) .. (Word \div 2) - 1)
    BY <1>7, <1>21, <2>2, Opposite
  <2> QED BY <1>5, <1>7, <1>8, <1>17, <1>21, <2>1, <2>2, <2>3
<1> QED BY <1>18, <1>19, <1>20, <1>21
-----------------------------------------------------------------------------
(* Two neighbouring registers written are both read back.                  *)
LEMMA PairFacts ==
  ASSUME NEW c, IsMachine(c), NEW d \in Nat, NEW hi \in AnyWord, NEW lo \in AnyWord,
         NEW e, e = SetReg(SetReg(c, d, hi), d + 1, lo)
  PROVE  IsMachine(e) /\ GetReg(e, d) = hi /\ GetReg(e, d + 1) = lo /\ OnlyMemory(c, e)
<1>1. PICK g : g = SetReg(c, d, hi)
  OBVIOUS
<1>2. IsMachine(g) /\ OnlyMemory(c, g) /\ GetReg(g, d) = hi
  BY <1>1, SetRegFacts
<1>3. PICK n \in Nat : n = d + 1
  OBVIOUS
<1>4. /\ IsMachine(e) /\ OnlyMemory(g, e) /\ GetReg(e, n) = lo
      /\ \A b \in Nat : (b # WpAddr(g, n) /\ b # WpAddr(g, n) + 1) => At(e.mem, b) = At(g.mem, b)
  BY <1>1, <1>2, <1>3, SetRegFacts
<1>5. PICK w \in Nat : w = g.wp /\ w = e.wp
  BY <1>2, <1>4, MachineFields, Widths DEF OnlyMemory, AnyWord
<1>6. At(e.mem, w + (2 * d)) = At(g.mem, w + (2 * d)) /\ At(e.mem, w + (2 * d) + 1) = At(g.mem, w + (2 * d) + 1)
  BY <1>3, <1>4, <1>5 DEF WpAddr
<1>7. GetReg(e, d) = GetReg(g, d)
  BY <1>5, <1>6 DEF GetReg, AtWord, WpAddr
<1> QED BY <1>2, <1>3, <1>4, <1>7 DEF OnlyMemory

(* The division is refused exactly when the quotient would not fit.        *)
LEMMA QuotientFits ==
  ASSUME NEW hi \in AnyWord, NEW lo \in AnyWord, NEW s \in AnyWord
  PROVE  /\ hi < s <=> (s # 0 /\ ((hi * Word) + lo) \div s < Word)
         /\ hi < s => /\ ((hi * Word) + lo) \div s \in AnyWord
                      /\ ((hi * Word) + lo) % s \in AnyWord
                      /\ ((((hi * Word) + lo) \div s) * s) + (((hi * Word) + lo) % s) = (hi * Word) + lo
                      /\ ((hi * Word) + lo) % s < s
<1>1. PICK w \in Nat : w = Word /\ w > 0 /\ hi \in 0 .. w - 1 /\ lo \in 0 .. w - 1 /\ s \in 0 .. w - 1
  BY Widths DEF AnyWord
<1>2. PICK n \in Nat : n = (hi * w) + lo
  BY <1>1
<1>3. CASE s = 0
  BY <1>1, <1>3
<1>4. CASE s # 0
  <2>1. PICK q \in Nat, r \in Nat : q = n \div s /\ r = n % s /\ n = (q * s) + r /\ r < s
    BY <1>1, <1>2, <1>4
  <2>2. ASSUME hi < s PROVE q < w
    <3>1. SUFFICES ASSUME q >= w PROVE FALSE
      BY <1>1, <2>1
    <3>2. q * s >= w * s
      BY <1>1, <2>1, <3>1
    <3>3. (hi + 1) * w <= s * w
      BY <1>1, <2>2
    <3> QED BY <1>1, <1>2, <2>1, <3>2, <3>3
  <2>3. ASSUME hi >= s PROVE q >= w
    <3>1. SUFFICES ASSUME q + 1 <= w PROVE FALSE
      BY <1>1, <2>1
    <3>2. (q + 1) * s <= w * s
      BY <1>1, <2>1, <3>1
    <3>3. hi * w >= s * w
      BY <1>1, <2>3
    <3> QED BY <1>1, <1>2, <2>1, <3>2, <3>3
  <2>4. hi < s <=> q < w
    BY <1>1, <2>1, <2>2, <2>3
  <2>5. hi < s => q \in AnyWord /\ r \in AnyWord
    BY <1>1, <2>1, <2>4 DEF AnyWord
  <2> QED BY <1>1, <1>2, <1>4, <2>1, <2>4, <2>5
<1> QED BY <1>3, <1>4

(* MPY and DIV on integers: the whole product, quotient and remainder, and *)
(* a refused division that leaves its registers alone.                     *)
LEMMA ProductsExact ==
  ASSUME NEW i, IsFields(i), i.op \in {"MPY", "DIV"}, IsMachine(cpu),
         cpu' = Format9(Fetched(cpu), i)
  PROVE  ProductIsExact(i)
<1>1. i.s \in Operands /\ i.d \in Operands
  BY DEF IsFields
<1>2. PICK d \in Nat : d = i.d.r
  BY <1>1 DEF Operands
<1>3. PICK f : f = Fetched(cpu)
  OBVIOUS
<1>4. IsMachine(f) /\ f.mem = cpu.mem /\ f.wp = cpu.wp /\ f.f18a = cpu.f18a
  BY <1>3, FetchedFacts
<1>5. PICK o, p : o = Decode(cpu, i.s, FALSE) /\ p = Decode(f, i.s, FALSE)
  OBVIOUS
<1>6. SamePlace(o, p)
  BY <1>1, <1>4, <1>5, DecodedAlike
<1>7. PICK c : c = p.c
  OBVIOUS
<1>8. IsMachine(c) /\ p.val \in AnyWord
  <2>1. IsOperand(p) /\ p.byte = FALSE
    BY <1>1, <1>4, <1>5, DecodeFacts
  <2> QED BY <1>7, <2>1 DEF IsOperand
<1>9. PICK s \in AnyWord : s = p.val /\ s = First(i, FALSE).val
  BY <1>5, <1>6, <1>8 DEF First, SamePlace
<1>10. PICK hi \in AnyWord, lo \in AnyWord : hi = GetReg(c, d) /\ lo = GetReg(c, d + 1)
  BY <1>8, GetRegFacts
<1>11. hi = GetReg(First(i, FALSE).c, i.d.r) /\ lo = GetReg(First(i, FALSE).c, i.d.r + 1)
  BY <1>2, <1>5, <1>6, <1>7, <1>10 DEF First, SamePlace, GetReg, WpAddr
<1>12. PICK q, r : q = GetReg(cpu', d) /\ r = GetReg(cpu', d + 1)
  OBVIOUS
<1>13. PICK n : n = (hi * Word) + lo
  OBVIOUS
<1>14. CASE i.op = "MPY"
  <2>1. cpu' = SetReg(SetReg(c, d, (hi * s) \div Word), d + 1, (hi * s) % Word)
    BY <1>2, <1>3, <1>5, <1>7, <1>9, <1>10, <1>14 DEF Format9
  <2>2. /\ (hi * s) \div Word \in AnyWord /\ (hi * s) % Word \in AnyWord
        /\ (((hi * s) \div Word) * Word) + ((hi * s) % Word) = hi * s
    BY ProductFits
  <2>3. q = (hi * s) \div Word /\ r = (hi * s) % Word
    BY <1>8, <1>12, <2>1, <2>2, PairFacts
  <2>4. (q * Word) + r = hi * s
    BY <2>2, <2>3
  <2> QED BY <1>2, <1>9, <1>11, <1>12, <1>14, <2>4 DEF ProductIsExact
<1>15. ASSUME i.op = "DIV",
              ("OV" \in cpu'.st) = ~(s # 0 /\ n \div s < Word),
              IF s # 0 /\ n \div s < Word THEN (q * s) + r = n /\ r < s ELSE q = hi /\ r = lo
       PROVE  ProductIsExact(i)
  BY <1>2, <1>9, <1>11, <1>12, <1>13, <1>15 DEF ProductIsExact
<1>16. CASE i.op = "DIV" /\ hi < s
  <2>1. Divides(c, d, s)
    BY <1>10, <1>16 DEF Divides
  <2>2. PICK e : e = SetReg(SetReg(c, d, (n \div s) % Word), d + 1, n % s)
    OBVIOUS
  <2>3. cpu' = Flags(e, c.st \ {"OV"})
    BY <1>2, <1>3, <1>5, <1>7, <1>9, <1>10, <1>13, <1>16, <2>1, <2>2 DEF Format9
  <2>4. s # 0 /\ n \div s < Word /\ n \div s \in AnyWord /\ n % s \in AnyWord
        /\ ((n \div s) * s) + (n % s) = n /\ n % s < s
    BY <1>13, <1>16, QuotientFits
  <2>5. (n \div s) % Word = n \div s
    <3>1. PICK a \in AnyWord : a = n \div s
      BY <2>4
    <3>2. a % Word = a
      BY <3>1, Widths DEF AnyWord
    <3> QED BY <3>1, <3>2
  <2>6. IsMachine(e) /\ GetReg(e, d) = n \div s /\ GetReg(e, d + 1) = n % s
    BY <1>8, <2>2, <2>4, <2>5, PairFacts
  <2>7. q = n \div s /\ r = n % s /\ cpu'.st = c.st \ {"OV"}
    BY <1>12, <2>3, <2>6 DEF Flags, GetReg, WpAddr, IsMachine
  <2> QED BY <1>15, <1>16, <2>4, <2>7
<1>17. CASE i.op = "DIV" /\ ~(hi < s)
  <2>1. ~Divides(c, d, s)
    BY <1>10, <1>17 DEF Divides
  <2>2. cpu' = Flags(c, c.st \cup {"OV"})
    BY <1>2, <1>3, <1>5, <1>7, <1>9, <1>10, <1>13, <1>17, <2>1 DEF Format9
  <2>3. ~(s # 0 /\ n \div s < Word)
    BY <1>13, <1>17, QuotientFits
  <2>4. q = hi /\ r = lo /\ cpu'.st = c.st \cup {"OV"}
    BY <1>8, <1>10, <1>12, <2>2 DEF Flags, GetReg, WpAddr, IsMachine
  <2> QED BY <1>15, <1>17, <2>3, <2>4
<1> QED BY <1>14, <1>16, <1>17
-----------------------------------------------------------------------------
(* Powers of two up to a word: the next is twice the one before, and with  *)
(* the one that completes it they make a word.                             *)
LEMMA PowerFacts ==
  ASSUME NEW k \in 1 .. 2 * ByteBits
  PROVE  \E p \in Nat, q \in Nat :
           /\ p > 0 /\ q > 0 /\ (2 * p) * q = Word
           /\ 2 ^ (k - 1) = p /\ 2 ^ k = 2 * p
           /\ 2 ^ ((2 * ByteBits) - k) = q /\ 2 ^ ((2 * ByteBits) - (k - 1)) = 2 * q
<1> DEFINE P(n) == 2 ^ n
<1>1. /\ P(0) = 1 /\ P(1) = 2 /\ P(2) = 4 /\ P(3) = 8 /\ P(4) = 16 /\ P(5) = 32 /\ P(6) = 64
      /\ P(7) = 128 /\ P(8) = 256 /\ P(9) = 512 /\ P(10) = 1024 /\ P(11) = 2048
      /\ P(12) = 4096 /\ P(13) = 8192 /\ P(14) = 16384 /\ P(15) = 32768 /\ P(16) = 65536
  OBVIOUS
<1> HIDE DEF P
<1>2. \A n \in 1 .. 12 : P(n - 1) \in Nat /\ P(n - 1) > 0 /\ P(12 - n) \in Nat /\ P(12 - n) > 0
                        /\ P(n) = 2 * P(n - 1) /\ P(12 - (n - 1)) = 2 * P(12 - n)
                        /\ (2 * P(n - 1)) * P(12 - n) = 4096
  BY <1>1
<1>3. \A n \in 1 .. 14 : P(n - 1) \in Nat /\ P(n - 1) > 0 /\ P(14 - n) \in Nat /\ P(14 - n) > 0
                        /\ P(n) = 2 * P(n - 1) /\ P(14 - (n - 1)) = 2 * P(14 - n)
                        /\ (2 * P(n - 1)) * P(14 - n) = 16384
  BY <1>1
<1>4. \A n \in 1 .. 16 : P(n - 1) \in Nat /\ P(n - 1) > 0 /\ P(16 - n) \in Nat /\ P(16 - n) > 0
                        /\ P(n) = 2 * P(n - 1) /\ P(16 - (n - 1)) = 2 * P(16 - n)
                        /\ (2 * P(n - 1)) * P(16 - n) = 65536
  BY <1>1
<1>5. /\ P(k - 1) \in Nat /\ P(k - 1) > 0 /\ P((2 * ByteBits) - k) \in Nat /\ P((2 * ByteBits) - k) > 0
      /\ P(k) = 2 * P(k - 1) /\ P((2 * ByteBits) - (k - 1)) = 2 * P((2 * ByteBits) - k)
      /\ (2 * P(k - 1)) * P((2 * ByteBits) - k) = Word
  <2>1. CASE ByteBits = 6 /\ Word = 4096
    BY <1>2, <2>1
  <2>2. CASE ByteBits = 7 /\ Word = 16384
    BY <1>3, <2>2
  <2>3. CASE ByteBits = 8 /\ Word = 65536
    BY <1>4, <2>3
  <2> QED BY <2>1, <2>2, <2>3, Widths
<1> QED BY <1>5, Zenon DEF P

(* Dividing by p and then by two is dividing by twice p.                   *)
LEMMA HalvedQuotient ==
  ASSUME NEW v \in Int, NEW p \in Nat, p > 0
  PROVE  v \div (2 * p) = (v \div p) \div 2
<1>1. PICK q \in Int, r \in 0 .. p - 1 : q = v \div p /\ v = (q * p) + r
  <2>1. v \div p \in Int /\ v % p \in 0 .. p - 1 /\ v = ((v \div p) * p) + (v % p)
    OBVIOUS
  <2> QED BY <2>1
<1>2. PICK h \in Int, b \in 0 .. 1 : h = q \div 2 /\ q = (2 * h) + b
  OBVIOUS
<1>3. v = (h * (2 * p)) + ((b * p) + r)
  BY <1>1, <1>2
<1>4. b * p = 0 \/ b * p = p
  BY <1>2
<1>5. (b * p) + r \in 0 .. (2 * p) - 1
  BY <1>1, <1>4
<1>6. PICK m \in Nat, t \in Int : m = 2 * p /\ t = (b * p) + r
  BY <1>4
<1>7. v \div m = h
  BY <1>3, <1>5, <1>6
<1> QED BY <1>1, <1>2, <1>6, <1>7

(* A word turned: its upper part a moves down, its lower part b moves up.  *)
LEMMA TurnedIs ==
  ASSUME NEW v \in AnyWord, NEW p \in Nat, NEW q \in Nat, p > 0, q > 0, p * q = Word,
         NEW a \in 0 .. q - 1, NEW b \in 0 .. p - 1, v = (p * a) + b
  PROVE  /\ v \div p = a
         /\ ((v \div p) + (v * q)) % Word = a + (b * q)
         /\ a + (b * q) \in AnyWord
<1>1. v \div p = a
  OBVIOUS
<1>2. v * q = (a * Word) + (b * q)
  <2>1. v * q = ((p * a) * q) + (b * q)
    OBVIOUS
  <2>2. (p * a) * q = a * (p * q)
    OBVIOUS
  <2> QED BY <2>1, <2>2
<1>3. b * q <= (p - 1) * q /\ b * q >= 0
  OBVIOUS
<1>4. (p - 1) * q = Word - q
  OBVIOUS
<1>5. a + (b * q) \in 0 .. Word - 1
  BY <1>3, <1>4
<1>6. PICK t \in 0 .. Word - 1, w \in Nat : t = a + (b * q) /\ w = Word
  BY <1>5, Widths
<1>7. (t + (a * w)) % w = t
  BY <1>6, Widths
<1> QED BY <1>1, <1>2, <1>5, <1>6, <1>7 DEF AnyWord
-----------------------------------------------------------------------------
(* The bits a shift looks at: the sign and the lowest.                     *)
LEMMA EndBits ==
  ASSUME NEW v \in AnyWord
  PROVE  /\ Bit(v, (2 * ByteBits) - 1) = IF v >= Sign THEN 1 ELSE 0
         /\ Bit(v, 0) = v % 2 /\ v % 2 \in {0, 1}
<1> DEFINE P(n) == 2 ^ n
<1>1. P(0) = 1 /\ P(11) = 2048 /\ P(13) = 8192 /\ P(15) = 32768
  OBVIOUS
<1> HIDE DEF P
<1>2. P((2 * ByteBits) - 1) = Sign
  <2>1. CASE ByteBits = 6 /\ Word = 4096
    <3>1. (2 * ByteBits) - 1 = 11 /\ Sign = 2048
      BY <2>1 DEF Sign
    <3> QED BY <1>1, <3>1
  <2>2. CASE ByteBits = 7 /\ Word = 16384
    <3>1. (2 * ByteBits) - 1 = 13 /\ Sign = 8192
      BY <2>2 DEF Sign
    <3> QED BY <1>1, <3>1
  <2>3. CASE ByteBits = 8 /\ Word = 65536
    <3>1. (2 * ByteBits) - 1 = 15 /\ Sign = 32768
      BY <2>3 DEF Sign
    <3> QED BY <1>1, <3>1
  <2> QED BY <2>1, <2>2, <2>3, Widths
<1>3. (v \div Sign) % 2 = IF v >= Sign THEN 1 ELSE 0
  BY Widths DEF Sign, AnyWord
<1>4. (v \div 1) % 2 = v % 2 /\ v % 2 \in {0, 1}
  BY Widths DEF AnyWord
<1>5. 2 ^ ((2 * ByteBits) - 1) = Sign
  BY <1>2, Zenon DEF P
<1>6. 2 ^ 0 = 1
  OBVIOUS
<1> QED BY <1>3, <1>4, <1>5, <1>6 DEF Bit

(* A word shifted by k, as Shifted computes it.                            *)
ShiftedBy(op, v, k) ==
  LET bits == 2 * ByteBits
      turned(m) == ((v \div 2 ^ m) + (v * 2 ^ (bits - m))) % Word
  IN CASE op = "SLA" -> (Signed(v, Word) * 2 ^ k) % Word
       [] op = "SRA" -> (Signed(v, Word) \div 2 ^ k) % Word
       [] op = "SRL" -> v \div 2 ^ k
       [] op = "SRC" -> turned(k)
       [] op = "SLC" -> turned(bits - k)

(* The bit that falls out last.                                            *)
FellOut(op, v, k) ==
  CASE op = "SLA" -> ((Signed(v, Word) * 2 ^ k) \div Word) % 2 = 1
    [] op = "SRA" -> (Signed(v, Word) \div 2 ^ (k - 1)) % 2 = 1
    [] op = "SRL" -> (v \div 2 ^ (k - 1)) % 2 = 1
    [] op = "SRC" -> (v \div 2 ^ (k - 1)) % 2 = 1
    [] op = "SLC" -> (v \div 2 ^ ((2 * ByteBits) - k)) % 2 = 1

(* A shift by k is one shift more than a shift by k - 1.                   *)
OneMore(op, v, k) ==
  /\ ShiftedBy(op, v, k - 1) \in AnyWord /\ ShiftedBy(op, v, k) \in AnyWord
  /\ OneShift(op, ShiftedBy(op, v, k - 1)) = ShiftedBy(op, v, k)
  /\ FellOut(op, v, k) <=>
       Bit(ShiftedBy(op, v, k - 1), IF op \in {"SLA", "SLC"} THEN (2 * ByteBits) - 1 ELSE 0) = 1

(* A logical shift to the right.                                           *)
LEMMA LogicalRight ==
  ASSUME NEW v \in AnyWord, NEW k \in 1 .. 2 * ByteBits
  PROVE  OneMore("SRL", v, k)
<1>1. PICK p \in Nat : p > 0 /\ 2 ^ (k - 1) = p /\ 2 ^ k = 2 * p
  BY PowerFacts
<1>2. PICK x, y : x = v \div p /\ y = v \div (2 * p)
  OBVIOUS
<1>3. x \in AnyWord /\ y \in AnyWord /\ y = x \div 2
  <2>1. v \in Int /\ v >= 0 /\ v < Word /\ Word \in Nat
    BY Widths DEF AnyWord
  <2>2. y = x \div 2
    BY <1>1, <1>2, <2>1, HalvedQuotient
  <2>3. x \in Nat /\ x <= v
    BY <1>1, <1>2, <2>1
  <2> QED BY <2>1, <2>2, <2>3 DEF AnyWord
<1>4. ShiftedBy("SRL", v, k - 1) = x /\ ShiftedBy("SRL", v, k) = y
  BY <1>1, <1>2 DEF ShiftedBy
<1>5. OneShift("SRL", x) = x \div 2
  BY DEF OneShift
<1>6. FellOut("SRL", v, k) <=> x % 2 = 1
  BY <1>1, <1>2 DEF FellOut
<1> QED BY <1>3, <1>4, <1>5, <1>6, EndBits DEF OneMore

(* An arithmetic shift to the right.                                       *)
LEMMA ArithmeticRight ==
  ASSUME NEW v \in AnyWord, NEW k \in 1 .. 2 * ByteBits
  PROVE  OneMore("SRA", v, k)
<1>1. PICK p \in Nat : p > 0 /\ 2 ^ (k - 1) = p /\ 2 ^ k = 2 * p
  BY PowerFacts
<1>2. PICK w \in Int : w = Signed(v, Word) /\ w >= -Sign /\ w < Sign
  BY Widths DEF AnyWord, Signed, Sign
<1>3. PICK y \in Int, z \in Int : y = w \div p /\ z = w \div (2 * p) /\ z = y \div 2
  BY <1>1, <1>2, HalvedQuotient
<1>4. y >= -Sign /\ y < Sign
  <2>1. PICK r \in 0 .. p - 1 : w = (y * p) + r
    <3>1. w \div p \in Int /\ w % p \in 0 .. p - 1 /\ w = ((w \div p) * p) + (w % p)
      BY <1>1
    <3> QED BY <1>3, <3>1
  <2>2. Sign \in Nat
    BY Widths DEF Sign
  <2>3. y < Sign
    <3>1. SUFFICES ASSUME y >= Sign PROVE FALSE
      BY <1>3, <2>2
    <3>2. y * p >= y
      BY <1>1, <2>2, <3>1
    <3> QED BY <1>2, <2>1, <2>2, <3>1, <3>2
  <2>4. y >= -Sign
    <3>1. SUFFICES ASSUME y <= -Sign - 1 PROVE FALSE
      BY <1>3, <2>2
    <3>2. (y + Sign + 1) * p <= 0 /\ (Sign * p) >= Sign
      BY <1>1, <2>2, <3>1
    <3>3. (y * p) + (Sign * p) + p <= 0
      BY <2>2, <3>2
    <3> QED BY <1>1, <1>2, <2>1, <2>2, <3>2, <3>3
  <2> QED BY <2>3, <2>4
<1>5. PICK x \in AnyWord : x = y % Word
  BY Widths DEF AnyWord
<1>6. ShiftedBy("SRA", v, k - 1) = x /\ ShiftedBy("SRA", v, k) = z % Word
  BY <1>1, <1>2, <1>3, <1>5 DEF ShiftedBy
<1>7. FellOut("SRA", v, k) <=> y % 2 = 1
  BY <1>1, <1>2, <1>3 DEF FellOut
<1>8. z % Word \in AnyWord /\ y % 2 = x % 2
  BY <1>5, Widths DEF AnyWord
<1>9. OneShift("SRA", x) = (x \div 2) + ((IF x >= Sign THEN 1 ELSE 0) * Sign)
  BY EndBits DEF OneShift
<1>10. (x \div 2) + ((IF x >= Sign THEN 1 ELSE 0) * Sign) = z % Word
  <2>1. PICK h \in {1024, 4096, 16384} : Sign = 2 * h /\ Word = 4 * h
    BY Widths DEF Sign
  <2>2. CASE y >= 0
    <3>1. x = y /\ z % Word = z
      BY <1>3, <1>4, <1>5, <2>1, <2>2
    <3> QED BY <1>3, <1>4, <2>1, <3>1
  <2>3. CASE y < 0
    <3>1. x = y + Word
      BY <1>4, <1>5, <2>1, <2>3
    <3>2. z >= -Sign /\ z < 0 /\ z % Word = z + Word
      BY <1>3, <1>4, <2>1, <2>3
    <3>3. x \div 2 = z + Sign
      BY <1>3, <2>1, <3>1
    <3> QED BY <1>4, <2>1, <3>1, <3>2, <3>3
  <2> QED BY <1>4, <2>2, <2>3
<1> QED BY <1>6, <1>7, <1>8, <1>9, <1>10, EndBits DEF OneMore
-----------------------------------------------------------------------------
(* A division with its remainder.                                          *)
LEMMA Divided ==
  ASSUME NEW v \in AnyWord, NEW p \in Nat, NEW q \in Nat, p > 0, q > 0, p * q = Word
  PROVE  \E a \in 0 .. q - 1, b \in 0 .. p - 1 : v = (p * a) + b /\ v \div p = a
<1>1. v \in Nat /\ v < p * q
  BY Widths DEF AnyWord
<1>2. PICK a \in Nat, b \in 0 .. p - 1 : v = (p * a) + b /\ v \div p = a
  <2>1. v \div p \in Nat /\ v % p \in 0 .. p - 1 /\ v = (p * (v \div p)) + (v % p)
    BY <1>1
  <2> QED BY <2>1
<1>3. a < q
  <2>1. SUFFICES ASSUME a >= q PROVE FALSE
    BY <1>2
  <2>2. p * a >= p * q
    BY <1>2, <2>1
  <2> QED BY <1>1, <1>2, <2>2
<1> QED BY <1>2, <1>3

(* A rotation to the right.                                                *)
LEMMA RotateRight ==
  ASSUME NEW v \in AnyWord, NEW k \in 1 .. 2 * ByteBits
  PROVE  OneMore("SRC", v, k)
<1>1. PICK p \in Nat, q \in Nat :
        /\ p > 0 /\ q > 0 /\ (2 * p) * q = Word
        /\ 2 ^ (k - 1) = p /\ 2 ^ k = 2 * p
        /\ 2 ^ ((2 * ByteBits) - k) = q /\ 2 ^ ((2 * ByteBits) - (k - 1)) = 2 * q
  BY PowerFacts
<1>2. PICK pp \in Nat, qq \in Nat : pp = 2 * p /\ qq = 2 * q
  OBVIOUS
<1>3. p * qq = Word /\ pp * q = Word /\ pp > 0 /\ qq > 0
  BY <1>1, <1>2
<1>4. PICK a \in 0 .. qq - 1, b \in 0 .. p - 1 : v = (p * a) + b /\ v \div p = a
  <2>1. p > 0 /\ qq > 0 /\ p * qq = Word
    BY <1>1, <1>3
  <2> QED BY <2>1, Divided
<1>5. PICK x : x = ((v \div p) + (v * qq)) % Word
  OBVIOUS
<1>6. x = a + (b * qq) /\ x \in AnyWord
  <2>1. p > 0 /\ qq > 0 /\ p * qq = Word /\ v = (p * a) + b
    BY <1>1, <1>3, <1>4
  <2>2. ((v \div p) + (v * qq)) % Word = a + (b * qq) /\ a + (b * qq) \in AnyWord
    <3>1. p \in Nat /\ qq \in Nat /\ a \in 0 .. qq - 1 /\ b \in 0 .. p - 1
      BY <1>1, <1>2, <1>4
    <3>2. ((v \div p) + (v * qq)) % Word = a + (b * qq)
      BY <2>1, <3>1, TurnedIs
    <3>3. a + (b * qq) \in AnyWord
      <4>1. PICK u \in Int : u = ((v \div p) + (v * qq))
        BY <2>1, <3>1, Widths DEF AnyWord
      <4>2. u % Word \in AnyWord
        BY <4>1, Widths DEF AnyWord
      <4> QED BY <3>2, <4>1, <4>2
    <3> QED BY <3>2, <3>3
  <2> QED BY <1>5, <2>2
<1>7. PICK h \in 0 .. q - 1, e \in {0, 1} : a = (2 * h) + e
  <2>1. a = (2 * (a \div 2)) + (a % 2) /\ a \div 2 \in Int /\ a % 2 \in {0, 1}
    BY <1>4
  <2>2. a \div 2 \in 0 .. q - 1
    BY <1>2, <1>4, <2>1
  <2> QED BY <2>1, <2>2
<1>8. PICK g \in Int : g = (e * p) + b
  BY <1>4, <1>7
<1>9. g \in 0 .. pp - 1
  <2>1. e * p = 0 \/ e * p = p
    BY <1>7
  <2> QED BY <1>2, <1>4, <1>8, <2>1
<1>10. v = (pp * h) + g
  <2>1. p * a = (pp * h) + (e * p)
    BY <1>2, <1>7
  <2> QED BY <1>4, <1>8, <2>1
<1>11. PICK y : y = ((v \div pp) + (v * q)) % Word
  OBVIOUS
<1>12. y = h + (g * q) /\ y \in AnyWord
  <2>1. pp > 0 /\ q > 0 /\ pp * q = Word /\ g \in 0 .. pp - 1 /\ v = (pp * h) + g
    BY <1>1, <1>3, <1>9, <1>10
  <2>2. ((v \div pp) + (v * q)) % Word = h + (g * q) /\ h + (g * q) \in AnyWord
    <3>1. pp \in Nat /\ q \in Nat /\ h \in 0 .. q - 1
      BY <1>1, <1>2, <1>7, <1>9
    <3>2. ((v \div pp) + (v * q)) % Word = h + (g * q)
      BY <2>1, <3>1, TurnedIs
    <3>3. h + (g * q) \in AnyWord
      <4>1. PICK u \in Int : u = ((v \div pp) + (v * q))
        BY <2>1, <3>1, Widths DEF AnyWord
      <4>2. u % Word \in AnyWord
        BY <4>1, Widths DEF AnyWord
      <4> QED BY <3>2, <4>1, <4>2
    <3> QED BY <3>2, <3>3
  <2> QED BY <1>11, <2>2
<1>13. p * q = Sign
  BY <1>1, Widths DEF Sign
<1>14. g * q = (e * Sign) + (b * q)
  <2>1. g * q = (e * (p * q)) + (b * q)
    BY <1>4, <1>7, <1>8
  <2> QED BY <1>13, <2>1
<1>15. PICK t \in Int : t = b * q
  BY <1>4
<1>16. b * qq = 2 * t
  BY <1>2, <1>15
<1>17. x = (2 * (h + t)) + e
  BY <1>6, <1>7, <1>16
<1>18. x \div 2 = h + t /\ x % 2 = e /\ a % 2 = e
  BY <1>7, <1>17
<1>19. OneShift("SRC", x) = (x \div 2) + ((x % 2) * Sign)
  BY <1>6, EndBits DEF OneShift
<1>20. OneShift("SRC", x) = y
  <2>1. y = h + ((e * Sign) + t) /\ OneShift("SRC", x) = (h + t) + (e * Sign)
    <3>1. y = h + ((e * Sign) + t)
      BY <1>12, <1>14, <1>15
    <3> QED BY <1>18, <1>19, <3>1
  <2>2. PICK u \in Int : u = e * Sign
    BY <1>7, Widths DEF Sign
  <2> QED BY <1>7, <1>15, <2>1, <2>2
<1>21. ShiftedBy("SRC", v, k - 1) = x
  BY <1>1, <1>2, <1>5 DEF ShiftedBy
<1>22. ShiftedBy("SRC", v, k) = y
  BY <1>1, <1>2, <1>11 DEF ShiftedBy
<1>23. FellOut("SRC", v, k) <=> e = 1
  BY <1>1, <1>4, <1>18 DEF FellOut
<1>24. Bit(x, 0) = e
  BY <1>6, <1>18, EndBits
<1> QED BY <1>6, <1>12, <1>20, <1>21, <1>22, <1>23, <1>24 DEF OneMore

(* A rotation to the left.                                                 *)
LEMMA RotateLeft ==
  ASSUME NEW v \in AnyWord, NEW k \in 1 .. 2 * ByteBits
  PROVE  OneMore("SLC", v, k)
<1>1. PICK p \in Nat, q \in Nat :
        /\ p > 0 /\ q > 0 /\ (2 * p) * q = Word
        /\ 2 ^ (k - 1) = p /\ 2 ^ k = 2 * p
        /\ 2 ^ ((2 * ByteBits) - k) = q /\ 2 ^ ((2 * ByteBits) - (k - 1)) = 2 * q
  BY PowerFacts
<1>2. PICK pp \in Nat, qq \in Nat : pp = 2 * p /\ qq = 2 * q
  OBVIOUS
<1>3. qq * p = Word /\ q * pp = Word /\ pp > 0 /\ qq > 0
  BY <1>1, <1>2
<1>4. PICK a \in 0 .. p - 1, b \in 0 .. qq - 1 : v = (qq * a) + b /\ v \div qq = a
  BY <1>1, <1>3, Divided
<1>5. PICK x : x = ((v \div qq) + (v * p)) % Word
  OBVIOUS
<1>6. x = a + (b * p) /\ x \in AnyWord
  <2>1. p > 0 /\ qq > 0 /\ qq * p = Word /\ v = (qq * a) + b
    BY <1>1, <1>3, <1>4
  <2>2. ((v \div qq) + (v * p)) % Word = a + (b * p) /\ a + (b * p) \in AnyWord
    <3>1. p \in Nat /\ qq \in Nat /\ a \in 0 .. p - 1 /\ b \in 0 .. qq - 1
      BY <1>1, <1>2, <1>4
    <3>2. ((v \div qq) + (v * p)) % Word = a + (b * p)
      BY <2>1, <3>1, TurnedIs
    <3>3. a + (b * p) \in AnyWord
      <4>1. PICK u \in Int : u = ((v \div qq) + (v * p))
        BY <2>1, <3>1, Widths DEF AnyWord
      <4>2. u % Word \in AnyWord
        BY <4>1, Widths DEF AnyWord
      <4> QED BY <3>2, <4>1, <4>2
    <3> QED BY <3>2, <3>3
  <2> QED BY <1>5, <2>2
<1>7. PICK e \in {0, 1}, g \in 0 .. q - 1 : b = (e * q) + g
  <2>1. CASE b < q
    <3>1. b = (0 * q) + b /\ b \in 0 .. q - 1
      BY <1>4, <2>1
    <3> QED BY <3>1
  <2>2. CASE b >= q
    <3>1. b = (1 * q) + (b - q) /\ b - q \in 0 .. q - 1
      BY <1>2, <1>4, <2>2
    <3> QED BY <3>1
  <2> QED BY <1>4, <2>1, <2>2
<1>8. PICK h \in 0 .. pp - 1 : h = (2 * a) + e
  BY <1>2, <1>4, <1>7
<1>9. v = (q * h) + g
  <2>1. q * h = (qq * a) + (e * q)
    BY <1>2, <1>4, <1>7, <1>8
  <2> QED BY <1>4, <1>7, <2>1
<1>10. PICK y : y = ((v \div q) + (v * pp)) % Word
  OBVIOUS
<1>11. y = h + (g * pp) /\ y \in AnyWord /\ v \div q = h
  <2>1. q > 0 /\ pp > 0 /\ q * pp = Word /\ v = (q * h) + g
    BY <1>1, <1>3, <1>9
  <2>2. v \div q = h /\ ((v \div q) + (v * pp)) % Word = h + (g * pp) /\ h + (g * pp) \in AnyWord
    <3>1. pp \in Nat /\ q \in Nat /\ h \in 0 .. pp - 1 /\ g \in 0 .. q - 1
      BY <1>1, <1>2, <1>7, <1>8
    <3>2. v \div q = h
      BY <2>1, <3>1, TurnedIs
    <3>3. ((v \div q) + (v * pp)) % Word = h + (g * pp)
      BY <2>1, <3>1, TurnedIs
    <3>4. h + (g * pp) \in AnyWord
      <4>1. PICK u \in Int : u = ((v \div q) + (v * pp))
        BY <2>1, <3>1, Widths DEF AnyWord
      <4>2. u % Word \in AnyWord
        BY <4>1, Widths DEF AnyWord
      <4> QED BY <3>3, <4>1, <4>2
    <3> QED BY <3>2, <3>3, <3>4
  <2> QED BY <1>10, <2>2
<1>12. p * q = Sign /\ Sign \in Nat /\ Word = 2 * Sign
  BY <1>1, Widths DEF Sign
<1>13. PICK t \in Nat : t = g * p
  BY <1>7
<1>14. a + t < Sign
  <2>1. g * p <= (q - 1) * p
    BY <1>7
  <2>2. (q - 1) * p = Sign - p
    BY <1>12
  <2> QED BY <1>4, <1>12, <1>13, <2>1, <2>2
<1>15. b * p = (e * Sign) + t
  <2>1. b * p = (e * (p * q)) + (g * p)
    BY <1>4, <1>7
  <2> QED BY <1>12, <1>13, <2>1
<1>16. x = (a + t) + (e * Sign)
  BY <1>4, <1>6, <1>7, <1>12, <1>13, <1>15
<1>17. g * pp = 2 * t
  BY <1>2, <1>7, <1>13
<1>18. (IF x >= Sign THEN 1 ELSE 0) = e /\ h % 2 = e
  BY <1>4, <1>7, <1>8, <1>12, <1>13, <1>14, <1>16
<1>19. (x * 2) % Word = (2 * a) + (2 * t)
  <2>1. PICK m \in Nat : m = a + t
    BY <1>4, <1>13
  <2>2. (x * 2) % Word = 2 * m
    BY <1>7, <1>12, <1>14, <1>16, <2>1, Widths
  <2> QED BY <1>4, <1>13, <2>1, <2>2
<1>20. OneShift("SLC", x) = ((x * 2) % Word) + e
  BY <1>6, <1>18, EndBits DEF OneShift
<1>21. OneShift("SLC", x) = y
  <2>1. y = h + (2 * t) /\ OneShift("SLC", x) = ((2 * a) + (2 * t)) + e
    BY <1>11, <1>17, <1>19, <1>20
  <2> QED BY <1>4, <1>7, <1>8, <1>13, <2>1
<1>22. (2 * ByteBits) - ((2 * ByteBits) - (k - 1)) = k - 1 /\ (2 * ByteBits) - ((2 * ByteBits) - k) = k
  BY ByteBitsAssumption
<1>23. ShiftedBy("SLC", v, k - 1) = x
  BY <1>1, <1>2, <1>5, <1>22 DEF ShiftedBy
<1>24. ShiftedBy("SLC", v, k) = y
  BY <1>1, <1>2, <1>10, <1>22 DEF ShiftedBy
<1>25. FellOut("SLC", v, k) <=> e = 1
  BY <1>1, <1>11, <1>18 DEF FellOut
<1>26. Bit(x, (2 * ByteBits) - 1) = e
  BY <1>6, <1>18, EndBits
<1> QED BY <1>6, <1>11, <1>21, <1>23, <1>24, <1>25, <1>26 DEF OneMore

(* An arithmetic shift to the left, and the sign it may lose on the way.   *)
LEMMA ArithmeticLeft ==
  ASSUME NEW v \in AnyWord, NEW k \in 1 .. 2 * ByteBits
  PROVE  LET L(j) == Signed(v, Word) * 2 ^ j
             x == ShiftedBy("SLA", v, k - 1)
             y == ShiftedBy("SLA", v, k)
         IN /\ OneMore("SLA", v, k)
            /\ (L(k) # Signed(y, Word)) <=>
                 (L(k - 1) # Signed(x, Word) \/ High(y, Word) # High(x, Word))
<1>1. PICK p \in Nat : p > 0 /\ 2 ^ (k - 1) = p /\ 2 ^ k = 2 * p
  BY PowerFacts
<1>2. PICK w \in Int : w = Signed(v, Word)
  BY Widths DEF AnyWord, Signed
<1>3. PICK l \in Int : l = w * p
  BY <1>1, <1>2
<1>4. w * (2 * p) = 2 * l
  BY <1>1, <1>2, <1>3
<1>5. PICK x \in AnyWord, y \in AnyWord : x = l % Word /\ y = (2 * l) % Word
  BY <1>3, Widths DEF AnyWord
<1>6. ShiftedBy("SLA", v, k - 1) = x /\ ShiftedBy("SLA", v, k) = y
  BY <1>1, <1>2, <1>3, <1>4, <1>5 DEF ShiftedBy
<1>7. OneShift("SLA", x) = y
  <2>1. (x * 2) % Word = y
    BY <1>5, Widths DEF AnyWord
  <2> QED BY <2>1 DEF OneShift
<1>8. FellOut("SLA", v, k) <=> ((2 * l) \div Word) % 2 = 1
  BY <1>1, <1>2, <1>4 DEF FellOut
<1>9. ((2 * l) \div Word) % 2 = 1 <=> x >= Sign
  BY <1>5, Widths DEF AnyWord, Sign
<1>10. Bit(x, (2 * ByteBits) - 1) = 1 <=> x >= Sign
  BY EndBits
<1>11. OneMore("SLA", v, k)
  BY <1>6, <1>7, <1>8, <1>9, <1>10 DEF OneMore
<1>12. (2 * l # Signed(y, Word)) <=> (l # Signed(x, Word) \/ High(y, Word) # High(x, Word))
  BY <1>5, Widths DEF AnyWord, Signed, High
<1> QED BY <1>1, <1>2, <1>3, <1>4, <1>6, <1>11, <1>12
-----------------------------------------------------------------------------
(* Every shift by k is one shift more than the shift by k - 1.             *)
LEMMA EachIsOneMore ==
  ASSUME NEW op \in ShiftOps, NEW v \in AnyWord, NEW k \in 1 .. 2 * ByteBits
  PROVE  OneMore(op, v, k)
<1>1. OneMore("SLA", v, k)
  BY ArithmeticLeft
<1> QED BY <1>1, ArithmeticRight, LogicalRight, RotateRight, RotateLeft DEF ShiftOps

(* A shift by nothing is the word.                                         *)
LEMMA NoShift ==
  ASSUME NEW op \in ShiftOps, NEW v \in AnyWord
  PROVE  ShiftedBy(op, v, 0) = v /\ Signed(v, Word) * 2 ^ 0 = Signed(v, Word) /\ 2 ^ (2 * ByteBits) = Word
<1>1. 1 \in 1 .. 2 * ByteBits /\ 1 - 1 = 0 /\ (2 * ByteBits) - 0 = 2 * ByteBits
      /\ (2 * ByteBits) - (2 * ByteBits) = 0
  BY ByteBitsAssumption
<1>2. PICK k \in 1 .. 2 * ByteBits : k = 1
  BY <1>1
<1>3. PICK p \in Nat, q \in Nat :
        (2 * p) * q = Word /\ 2 ^ (k - 1) = p /\ 2 ^ ((2 * ByteBits) - (k - 1)) = 2 * q
  BY PowerFacts
<1>4. k - 1 = 0
  BY <1>2
<1>5. 2 ^ 0 = 1
  OBVIOUS
<1>6. 2 ^ 0 = p /\ 2 ^ ((2 * ByteBits) - 0) = 2 * q
  BY <1>3, <1>4
<1>7. 2 ^ (2 * ByteBits) = Word
  BY <1>1, <1>3, <1>5, <1>6
<1>8. PICK w \in Int : w = Signed(v, Word) /\ w % Word = v
  BY Widths DEF Signed, AnyWord
<1>9. w * 1 = w /\ w \div 1 = w /\ v \div 1 = v /\ v \div Word = 0 /\ v * 1 = v
  BY <1>8, Widths DEF AnyWord
<1>10. (v + (v * Word)) % Word = v /\ (0 + v) % Word = v
  BY Widths DEF AnyWord
<1>11. ShiftedBy(op, v, 0) = v
  <2>1. CASE op = "SLA"
    BY <1>5, <1>8, <1>9, <2>1 DEF ShiftedBy
  <2>2. CASE op = "SRA"
    BY <1>5, <1>8, <1>9, <2>2 DEF ShiftedBy
  <2>3. CASE op = "SRL"
    BY <1>5, <1>9, <2>3 DEF ShiftedBy
  <2>4. CASE op = "SRC"
    BY <1>1, <1>5, <1>7, <1>9, <1>10, <2>4 DEF ShiftedBy
  <2>5. CASE op = "SLC"
    BY <1>1, <1>5, <1>7, <1>9, <1>10, <2>5 DEF ShiftedBy
  <2> QED BY <2>1, <2>2, <2>3, <2>4, <2>5 DEF ShiftOps
<1> QED BY <1>5, <1>7, <1>8, <1>9, <1>11

(* The shifts by one, as the property counts them.                         *)
Unshifted(v) == [v |-> v, c |-> 0, ov |-> FALSE]

ShiftedOnce(op, t) ==
  LET v == OneShift(op, t.v)
  IN [v  |-> v,
      c  |-> IF op \in {"SLA", "SLC"} THEN Bit(t.v, (2 * ByteBits) - 1) ELSE Bit(t.v, 0),
      ov |-> t.ov \/ High(v, Word) # High(t.v, Word)]

Stepwise(op, v, n, f) ==
  f = [k \in 0 .. n |-> IF k = 0 THEN Unshifted(v) ELSE ShiftedOnce(op, f[k - 1])]

(* There is such a function, for any number of shifts.                     *)
LEMMA StepwiseExists ==
  ASSUME NEW op, NEW v, NEW n \in Nat
  PROVE  \E f : Stepwise(op, v, n, f)
<1> DEFINE first == Unshifted(v)
<1> DEFINE next(t) == ShiftedOnce(op, t)
<1> DEFINE To(m, f) == f = [k \in 0 .. m |-> IF k = 0 THEN first ELSE next(f[k - 1])]
<1> DEFINE G == {m \in Nat : \E f : To(m, f)}
<1>1. 0 \in G
  <2> HIDE DEF first, next
  <2>1. To(0, [k \in 0 .. 0 |-> first])
    OBVIOUS
  <2> QED BY <2>1
<1>2. ASSUME NEW m \in 1 .. n, m - 1 \in G PROVE m \in G
  <2> HIDE DEF first, next
  <2>1. PICK f : To(m - 1, f)
    BY <1>2
  <2> DEFINE g == [k \in 0 .. m |-> IF k = m THEN next(f[m - 1]) ELSE f[k]]
  <2>2. To(m, g)
    <3>1. \A k \in 0 .. m - 1 : g[k] = f[k]
      OBVIOUS
    <3>2. \A k \in 0 .. m : g[k] = IF k = 0 THEN first ELSE next(g[k - 1])
      BY <2>1, <3>1
    <3> QED BY <3>2
  <2>3. m \in Nat /\ \E h : To(m, h)
    <3>1. m \in Nat
      OBVIOUS
    <3> HIDE DEF g, To
    <3> QED BY <2>2, <3>1
  <2> HIDE DEF To
  <2> QED BY <2>3
<1>3. n \in G
  <2> HIDE DEF G
  <2>1. \A k \in 0 .. n : k \in G
    BY <1>1, <1>2, Induction
  <2> QED BY <2>1
<1> QED BY <1>3 DEF Stepwise

(* After k shifts by one: the word shifted by k, its carry, and for SLA    *)
(* whether the sign has changed on the way.                                *)
Along(op, v, f, k) ==
  /\ f[k].v = ShiftedBy(op, v, k)
  /\ k > 0 => (f[k].c = 1 <=> FellOut(op, v, k))
  /\ f[k].ov \in BOOLEAN
  /\ op = "SLA" => (f[k].ov <=> Signed(v, Word) * 2 ^ k # Signed(ShiftedBy(op, v, k), Word))

(* Every function of that kind goes along with the shifts.                 *)
LEMMA StepwiseIsShifted ==
  ASSUME NEW op \in ShiftOps, NEW v \in AnyWord, NEW n \in 0 .. 2 * ByteBits,
         NEW f, Stepwise(op, v, n, f)
  PROVE  \A k \in 0 .. n : Along(op, v, f, k)
<1> DEFINE G == {k \in 0 .. n : Along(op, v, f, k)}
<1>1. n \in Nat
  OBVIOUS
<1>2. 0 \in G
  <2>1. f[0] = Unshifted(v)
    BY <1>1 DEF Stepwise
  <2>2. f[0].v = v /\ f[0].ov = FALSE
    BY <2>1 DEF Unshifted
  <2>3. Signed(v, Word) * 2 ^ 0 = Signed(ShiftedBy(op, v, 0), Word)
    BY NoShift
  <2>4. Along(op, v, f, 0)
    <3>1. f[0].v = ShiftedBy(op, v, 0)
      BY <2>2, NoShift
    <3>2. ~(0 > 0)
      OBVIOUS
    <3>3. f[0].ov \in BOOLEAN
      BY <2>2, Zenon
    <3>4. f[0].ov <=> Signed(v, Word) * 2 ^ 0 # Signed(ShiftedBy(op, v, 0), Word)
      BY <2>2, <2>3, Zenon
    <3> QED BY <3>1, <3>2, <3>3, <3>4, Zenon DEF Along
  <2> QED BY <1>1, <2>4
<1>3. ASSUME NEW k \in 1 .. n, k - 1 \in G PROVE k \in G
  <2>1. k \in 1 .. 2 * ByteBits /\ k - 1 \in 0 .. n /\ k \in 0 .. n
    BY ByteBitsAssumption
  <2>2. PICK t, x, y : t = f[k - 1] /\ x = ShiftedBy(op, v, k - 1) /\ y = ShiftedBy(op, v, k)
    OBVIOUS
  <2>3. Along(op, v, f, k - 1)
    BY <1>3
  <2>4. t.v = x /\ t.ov \in BOOLEAN
    BY <2>2, <2>3 DEF Along
  <2>5. f[k] = ShiftedOnce(op, t)
    BY <2>1, <2>2 DEF Stepwise
  <2>6. /\ OneShift(op, x) = y
        /\ FellOut(op, v, k) <=> Bit(x, IF op \in {"SLA", "SLC"} THEN (2 * ByteBits) - 1 ELSE 0) = 1
    BY <2>1, <2>2, EachIsOneMore DEF OneMore
  <2>7. f[k].v = y /\ f[k].ov = (t.ov \/ High(y, Word) # High(x, Word))
    BY <2>4, <2>5, <2>6 DEF ShiftedOnce
  <2>8. f[k].c = Bit(x, IF op \in {"SLA", "SLC"} THEN (2 * ByteBits) - 1 ELSE 0)
    BY <2>4, <2>5 DEF ShiftedOnce
  <2>9. ASSUME op = "SLA" PROVE f[k].ov <=> Signed(v, Word) * 2 ^ k # Signed(y, Word)
    <3>1. t.ov <=> Signed(v, Word) * 2 ^ (k - 1) # Signed(x, Word)
      BY <2>2, <2>3, <2>9 DEF Along
    <3>2. (Signed(v, Word) * 2 ^ k # Signed(y, Word)) <=>
            (Signed(v, Word) * 2 ^ (k - 1) # Signed(x, Word) \/ High(y, Word) # High(x, Word))
      BY <2>1, <2>2, <2>9, ArithmeticLeft
    <3> QED BY <2>7, <3>1, <3>2, Zenon
  <2>10. f[k].ov \in BOOLEAN
    BY <2>4, <2>7, Zenon
  <2>11. Along(op, v, f, k)
    BY <2>2, <2>6, <2>7, <2>8, <2>9, <2>10, Zenon DEF Along
  <2> QED BY <2>1, <2>11
<1> HIDE DEF G
<1>4. \A k \in 0 .. n : k \in G
  BY <1>1, <1>2, <1>3, Induction
<1> QED BY <1>4 DEF G
-----------------------------------------------------------------------------
(* The flags a shift leaves: the carry it was given, the overflow it kept, *)
(* and the order of its result.                                            *)
LEMMA ShiftFlags ==
  ASSUME NEW keep \in SUBSET {"OV", "P"}, NEW b \in BOOLEAN, NEW w \in AnyWord,
         NEW res, res = Flagged(keep \cup If(b, "C"), w, FALSE)
  PROVE  /\ IsResult(res, FALSE) /\ res.v = w
         /\ "C" \in res.st <=> b
         /\ "OV" \in res.st <=> "OV" \in keep
         /\ FlagsTell(res.st, Signed(w, Word))
<1>1. PICK s \in SUBSET {"C"} : s = If(b, "C") /\ ("C" \in s <=> b)
  BY IfFacts
<1>2. PICK st : st = keep \cup s
  OBVIOUS
<1>3. st \in SUBSET FlagNames /\ ("C" \in st <=> "C" \in s) /\ ("OV" \in st <=> "OV" \in keep)
  BY <1>2 DEF FlagNames
<1>4. res = Flagged(st, w, FALSE) /\ Size(FALSE) = Word /\ w \in 0 .. Size(FALSE) - 1
  BY <1>1, <1>2 DEF Size, AnyWord
<1>5. /\ IsResult(res, FALSE) /\ res.v = w
      /\ res.st \cap {"C", "OV"} = st \cap {"C", "OV"}
      /\ FlagsTell(res.st, Signed(w, Word))
  <2>1. /\ IsResult(Flagged(st, w, FALSE), FALSE) /\ Flagged(st, w, FALSE).v = w
        /\ Flagged(st, w, FALSE).st \cap {"C", "OV"} = st \cap {"C", "OV"}
        /\ FlagsTell(Flagged(st, w, FALSE).st, Signed(w, Size(FALSE)))
    <3>1. st \in SUBSET FlagNames /\ w \in 0 .. Size(FALSE) - 1 /\ FALSE \in BOOLEAN
      BY <1>3, <1>4
    <3> QED BY <3>1, FlaggedFacts
  <2> QED BY <1>4, <2>1
<1>6. ("C" \in res.st <=> "C" \in st) /\ ("OV" \in res.st <=> "OV" \in st)
  BY <1>5
<1> QED BY <1>1, <1>3, <1>5, <1>6

(* A shift's result and flags, as numbers: the word shifted, the bit that  *)
(* fell out last, and SLA's overflow a product that does not fit.          *)
IsShift(op, st, v, n, res) ==
  /\ IsResult(res, FALSE) /\ res.v = ShiftedBy(op, v, n)
  /\ "C" \in res.st <=> FellOut(op, v, n)
  /\ op # "SLA" => ("OV" \in res.st <=> "OV" \in st)
  /\ op = "SLA" => ("OV" \in res.st <=> Signed(v, Word) * 2 ^ n # Signed(ShiftedBy(op, v, n), Word))
  /\ FlagsTell(res.st, Signed(res.v, Word))

(* Shifted computes that.                                                  *)
LEMMA ShiftedTells ==
  ASSUME NEW op \in ShiftOps, NEW st \in SUBSET FlagNames, NEW v \in AnyWord,
         NEW n \in 1 .. 2 * ByteBits, NEW res, res = Shifted(op, st, v, n)
  PROVE  IsShift(op, st, v, n, res)
<1>1. PICK w \in AnyWord : w = ShiftedBy(op, v, n)
  BY EachIsOneMore DEF OneMore
<1>2. FellOut(op, v, n) \in BOOLEAN
  BY DEF FellOut, ShiftOps
<1>3. PICK b \in BOOLEAN : b <=> FellOut(op, v, n)
  BY <1>2
<1>4. 2 ^ (2 * ByteBits) = Word
  BY NoShift
<1>5. CASE op = "SLA"
  <2>1. (Signed(v, Word) * 2 ^ n # Signed(w, Word)) \in BOOLEAN
    OBVIOUS
  <2>2. PICK o \in SUBSET {"OV"} :
          /\ o = If(Signed(v, Word) * 2 ^ n # Signed(w, Word), "OV")
          /\ "OV" \in o <=> Signed(v, Word) * 2 ^ n # Signed(w, Word)
    BY <2>1, IfFacts
  <2>3. PICK keep \in SUBSET {"OV", "P"} : keep = (st \cap {"P"}) \cup o
    OBVIOUS
  <2>4. "OV" \in keep <=> "OV" \in o
    BY <2>3
  <2>5. w = (Signed(v, Word) * 2 ^ n) % Word
    BY <1>1, <1>5 DEF ShiftedBy
  <2>6. (((Signed(v, Word) * 2 ^ n) \div 2 ^ (2 * ByteBits)) % 2 = 1) = b
    BY <1>2, <1>3, <1>4, <1>5 DEF FellOut
  <2>7. res = Flagged(keep \cup If(b, "C"), w, FALSE)
    BY <1>5, <2>2, <2>3, <2>5, <2>6 DEF Shifted
  <2>8. /\ IsResult(res, FALSE) /\ res.v = w
        /\ "C" \in res.st <=> b
        /\ "OV" \in res.st <=> "OV" \in keep
        /\ FlagsTell(res.st, Signed(w, Word))
    BY <2>7, ShiftFlags
  <2> QED BY <1>1, <1>3, <1>5, <2>2, <2>4, <2>8 DEF IsShift
<1>6. CASE op # "SLA"
  <2>1. PICK keep \in SUBSET {"OV", "P"} : keep = st \cap {"OV", "P"}
    OBVIOUS
  <2>2. "OV" \in keep <=> "OV" \in st
    BY <2>1
  <2>3. res = Flagged(keep \cup If(b, "C"), w, FALSE)
    <3>1. CASE op = "SRA"
      <4>1. ((Signed(v, Word) \div 2 ^ (n - 1)) % 2 = 1) = b
        BY <1>2, <1>3, <3>1 DEF FellOut
      <4> QED BY <1>1, <2>1, <3>1, <4>1 DEF Shifted, ShiftedBy
    <3>2. CASE op = "SRL"
      <4>1. ((v \div 2 ^ (n - 1)) % 2 = 1) = b
        BY <1>2, <1>3, <3>2 DEF FellOut
      <4> QED BY <1>1, <2>1, <3>2, <4>1 DEF Shifted, ShiftedBy
    <3>3. CASE op = "SRC"
      <4>1. ((v \div 2 ^ (n - 1)) % 2 = 1) = b
        BY <1>2, <1>3, <3>3 DEF FellOut
      <4> QED BY <1>1, <2>1, <3>3, <4>1 DEF Shifted, ShiftedBy
    <3>4. CASE op = "SLC"
      <4>1. ((v \div 2 ^ ((2 * ByteBits) - n)) % 2 = 1) = b
        BY <1>2, <1>3, <3>4 DEF FellOut
      <4> QED BY <1>1, <2>1, <3>4, <4>1 DEF Shifted, ShiftedBy
    <3> QED BY <1>6, <3>1, <3>2, <3>3, <3>4 DEF ShiftOps
  <2>4. /\ IsResult(res, FALSE) /\ res.v = w
        /\ "C" \in res.st <=> b
        /\ "OV" \in res.st <=> "OV" \in keep
        /\ FlagsTell(res.st, Signed(w, Word))
    BY <2>3, ShiftFlags
  <2> QED BY <1>1, <1>3, <1>6, <2>2, <2>4 DEF IsShift
<1> QED BY <1>5, <1>6
-----------------------------------------------------------------------------
(* A shift is the shifts by one it stands for.                             *)
LEMMA ShiftsStepwise ==
  ASSUME NEW i, IsFields(i), i.op \in ShiftOps, IsMachine(cpu), cpu' = Shift(Fetched(cpu), i)
  PROVE  ShiftIsStepwise(i)
<1>1. PICK r \in Nat, op \in ShiftOps : r = i.s.r /\ op = i.op
  BY DEF IsFields, Operands
<1>2. PICK c : c = Fetched(cpu)
  OBVIOUS
<1>3. IsMachine(c) /\ c.mem = cpu.mem /\ c.wp = cpu.wp /\ c.st = cpu.st /\ c.st \in SUBSET FlagNames
  BY <1>2, FetchedFacts, MachineFields
<1>4. PICK v \in AnyWord : v = GetReg(c, r) /\ v = GetReg(cpu, r)
  BY <1>3, GetRegFacts DEF GetReg, WpAddr
<1>5. PICK n \in 1 .. 2 * ByteBits : n = ShiftCount(c, i) /\ n = ShiftCount(cpu, i)
  <2>1. ShiftCount(c, i) = ShiftCount(cpu, i)
    BY <1>3 DEF ShiftCount, GetReg, WpAddr
  <2>2. ShiftCount(c, i) \in 1 .. 2 * ByteBits
    BY <1>3, ShiftCountFacts
  <2> QED BY <2>1, <2>2
<1>6. PICK res : res = Shifted(op, c.st, v, n)
  OBVIOUS
<1>7. /\ IsResult(res, FALSE) /\ res.v = ShiftedBy(op, v, n)
      /\ "C" \in res.st <=> FellOut(op, v, n)
      /\ op # "SLA" => ("OV" \in res.st <=> "OV" \in c.st)
      /\ op = "SLA" => ("OV" \in res.st <=>
           Signed(v, Word) * 2 ^ n # Signed(ShiftedBy(op, v, n), Word))
      /\ FlagsTell(res.st, Signed(res.v, Word))
  <2>1. IsShift(op, c.st, v, n, res)
    BY <1>3, <1>6, ShiftedTells
  <2> QED BY <2>1 DEF IsShift
<1>8. GetReg(cpu', r) = res.v /\ cpu'.st = res.st
  <2>1. cpu' = ToReg(c, r, res)
    BY <1>1, <1>2, <1>4, <1>5, <1>6 DEF Shift
  <2>2. res.v \in AnyWord
    BY <1>7 DEF IsResult
  <2>3. IsMachine(SetReg(c, r, res.v)) /\ GetReg(SetReg(c, r, res.v), r) = res.v
    BY <1>3, <2>2, SetRegFacts
  <2> QED BY <2>1, <2>3 DEF ToReg, Flags, GetReg, WpAddr, IsMachine
<1> DEFINE step == CHOOSE f : f = [k \in 0 .. n |->
      IF k = 0 THEN [v |-> v, c |-> 0, ov |-> FALSE]
      ELSE [v  |-> OneShift(op, f[k - 1].v),
            c  |-> IF op \in {"SLA", "SLC"} THEN Bit(f[k - 1].v, (2 * ByteBits) - 1)
                   ELSE Bit(f[k - 1].v, 0),
            ov |-> f[k - 1].ov \/ High(OneShift(op, f[k - 1].v), Word) # High(f[k - 1].v, Word)]]
<1>9. Stepwise(op, v, n, step)
  <2>1. \E f : Stepwise(op, v, n, f)
    BY StepwiseExists
  <2>2. step = CHOOSE f : Stepwise(op, v, n, f)
    BY DEF Stepwise, Unshifted, ShiftedOnce
  <2> HIDE DEF step
  <2> QED BY <2>1, <2>2
<1>10. Along(op, v, step, n)
  <2>1. n \in 0 .. 2 * ByteBits /\ n \in 0 .. n
    OBVIOUS
  <2> HIDE DEF step
  <2> QED BY <1>9, <2>1, StepwiseIsShifted
<1>11. ShiftIsStepwise(i) <=>
         /\ GetReg(cpu', r) = step[n].v
         /\ ("C" \in cpu'.st) = (step[n].c = 1)
         /\ ("OV" \in cpu'.st) = (IF op = "SLA" THEN step[n].ov ELSE "OV" \in cpu.st)
         /\ FlagsTell(cpu'.st, Signed(step[n].v, Word))
  BY <1>1, <1>4, <1>5 DEF ShiftIsStepwise
<1>12. PICK e : e = step[n]
  OBVIOUS
<1> HIDE DEF step
<1>13. /\ e.v = ShiftedBy(op, v, n) /\ (e.c = 1 <=> FellOut(op, v, n))
       /\ e.ov \in BOOLEAN
       /\ op = "SLA" => (e.ov <=> Signed(v, Word) * 2 ^ n # Signed(ShiftedBy(op, v, n), Word))
  <2>1. n > 0
    OBVIOUS
  <2> QED BY <1>10, <1>12, <2>1, Zenon DEF Along
<1>14. ("C" \in cpu'.st) = (e.c = 1)
  <2>1. ("C" \in cpu'.st) \in BOOLEAN /\ (e.c = 1) \in BOOLEAN
    OBVIOUS
  <2>2. "C" \in cpu'.st <=> e.c = 1
    BY <1>7, <1>8, <1>13, Zenon
  <2> QED BY <2>1, <2>2, Zenon
<1>15. ("OV" \in cpu'.st) = (IF op = "SLA" THEN e.ov ELSE "OV" \in cpu.st)
  <2>1. ("OV" \in cpu'.st) \in BOOLEAN /\ ("OV" \in cpu.st) \in BOOLEAN
    OBVIOUS
  <2>2. CASE op = "SLA"
    <3>1. "OV" \in cpu'.st <=> e.ov
      BY <1>7, <1>8, <1>13, <2>2, Zenon
    <3>2. ("OV" \in cpu'.st) = e.ov
      BY <1>13, <2>1, <3>1, Zenon
    <3> QED BY <2>2, <3>2, Zenon
  <2>3. CASE op # "SLA"
    <3>1. ("OV" \in cpu'.st) = ("OV" \in cpu.st)
      BY <1>3, <1>7, <1>8, <2>3
    <3> QED BY <2>3, <3>1, Zenon
  <2> QED BY <2>2, <2>3
<1>16. GetReg(cpu', r) = e.v /\ FlagsTell(cpu'.st, Signed(e.v, Word))
  BY <1>7, <1>8, <1>13
<1> QED BY <1>11, <1>12, <1>14, <1>15, <1>16, Zenon
-----------------------------------------------------------------------------
(* One instruction of a PICO9918's arithmetic, executed on a machine.      *)
LEMMA ExecutedIsExact ==
  ASSUME NEW i, IsFields(i), IsMachine(cpu), ~cpu.f18a, cpu' = Execute(cpu, i)
  PROVE  /\ i.op \in SumOps => SumIsExact(i)
         /\ i.op \in ShiftOps => ShiftIsStepwise(i)
         /\ i.op \in {"MPY", "DIV"} => ProductIsExact(i)
<1>1. i.op # "X" => cpu' = Dispatch(Fetched(cpu), i)
  BY DEF Execute
<1>2. CASE i.op \in {"A", "AB", "S", "SB"}
  <2>1. cpu' = TwoOperand(Fetched(cpu), i)
    BY <1>1, <1>2 DEF Dispatch, ImmediateOps, JumpOps, ShiftOps, Format9Ops, StackOps, WordOps, ByteOps, SingleOps
  <2> QED BY <1>2, <2>1, TwoOperandSums DEF ShiftOps
<1>3. CASE i.op = "AI"
  <2>1. cpu' = Immediate(Fetched(cpu), i)
    BY <1>1, <1>3 DEF Dispatch, ImmediateOps, JumpOps, ShiftOps, Format9Ops, StackOps, WordOps, ByteOps, SingleOps
  <2> QED BY <1>3, <2>1, ImmediateSum DEF ShiftOps
<1>4. CASE i.op \in {"INC", "INCT", "DEC", "DECT", "NEG", "ABS"}
  <2>1. cpu' = Single(Fetched(cpu), i)
    BY <1>1, <1>4 DEF Dispatch, ImmediateOps, JumpOps, ShiftOps, Format9Ops, StackOps, WordOps, ByteOps, SingleOps
  <2>2. CASE i.op \in {"INC", "INCT", "DEC", "DECT"}
    BY <2>1, <2>2, CountingSums DEF ShiftOps
  <2>3. CASE i.op \in {"NEG", "ABS"}
    BY <2>1, <2>3, OppositeSums DEF ShiftOps
  <2> QED BY <1>4, <2>2, <2>3
<1>5. CASE i.op \in ShiftOps
  <2>1. cpu' = Shift(Fetched(cpu), i)
    BY <1>1, <1>5 DEF Dispatch, ImmediateOps, JumpOps, ShiftOps, Format9Ops, StackOps, WordOps, ByteOps, SingleOps
  <2>2. i.op \notin SumOps /\ i.op \notin {"MPY", "DIV"}
    BY <1>5 DEF SumOps, ShiftOps
  <2> QED BY <1>5, <2>1, <2>2, ShiftsStepwise
<1>6. CASE i.op \in {"MPY", "DIV"}
  <2>1. cpu' = Format9(Fetched(cpu), i)
    BY <1>1, <1>6 DEF Dispatch, ImmediateOps, JumpOps, ShiftOps, Format9Ops, StackOps, WordOps, ByteOps, SingleOps
  <2> QED BY <1>6, <2>1, ProductsExact DEF SumOps, ShiftOps
<1>7. i.op \in SumOps <=> i.op \in {"A", "AB", "S", "SB"} \/ i.op = "AI"
                         \/ i.op \in {"INC", "INCT", "DEC", "DECT", "NEG", "ABS"}
  BY DEF SumOps
<1> QED BY <1>2, <1>3, <1>4, <1>5, <1>6, <1>7

(* Every arithmetic instruction computes on integers: result, carry,       *)
(* overflow and order flags, for every program and wherever it is sliced.  *)
THEOREM ArithmeticExactHolds == Spec => ArithmeticExact
<1> DEFINE IsExact ==
      \A i \in Head(code) :
       (Executed(i) /\ ~cpu.f18a)
       => /\ i.op \in SumOps => SumIsExact(i)
          /\ i.op \in ShiftOps => ShiftIsStepwise(i)
          /\ i.op \in {"MPY", "DIV"} => ProductIsExact(i)
<1>1. ASSUME ProcessorInv, [Next]_vars PROVE IsExact
  <2>1. SUFFICES ASSUME NEW j \in Head(code), Executed(j), ~cpu.f18a
                 PROVE  /\ j.op \in SumOps => SumIsExact(j)
                        /\ j.op \in ShiftOps => ShiftIsStepwise(j)
                        /\ j.op \in {"MPY", "DIV"} => ProductIsExact(j)
    OBVIOUS
  <2>2. Ran
    BY <1>1, <2>1, Steps DEF SliceEnds, SliceStarts, vars, Executed
  <2>3. PICK i \in Head(code) : cpu' = Execute(cpu, i) /\ last' = <<i>>
    BY <2>2 DEF Ran
  <2>4. i = j /\ cpu = twin /\ code # <<>>
    BY <1>1, <2>1, <2>2, <2>3 DEF Executed, ProcessorInv, SlicedInv, Ran
  <2>5. IsMachine(cpu) /\ IsFields(j)
    BY <1>1, <2>4, StreamFacts DEF ProcessorInv, IsInstruction
  <2> QED BY <2>1, <2>3, <2>4, <2>5, ExecutedIsExact
<1> QED
  BY <1>1, Invariance, PTL DEF Spec, ArithmeticExact
=============================================================================
