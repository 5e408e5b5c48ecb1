--------------------------- MODULE Sprites_proofs ---------------------------
(***************************************************************************)
(* What a line's sprites show and report, proved for every scene, pattern  *)
(* table, line length and limit.  The drawing pass works on words, shifts  *)
(* and clips; the lemmas of the first part say that these are the pixels   *)
(* the positions give.  The second part counts: the collect pass keeps the *)
(* list's order, and a sprite's rank in it is what spritesShown reaches.   *)
(* The invariant relates the pass, row by row, to the sprites it has been  *)
(* at: what they cover is the mask, two on a pixel is the collision, and   *)
(* the first one over a pixel has coloured or hidden it.                   *)
(***************************************************************************)
EXTENDS TextLine, FiniteSetTheorems, WellFoundedInduction, TLAPS

(* A mask word and a line are positive numbers of pixels.                   *)
LEMMA ConstantTypes ==
  /\ Unit \in Nat /\ Unit > 0
  /\ LineWords \in Nat /\ LineWords > 0
  /\ Word \in Nat /\ Word = 4 * Unit
  /\ Pixels \in Nat /\ Pixels > 0
<1>1. Unit \in Nat /\ Unit > 0 /\ LineWords \in Nat /\ LineWords > 0
  BY UnitAssumption
<1>2. Word \in Nat /\ Word = 4 * Unit /\ Word > 0
  BY <1>1 DEF Word
<1>3. Pixels \in Nat /\ Pixels > 0
  BY <1>1, <1>2 DEF Pixels
<1> QED BY <1>1, <1>2, <1>3

(* The scene of the line, which no step changes.                            *)
SceneOK == scene \in Scenes

(* What SceneAssumption says of the scene a line is drawn from.             *)
LEMMA SceneTypes ==
  ASSUME SceneOK
  PROVE  /\ r \in SpriteRegisters
         /\ scene.list \in Seq(SpriteAttribute) /\ scene.y \in Nat
         /\ \A k \in 1 .. Len(scene.list) :
              32 * (scene.list[k].name \div 4) .. 32 * (scene.list[k].name \div 4) + 31 \subseteq DOMAIN Pattern[0]
         /\ Row30 \/ Line < 192
         /\ Line \in Nat
<1>1. /\ r \in SpriteRegisters
      /\ scene.list \in Seq(SpriteAttribute) /\ scene.y \in Nat
      /\ \A k \in 1 .. Len(scene.list) :
           32 * (scene.list[k].name \div 4) .. 32 * (scene.list[k].name \div 4) + 31 \subseteq DOMAIN Pattern[0]
  BY SceneAssumption DEF SceneOK, r
<1>2. Row30 \/ Line < 192
  BY SceneAssumption DEF SceneOK, r, Row30, Line
<1>3. Line \in Nat
  BY <1>1 DEF Line
<1> QED BY <1>1, <1>2, <1>3

(* The entries the collect pass walks are in the attribute table.           *)
LEMMA WalkedTypes ==
  ASSUME SceneOK, NEW k \in Walked
  PROVE  /\ k \in 1 .. Len(scene.list)
         /\ scene.list[k] \in SpriteAttribute
<1>1. r.maxSprites \in Nat /\ Len(scene.list) \in Nat /\ scene.list \in Seq(SpriteAttribute)
  BY SceneTypes DEF SpriteRegisters
<1>2. Min({r.maxSprites, Len(scene.list)}) \in {r.maxSprites, Len(scene.list)}
      /\ Min({r.maxSprites, Len(scene.list)}) <= Len(scene.list)
  <2>1. \E x \in {r.maxSprites, Len(scene.list)} : \A y \in {r.maxSprites, Len(scene.list)} : x <= y
    BY <1>1
  <2> QED BY <2>1 DEF Min
<1>3. k \in 1 .. Len(scene.list)
  BY <1>1, <1>2 DEF Walked
<1> QED BY <1>1, <1>3

(* On the lines the frame driver asks for, the row the collect pass finds   *)
(* (collectSpriteRows wraps y past the last line) is the position modulo 256.*)
LEMMA RowsAgree ==
  ASSUME SceneOK, NEW k \in Walked
  PROVE  /\ PattRow(k) \in Int
         /\ PattRow(k) \in 0 .. 31 <=> RowAt(k) \in 0 .. 31
         /\ PattRow(k) \in 0 .. 31 => RowAt(k) = PattRow(k)
         /\ RowAt(k) \in Int
<1> DEFINE y == scene.list[k].y
<1>1. y \in 0 .. 255 /\ Line \in Nat /\ Offset \in {0, 1}
  BY WalkedTypes, SceneTypes DEF SpriteAttribute, Offset
<1>2. CASE Row30
  <2>1. PattRow(k) = IF y > 240 - Offset THEN Line - Offset - (y - 256) ELSE Line - Offset - y
    BY <1>1, <1>2 DEF PattRow, Wrapped
  <2>2. RowAt(k) = PattRow(k)
    BY <1>2 DEF RowAt
  <2> HIDE DEF y
  <2> QED BY <1>1, <2>1, <2>2
<1>3. CASE ~Row30
  <2>1. Line < 192
    BY SceneTypes, <1>3
  <2>2. PattRow(k) = IF y > 224 - Offset THEN Line - Offset - (y - 256) ELSE Line - Offset - y
    BY <1>1, <1>3 DEF PattRow, Wrapped
  <2>3. RowAt(k) = (Line - Offset - y) % 256
    BY <1>3 DEF RowAt
  <2> HIDE DEF y
  <2> QED BY <1>1, <2>1, <2>2, <2>3
<1> QED BY <1>2, <1>3

(* The row the drawing pass gets for a sprite of the list.                  *)
RowFor(k) == [attr |-> scene.list[k], row |-> PattRow(k), index |-> k - 1]

(* The drawing pass reads the size, the flips and the doubling of a row as  *)
(* the specification reads them from the table.                             *)
LEMMA SizeAgrees ==
  ASSUME SceneOK, NEW k \in Walked
  PROVE  /\ Attr(RowFor(k)) = ListAttr(k)
         /\ ListAttr(k) \in SpriteAttribute
         /\ Size16(RowFor(k)) <=> Side(k) = 2
         /\ Side(k) \in {1, 2} /\ Mag \in {1, 2}
         /\ Height(RowFor(k)) = 8 * Side(k)
         /\ Width(RowFor(k)) = Side(k) * Unit * Mag
<1>1. scene.list[k] \in SpriteAttribute
  BY WalkedTypes
<1>2. Attr(RowFor(k)) = ListAttr(k)
  BY DEF Attr, ListAttr, RowFor
<1>3. ListAttr(k) \in SpriteAttribute
  <2>1. CASE r.unlocked
    BY <1>1, <2>1 DEF ListAttr
  <2>2. CASE ~r.unlocked
    <3>1. ListAttr(k) = [scene.list[k] EXCEPT !.flipX = FALSE, !.flipY = FALSE, !.big = FALSE]
      BY <2>2 DEF ListAttr
    <3> QED BY <1>1, <3>1 DEF SpriteAttribute
  <2> QED BY <2>1, <2>2
<1>4. Size16(RowFor(k)) <=> Side(k) = 2
  BY <1>2 DEF Size16, Side
<1>5. Side(k) \in {1, 2} /\ Mag \in {1, 2}
  BY DEF Side, Mag
<1>6. Height(RowFor(k)) = 8 * Side(k)
  BY <1>4, <1>5 DEF Height
<1>7. Width(RowFor(k)) = Side(k) * Unit * Mag
  BY <1>4, <1>5 DEF Width
<1> QED BY <1>2, <1>3, <1>4, <1>5, <1>6, <1>7

(* A sprite of the list is on the line exactly when the collect pass keeps it*)
(* and the drawing pass does not skip its row.                              *)
LEMMA HitIsKept ==
  ASSUME SceneOK, NEW k \in Walked
  PROVE  Hit(k) <=> Kept(k) /\ OnThisLine(RowFor(k))
<1>1. OnThisLine(RowFor(k)) <=> PattRow(k) \div Mag < 8 * Side(k)
  BY SizeAgrees DEF OnThisLine, RowFor
<1>2. /\ PattRow(k) \in Int /\ RowAt(k) \in Int
      /\ PattRow(k) \in 0 .. 31 <=> RowAt(k) \in 0 .. 31
      /\ PattRow(k) \in 0 .. 31 => RowAt(k) = PattRow(k)
  BY RowsAgree
<1>3. RowAt(k) \in 0 .. 31 <=> RowAt(k) < 32 /\ RowAt(k) >= 0
  BY <1>2
<1> QED BY <1>1, <1>2, <1>3 DEF Hit, Kept

(* The row of a sprite on the line is inside its pattern.                   *)
LEMMA HitTypes ==
  ASSUME SceneOK, NEW k \in HitList
  PROVE  /\ k \in Walked /\ RowAt(k) = PattRow(k) /\ PattRow(k) \in 0 .. 31
         /\ PattRow(k) \div Mag \in 0 .. 8 * Side(k) - 1
<1>1. k \in Walked /\ Hit(k)
  BY DEF HitList
<1>2. PattRow(k) \in 0 .. 31 /\ RowAt(k) = PattRow(k)
  BY <1>1, HitIsKept, RowsAgree DEF Kept
<1>3. PattRow(k) \div Mag < 8 * Side(k)
  BY <1>1, <1>2 DEF Hit
<1>4. Mag \in {1, 2} /\ Side(k) \in {1, 2}
  BY <1>1, SizeAgrees
<1> QED BY <1>1, <1>2, <1>3, <1>4

(* The byte of a row of the pattern, and the column of it, that Bit looks up.*)
RowByte(k) ==
  LET a   == ListAttr(k)
      row == IF a.flipY THEN 8 * Side(k) - 1 - RowAt(k) \div Mag ELSE RowAt(k) \div Mag
  IN (IF Side(k) = 2 THEN 4 * (a.name \div 4) ELSE a.name) * 8 + row

(* The bytes of that row are in the pattern table.                          *)
LEMMA RowByteInTable ==
  ASSUME SceneOK, NEW k \in HitList
  PROVE  /\ RowByte(k) \in DOMAIN Pattern[0]
         /\ Side(k) = 2 => RowByte(k) + 16 \in DOMAIN Pattern[0]
         /\ RowByte(k) \in Nat
<1> DEFINE name == scene.list[k].name
           y    == RowAt(k) \div Mag
<1>1. k \in Walked /\ y \in 0 .. 8 * Side(k) - 1
  BY HitTypes
<1>2. name \in Nat /\ ListAttr(k).name = name
  BY <1>1, WalkedTypes DEF SpriteAttribute, ListAttr
<1>3. Side(k) \in {1, 2}
  BY <1>1, SizeAgrees
<1>4. 32 * (name \div 4) .. 32 * (name \div 4) + 31 \subseteq DOMAIN Pattern[0]
  BY <1>1, WalkedTypes, SceneTypes
<1>5. PICK row \in 0 .. 8 * Side(k) - 1 :
        RowByte(k) = (IF Side(k) = 2 THEN 4 * (name \div 4) ELSE name) * 8 + row
  <2>1. RowByte(k) = (IF Side(k) = 2 THEN 4 * (name \div 4) ELSE name) * 8
                       + (IF ListAttr(k).flipY THEN 8 * Side(k) - 1 - y ELSE y)
    BY <1>2 DEF RowByte
  <2>2. 8 * Side(k) - 1 - y \in 0 .. 8 * Side(k) - 1
    <3> HIDE DEF y
    <3> QED BY <1>1, <1>3
  <2> HIDE DEF y, name
  <2> QED BY <1>1, <2>1, <2>2
<1> HIDE DEF name, y
<1>6. CASE Side(k) = 1
  <2>1. RowByte(k) = name * 8 + row /\ row \in 0 .. 7
    BY <1>5, <1>6
  <2>2. RowByte(k) \in 32 * (name \div 4) .. 32 * (name \div 4) + 31
    BY <1>2, <2>1
  <2> QED BY <1>4, <1>6, <2>2, <1>2, <2>1
<1>7. CASE Side(k) = 2
  <2>1. RowByte(k) = 32 * (name \div 4) + row /\ row \in 0 .. 15
    BY <1>2, <1>5, <1>7
  <2> QED BY <1>2, <1>4, <2>1
<1> QED BY <1>3, <1>6, <1>7

(* A byte of it holds Unit pixels.                                          *)
LEMMA PatternBytes ==
  ASSUME NEW p \in Planes, SceneOK, NEW a \in DOMAIN Pattern[0]
  PROVE  Pattern[p][a] \subseteq 0 .. Unit - 1
<1>1. r.ecm \in 0 .. 3
  BY SceneTypes DEF SpriteRegisters
<1>2. p \in 0 .. 2
  BY <1>1 DEF Planes, Ecm
<1> QED BY <1>2, PatternAssumption

(* The two halves of a 16-pixel row.                                        *)
LEMMA Halves ==
  ASSUME NEW c \in 0 .. 2 * Unit - 1
  PROVE  /\ c < Unit => c % Unit = c /\ c \div Unit = 0
         /\ c >= Unit => c % Unit = c - Unit /\ c \div Unit = 1
  BY UnitAssumption

(* What a plane's two words hold is what its pattern says, column by column.*)
LEMMA LoadedIsPattern ==
  ASSUME SceneOK, NEW k \in HitList, NEW p \in Planes
  PROVE  /\ Loaded(RowFor(k), p) \subseteq 0 .. Side(k) * Unit - 1
         /\ \A x : Column(k, x) \in 0 .. Side(k) * Unit - 1
                    => (Bit(k, p, x) <=> Column(k, x) \in Loaded(RowFor(k), p))
<1> DEFINE a    == ListAttr(k)
           f    == RowByte(k)
           P(d) == Pattern[p][d]
           col(x) == IF a.flipX THEN Side(k) * Unit - 1 - Column(k, x) ELSE Column(k, x)
<1>1. k \in Walked /\ RowAt(k) = PattRow(k)
  BY HitTypes
<1>2. /\ Attr(RowFor(k)) = a /\ Height(RowFor(k)) = 8 * Side(k)
      /\ Size16(RowFor(k)) <=> Side(k) = 2
      /\ Side(k) \in {1, 2} /\ a.name = scene.list[k].name
      /\ RowFor(k).attr.name = a.name /\ RowFor(k).row = PattRow(k)
  <2>1. a.name = scene.list[k].name
    BY <1>1, WalkedTypes DEF ListAttr, SpriteAttribute
  <2> QED BY <1>1, <2>1, SizeAgrees DEF RowFor
<1>3. Unit \in Nat /\ Unit > 0
  BY UnitAssumption
<1>4. /\ P(f) \subseteq 0 .. Unit - 1
      /\ Side(k) = 2 => P(f + 16) \subseteq 0 .. Unit - 1
  BY RowByteInTable, PatternBytes
<1>5. \A x : Bit(k, p, x) <=> col(x) % Unit \in P(f + 16 * (col(x) \div Unit))
  BY DEF Bit, RowByte
<1>6. Loaded(RowFor(k), p) =
        IF Side(k) = 1 THEN IF a.flipX THEN Reversed(P(f)) ELSE P(f)
        ELSE IF a.flipX THEN Right(Reversed(P(f)), Unit) \cup Reversed(P(f + 16))
        ELSE P(f) \cup Right(P(f + 16), Unit)
  <2> DEFINE first == (IF Size16(RowFor(k)) THEN 4 * (a.name \div 4) ELSE a.name) * 8
                        + (IF a.flipY THEN 8 * Side(k) - PattRow(k) \div Mag - 1 ELSE PattRow(k) \div Mag)
             side(d) == IF a.flipX THEN Reversed(P(d)) ELSE P(d)
  <2>1. PattRow(k) \div Mag \in Int
    BY HitTypes
  <2>2. 8 * Side(k) - PattRow(k) \div Mag - 1 = 8 * Side(k) - 1 - PattRow(k) \div Mag
    BY <1>2, <2>1
  <2>3. first = f
    BY <1>1, <1>2, <2>2 DEF RowByte
  <2>4. Loaded(RowFor(k), p) =
          IF ~Size16(RowFor(k)) THEN side(first)
          ELSE IF a.flipX THEN Right(side(first), Unit) \cup side(first + 16)
          ELSE side(first) \cup Right(side(first + 16), Unit)
    BY <1>2 DEF Loaded
  <2>5. Loaded(RowFor(k), p) =
          IF ~Size16(RowFor(k)) THEN side(f)
          ELSE IF a.flipX THEN Right(side(f), Unit) \cup side(f + 16)
          ELSE side(f) \cup Right(side(f + 16), Unit)
    BY <2>3, <2>4
  <2>6. ~Size16(RowFor(k)) <=> Side(k) = 1
    BY <1>2
  <2> HIDE DEF first, a, f
  <2>7. CASE a.flipX
    BY <2>5, <2>6, <2>7, Zenon
  <2>8. CASE ~a.flipX
    BY <2>5, <2>6, <2>8, Zenon
  <2> QED BY <2>7, <2>8
<1> HIDE DEF a, f
<1>7. CASE Side(k) = 1
  <2>1. Loaded(RowFor(k), p) = IF a.flipX THEN Reversed(P(f)) ELSE P(f)
    BY <1>6, <1>7
  <2>2. f + 16 * 0 = f /\ f \in Nat
    BY RowByteInTable DEF f
  <2>3. \A x : Column(k, x) \in 0 .. Unit - 1 => (Bit(k, p, x) <=> col(x) \in P(f))
    <3> TAKE x
    <3> HAVE Column(k, x) \in 0 .. Unit - 1
    <3>1. col(x) \in 0 .. Unit - 1
      BY <1>3, <1>7
    <3>2. col(x) % Unit = col(x) /\ col(x) \div Unit = 0
      BY <1>3, <3>1, Halves
    <3> QED BY <1>5, <2>2, <3>2
  <2> QED BY <1>3, <1>4, <1>7, <2>1, <2>3 DEF Reversed
<1>8. CASE Side(k) = 2
  <2>1. Loaded(RowFor(k), p) = IF a.flipX THEN Right(Reversed(P(f)), Unit) \cup Reversed(P(f + 16))
                              ELSE P(f) \cup Right(P(f + 16), Unit)
    BY <1>6, <1>8
  <2>2. f + 16 * 0 = f /\ f + 16 * 1 = f + 16 /\ f \in Nat
    BY RowByteInTable DEF f
  <2>3. \A x : Column(k, x) \in 0 .. 2 * Unit - 1
               => (Bit(k, p, x) <=> IF col(x) < Unit THEN col(x) \in P(f) ELSE col(x) - Unit \in P(f + 16))
    <3> TAKE x
    <3> HAVE Column(k, x) \in 0 .. 2 * Unit - 1
    <3>1. col(x) \in 0 .. 2 * Unit - 1
      BY <1>3, <1>8
    <3>2. /\ col(x) < Unit => col(x) % Unit = col(x) /\ col(x) \div Unit = 0
          /\ col(x) >= Unit => col(x) % Unit = col(x) - Unit /\ col(x) \div Unit = 1
      BY <3>1, Halves
    <3>3. CASE col(x) < Unit
      BY <1>5, <2>2, <3>2, <3>3
    <3>4. CASE ~(col(x) < Unit)
      BY <1>3, <1>5, <2>2, <3>1, <3>2, <3>4
    <3> QED BY <3>3, <3>4
  <2>4. CASE a.flipX
    <3>1. Loaded(RowFor(k), p) = {o + Unit : o \in {Unit - 1 - q : q \in P(f)}} \cup {Unit - 1 - q : q \in P(f + 16)}
      BY <2>1, <2>4 DEF Right, Reversed
    <3>2. Loaded(RowFor(k), p) \subseteq 0 .. 2 * Unit - 1
      BY <1>3, <1>4, <1>8, <3>1
    <3>3. \A c \in 0 .. 2 * Unit - 1 :
            c \in Loaded(RowFor(k), p) <=> IF 2 * Unit - 1 - c < Unit THEN 2 * Unit - 1 - c \in P(f)
                                          ELSE 2 * Unit - 1 - c - Unit \in P(f + 16)
      <4> TAKE c \in 0 .. 2 * Unit - 1
      <4>1. CASE 2 * Unit - 1 - c < Unit
        <5>1. ASSUME NEW q \in P(f + 16) PROVE Unit - 1 - q # c
          BY <1>3, <1>4, <1>8, <4>1
        <5>2. c \in Loaded(RowFor(k), p) <=> \E q \in P(f) : (Unit - 1 - q) + Unit = c
          BY <3>1, <5>1
        <5>3. \A q \in P(f) : (Unit - 1 - q) + Unit = c <=> q = 2 * Unit - 1 - c
          BY <1>3, <1>4
        <5> QED BY <4>1, <5>2, <5>3
      <4>2. CASE ~(2 * Unit - 1 - c < Unit)
        BY <1>3, <1>4, <1>8, <3>1, <4>2
      <4> QED BY <4>1, <4>2
    <3> QED BY <1>8, <2>3, <2>4, <3>2, <3>3
  <2>5. CASE ~a.flipX
    <3>1. Loaded(RowFor(k), p) = P(f) \cup {o + Unit : o \in P(f + 16)}
      BY <2>1, <2>5 DEF Right
    <3>2. Loaded(RowFor(k), p) \subseteq 0 .. 2 * Unit - 1
      BY <1>3, <1>4, <1>8, <3>1
    <3>3. \A c \in 0 .. 2 * Unit - 1 :
            c \in Loaded(RowFor(k), p) <=> IF c < Unit THEN c \in P(f) ELSE c - Unit \in P(f + 16)
      BY <1>3, <1>4, <1>8, <3>1
    <3> QED BY <1>8, <2>3, <2>5, <3>2, <3>3
  <2> QED BY <2>4, <2>5
<1> QED BY <1>2, <1>7, <1>8

(* The sprite's bits, before doubling.                                      *)
Bits(s) == IF Opaque(s) THEN 0 .. 2 * Unit - 1 ELSE UNION {Loaded(s, p) : p \in Planes}

(* Before doubling, a sprite's bits are the pattern columns it covers.      *)
LEMMA BitsAreColumns ==
  ASSUME SceneOK, NEW k \in HitList
  PROVE  /\ Bits(RowFor(k)) \subseteq 0 .. Side(k) * Unit - 1
         /\ \A x : Covers(k, x) <=> Column(k, x) \in Bits(RowFor(k))
<1> DEFINE s == RowFor(k)
<1>1. k \in Walked /\ Attr(s) = ListAttr(k) /\ ListAttr(k) \in SpriteAttribute
  BY HitTypes, SizeAgrees
<1>2. Opaque(s) <=> r.size16 /\ ListAttr(k).big
  BY <1>1 DEF Opaque
<1>3. Opaque(s) => Side(k) = 2
  BY <1>2 DEF Side
<1>4. \A p \in Planes :
        /\ Loaded(s, p) \subseteq 0 .. Side(k) * Unit - 1
        /\ \A x : Column(k, x) \in 0 .. Side(k) * Unit - 1
                   => (Bit(k, p, x) <=> Column(k, x) \in Loaded(s, p))
  BY LoadedIsPattern
<1> HIDE DEF s
<1>5. CASE Opaque(s)
  BY <1>2, <1>3, <1>5 DEF Bits, Covers, s
<1>6. CASE ~Opaque(s)
  <2>1. Bits(s) = UNION {Loaded(s, p) : p \in Planes}
    BY <1>6 DEF Bits
  <2>2. \A x : Covers(k, x) <=> /\ Column(k, x) \in 0 .. Side(k) * Unit - 1
                                /\ \E p \in Planes : Bit(k, p, x)
    BY <1>2, <1>6 DEF Covers
  <2> QED BY <1>4, <2>1, <2>2 DEF s
<1> QED BY <1>5, <1>6

(* Doubled, they are its pixels, counted from its left edge.                *)
LEMMA MaskIsCover ==
  ASSUME SceneOK, NEW k \in HitList
  PROVE  /\ XPos(RowFor(k)) \in Int
         /\ WholeMask(RowFor(k)) \subseteq 0 .. Width(RowFor(k)) - 1
         /\ Width(RowFor(k)) \in Nat /\ Width(RowFor(k)) <= Word
         /\ \A x \in Int : /\ Column(k, x) = (x - XPos(RowFor(k))) \div Mag
                           /\ Covers(k, x) <=> x - XPos(RowFor(k)) \in WholeMask(RowFor(k))
<1> DEFINE s == RowFor(k)
<1>1. k \in Walked /\ scene.list[k].x \in Nat /\ s.attr = scene.list[k]
  BY HitTypes, WalkedTypes DEF SpriteAttribute, RowFor
<1>2. Word \in Nat /\ Unit \in Nat /\ Unit > 0 /\ Word = 4 * Unit
  BY ConstantTypes
<1>3. XPos(s) = scene.list[k].x - (IF scene.list[k].early THEN Word ELSE 0)
  BY <1>1 DEF XPos
<1>4. XPos(s) \in Int
  BY <1>1, <1>2, <1>3
<1>5. Side(k) \in {1, 2} /\ Mag \in {1, 2} /\ Width(s) = Side(k) * Unit * Mag
  BY <1>1, SizeAgrees
<1>6. \A x \in Int : Column(k, x) = (x - XPos(s)) \div Mag
  <2> TAKE x \in Int
  <2>1. x - scene.list[k].x + (IF scene.list[k].early THEN Word ELSE 0) = x - XPos(s)
    BY <1>1, <1>2, <1>3
  <2> QED BY <2>1 DEF Column
<1>7. /\ Bits(s) \subseteq 0 .. Side(k) * Unit - 1
      /\ \A x : Covers(k, x) <=> Column(k, x) \in Bits(s)
  BY BitsAreColumns
<1>8. WholeMask(s) = IF r.mag THEN UNION {{2 * o, 2 * o + 1} : o \in Bits(s)} ELSE Bits(s)
  BY DEF WholeMask, Bits, Doubled
<1> HIDE DEF s
<1>9. CASE r.mag
  <2>1. Mag = 2 /\ WholeMask(s) = UNION {{2 * o, 2 * o + 1} : o \in Bits(s)}
    BY <1>8, <1>9 DEF Mag
  <2>2. \A c \in Int : c \in WholeMask(s) <=> c \div 2 \in Bits(s)
    <3> TAKE c \in Int
    <3>1. \A o \in Bits(s) : c \in {2 * o, 2 * o + 1} <=> o = c \div 2
      BY <1>7
    <3> QED BY <2>1, <3>1
  <2>3. WholeMask(s) \subseteq 0 .. Width(s) - 1
    BY <1>2, <1>5, <1>7, <2>1
  <2>4. \A x \in Int : Covers(k, x) <=> x - XPos(s) \in WholeMask(s)
    BY <1>4, <1>6, <1>7, <2>1, <2>2
  <2> QED BY <1>2, <1>4, <1>5, <1>6, <2>3, <2>4 DEF s
<1>10. CASE ~r.mag
  <2>1. Mag = 1 /\ WholeMask(s) = Bits(s)
    BY <1>8, <1>10 DEF Mag
  <2>2. \A x \in Int : (x - XPos(s)) \div Mag = x - XPos(s)
    BY <1>4, <2>1
  <2>3. \A x \in Int : Covers(k, x) <=> x - XPos(s) \in WholeMask(s)
    BY <1>6, <1>7, <2>1, <2>2
  <2> QED BY <1>2, <1>4, <1>5, <1>6, <1>7, <2>1, <2>3 DEF s
<1> QED BY <1>9, <1>10

(* The pixels of the line a sprite covers.                                  *)
Area(k) == {x \in Columns : Covers(k, x)}

(* Shift, clip and the two words of the mask leave exactly those pixels.    *)
LEMMA MaskIsArea ==
  ASSUME SceneOK, ~ShiftWraps, NEW k \in HitList
  PROVE  /\ {At(RowFor(k)) + o : o \in PattMask(RowFor(k))} = Area(k)
         /\ Spread(RowFor(k), PattMask(RowFor(k))) = Area(k)
         /\ OffTheLine(RowFor(k)) => Area(k) = {}
         /\ WholeMask(RowFor(k)) = {} => Area(k) = {}
         /\ PattMask(RowFor(k)) = {} => Area(k) = {}
<1> DEFINE s == RowFor(k)
           X == XPos(s)
           W == Width(s)
<1>1. /\ X \in Int /\ W \in Nat /\ W <= Word
      /\ WholeMask(s) \subseteq 0 .. W - 1
      /\ \A x \in Int : Covers(k, x) <=> x - X \in WholeMask(s)
  BY MaskIsCover
<1>2. Word \in Nat /\ Pixels \in Nat /\ Columns = 0 .. Pixels - 1
  BY ConstantTypes DEF Columns
<1>3. /\ Left(s) = IF X < 0 THEN -X ELSE 0
      /\ At(s) = IF X < 0 THEN 0 ELSE X
  BY DEF Left, At
<1>4. Left(s) \in Nat /\ At(s) \in Nat /\ At(s) - Left(s) = X
  BY <1>1, <1>3
<1>5. PattMask(s) = {o \in 0 .. Pixels - At(s) - 1 : o + Left(s) \in WholeMask(s)}
  <2>1. Drop(WholeMask(s), Left(s)) = {q - Left(s) : q \in {v \in WholeMask(s) : v >= Left(s)}}
    BY DEF Drop
  <2>2. Left(s) = Word => Drop(WholeMask(s), Left(s)) = {}
    <3> HIDE DEF s, X, W
    <3> QED BY <1>1, <1>2, <2>1
  <2>3. PattMask(s) = Drop(WholeMask(s), Left(s)) \cap 0 .. Pixels - At(s) - 1
    BY <2>2 DEF PattMask
  <2> HIDE DEF s, X, W
  <2>4. ASSUME NEW o \in 0 .. Pixels - At(s) - 1
        PROVE  o \in Drop(WholeMask(s), Left(s)) <=> o + Left(s) \in WholeMask(s)
    <3>1. o \in Nat /\ Left(s) \in Nat
      BY <1>2, <1>4, <2>4
    <3>2. \A q \in Int : q - Left(s) = o <=> q = o + Left(s)
      BY <3>1
    <3>3. WholeMask(s) \subseteq Int
      BY <1>1
    <3>4. o + Left(s) >= Left(s)
      BY <3>1
    <3> QED BY <2>1, <3>2, <3>3, <3>4
  <2> QED BY <2>3, <2>4
<1> HIDE DEF s, X, W
<1>6. {At(s) + o : o \in PattMask(s)} = Area(k)
  <2>1. ASSUME NEW o \in PattMask(s) PROVE At(s) + o \in Area(k)
    <3>1. o \in 0 .. Pixels - At(s) - 1 /\ o + Left(s) \in WholeMask(s)
      BY <1>5
    <3>2. At(s) + o \in 0 .. Pixels - 1 /\ At(s) + o \in Int
      BY <1>2, <1>4, <3>1
    <3>3. (At(s) + o) - X = o + Left(s)
      BY <1>1, <1>2, <1>4, <3>1
    <3> QED BY <1>1, <1>2, <3>1, <3>2, <3>3 DEF Area
  <2>2. ASSUME NEW x \in Area(k) PROVE x - At(s) \in PattMask(s) /\ At(s) + (x - At(s)) = x
    <3>1. x \in Int /\ x >= 0 /\ x < Pixels /\ x - X \in WholeMask(s)
      BY <1>1, <1>2 DEF Area
    <3>2. x - At(s) >= 0 /\ x - At(s) < Pixels - At(s)
      BY <1>1, <1>2, <1>3, <1>4, <3>1
    <3>3. (x - At(s)) + Left(s) = x - X
      BY <1>1, <1>4, <3>1
    <3>4. x - At(s) \in 0 .. Pixels - At(s) - 1
      BY <1>2, <1>4, <3>1, <3>2
    <3> QED BY <1>4, <1>5, <3>1, <3>3, <3>4
  <2> QED BY <2>1, <2>2
<1>7. Spread(s, PattMask(s)) = {At(s) + o : o \in PattMask(s)}
  <2> DEFINE bit == At(s) % Word
             cw  == ClippedWidth(s)
             u   == W - Left(s)
             v   == Pixels - At(s)
  <2>1. u \in Int /\ v \in Int /\ cw = Min({u, v}) /\ bit \in Int
    <3>1. cw = Min({u, v})
      BY DEF ClippedWidth, W
    <3>2. bit \in Int
      BY ConstantTypes, <1>4
    <3>3. u \in Int /\ v \in Int
      <4>1. W \in Nat /\ Left(s) \in Nat /\ At(s) \in Nat /\ Pixels \in Nat
        BY <1>1, <1>2, <1>4
      <4> QED BY <4>1
    <3> QED BY <3>1, <3>2, <3>3
  <2>2. \A o \in PattMask(s) : o \in Nat /\ o < u /\ o < v
    <3> TAKE o \in PattMask(s)
    <3>1. o \in 0 .. Pixels - At(s) - 1 /\ o + Left(s) \in WholeMask(s)
      BY <1>5
    <3>2. o + Left(s) \in 0 .. W - 1
      BY <1>1, <3>1
    <3>3. W \in Nat /\ Left(s) \in Nat /\ At(s) \in Nat /\ Pixels \in Nat
      BY <1>1, <1>2, <1>4
    <3> QED BY <3>1, <3>2, <3>3
  <2> HIDE DEF u, v, cw, bit
  <2>3. cw \in {u, v}
    <3>1. \E x \in {u, v} : \A y \in {u, v} : x <= y
      BY <2>1
    <3> QED BY <2>1, <3>1 DEF Min
  <2>4. \A o \in PattMask(s) : bit + o < Word \/ Word - bit < cw
    BY <1>2, <2>1, <2>2, <2>3
  <2>5. {q \in PattMask(s) : bit + q < Word \/ Word - bit < cw} = PattMask(s)
    BY <2>4
  <2>6. Spread(s, PattMask(s))
          = {At(s) + o : o \in {q \in PattMask(s) : bit + q < Word \/ Word - bit < cw}}
    BY DEF Spread, bit, cw
  <2> QED BY <2>5, <2>6
<1>8. OffTheLine(s) => Area(k) = {}
  <2>1. SUFFICES ASSUME X > Pixels \/ -X > W, NEW x \in Columns PROVE ~Covers(k, x)
    BY DEF OffTheLine, Area, X, W
  <2>2. x \in Int /\ x >= 0 /\ x < Pixels
    BY <1>2
  <2>3. x - X \notin 0 .. W - 1
    BY <1>1, <1>2, <2>1, <2>2
  <2> QED BY <1>1, <2>2, <2>3
<1>9. WholeMask(s) = {} => Area(k) = {}
  BY <1>1, <1>2 DEF Area
<1> QED BY <1>6, <1>7, <1>8, <1>9 DEF s

(* A set of naturals that is not empty has a least element: strict subset is*)
(* well founded on the finite sets 0 .. x - 1.                              *)
LEMMA LeastNatural ==
  ASSUME NEW T, T \subseteq Nat, T # {}
  PROVE  \E x \in T : \A y \in T : x <= y
<1> DEFINE Below == {0 .. x - 1 : x \in T}
<1>1. Below \subseteq FiniteSubsetsOf(Nat) /\ Below # {}
  <2>1. ASSUME NEW x \in T PROVE 0 .. x - 1 \in FiniteSubsetsOf(Nat)
    <3>1. 0 .. x - 1 \subseteq Nat /\ x - 1 \in Int
      OBVIOUS
    <3>2. IsFiniteSet(0 .. x - 1)
      BY <3>1, FS_Interval
    <3> QED BY <3>1, <3>2 DEF FiniteSubsetsOf
  <2> QED BY <2>1
<1>2. PICK least \in Below : \A c \in Below : ~(<<c, least>> \in StrictSubsetOrdering(Nat))
  <2> HIDE DEF Below
  <2> QED BY <1>1, FS_StrictSubsetOrderingWellFounded, WFMin, Zenon
<1>3. PICK x \in T : least = 0 .. x - 1
  OBVIOUS
<1>4. ASSUME NEW y \in T, y < x PROVE FALSE
  <2>1. 0 .. y - 1 \in Below OBVIOUS
  <2>2. 0 .. y - 1 \subseteq 0 .. x - 1 /\ 0 .. x - 1 \subseteq Nat /\ 0..y-1 \subseteq Nat
    BY <1>4
  <2>3. y \in 0 .. x - 1 /\ y \notin 0 .. y - 1
    BY <1>4
  <2>4. <<0 .. y - 1, 0 .. x - 1>> \in StrictSubsetOrdering(Nat)
    <3>1. <<0 .. y - 1, 0 .. x - 1>> \in (SUBSET Nat) \X (SUBSET Nat)
      BY <2>2
    <3>2. 0 .. y - 1 # 0 .. x - 1 BY <2>3, Zenon
    <3> QED BY <2>2, <3>1, <3>2 DEF StrictSubsetOrdering
  <2> QED BY <2>1, <2>4, <1>2, <1>3
<1> QED BY <1>3, <1>4

CountTo(S, k) == Cardinality({j \in S : j <= k})

(* How many of a finite set come up to a number is a number.                *)
LEMMA CountFinite ==
  ASSUME NEW N \in Nat, NEW S \in SUBSET (1 .. N)
  PROVE  /\ IsFiniteSet(S) /\ Cardinality(S) \in Nat
         /\ \A k : /\ IsFiniteSet({j \in S : j <= k})
                  /\ CountTo(S, k) \in Nat /\ CountTo(S, k) <= Cardinality(S)
<1>1. IsFiniteSet(S)
  <2>1. IsFiniteSet(1 .. N)
    BY FS_Interval
  <2> QED BY <2>1, FS_Subset
<1>2. \A U \in SUBSET S : IsFiniteSet(U) /\ Cardinality(U) <= Cardinality(S) /\ Cardinality(U) \in Nat
  BY <1>1, FS_Subset, FS_CardinalityType
<1>3. Cardinality(S) \in Nat
  BY <1>1, FS_CardinalityType
<1> QED BY <1>1, <1>2, <1>3 DEF CountTo

(* One more number adds one to it, when that is in the set.                 *)
LEMMA CountStep ==
  ASSUME NEW N \in Nat, NEW S \in SUBSET (1 .. N), NEW k \in Nat
  PROVE  /\ CountTo(S, 0) = 0 /\ CountTo(S, N) = Cardinality(S)
         /\ CountTo(S, k + 1) = CountTo(S, k) + (IF k + 1 \in S THEN 1 ELSE 0)
<1>0. \A j \in S : j \in Nat /\ j >= 1 /\ j <= N
  OBVIOUS
<1>1. {j \in S : j <= 0} = {} /\ {j \in S : j <= N} = S
  <2>1. \A j \in S : ~(j <= 0) /\ j <= N
    BY <1>0
  <2> QED BY <2>1, Zenon
<1>2. {j \in S : j <= k + 1} = {j \in S : j <= k} \cup (IF k + 1 \in S THEN {k + 1} ELSE {})
  <2>1. \A j \in S : j <= k + 1 <=> j <= k \/ j = k + 1
    BY <1>0
  <2>2. k + 1 <= k + 1
    OBVIOUS
  <2> QED BY <2>1, <2>2, Zenon
<1>3. IsFiniteSet({j \in S : j <= k}) /\ CountTo(S, k) \in Nat
  BY CountFinite, Zenon
<1>6. CountTo(S, 0) = 0 /\ CountTo(S, N) = Cardinality(S)
  BY <1>1, FS_EmptySet DEF CountTo
<1>4. CASE k + 1 \in S
  <2>1. k + 1 \notin {j \in S : j <= k}
    OBVIOUS
  <2>2. {j \in S : j <= k + 1} = {j \in S : j <= k} \cup {k + 1}
    BY <1>2, <1>4
  <2>3. Cardinality({j \in S : j <= k} \cup {k + 1}) = Cardinality({j \in S : j <= k}) + 1
    BY <1>3, <2>1, FS_AddElement
  <2> QED BY <1>4, <1>6, <2>2, <2>3 DEF CountTo
<1>5. CASE k + 1 \notin S
  <2>1. {j \in S : j <= k + 1} = {j \in S : j <= k}
    BY <1>2, <1>5
  <2>2. CountTo(S, k + 1) = CountTo(S, k)
    BY <2>1 DEF CountTo
  <2> QED BY <1>3, <1>5, <1>6, <2>2
<1> QED BY <1>4, <1>5

(* Counting orders a set, and each number up to its size counts to someone. *)
LEMMA CountOrders ==
  ASSUME NEW N \in Nat, NEW S \in SUBSET (1 .. N)
  PROVE  /\ \A k \in S : CountTo(S, k) \in 1 .. Cardinality(S)
         /\ \A j, k \in S : j < k => CountTo(S, j) < CountTo(S, k)
         /\ \A i \in 1 .. Cardinality(S) : \E k \in S : CountTo(S, k) = i
<1>0. \A j \in S : j \in Nat /\ j >= 1 /\ j <= N
  OBVIOUS
<1>1. \A k : CountTo(S, k) \in Nat /\ CountTo(S, k) <= Cardinality(S) /\ Cardinality(S) \in Nat
  BY CountFinite, Zenon
<1>2. ASSUME NEW k \in S, NEW j \in Nat, j < k
      PROVE  CountTo(S, j) < CountTo(S, k)
  <2>1. {i \in S : i <= k} \ {i \in S : i <= j} # {} /\ {i \in S : i <= j} \subseteq {i \in S : i <= k}
    <3>1. k <= k /\ ~(k <= j) /\ \A i \in S : i <= j => i <= k
      BY <1>0, <1>2
    <3> QED BY <3>1, Zenon
  <2>2. IsFiniteSet({i \in S : i <= k})
    BY CountFinite
  <2>3. Cardinality({i \in S : i <= j}) <= Cardinality({i \in S : i <= k})
        /\ Cardinality({i \in S : i <= j}) # Cardinality({i \in S : i <= k})
    BY <2>1, <2>2, FS_Subset
  <2> QED BY <1>1, <1>2, <2>3 DEF CountTo
<1>3. ASSUME NEW k \in S PROVE CountTo(S, k) \in 1 .. Cardinality(S)
  <2>1. CountTo(S, 0) = 0 /\ 0 < k
    BY <1>0, CountStep
  <2> QED BY <1>1, <1>2, <2>1
<1>4. ASSUME NEW i \in 1 .. Cardinality(S) PROVE \E k \in S : CountTo(S, k) = i
  <2> DEFINE U == {k \in Nat : CountTo(S, k) >= i}
  <2>1. N \in U
    BY <1>1, CountStep
  <2>2. PICK k \in U : \A y \in U : k <= y
    <3>1. U \subseteq Nat /\ U # {}
      BY <2>1
    <3> HIDE DEF U
    <3> QED BY <3>1, LeastNatural
  <2>3. k # 0 /\ k \in Nat /\ CountTo(S, k) >= i
    BY CountStep
  <2>4. k - 1 \in Nat /\ (k - 1) + 1 = k /\ k - 1 \notin U
    BY <2>2, <2>3
  <2>5. CountTo(S, k - 1) < i
    BY <1>1, <2>4
  <2>6. CountTo(S, k) = CountTo(S, k - 1) + (IF k \in S THEN 1 ELSE 0)
    <3> DEFINE q == k - 1
    <3>1. q \in Nat /\ q + 1 = k
      BY <2>4
    <3> HIDE DEF q
    <3>2. CountTo(S, q + 1) = CountTo(S, q) + (IF q + 1 \in S THEN 1 ELSE 0)
      BY <3>1, CountStep
    <3>3. CountTo(S, k) = CountTo(S, q) + (IF k \in S THEN 1 ELSE 0)
      BY <3>1, <3>2
    <3> QED BY <3>3 DEF q
  <2> QED BY <1>1, <2>3, <2>4, <2>5, <2>6
<1> QED BY <1>2, <1>3, <1>4
-----------------------------------------------------------------------------
(* The inductive invariant *)

(* The sprite of the list that a row is of.                                 *)
Nth(j) == rows[j].index + 1

(* The rows are the kept sprites, all of them, in list order.               *)
RowsInv ==
  /\ Len(rows) \in Nat
  /\ \A j \in 1 .. Len(rows) : Nth(j) \in Walked /\ Kept(Nth(j)) /\ rows[j] = RowFor(Nth(j))
  /\ \A i, j \in 1 .. Len(rows) : i < j => Nth(i) < Nth(j)
  /\ \A k \in Walked : Kept(k) => \E j \in 1 .. Len(rows) : Nth(j) = k

(* The sprites on the line the drawing pass has been at, and the ones of    *)
(* them it took.                                                           *)
Seen  == {k \in HitList : \E j \in 1 .. n - 1 : Nth(j) = k}
Taken == Seen \cap Shown

(* What spritesShown counts, until the sprite past the limit ends the list. *)
CountInv ==
  /\ n \in 1 .. Len(rows) + 1 /\ spritesShown \in Nat
  /\ spritesShown = Cardinality(Seen) \/ (n = Len(rows) + 1 /\ PastTheLimit(spritesShown))

(* The rank the fifth-sprite status waits for.                              *)
Last == IF r.unlocked /\ r.reportMax THEN Max({ScanLimit, r.limit}) ELSE ScanLimit

FifthInv ==
  IF tempStatus.fifth = NoFifth THEN spritesShown <= Last
  ELSE \E k \in HitList : Rank(k) = Last + 1 /\ tempStatus.fifth = k - 1

(* The mask holds what the taken sprites cover; a collision is two of them  *)
(* on one pixel.                                                           *)
MaskInv ==
  /\ spriteBits = {x \in Columns : \E k \in Taken : Covers(k, x)}
  /\ tempStatus.collision <=>
       \E x \in Columns : \E j, k \in Taken : j # k /\ Covers(j, x) /\ Covers(k, x)

(* The first of the taken sprites over a pixel.                             *)
First(k, x) == k \in Taken /\ Covers(k, x) /\ \A j \in Taken : Covers(j, x) => k <= j

(* It is the one whose colour the pixel has, or that hides it.              *)
PixelInv ==
  /\ transparent \subseteq spriteBits
  /\ \A x \in Columns \ spriteBits : pixels[x] = Beneath
  /\ \A x \in Columns : \A k \in Taken :
       First(k, x) =>
         IF Drawn(RowFor(k))
         THEN x \notin transparent /\ pixels[x] = Emitted(RowFor(k), x) /\ hasSprites
         ELSE x \in transparent /\ pixels[x] = Beneath

Clear ==
  /\ rows = <<>> /\ n = 1 /\ spritesShown = 0
  /\ tempStatus = [collision |-> FALSE, fifth |-> NoFifth]
  /\ spriteBits = {} /\ transparent = {} /\ hasSprites = FALSE
  /\ \A x \in Columns : pixels[x] = Beneath

SpriteInv ==
  /\ SceneOK
  /\ tempStatus \in [collision : BOOLEAN, fifth : Int] /\ hasSprites \in BOOLEAN
  /\ pc = "collect" => Clear
  /\ pc = "draw" => RowsInv /\ CountInv /\ FifthInv /\ MaskInv /\ PixelInv
  /\ SpriteStatus /\ SpriteLine

-----------------------------------------------------------------------------
(* Lemmas of the invariant *)

(* The sprites on the line are finitely many and ranked in list order.      *)
LEMMA HitRanks ==
  ASSUME SceneOK
  PROVE  /\ IsFiniteSet(HitList) /\ Cardinality(HitList) \in Nat
         /\ HitList \subseteq Walked /\ Walked \subseteq Nat \ {0}
         /\ \A k \in HitList : Rank(k) \in 1 .. Cardinality(HitList)
         /\ \A j, k \in HitList : j < k => Rank(j) < Rank(k)
         /\ \A i \in 1 .. Cardinality(HitList) : \E k \in HitList : Rank(k) = i
<1> DEFINE N == Len(scene.list)
<1>1. N \in Nat
  BY SceneTypes
<1>2. Walked \subseteq 1 .. N /\ HitList \subseteq Walked
  BY WalkedTypes DEF HitList
<1>3. HitList \in SUBSET (1 .. N)
  BY <1>2
<1> HIDE DEF N
<1>4. \A k : Rank(k) = CountTo(HitList, k)
  BY DEF Rank, CountTo
<1>5. /\ \A k \in HitList : CountTo(HitList, k) \in 1 .. Cardinality(HitList)
      /\ \A j, k \in HitList : j < k => CountTo(HitList, j) < CountTo(HitList, k)
      /\ \A i \in 1 .. Cardinality(HitList) : \E k \in HitList : CountTo(HitList, k) = i
  BY <1>1, <1>3, CountOrders
<1>6. IsFiniteSet(HitList) /\ Cardinality(HitList) \in Nat
  BY <1>1, <1>3, CountFinite
<1>7. Walked \subseteq Nat \ {0}
  BY <1>1, <1>2
<1> QED BY <1>2, <1>4, <1>5, <1>6, <1>7

(* The limit in force, as the drawing pass tests it and as a rank.          *)
LEMMA TheLimit ==
  ASSUME SceneOK
  PROVE  /\ ScanLimit \in Nat /\ r.limit \in Nat /\ Last \in Nat
         /\ \A c \in Nat : c <= Max({ScanLimit, r.limit}) <=> ~PastTheLimit(c)
         /\ \A c \in Nat : PastTheLimit(c) => c > Last
         /\ \A c \in Nat : c > Last <=> c > ScanLimit /\ (~(r.unlocked /\ r.reportMax) \/ c > r.limit)
<1> DEFINE M == Max({ScanLimit, r.limit})
<1>1. ScanLimit \in Nat /\ r.limit \in Nat
  BY LimitAssumption, SceneTypes DEF SpriteRegisters
<1>2. M \in {ScanLimit, r.limit} /\ M >= ScanLimit /\ M >= r.limit
  <2>1. \E x \in {ScanLimit, r.limit} : \A y \in {ScanLimit, r.limit} : x >= y
    BY <1>1
  <2> QED BY <2>1 DEF Max
<1>3. Last = IF r.unlocked /\ r.reportMax THEN M ELSE ScanLimit
  BY DEF Last
<1> HIDE DEF M
<1>4. /\ Last \in Nat
      /\ \A c \in Nat : c <= M <=> ~PastTheLimit(c)
      /\ \A c \in Nat : PastTheLimit(c) => c > Last
      /\ \A c \in Nat : c > Last <=> c > ScanLimit /\ (~(r.unlocked /\ r.reportMax) \/ c > r.limit)
  BY <1>1, <1>2, <1>3 DEF PastTheLimit
<1> QED BY <1>1, <1>4 DEF M

(* What the scene alone determines stays while the scene does.              *)
LEMMA SceneFixed ==
  ASSUME scene' = scene
  PROVE  /\ SceneOK' = SceneOK /\ Walked' = Walked /\ HitList' = HitList /\ Shown' = Shown /\ Last' = Last
         /\ \A k : Kept(k)' = Kept(k) /\ RowFor(k)' = RowFor(k) /\ Rank(k)' = Rank(k)
         /\ \A k, x : Covers(k, x)' = Covers(k, x)
         /\ \A c : PastTheLimit(c)' = PastTheLimit(c)
<1>1. r' = r /\ Row30' = Row30 /\ Offset' = Offset /\ Line' = Line /\ SceneOK' = SceneOK /\ Mag' = Mag
  BY DEF r, Row30, Offset, Line, SceneOK, Mag
<1>2. Walked' = Walked
  BY <1>1 DEF Walked, ListEnd
<1>3. \A k : PattRow(k)' = PattRow(k)
  BY <1>1 DEF PattRow, Wrapped
<1>4. \A k : Kept(k)' = Kept(k) /\ RowFor(k)' = RowFor(k)
  BY <1>1, <1>3 DEF Kept, RowFor
<1>5. \A k : Side(k)' = Side(k) /\ ListAttr(k)' = ListAttr(k) /\ RowAt(k)' = RowAt(k)
  BY <1>1, <1>3 DEF Side, ListAttr, RowAt
<1>6. HitList' = HitList
  BY <1>1, <1>2, <1>5 DEF HitList, Hit
<1>7. \A k : Rank(k)' = Rank(k)
  BY <1>6 DEF Rank
<1>8. Shown' = Shown
  BY <1>1, <1>6, <1>7 DEF Shown
<1>9. \A k, x : Column(k, x)' = Column(k, x)
  BY <1>1 DEF Column
<1>10. \A k, x : Covers(k, x)' = Covers(k, x)
  <2>1. Planes' = Planes
    BY <1>1 DEF Planes, Ecm
  <2>2. \A k, p, x : Bit(k, p, x)' = Bit(k, p, x)
    BY <1>1, <1>5, <1>9 DEF Bit
  <2> QED BY <1>1, <1>5, <1>9, <2>1, <2>2 DEF Covers
<1>11. Last' = Last /\ \A c : PastTheLimit(c)' = PastTheLimit(c)
  BY <1>1 DEF Last, PastTheLimit
<1> QED BY <1>1, <1>2, <1>4, <1>6, <1>7, <1>8, <1>10, <1>11

(* So do the colours a sprite draws.                                        *)
LEMMA ColoursFixed ==
  ASSUME scene' = scene
  PROVE  /\ \A k : Drawn(RowFor(k))' = Drawn(RowFor(k))
         /\ \A k, x : Emitted(RowFor(k), x)' = Emitted(RowFor(k), x)
<1>1. r' = r /\ Mag' = Mag /\ Ecm' = Ecm /\ Pal' = Pal /\ Planes' = Planes
  BY DEF r, Mag, Ecm, Pal, Planes
<1>2. \A k : RowFor(k)' = RowFor(k)
  BY SceneFixed
<1>3. \A k : Drawn(RowFor(k))' = Drawn(RowFor(k))
  BY <1>1, <1>2 DEF Drawn
<1>4. \A k : /\ Base(RowFor(k))' = Base(RowFor(k)) /\ At(RowFor(k))' = At(RowFor(k))
             /\ Left(RowFor(k))' = Left(RowFor(k))
  BY <1>1, <1>2 DEF Base, At, Left, XPos
<1>5. \A k : /\ Attr(RowFor(k))' = Attr(RowFor(k)) /\ Size16(RowFor(k))' = Size16(RowFor(k))
             /\ Height(RowFor(k))' = Height(RowFor(k))
  BY <1>1, <1>2 DEF Attr, Size16, Height
<1>6. \A k, p : Loaded(RowFor(k), p)' = Loaded(RowFor(k), p)
  <2> TAKE k, p
  <2>1. /\ RowFor(k)' = RowFor(k) /\ Attr(RowFor(k))' = Attr(RowFor(k))
        /\ Size16(RowFor(k))' = Size16(RowFor(k)) /\ Height(RowFor(k))' = Height(RowFor(k))
    BY <1>2, <1>5
  <2> QED BY <1>1, <2>1, Zenon DEF Loaded
<1>7. \A k, p : PlaneBits(RowFor(k), p)' = PlaneBits(RowFor(k), p)
  BY <1>1, <1>4, <1>6 DEF PlaneBits
<1>8. \A k, x : Emitted(RowFor(k), x)' = Emitted(RowFor(k), x)
  <2> TAKE k, x
  <2>1. /\ Base(RowFor(k))' = Base(RowFor(k)) /\ At(RowFor(k))' = At(RowFor(k))
        /\ \A p : PlaneBits(RowFor(k), p)' = PlaneBits(RowFor(k), p)
    BY <1>4, <1>7
  <2> DEFINE ps == {q \in Planes : (x - At(RowFor(k))) \div Mag \in PlaneBits(RowFor(k), q)}
  <2>2. ps' = ps
    BY <1>1, <2>1
  <2>3. Emitted(RowFor(k), x) = IF Ecm = 0 THEN Base(RowFor(k)) ELSE Base(RowFor(k)) + Spelt(ps)
    BY Zenon DEF Emitted
  <2>4. Emitted(RowFor(k), x)' = IF Ecm' = 0 THEN Base(RowFor(k))' ELSE Base(RowFor(k))' + Spelt(ps')
    BY Zenon DEF Emitted, Spelt
  <2>5. Spelt(ps') = Spelt(ps)
    BY <2>2, Zenon
  <2> HIDE DEF ps
  <2> QED BY <1>1, <2>1, <2>3, <2>4, <2>5
<1> QED BY <1>3, <1>8

(* The row the pass is at: its sprite is next in the list's order.          *)
LEMMA NextRow ==
  ASSUME SceneOK, RowsInv, n \in 1 .. Len(rows)
  PROVE  /\ Nth(n) \in Walked /\ rows[n] = RowFor(Nth(n))
         /\ Nth(n) \in HitList <=> OnThisLine(rows[n])
         /\ {k \in HitList : \E j \in 1 .. n : Nth(j) = k}
              = IF Nth(n) \in HitList THEN Seen \cup {Nth(n)} ELSE Seen
         /\ \A j \in Seen : j < Nth(n)
         /\ \A i \in HitList : i < Nth(n) => i \in Seen
         /\ IsFiniteSet(Seen) /\ Cardinality(Seen) \in Nat
         /\ Nth(n) \in HitList => /\ Rank(Nth(n)) = Cardinality(Seen) + 1
                                 /\ Cardinality(Seen \cup {Nth(n)}) = Cardinality(Seen) + 1
<1> DEFINE k == Nth(n)
<1>1. k \in Walked /\ Kept(k) /\ rows[n] = RowFor(k) /\ Len(rows) \in Nat
  BY DEF RowsInv
<1>2. k \in HitList <=> OnThisLine(rows[n])
  BY <1>1, HitIsKept DEF HitList
<1>3. \A j \in 1 .. n - 1 : Nth(j) < k
  BY DEF RowsInv
<1>4. /\ IsFiniteSet(HitList) /\ HitList \subseteq Walked /\ Walked \subseteq Nat \ {0}
  BY HitRanks
<1>5. \A j \in Seen : j < k /\ j \in HitList
  BY <1>3 DEF Seen
<1>6. \A i \in HitList : i < k => i \in Seen
  <2> TAKE i \in HitList
  <2> HAVE i < k
  <2>1. i \in Walked /\ Kept(i) /\ i \in Nat
    BY <1>4, HitIsKept DEF HitList
  <2>2. PICK j \in 1 .. Len(rows) : Nth(j) = i
    BY <2>1 DEF RowsInv
  <2>3. ~(n < j) /\ n # j
    <3>1. n < j => k < i
      BY <1>1, <2>2 DEF RowsInv
    <3>2. k \in Nat /\ i \in Nat /\ i < k /\ i = Nth(j)
      BY <1>1, <1>4, <2>1, <2>2
    <3>3. ~(k < i) /\ k # i
      <4> HIDE DEF k
      <4> QED BY <3>2
    <3> QED BY <3>1, <3>2, <3>3, Zenon
  <2>4. j \in 1 .. n - 1
    BY <1>1, <2>2, <2>3
  <2> QED BY <2>2, <2>4 DEF Seen
<1>7. {i \in HitList : \E j \in 1 .. n : Nth(j) = i} = IF k \in HitList THEN Seen \cup {k} ELSE Seen
  <2>1. \A i : (\E j \in 1 .. n : Nth(j) = i) <=> (\E j \in 1 .. n - 1 : Nth(j) = i) \/ i = k
    <3>1. \A j : j \in 1 .. n <=> j \in 1 .. n - 1 \/ j = n
      BY <1>1
    <3> QED BY <3>1, Zenon
  <2> QED BY <2>1 DEF Seen
<1>8. IsFiniteSet(Seen) /\ Cardinality(Seen) \in Nat
  <2>1. Seen \in SUBSET HitList
    BY DEF Seen
  <2> QED BY <1>4, <2>1, FS_Subset, FS_CardinalityType
<1>9. ASSUME k \in HitList
      PROVE  Rank(k) = Cardinality(Seen) + 1 /\ Cardinality(Seen \cup {k}) = Cardinality(Seen) + 1
  <2>1. {i \in HitList : i <= k} = Seen \cup {k}
    <3>1. k \in Nat /\ HitList \subseteq Nat
      BY <1>1, <1>4
    <3>2. \A i \in HitList : i <= k <=> i \in Seen \/ i = k
      BY <1>5, <1>6, <3>1
    <3>3. Seen \subseteq HitList
      BY <1>5
    <3> HIDE DEF k
    <3> QED BY <1>9, <3>2, <3>3
  <2>2. k \notin Seen
    <3>1. k \in Nat
      BY <1>1, <1>4
    <3>2. ~(k < k)
      <4> HIDE DEF k
      <4> QED BY <3>1
    <3> QED BY <1>5, <3>2
  <2>3. Cardinality(Seen \cup {k}) = Cardinality(Seen) + 1
    BY <1>8, <2>2, FS_AddElement
  <2> QED BY <2>1, <2>3 DEF Rank
<1> QED BY <1>1, <1>2, <1>5, <1>6, <1>7, <1>8, <1>9

(* A pass at its end has been at every sprite on the line.                  *)
LEMMA AllSeen ==
  ASSUME SceneOK, RowsInv, n = Len(rows) + 1
  PROVE  Seen = HitList
<1>1. Len(rows) \in Nat /\ n - 1 = Len(rows)
  BY DEF RowsInv
<1>2. \A k \in HitList : \E j \in 1 .. Len(rows) : Nth(j) = k
  BY HitIsKept DEF HitList, RowsInv
<1> QED BY <1>1, <1>2 DEF Seen

(* A finite set has more than one element when two of them differ.          *)
LEMMA TwoElements ==
  ASSUME NEW S, IsFiniteSet(S)
  PROVE  Cardinality(S) > 1 <=> \E j, k \in S : j # k
<1>1. Cardinality(S) \in Nat /\ (Cardinality(S) = 0 <=> S = {}) /\ (Cardinality(S) = 1 <=> \E x : S = {x})
  BY FS_CardinalityType, FS_EmptySet, FS_Singleton
<1>2. (\E j, k \in S : j # k) <=> S # {} /\ ~\E x : S = {x}
  OBVIOUS
<1>3. Cardinality(S) > 1 <=> Cardinality(S) # 0 /\ Cardinality(S) # 1
  BY <1>1
<1> QED BY <1>1, <1>2, <1>3

(* SpriteStatus and SpriteLine of a finished line, by what they look at.    *)
StatusIs(status) ==
  /\ status.collision <=> \E x \in Columns : Cardinality(Over(x)) > 1
  /\ LET past == {k \in HitList : Rank(k) = Last + 1}
     IN status.fifth = IF past = {} THEN NoFifth ELSE Min(past) - 1

LineIs(mask, has, shown) ==
  /\ mask = {x \in Columns : Visible(x)}
  /\ ~has => mask = {}
  /\ \A x \in Columns :
       IF ~Visible(x) THEN shown[x] = Beneath
       ELSE IF HalfCut(Owner(x)) THEN shown[x] # Beneath
       ELSE shown[x] = Colour(Owner(x), x)

(* At the end of the drawing pass the status is the one the line should raise.*)
LEMMA FinalStatus ==
  ASSUME SceneOK, RowsInv, CountInv, FifthInv, MaskInv, n = Len(rows) + 1
  PROVE  StatusIs(tempStatus)
<1>1. /\ Seen = HitList /\ Taken = Shown /\ Shown \subseteq HitList
  BY AllSeen DEF Taken, Shown
<1>2. IsFiniteSet(HitList) /\ Cardinality(HitList) \in Nat /\ HitList \subseteq Nat \ {0}
  BY HitRanks
<1>3. tempStatus.collision <=> \E x \in Columns : Cardinality(Over(x)) > 1
  <2>1. \A x : Cardinality(Over(x)) > 1 <=> \E j, k \in Over(x) : j # k
    <3> TAKE x
    <3>1. Over(x) \in SUBSET HitList
      BY <1>1 DEF Over
    <3>2. IsFiniteSet(Over(x))
      BY <1>2, <3>1, FS_Subset
    <3> QED BY <3>2, TwoElements
  <2>2. \A x : (\E j, k \in Over(x) : j # k)
               <=> \E j, k \in Taken : j # k /\ Covers(j, x) /\ Covers(k, x)
    BY <1>1 DEF Over
  <2> QED BY <2>1, <2>2 DEF MaskInv
<1> DEFINE past == {k \in HitList : Rank(k) = Last + 1}
<1>4. tempStatus.fifth = IF past = {} THEN NoFifth ELSE Min(past) - 1
  <2>1. CASE tempStatus.fifth = NoFifth
    <3>1. spritesShown <= Last /\ spritesShown \in Nat /\ Last \in Nat
      BY <2>1, TheLimit DEF FifthInv, CountInv
    <3>2. ~PastTheLimit(spritesShown)
      BY <3>1, TheLimit
    <3>3. Cardinality(HitList) <= Last
      BY <1>1, <3>1, <3>2 DEF CountInv
    <3>4. \A k \in HitList : Rank(k) # Last + 1
      BY <1>2, <3>1, <3>3, HitRanks
    <3> QED BY <2>1, <3>4
  <2>2. CASE tempStatus.fifth # NoFifth
    <3>1. PICK k \in HitList : Rank(k) = Last + 1 /\ tempStatus.fifth = k - 1
      BY <2>2 DEF FifthInv
    <3>2. \A j \in HitList : Rank(j) = Last + 1 => j = k
      <4>1. \A j \in HitList : Rank(j) \in Nat /\ j \in Nat /\ (j < k => Rank(j) < Rank(k)) /\ (k < j => Rank(k) < Rank(j))
        BY <1>2, HitRanks
      <4> QED BY <1>2, <3>1, <4>1
    <3>3. past = {k}
      BY <3>1, <3>2
    <3>4. Min({k}) = k
      BY <1>2 DEF Min
    <3> HIDE DEF past
    <3> QED BY <3>1, <3>3, <3>4
  <2> QED BY <2>1, <2>2
<1> QED BY <1>3, <1>4 DEF StatusIs

(* The colour drawn at a pixel a sprite covers is that of its pattern column,*)
(* unless the left edge cuts one of its doubled pixels in half.             *)
LEMMA EmittedIsColour ==
  ASSUME SceneOK, NEW k \in HitList, NEW x \in Columns, Covers(k, x)
  PROVE  /\ Emitted(RowFor(k), x) # Beneath
         /\ ~HalfCut(k) => Emitted(RowFor(k), x) = Colour(k, x)
<1> DEFINE s == RowFor(k)
           X == XPos(s)
<1>1. /\ scene.list[k].colour \in Nat /\ scene.list[k].x \in Nat /\ s.attr = scene.list[k]
      /\ k \in Walked
  BY HitTypes, WalkedTypes DEF SpriteAttribute, RowFor
<1>2. Ecm \in {0, 1, 2, 3} /\ Pal \in Nat
  <2>1. r.ecm \in 0 .. 3 /\ r.pal \in Nat
    BY SceneTypes DEF SpriteRegisters
  <2>2. Ecm \in {0, 1, 2, 3}
    BY <2>1 DEF Ecm
  <2> QED BY <2>1, <2>2 DEF Pal
<1>3. Base(s) \in Nat
  <2>1. 2 ^ Ecm \in Nat
    <3>1. CASE Ecm = 0
      BY <3>1
    <3>2. CASE Ecm = 1
      BY <3>2
    <3>3. CASE Ecm = 2
      BY <3>3
    <3>4. CASE Ecm = 3
      BY <3>4
    <3> QED BY <1>2, <3>1, <3>2, <3>3, <3>4
  <2>2. (s.attr.colour \div (IF Ecm = 3 THEN 2 ELSE 1)) \in Nat
    BY <1>1
  <2> HIDE DEF s
  <2>3. \A i, j \in Nat : i * j \in Nat
    OBVIOUS
  <2> QED BY <1>2, <2>1, <2>2, <2>3 DEF Base
<1>4. \A ps : Spelt(ps) \in Nat
  BY DEF Spelt
<1>5. Emitted(s, x) \in Nat
  <2>1. Emitted(s, x) = IF Ecm = 0 THEN Base(s)
                        ELSE Base(s) + Spelt({q \in Planes : (x - At(s)) \div Mag \in PlaneBits(s, q)})
    BY DEF Emitted
  <2> HIDE DEF s
  <2> QED BY <1>3, <1>4, <2>1
<1>6. Colour(k, x) = Base(s) + (IF Ecm = 0 THEN 0 ELSE Spelt({q \in Planes : Bit(k, q, x)}))
  BY <1>1 DEF Colour, Base
<1>7. ASSUME ~HalfCut(k), Ecm # 0
      PROVE  \A q \in Planes : (x - At(s)) \div Mag \in PlaneBits(s, q) <=> Bit(k, q, x)
  <2>1. /\ X \in Int /\ Width(s) \in Nat /\ WholeMask(s) \subseteq 0 .. Width(s) - 1
        /\ x \in Nat => Column(k, x) = (x - X) \div Mag /\ x - X \in WholeMask(s)
    BY MaskIsCover
  <2>2. x \in Nat /\ Mag \in {1, 2} /\ (r.mag <=> Mag = 2) /\ Word \in Nat
    BY ConstantTypes DEF Columns, Mag
  <2>3. x - X \in Nat
    BY <2>1, <2>2
  <2>4. Column(k, x) = (x - X) \div Mag /\ Column(k, x) \in 0 .. Side(k) * Unit - 1
    BY <2>1, <2>2 DEF Covers
  <2>5. /\ Left(s) = IF X < 0 THEN -X ELSE 0
        /\ At(s) = IF X < 0 THEN 0 ELSE X
    BY DEF Left, At
  <2>6. X = scene.list[k].x - (IF scene.list[k].early THEN Word ELSE 0)
    BY <1>1 DEF XPos
  <2>7. Mag = 2 => Left(s) % 2 = 0
    <3> HIDE DEF s, X
    <3>1. CASE X < 0
      <4>1. scene.list[k].early /\ scene.list[k].x < Word /\ Left(s) = Word - scene.list[k].x
        BY <1>1, <2>1, <2>2, <2>5, <2>6, <3>1
      <4>2. Ecm > 0
        BY <1>2, <1>7
      <4>3. Mag = 2 => (Word - scene.list[k].x) % 2 # 1
        BY <1>7, <2>2, <4>1, <4>2 DEF HalfCut
      <4> QED BY <1>1, <2>2, <4>1, <4>3
    <3>2. CASE ~(X < 0)
      BY <2>1, <2>5, <3>2
    <3> QED BY <3>1, <3>2
  <2> HIDE DEF s, X
  <2> DEFINE o == (x - At(s)) \div Mag
             d == Left(s) \div Mag
  <2>8. o \in Nat /\ d \in Nat /\ o + d = Column(k, x)
    <3>1. At(s) \in Nat /\ Left(s) \in Nat /\ x - At(s) \in Nat /\ (x - At(s)) + Left(s) = x - X
      BY <2>1, <2>2, <2>3, <2>5
    <3>2. CASE Mag = 1
      BY <2>4, <3>1, <3>2
    <3>3. CASE Mag = 2
      <4>1. \A i, j \in Nat : j % 2 = 0 => (i \div 2) + (j \div 2) = (i + j) \div 2 /\ (i \div 2) \in Nat /\ (j \div 2) \in Nat
        OBVIOUS
      <4> QED BY <2>4, <2>7, <3>1, <3>3, <4>1
    <3> QED BY <2>2, <3>2, <3>3
  <2> HIDE DEF o, d
  <2>9. ASSUME NEW q \in Planes PROVE o \in PlaneBits(s, q) <=> Bit(k, q, x)
    <3>1. /\ Loaded(s, q) \subseteq 0 .. Side(k) * Unit - 1
          /\ Bit(k, q, x) <=> Column(k, x) \in Loaded(s, q)
      BY <2>4, LoadedIsPattern DEF s
    <3>2. PlaneBits(s, q) = {i - d : i \in {v \in Loaded(s, q) : v >= d}}
      BY DEF PlaneBits, Drop, d
    <3>3. Loaded(s, q) \subseteq Int
      BY <3>1
    <3>4. \A i \in Int : i - d = o <=> i = o + d
      BY <2>8
    <3>5. o + d >= d
      BY <2>8
    <3>6. o \in PlaneBits(s, q) <=> o + d \in Loaded(s, q)
      BY <3>2, <3>3, <3>4, <3>5
    <3> QED BY <2>8, <3>1, <3>6
  <2> QED BY <2>9 DEF o
<1>8. ~HalfCut(k) => Emitted(s, x) = Colour(k, x)
  <2>1. CASE Ecm = 0
    <3> HIDE DEF s
    <3> QED BY <1>3, <1>6, <2>1 DEF Emitted
  <2>2. CASE Ecm # 0 /\ ~HalfCut(k)
    <3>1. {q \in Planes : (x - At(s)) \div Mag \in PlaneBits(s, q)} = {q \in Planes : Bit(k, q, x)}
      BY <1>7, <2>2
    <3> HIDE DEF s
    <3> QED BY <1>6, <2>2, <3>1 DEF Emitted
  <2> QED BY <2>1, <2>2
<1> QED BY <1>5, <1>8 DEF Beneath

(* At the end of the drawing pass the mask without the transparent pixels and*)
(* the line are what the sprites should show.                               *)
LEMMA FinalLine ==
  ASSUME SceneOK, RowsInv, MaskInv, PixelInv, n = Len(rows) + 1
  PROVE  LineIs(WithoutTransparent, hasSprites, pixels)
<1>1. Taken = Shown /\ Shown \subseteq HitList /\ HitList \subseteq Nat
  <2>1. Seen = HitList /\ HitList \subseteq Nat
    BY AllSeen, HitRanks
  <2> QED BY <2>1 DEF Taken, Shown
<1>2. ASSUME NEW x \in Columns, Over(x) # {}
      PROVE  Owner(x) \in HitList /\ Covers(Owner(x), x) /\ First(Owner(x), x)
  <2>1. Over(x) \subseteq Nat
    BY <1>1 DEF Over
  <2>2. \E k \in Over(x) : \A j \in Over(x) : k <= j
    BY <1>2, <2>1, LeastNatural
  <2>3. Owner(x) \in Over(x) /\ \A j \in Over(x) : Owner(x) <= j
    BY <2>2, Zenon DEF Owner, Min
  <2> QED BY <1>1, <2>3 DEF Over, First
<1>3. spriteBits = {x \in Columns : Over(x) # {}} /\ transparent \subseteq spriteBits
  <2>1. \A x \in Columns : (\E k \in Taken : Covers(k, x)) <=> Over(x) # {}
    BY <1>1 DEF Over
  <2> QED BY <2>1 DEF MaskInv, PixelInv
<1>4. ASSUME NEW x \in Columns, Over(x) # {}
      PROVE  IF Drawn(RowFor(Owner(x)))
             THEN x \notin transparent /\ pixels[x] = Emitted(RowFor(Owner(x)), x) /\ hasSprites
             ELSE x \in transparent /\ pixels[x] = Beneath
  <2>1. First(Owner(x), x) /\ Owner(x) \in Taken
    BY <1>2, <1>4 DEF First
  <2> QED BY <2>1 DEF PixelInv
<1>5. \A x \in Columns : Visible(x) <=> Over(x) # {} /\ Drawn(RowFor(Owner(x)))
  <2>1. \A k : RowFor(k).attr = scene.list[k]
    BY DEF RowFor
  <2> QED BY <2>1 DEF Visible, Drawn
<1>6. WithoutTransparent = {x \in Columns : Visible(x)}
  <2>1. WithoutTransparent = spriteBits \ transparent
    BY <1>3 DEF WithoutTransparent
  <2> QED BY <1>3, <1>4, <1>5, <2>1
<1>7. ~hasSprites => WithoutTransparent = {}
  BY <1>4, <1>5, <1>6
<1>8. ASSUME NEW x \in Columns
      PROVE  IF ~Visible(x) THEN pixels[x] = Beneath
             ELSE IF HalfCut(Owner(x)) THEN pixels[x] # Beneath
             ELSE pixels[x] = Colour(Owner(x), x)
  <2>1. CASE Over(x) = {}
    BY <1>3, <1>5, <2>1 DEF PixelInv
  <2>2. CASE Over(x) # {} /\ ~Visible(x)
    BY <1>4, <1>5, <2>2
  <2>3. CASE Visible(x)
    <3>1. Over(x) # {} /\ pixels[x] = Emitted(RowFor(Owner(x)), x)
      BY <1>4, <1>5, <2>3
    <3>2. /\ Emitted(RowFor(Owner(x)), x) # Beneath
          /\ ~HalfCut(Owner(x)) => Emitted(RowFor(Owner(x)), x) = Colour(Owner(x), x)
      BY <1>2, <3>1, EmittedIsColour
    <3> QED BY <2>3, <3>1, <3>2
  <2> QED BY <2>1, <2>2, <2>3
<1> QED BY <1>6, <1>7, <1>8 DEF LineIs

(* A step into the finished line that leaves these right keeps both promises.*)
LEMMA DoneNext ==
  ASSUME scene' = scene, StatusIs(tempStatus'), LineIs(spriteBits', hasSprites', pixels')
  PROVE  SpriteStatus' /\ SpriteLine'
<1>1. r' = r /\ Ecm' = Ecm /\ Pal' = Pal /\ Mag' = Mag /\ Planes' = Planes
      /\ HitList' = HitList /\ Shown' = Shown /\ Last' = Last
  BY SceneFixed DEF r, Ecm, Pal, Mag, Planes
<1>2. \A k, x : Covers(k, x)' = Covers(k, x)
  BY SceneFixed
<1>3. \A x : Over(x)' = Over(x)
  BY <1>1, <1>2 DEF Over
<1>4. \A x : Owner(x)' = Owner(x)
  BY <1>3 DEF Owner, Min
<1>5. \A x : Visible(x)' = Visible(x)
  BY <1>1, <1>3, <1>4 DEF Visible
<1>6. \A k : HalfCut(k)' = HalfCut(k)
  BY <1>1 DEF HalfCut
<1>7. \A k, x : Colour(k, x)' = Colour(k, x)
  <2> TAKE k, x
  <2>1. Side(k)' = Side(k) /\ ListAttr(k)' = ListAttr(k) /\ RowAt(k)' = RowAt(k) /\ Column(k, x)' = Column(k, x)
    BY <1>1 DEF Side, ListAttr, RowAt, PattRow, Wrapped, Row30, Offset, Line, Column
  <2>2. \A p : Bit(k, p, x)' = Bit(k, p, x)
    BY <1>1, <2>1 DEF Bit
  <2> DEFINE ps == {q \in Planes : Bit(k, q, x)}
             base == (scene.list[k].colour \div (IF Ecm = 3 THEN 2 ELSE 1)) * 2 ^ Ecm + Pal
  <2>3. ps' = ps /\ base' = base
    BY <1>1, <2>2
  <2>4. Colour(k, x) = base + (IF Ecm = 0 THEN 0 ELSE Spelt(ps))
    BY Zenon DEF Colour
  <2>5. Colour(k, x)' = base' + (IF Ecm' = 0 THEN 0 ELSE Spelt(ps'))
    BY Zenon DEF Colour, Spelt
  <2>6. Spelt(ps') = Spelt(ps)
    BY <2>3, Zenon
  <2> HIDE DEF ps, base
  <2> QED BY <1>1, <2>3, <2>4, <2>5, <2>6
<1>8. SpriteStatus'
  <2>1. StatusIs(tempStatus) <=> /\ tempStatus.collision <=> \E x \in Columns : Cardinality(Over(x)) > 1
                                 /\ tempStatus.fifth = IF {k \in HitList : Rank(k) = Last + 1} = {} THEN NoFifth
                                                       ELSE Min({k \in HitList : Rank(k) = Last + 1}) - 1
    BY DEF StatusIs
  <2>2. {k \in HitList : Rank(k) = Last + 1}' = {k \in HitList : Rank(k) = Last + 1}
    <3>1. \A k : Rank(k)' = Rank(k)
      BY SceneFixed
    <3> QED BY <1>1, <3>1
  <2>3. tempStatus'.collision <=> \E x \in Columns : Cardinality(Over(x)') > 1
    BY <1>3 DEF StatusIs
  <2>4. tempStatus'.fifth = IF {k \in HitList : Rank(k) = Last + 1}' = {} THEN NoFifth
                            ELSE Min({k \in HitList : Rank(k) = Last + 1}') - 1
    BY <2>2 DEF StatusIs
  <2> QED BY <2>3, <2>4 DEF SpriteStatus, Last
<1>9. SpriteLine'
  BY <1>3, <1>4, <1>5, <1>6, <1>7 DEF LineIs, SpriteLine
<1> QED BY <1>8, <1>9

-----------------------------------------------------------------------------
(* The steps of the two passes *)

(* The drawing pass leaves the collected rows alone.                        *)
LEMMA RowsFixed ==
  ASSUME SceneOK, RowsInv, scene' = scene, rows' = rows
  PROVE  RowsInv' /\ Len(rows') = Len(rows) /\ \A j : Nth(j)' = Nth(j)
<1>1. \A j : Nth(j)' = Nth(j)
  BY DEF Nth
<1>2. Walked' = Walked /\ \A k : Kept(k)' = Kept(k) /\ RowFor(k)' = RowFor(k)
  BY SceneFixed
<1>3. RowsInv'
  BY <1>1, <1>2 DEF RowsInv
<1> QED BY <1>1, <1>3

(* What a row that is not the list's last one adds to those seen.           *)
LEMMA SeenNext ==
  ASSUME SceneOK, RowsInv, n \in 1 .. Len(rows),
         scene' = scene, rows' = rows, n' = n + 1
  PROVE  /\ Seen' = IF Nth(n) \in HitList THEN Seen \cup {Nth(n)} ELSE Seen
         /\ n' \in 1 .. Len(rows') + 1
<1>1. n' - 1 = n /\ n' \in 1 .. Len(rows') + 1
  BY DEF RowsInv
<1>2. HitList' = HitList
  BY SceneFixed
<1>3. Seen' = {k \in HitList : \E j \in 1 .. n : Nth(j) = k}
  BY <1>1, <1>2, RowsFixed DEF Seen
<1> QED BY <1>1, <1>3, NextRow

(* A step that counts no sprite keeps the fifth-sprite status right.        *)
LEMMA FifthKept ==
  ASSUME scene' = scene, spritesShown' = spritesShown, tempStatus'.fifth = tempStatus.fifth, FifthInv
  PROVE  FifthInv'
<1>1. HitList' = HitList /\ Last' = Last /\ \A k : Rank(k)' = Rank(k)
  BY SceneFixed
<1> QED BY <1>1 DEF FifthInv

(* A step that counts one keeps it right: the sprite past the limit is the  *)
(* one reported, and only the first time.                                   *)
LEMMA FifthStep ==
  ASSUME SceneOK, RowsInv, CountInv, FifthInv, n \in 1 .. Len(rows), OnThisLine(rows[n]),
         scene' = scene, spritesShown' = spritesShown + 1,
         tempStatus'.fifth = Fifth(rows[n], spritesShown')
  PROVE  /\ FifthInv'
         /\ Rank(Nth(n)) = spritesShown' /\ spritesShown' \in Nat
         /\ spritesShown' = Cardinality(Seen \cup {Nth(n)})
         /\ Fifth(rows[n], spritesShown') \in Int \/ Fifth(rows[n], spritesShown') = tempStatus.fifth
<1> DEFINE k == Nth(n)
           c == spritesShown'
<1>1. HitList' = HitList /\ Last' = Last /\ \A i : Rank(i)' = Rank(i)
  BY SceneFixed
<1>2. Len(rows) \in Nat /\ spritesShown = Cardinality(Seen) /\ spritesShown \in Nat
  BY DEF CountInv, RowsInv
<1>3. /\ k \in HitList /\ Rank(k) = Cardinality(Seen) + 1 /\ Cardinality(Seen \cup {k}) = Cardinality(Seen) + 1
      /\ rows[n] = RowFor(k) /\ k \in Nat \ {0}
  BY NextRow, HitRanks
<1>4. c \in Nat /\ c = spritesShown + 1 /\ Rank(k) = c
  BY <1>2, <1>3
<1>5. rows[n].index = k - 1
  BY <1>3 DEF RowFor
<1>6. /\ Last \in Nat
      /\ c > Last <=> c > ScanLimit /\ (~(r.unlocked /\ r.reportMax) \/ c > r.limit)
  BY <1>4, TheLimit
<1>7. tempStatus'.fifth = IF c > Last /\ tempStatus.fifth = NoFifth THEN k - 1 ELSE tempStatus.fifth
  BY <1>5, <1>6 DEF Fifth
<1> HIDE DEF k, c
<1>8. ASSUME tempStatus.fifth = NoFifth PROVE FifthInv'
  <2>1. spritesShown <= Last
    BY <1>8 DEF FifthInv
  <2>2. CASE c > Last
    <3>1. tempStatus'.fifth = k - 1 /\ k - 1 # NoFifth /\ Rank(k) = Last + 1
      BY <1>2, <1>3, <1>4, <1>6, <1>7, <1>8, <2>1, <2>2 DEF NoFifth
    <3> QED BY <1>1, <1>3, <3>1 DEF FifthInv
  <2>3. CASE ~(c > Last)
    BY <1>1, <1>4, <1>6, <1>7, <1>8, <2>3 DEF FifthInv, c
  <2> QED BY <2>2, <2>3
<1>9. ASSUME tempStatus.fifth # NoFifth PROVE FifthInv'
  BY <1>1, <1>7, <1>9 DEF FifthInv
<1>10. Fifth(rows[n], c) \in Int \/ Fifth(rows[n], c) = tempStatus.fifth
  BY <1>3, <1>5 DEF Fifth
<1> QED BY <1>2, <1>3, <1>4, <1>8, <1>9, <1>10 DEF k, c

(* A step that takes no sprite keeps the mask and the pixels right.         *)
LEMMA MaskKept ==
  ASSUME scene' = scene, Taken' = Taken, spriteBits' = spriteBits, transparent' = transparent,
         pixels' = pixels, hasSprites' = hasSprites, tempStatus'.collision = tempStatus.collision,
         MaskInv, PixelInv
  PROVE  MaskInv' /\ PixelInv'
<1>1. \A k, x : Covers(k, x)' = Covers(k, x)
  BY SceneFixed
<1>2. MaskInv'
  BY <1>1 DEF MaskInv, Columns
<1>3. \A k, x : First(k, x)' = First(k, x)
  BY <1>1 DEF First
<1>4. \A k : Drawn(RowFor(k))' = Drawn(RowFor(k))
  BY ColoursFixed
<1>5. \A k, x : Emitted(RowFor(k), x)' = Emitted(RowFor(k), x)
  BY ColoursFixed
<1>6. PixelInv'
  BY <1>3, <1>4, <1>5 DEF PixelInv
<1> QED BY <1>2, <1>6

(* A sprite that is taken gives the mask the pixels it covers first.        *)
LEMMA MaskStep ==
  ASSUME NEW k \in Nat, NEW valid,
         scene' = scene, Taken' = Taken \cup {k}, Taken \subseteq Nat, \A j \in Taken : j < k,
         valid = Area(k) \ spriteBits, spriteBits' = spriteBits \cup valid,
         tempStatus'.collision <=> tempStatus.collision \/ valid # Area(k),
         \A x \in Columns : pixels'[x] = IF Drawn(RowFor(k)) /\ x \in valid
                                         THEN Emitted(RowFor(k), x) ELSE pixels[x],
         transparent' = IF Drawn(RowFor(k)) THEN transparent ELSE transparent \cup valid,
         Drawn(RowFor(k)) /\ valid # {} => hasSprites', hasSprites => hasSprites',
         MaskInv, PixelInv
  PROVE  MaskInv' /\ PixelInv'
<1>1. \A j, x : Covers(j, x)' = Covers(j, x)
  BY SceneFixed
<1>2. \A x \in Columns : x \in spriteBits <=> \E j \in Taken : Covers(j, x)
  BY DEF MaskInv
<1>3. \A x \in Columns : x \in valid <=> Covers(k, x) /\ x \notin spriteBits
  BY DEF Area
<1>4. k \notin Taken
  OBVIOUS
<1>5. MaskInv'
  <2>1. spriteBits' = {x \in Columns : \E j \in Taken' : Covers(j, x)}
    BY <1>2, <1>3 DEF MaskInv, Area
  <2>2. valid # Area(k) <=> \E x \in Columns : Covers(k, x) /\ \E j \in Taken : Covers(j, x)
    BY <1>2 DEF Area
  <2>3. (\E x \in Columns : \E i, j \in Taken' : i # j /\ Covers(i, x) /\ Covers(j, x))
          <=> \/ \E x \in Columns : \E i, j \in Taken : i # j /\ Covers(i, x) /\ Covers(j, x)
              \/ \E x \in Columns : Covers(k, x) /\ \E j \in Taken : Covers(j, x)
    BY <1>4
  <2> QED BY <1>1, <2>1, <2>2, <2>3 DEF MaskInv
<1>6. transparent' \subseteq spriteBits'
  BY DEF PixelInv
<1>7. \A x \in Columns \ spriteBits' : pixels'[x] = Beneath
  BY DEF PixelInv
<1>8. ASSUME NEW x \in Columns, NEW i \in Taken', First(i, x)'
      PROVE  IF Drawn(RowFor(i))
             THEN x \notin transparent' /\ pixels'[x] = Emitted(RowFor(i), x) /\ hasSprites'
             ELSE x \in transparent' /\ pixels'[x] = Beneath
  <2>1. Covers(i, x) /\ \A j \in Taken' : Covers(j, x) => i <= j
    BY <1>1, <1>8 DEF First
  <2>2. CASE i \in Taken
    <3>1. First(i, x)
      BY <2>1, <2>2 DEF First
    <3>2. x \in spriteBits /\ x \notin valid
      BY <1>2, <1>3, <2>1, <2>2
    <3>3. /\ pixels'[x] = pixels[x]
          /\ x \in transparent' <=> x \in transparent
      BY <3>2
    <3> QED BY <2>2, <3>1, <3>3 DEF PixelInv
  <2>3. CASE i = k
    <3>1. ~\E j \in Taken : Covers(j, x)
      BY <2>1, <2>3
    <3>2. x \in valid /\ x \notin spriteBits /\ x \notin transparent /\ pixels[x] = Beneath
      BY <1>2, <1>3, <2>1, <2>3, <3>1 DEF PixelInv
    <3> QED BY <2>3, <3>2
  <2> QED BY <2>2, <2>3
<1>9. PixelInv'
  <2>1. \A i : Drawn(RowFor(i))' = Drawn(RowFor(i))
    BY ColoursFixed
  <2>2. \A i, x : Emitted(RowFor(i), x)' = Emitted(RowFor(i), x)
    BY ColoursFixed
  <2> QED BY <1>6, <1>7, <1>8, <2>1, <2>2 DEF PixelInv
<1> QED BY <1>5, <1>9

(* The collect pass leaves the kept sprites in list order.                  *)
LEMMA CollectRows ==
  ASSUME SceneOK, Collect
  PROVE  RowsInv' /\ (pc' = "draw" \/ (pc' = "done" /\ \A k \in Walked : ~Kept(k)))
<1> DEFINE N    == Len(scene.list)
           kept == {k \in Walked : Kept(k)}
           C    == Cardinality(kept)
           nth(i) == CHOOSE k \in kept : Cardinality({j \in kept : j <= k}) = i
<1>1. N \in Nat
  BY SceneTypes
<1>2. kept \in SUBSET (1 .. N) /\ kept \subseteq Nat
  <2>1. Walked \subseteq 1 .. N
    BY WalkedTypes
  <2>2. kept \subseteq Walked
    OBVIOUS
  <2> HIDE DEF N, kept
  <2> QED BY <1>1, <2>1, <2>2
<1>3. rows' = [i \in 1 .. C |-> RowFor(nth(i))]
  BY Zenon DEF Collect, RowFor
<1>4. pc' = "draw" \/ (pc' = "done" /\ \A k \in Walked : ~Kept(k))
  BY DEF Collect
<1>5. scene' = scene
  BY DEF Collect
<1>6. C \in Nat
  <2> HIDE DEF N, kept
  <2> QED BY <1>1, <1>2, CountFinite
<1>7. /\ \A k \in kept : CountTo(kept, k) \in 1 .. C
      /\ \A j, k \in kept : j < k => CountTo(kept, j) < CountTo(kept, k)
      /\ \A i \in 1 .. C : \E k \in kept : CountTo(kept, k) = i
  <2> HIDE DEF N, kept
  <2> QED BY <1>1, <1>2, CountOrders
<1>8. \A i \in 1 .. C : nth(i) \in kept /\ CountTo(kept, nth(i)) = i
  <2> TAKE i \in 1 .. C
  <2>1. \E k \in kept : Cardinality({j \in kept : j <= k}) = i
    BY <1>7, Zenon DEF CountTo
  <2> HIDE DEF kept
  <2>2. nth(i) \in kept /\ Cardinality({j \in kept : j <= nth(i)}) = i
    BY <2>1, Zenon
  <2> QED BY <2>2, Zenon DEF CountTo
<1> HIDE DEF nth, C
<1>9. Len(rows') = C /\ \A i \in 1 .. C : rows'[i] = RowFor(nth(i))
  BY <1>3, <1>6
<1>10. \A i \in 1 .. C : Nth(i)' = nth(i)
  <2> TAKE i \in 1 .. C
  <2>1. nth(i) \in Nat
    BY <1>2, <1>8
  <2>2. RowFor(nth(i)).index = nth(i) - 1
    BY DEF RowFor
  <2> QED BY <1>9, <2>1, <2>2 DEF Nth
<1>11. Walked' = Walked /\ \A k : Kept(k)' = Kept(k) /\ RowFor(k)' = RowFor(k)
  BY <1>5, SceneFixed
<1>12. \A j \in 1 .. C : Nth(j)' \in Walked /\ Kept(Nth(j)') /\ rows'[j] = RowFor(Nth(j)')
  BY <1>8, <1>9, <1>10
<1>13. \A i, j \in 1 .. C : i < j => Nth(i)' < Nth(j)'
  <2> TAKE i, j \in 1 .. C
  <2> HAVE i < j
  <2>1. nth(i) \in kept /\ nth(j) \in kept /\ CountTo(kept, nth(i)) = i /\ CountTo(kept, nth(j)) = j
    BY <1>8
  <2>2. nth(i) \in Nat /\ nth(j) \in Nat
    BY <1>2, <2>1
  <2>3. ~(nth(j) < nth(i)) /\ nth(i) # nth(j)
    BY <1>7, <2>1
  <2> QED BY <1>10, <2>2, <2>3
<1>14. \A k \in Walked : Kept(k) => \E j \in 1 .. C : Nth(j)' = k
  <2> TAKE k \in Walked
  <2> HAVE Kept(k)
  <2> DEFINE j == CountTo(kept, k)
  <2>1. k \in kept /\ j \in 1 .. C
    BY <1>7
  <2>2. nth(j) \in kept /\ CountTo(kept, nth(j)) = j
    BY <1>8, <2>1
  <2>3. k \in Nat /\ nth(j) \in Nat
    BY <1>2, <2>1, <2>2
  <2> HIDE DEF j, kept
  <2>4. ~(k < nth(j)) /\ ~(nth(j) < k)
    <3>1. k < nth(j) => j < j
      BY <1>7, <2>1, <2>2 DEF j
    <3>2. nth(j) < k => j < j
      BY <1>7, <2>1, <2>2 DEF j
    <3> QED BY <2>1, <1>6, <3>1, <3>2
  <2>5. nth(j) = k
    BY <2>3, <2>4
  <2> QED BY <1>10, <2>1, <2>5
<1>15. RowsInv'
  BY <1>6, <1>9, <1>11, <1>12, <1>13, <1>14 DEF RowsInv
<1> QED BY <1>4, <1>15

(* A pass that has yet to begin has seen none.                              *)
LEMMA CollectStep ==
  ASSUME SpriteInv, Collect
  PROVE  SpriteInv'
<1>1. /\ SceneOK /\ Clear /\ scene' = scene /\ n' = n /\ spritesShown' = spritesShown
      /\ tempStatus' = tempStatus /\ spriteBits' = spriteBits /\ transparent' = transparent
      /\ pixels' = pixels /\ hasSprites' = hasSprites
      /\ tempStatus \in [collision : BOOLEAN, fifth : Int] /\ hasSprites \in BOOLEAN
  BY DEF SpriteInv, Collect, masks
<1>2. SceneOK' /\ RowsInv'
  BY <1>1, CollectRows, SceneFixed
<1>3. pc' = "draw" => CountInv' /\ FifthInv' /\ MaskInv' /\ PixelInv'
  <2>1. Len(rows') \in Nat /\ n' = 1 /\ spritesShown' = 0
    BY <1>1, <1>2 DEF RowsInv, Clear
  <2>2. Seen' = {} /\ Taken' = {}
    BY <2>1 DEF Seen, Taken
  <2>3. CountInv'
    BY <2>1, <2>2, FS_EmptySet DEF CountInv
  <2>4. FifthInv'
    <3>1. Last \in Nat /\ Last' = Last
      BY <1>1, TheLimit, SceneFixed
    <3> QED BY <1>1, <2>1, <3>1 DEF FifthInv, Clear
  <2>5. MaskInv' /\ PixelInv'
    BY <1>1, <2>2 DEF MaskInv, PixelInv, Clear, First, Columns
  <2> QED BY <2>3, <2>4, <2>5
<1>4. pc' = "done" => SpriteStatus' /\ SpriteLine'
  <2> SUFFICES ASSUME pc' = "done" PROVE SpriteStatus' /\ SpriteLine'
    OBVIOUS
  <2>1. \A k \in Walked : ~Kept(k)
    BY <1>1, CollectRows
  <2>2. rows = <<>> /\ n = 1 /\ spritesShown = 0 /\ Len(rows) = 0
    BY <1>1 DEF Clear
  <2>3. RowsInv /\ n = Len(rows) + 1
    BY <2>1, <2>2 DEF RowsInv
  <2>4. Seen = {} /\ Taken = {}
    BY <2>2 DEF Seen, Taken
  <2>5. CountInv
    BY <2>2, <2>4, FS_EmptySet DEF CountInv
  <2>6. FifthInv
    BY <1>1, <2>2, TheLimit DEF FifthInv, Clear
  <2>7. MaskInv /\ PixelInv
    BY <1>1, <2>4 DEF MaskInv, PixelInv, Clear, First
  <2>8. StatusIs(tempStatus) /\ LineIs(WithoutTransparent, hasSprites, pixels)
    BY <1>1, <2>3, <2>5, <2>6, <2>7, FinalStatus, FinalLine
  <2>9. WithoutTransparent = spriteBits
    BY <1>1 DEF Clear, WithoutTransparent
  <2> QED BY <1>1, <2>8, <2>9, DoneNext
<1>5. pc' = "draw" \/ pc' = "done"
  BY <1>1, CollectRows
<1>6. pc' # "done" => SpriteStatus' /\ SpriteLine'
  BY DEF SpriteStatus, SpriteLine
<1> QED BY <1>1, <1>2, <1>3, <1>4, <1>5, <1>6 DEF SpriteInv

(* What every step of the drawing pass starts from.                         *)
LEMMA Drawing ==
  ASSUME SpriteInv, pc = "draw"
  PROVE  /\ SceneOK /\ RowsInv /\ CountInv /\ FifthInv /\ MaskInv /\ PixelInv
         /\ tempStatus \in [collision : BOOLEAN, fifth : Int] /\ hasSprites \in BOOLEAN
  BY DEF SpriteInv

(* Inside the drawing pass the parts make up the invariant.                 *)
LEMMA StillDrawing ==
  ASSUME pc' = "draw", SceneOK', RowsInv', CountInv', FifthInv', MaskInv', PixelInv',
         tempStatus' \in [collision : BOOLEAN, fifth : Int], hasSprites' \in BOOLEAN
  PROVE  SpriteInv'
<1>1. SpriteStatus' /\ SpriteLine'
  BY DEF SpriteStatus, SpriteLine
<1> QED BY <1>1 DEF SpriteInv

(* A row of another line is skipped.                                        *)
LEMMA NotThisLineStep ==
  ASSUME SpriteInv, NotThisLine
  PROVE  SpriteInv'
<1>1. /\ pc = "draw" /\ n <= Len(rows) /\ ~OnThisLine(rows[n]) /\ n' = n + 1 /\ scene' = scene /\ rows' = rows
      /\ spritesShown' = spritesShown /\ tempStatus' = tempStatus /\ spriteBits' = spriteBits
      /\ transparent' = transparent /\ pixels' = pixels /\ hasSprites' = hasSprites /\ pc' = pc
  BY DEF NotThisLine, Next1, masks
<1>2. /\ SceneOK /\ RowsInv /\ CountInv /\ FifthInv /\ MaskInv /\ PixelInv
      /\ tempStatus \in [collision : BOOLEAN, fifth : Int] /\ hasSprites \in BOOLEAN
  BY <1>1, Drawing
<1>3. n \in 1 .. Len(rows)
  BY <1>1, <1>2 DEF CountInv, RowsInv
<1>4. Seen' = Seen /\ n' \in 1 .. Len(rows') + 1
  BY <1>1, <1>2, <1>3, NextRow, SeenNext
<1>5. SceneOK' /\ Taken' = Taken
  BY <1>1, <1>2, <1>4, SceneFixed DEF Taken
<1>6. RowsInv' /\ FifthInv'
  BY <1>1, <1>2, RowsFixed, FifthKept
<1>7. MaskInv' /\ PixelInv'
  BY <1>1, <1>2, <1>5, MaskKept
<1>8. CountInv'
  <2>1. spritesShown = Cardinality(Seen) /\ spritesShown \in Nat
    BY <1>2, <1>3 DEF CountInv, RowsInv
  <2> QED BY <1>1, <1>4, <2>1 DEF CountInv
<1> QED BY <1>1, <1>2, <1>5, <1>6, <1>7, <1>8, StillDrawing

(* The sprites after the one past the limit are past it as well.            *)
LEMMA LimitStep ==
  ASSUME SpriteInv, Limit
  PROVE  SpriteInv'
<1> DEFINE k == Nth(n)
           c == spritesShown'
<1>1. /\ pc = "draw" /\ n <= Len(rows) /\ OnThisLine(rows[n]) /\ n' = Len(rows) + 1 /\ scene' = scene /\ rows' = rows
      /\ c = spritesShown + 1 /\ PastTheLimit(c)
      /\ tempStatus' = [tempStatus EXCEPT !.fifth = Fifth(rows[n], c)] /\ spriteBits' = spriteBits
      /\ transparent' = transparent /\ pixels' = pixels /\ hasSprites' = hasSprites /\ pc' = pc
  BY DEF Limit, masks
<1>2. /\ SceneOK /\ RowsInv /\ CountInv /\ FifthInv /\ MaskInv /\ PixelInv
      /\ tempStatus \in [collision : BOOLEAN, fifth : Int] /\ hasSprites \in BOOLEAN
  BY <1>1, Drawing
<1>3. n \in 1 .. Len(rows)
  BY <1>1, <1>2 DEF CountInv, RowsInv
<1>4. tempStatus'.fifth = Fifth(rows[n], c) /\ tempStatus'.collision = tempStatus.collision
  BY <1>1, <1>2
<1>5. /\ FifthInv' /\ Rank(k) = c /\ c \in Nat
      /\ Fifth(rows[n], c) \in Int \/ Fifth(rows[n], c) = tempStatus.fifth
  BY <1>1, <1>2, <1>3, <1>4, FifthStep
<1>6. tempStatus' \in [collision : BOOLEAN, fifth : Int]
  BY <1>1, <1>2, <1>5
<1>7. SceneOK' /\ RowsInv' /\ Len(rows') = Len(rows) /\ \A j : Nth(j)' = Nth(j)
  BY <1>1, <1>2, RowsFixed, SceneFixed
<1>8. Taken' = Taken
  <2>1. n' - 1 = Len(rows) /\ Len(rows) \in Nat
    BY <1>1, <1>2 DEF RowsInv
  <2>2. HitList' = HitList /\ Shown' = Shown
    BY <1>1, SceneFixed
  <2>3. Seen' = {i \in HitList : \E j \in 1 .. Len(rows) : Nth(j) = i}
    BY <1>7, <2>1, <2>2 DEF Seen
  <2>4. Seen \subseteq Seen'
    BY <1>3, <2>1, <2>3 DEF Seen
  <2>5. Shown \subseteq Seen
    <3> SUFFICES ASSUME NEW i \in Shown, i \notin Seen PROVE FALSE
      OBVIOUS
    <3>1. i \in HitList /\ Rank(i) <= Max({ScanLimit, r.limit})
      BY DEF Shown
    <3>2. ~(i < k) /\ k \in HitList /\ i \in Nat /\ k \in Nat
      BY <1>1, <1>2, <1>3, <3>1, NextRow, HitRanks
    <3>3. Rank(i) \in Nat /\ Rank(i) >= c
      <4>1. Rank(i) \in Nat /\ (k < i => Rank(k) < Rank(i))
        BY <1>2, <3>1, <3>2, HitRanks
      <4>2. k < i \/ k = i
        <5> HIDE DEF k
        <5> QED BY <3>2
      <4> QED BY <1>5, <4>1, <4>2
    <3>4. ~PastTheLimit(Rank(i))
      BY <1>2, <3>1, <3>3, TheLimit
    <3>5. PastTheLimit(Rank(i))
      BY <1>1, <1>2, <1>5, <3>3, TheLimit DEF PastTheLimit
    <3> QED BY <3>4, <3>5
  <2> QED BY <2>2, <2>4, <2>5 DEF Taken
<1>9. MaskInv' /\ PixelInv'
  BY <1>1, <1>2, <1>4, <1>8, MaskKept
<1>10. CountInv'
  <2>1. Len(rows) \in Nat
    BY <1>2 DEF RowsInv
  <2>2. r' = r
    BY <1>1 DEF r
  <2> QED BY <1>1, <1>5, <1>7, <2>1, <2>2 DEF CountInv, PastTheLimit
<1> QED BY <1>1, <1>2, <1>5, <1>6, <1>7, <1>9, <1>10, StillDrawing

(* A shown sprite claims what it covers first, which may be nothing.        *)
LEMMA DrawStep ==
  ASSUME ~ShiftWraps, SpriteInv, DrawSprite
  PROVE  SpriteInv'
<1> DEFINE k == Nth(n)
           c == spritesShown'
           valid == Area(k) \ spriteBits
           idle  == OffTheLine(rows[n]) \/ WholeMask(rows[n]) = {} \/ (XPos(rows[n]) < 0 /\ PattMask(rows[n]) = {})
<1>1. /\ pc = "draw" /\ n <= Len(rows) /\ OnThisLine(rows[n]) /\ n' = n + 1 /\ scene' = scene /\ rows' = rows
      /\ c = spritesShown + 1 /\ ~PastTheLimit(c) /\ pc' = pc
  BY DEF DrawSprite, Next1
<1>2. /\ SceneOK /\ RowsInv /\ CountInv /\ FifthInv /\ MaskInv /\ PixelInv
      /\ tempStatus \in [collision : BOOLEAN, fifth : Int] /\ hasSprites \in BOOLEAN
  BY <1>1, Drawing
<1>3. n \in 1 .. Len(rows)
  BY <1>1, <1>2 DEF CountInv, RowsInv
<1>4. k \in HitList /\ rows[n] = RowFor(k) /\ k \in Nat
  BY <1>1, <1>2, <1>3, NextRow, HitRanks
<1>5. /\ {At(RowFor(k)) + o : o \in PattMask(RowFor(k))} = Area(k)
      /\ Spread(RowFor(k), PattMask(RowFor(k))) = Area(k)
      /\ OffTheLine(RowFor(k)) => Area(k) = {}
      /\ WholeMask(RowFor(k)) = {} => Area(k) = {}
      /\ PattMask(RowFor(k)) = {} => Area(k) = {}
  BY <1>2, <1>4, MaskIsArea
<1> HIDE DEF k
<1>6. /\ tempStatus' = [fifth |-> Fifth(rows[n], c), collision |-> tempStatus.collision \/ valid # Area(k)]
      /\ spriteBits' = spriteBits \cup valid
      /\ \A x \in Columns : pixels'[x] = IF Drawn(RowFor(k)) /\ x \in valid
                                         THEN Emitted(RowFor(k), x) ELSE pixels[x]
      /\ transparent' = IF Drawn(RowFor(k)) THEN transparent ELSE transparent \cup valid
      /\ Drawn(RowFor(k)) /\ valid # {} => hasSprites'
      /\ hasSprites => hasSprites'
      /\ hasSprites' \in BOOLEAN
  <2>1. CASE idle
    <3>1. /\ tempStatus' = [tempStatus EXCEPT !.fifth = Fifth(rows[n], c)]
          /\ spriteBits' = spriteBits /\ transparent' = transparent
          /\ pixels' = pixels /\ hasSprites' = hasSprites
      BY <2>1 DEF DrawSprite, masks
    <3>2. Area(k) = {} /\ valid = {}
      BY <1>4, <1>5, <2>1
    <3>3. tempStatus' = [fifth |-> Fifth(rows[n], c), collision |-> tempStatus.collision]
      BY <1>2, <3>1
    <3>4. tempStatus.collision = (tempStatus.collision \/ valid # Area(k))
      BY <1>2, <3>2
    <3> HIDE DEF valid, c
    <3> QED BY <1>2, <3>1, <3>2, <3>3, <3>4
  <2>2. CASE ~idle
    <3>1. Claim(rows[n])
      BY <2>2 DEF DrawSprite
    <3>2. /\ spriteBits' = spriteBits \cup valid
          /\ tempStatus' = [fifth |-> Fifth(rows[n], c), collision |-> tempStatus.collision \/ valid # Area(k)]
      BY <1>4, <1>5, <3>1 DEF Claim
    <3>3. IF Drawn(RowFor(k))
          THEN /\ pixels' = [x \in Columns |-> IF x \in valid THEN Emitted(RowFor(k), x) ELSE pixels[x]]
               /\ hasSprites' = TRUE /\ transparent' = transparent
          ELSE transparent' = transparent \cup valid /\ pixels' = pixels /\ hasSprites' = hasSprites
      BY <1>4, <1>5, <3>1 DEF Claim, SetTransparent
    <3> HIDE DEF valid, c
    <3>4. CASE Drawn(RowFor(k))
      BY <1>2, <3>2, <3>3, <3>4
    <3>5. CASE ~Drawn(RowFor(k))
      BY <1>2, <3>2, <3>3, <3>5
    <3> QED BY <3>4, <3>5
  <2> QED BY <2>1, <2>2
<1>7. tempStatus'.fifth = Fifth(rows[n], c) /\ (tempStatus'.collision <=> tempStatus.collision \/ valid # Area(k))
  BY <1>6
<1>8. /\ FifthInv' /\ Rank(k) = c /\ c \in Nat /\ c = Cardinality(Seen \cup {k})
      /\ Fifth(rows[n], c) \in Int \/ Fifth(rows[n], c) = tempStatus.fifth
  BY <1>1, <1>2, <1>3, <1>7, FifthStep DEF k
<1>9. tempStatus' \in [collision : BOOLEAN, fifth : Int]
  BY <1>2, <1>6, <1>8
<1>10. SceneOK' /\ RowsInv'
  BY <1>1, <1>2, RowsFixed, SceneFixed
<1>11. Seen' = Seen \cup {k} /\ n' \in 1 .. Len(rows') + 1
  BY <1>1, <1>2, <1>3, <1>4, SeenNext DEF k
<1>12. Taken' = Taken \cup {k} /\ Taken \subseteq Nat /\ \A j \in Taken : j < k
  <2>1. Rank(k) <= Max({ScanLimit, r.limit})
    BY <1>1, <1>2, <1>8, TheLimit
  <2>2. k \in Shown /\ Shown' = Shown
    BY <1>1, <1>4, <2>1, SceneFixed DEF Shown
  <2>3. Seen \subseteq Nat /\ \A j \in Seen : j < k
    BY <1>2, <1>3, NextRow, HitRanks DEF Seen, k
  <2> QED BY <1>11, <2>2, <2>3 DEF Taken
<1>13. MaskInv' /\ PixelInv'
  <2> HIDE DEF c
  <2>1. valid = Area(k) \ spriteBits
    OBVIOUS
  <2> HIDE DEF valid
  <2> QED BY <1>1, <1>2, <1>4, <1>6, <1>7, <1>12, <2>1, MaskStep
<1>14. CountInv'
  BY <1>8, <1>11 DEF CountInv
<1> QED BY <1>1, <1>6, <1>8, <1>9, <1>10, <1>13, <1>14, StillDrawing

(* The end of the pass hands a finished line over.                          *)
LEMMA FinishStep ==
  ASSUME SpriteInv, Finish
  PROVE  SpriteInv'
<1>1. /\ pc = "draw" /\ n > Len(rows) /\ spriteBits' = WithoutTransparent /\ pc' = "done" /\ scene' = scene
      /\ tempStatus' = tempStatus /\ pixels' = pixels /\ hasSprites' = hasSprites
  BY DEF Finish
<1>2. /\ SceneOK /\ RowsInv /\ CountInv /\ FifthInv /\ MaskInv /\ PixelInv
      /\ tempStatus \in [collision : BOOLEAN, fifth : Int] /\ hasSprites \in BOOLEAN
  BY <1>1, Drawing
<1>3. n = Len(rows) + 1
  BY <1>1, <1>2 DEF CountInv, RowsInv
<1>4. StatusIs(tempStatus) /\ LineIs(WithoutTransparent, hasSprites, pixels)
  BY <1>2, <1>3, FinalStatus, FinalLine
<1>5. SpriteStatus' /\ SpriteLine'
  BY <1>1, <1>4, DoneNext
<1>6. SceneOK'
  BY <1>1, <1>2, SceneFixed
<1> QED BY <1>1, <1>2, <1>5, <1>6 DEF SpriteInv

(* A finished line stays what it is while the layers take it over.          *)
LEMMA HandedOver ==
  ASSUME SpriteInv, scene' = scene, tempStatus' = tempStatus, hasSprites' = hasSprites,
         pc' \notin {"collect", "draw", "done"}
  PROVE  SpriteInv'
<1>1. SceneOK'
  BY SceneFixed DEF SpriteInv
<1>2. SpriteStatus' /\ SpriteLine'
  BY DEF SpriteStatus, SpriteLine
<1> QED BY <1>1, <1>2 DEF SpriteInv

(* Steps of the other layers keep the invariant.                            *)
LEMMA SpritesUnchanged ==
  ASSUME SpriteInv, UNCHANGED spriteVars
  PROVE  SpriteInv'
<1>1. /\ scene' = scene /\ rows' = rows /\ n' = n /\ spritesShown' = spritesShown /\ tempStatus' = tempStatus
      /\ spriteBits' = spriteBits /\ transparent' = transparent /\ pixels' = pixels
      /\ hasSprites' = hasSprites /\ pc' = pc
  BY DEF spriteVars, masks
<1>2. SceneOK' /\ tempStatus' \in [collision : BOOLEAN, fifth : Int] /\ hasSprites' \in BOOLEAN
  BY <1>1, SceneFixed DEF SpriteInv
<1>3. CASE pc = "collect"
  <2>1. Clear'
    BY <1>1, <1>3 DEF SpriteInv, Clear, Columns
  <2>2. SpriteStatus' /\ SpriteLine'
    BY <1>1, <1>3 DEF SpriteStatus, SpriteLine
  <2> QED BY <1>1, <1>2, <1>3, <2>1, <2>2 DEF SpriteInv
<1>4. CASE pc = "draw"
  <2>1. /\ SceneOK /\ RowsInv /\ CountInv /\ FifthInv /\ MaskInv /\ PixelInv
    BY <1>4, Drawing
  <2>2. RowsInv' /\ Len(rows') = Len(rows) /\ \A j : Nth(j)' = Nth(j)
    BY <1>1, <2>1, RowsFixed
  <2>3. Seen' = Seen /\ Taken' = Taken
    <3>1. HitList' = HitList /\ Shown' = Shown
      BY <1>1, SceneFixed
    <3> QED BY <1>1, <2>2, <3>1 DEF Seen, Taken
  <2>4. CountInv'
    <3>1. r' = r
      BY <1>1 DEF r
    <3> QED BY <1>1, <2>1, <2>3, <3>1 DEF CountInv, PastTheLimit
  <2>5. FifthInv' /\ MaskInv' /\ PixelInv'
    BY <1>1, <2>1, <2>3, FifthKept, MaskKept
  <2> QED BY <1>1, <1>2, <1>4, <2>2, <2>4, <2>5, StillDrawing
<1>5. CASE pc = "done"
  <2>1. SpriteStatus /\ SpriteLine
    BY DEF SpriteInv
  <2>2. StatusIs(tempStatus) /\ LineIs(spriteBits, hasSprites, pixels)
    BY <1>5, <2>1 DEF SpriteStatus, SpriteLine, StatusIs, LineIs, Last
  <2>3. SpriteStatus' /\ SpriteLine'
    BY <1>1, <2>2, DoneNext
  <2> QED BY <1>1, <1>2, <1>5, <2>3 DEF SpriteInv
<1>6. CASE pc \notin {"collect", "draw", "done"}
  BY <1>1, <1>6, HandedOver
<1> QED BY <1>3, <1>4, <1>5, <1>6

(* Every step of the two passes keeps the invariant.                        *)
LEMMA SpriteStepInv ==
  ASSUME ~ShiftWraps, SpriteInv, SpriteNext
  PROVE  SpriteInv'
<1>1. CASE Collect
  BY <1>1, CollectStep
<1>2. CASE NotThisLine
  BY <1>2, NotThisLineStep
<1>3. CASE Limit
  BY <1>3, LimitStep
<1>4. CASE DrawSprite
  BY <1>4, DrawStep
<1>5. CASE Finish
  BY <1>5, FinishStep
<1> QED BY <1>1, <1>2, <1>3, <1>4, <1>5 DEF SpriteNext

(* It holds before a line.                                                  *)
LEMMA SpriteInvInit ==
  SpriteInit => SpriteInv
<1> SUFFICES ASSUME SpriteInit PROVE SpriteInv
  OBVIOUS
<1>1. SceneOK /\ Clear /\ pc = "collect"
  BY DEF SpriteInit, SceneOK, Clear
<1>2. tempStatus \in [collision : BOOLEAN, fifth : Int] /\ hasSprites \in BOOLEAN
  <2>1. NoFifth \in Int
    BY DEF NoFifth
  <2>2. tempStatus = [collision |-> FALSE, fifth |-> NoFifth] /\ hasSprites = FALSE
    BY <1>1 DEF Clear
  <2> QED BY <2>1, <2>2
<1> QED BY <1>1, <1>2 DEF SpriteInv, SpriteStatus, SpriteLine

(* A step of the line is one of the passes' or leaves the sprites alone.    *)
LEMMA LineStepInv ==
  ASSUME ~ShiftWraps, SpriteInv, [LineNext]_scanVars
  PROVE  SpriteInv'
<1>1. CASE UNCHANGED scanVars
  BY <1>1, SpritesUnchanged DEF scanVars
<1>2. CASE TextRow \/ Bitmap \/ LockedRow
  <2>1. UNCHANGED spriteVars
    BY <1>2, Zenon DEF TextRow, Bitmap, LockedRow
  <2> QED BY <2>1, SpritesUnchanged
<1>3. CASE TextSprites \/ SpriteStep
  <2>1. SpriteNext
    BY <1>3 DEF TextSprites, SpriteStep
  <2> QED BY <2>1, SpriteStepInv
<1>4. CASE TextShown \/ NoTiles \/ Composite
  <2>1. scene' = scene /\ tempStatus' = tempStatus /\ hasSprites' = hasSprites /\ pc' = "shown"
    BY <1>4 DEF TextShown, NoTiles, Composite
  <2> QED BY <2>1, HandedOver
<1>5. CASE StartTiles \/ Cell2 \/ EndTile2 \/ Cell1 \/ EndTile1
  <2>1. /\ scene' = scene /\ tempStatus' = tempStatus /\ hasSprites' = hasSprites
        /\ pc' \in {"tile1", "tile2", "composite"}
    BY <1>5, Zenon DEF StartTiles, Cell2, EndTile2, Cell1, EndTile1, spriteVars
  <2> QED BY <2>1, HandedOver
<1> QED BY <1>1, <1>2, <1>3, <1>4, <1>5 DEF LineNext, TextNext, ScanNext

(* For every attribute table, register setting, line and pattern: a finished*)
(* line has raised a collision exactly when two sprites it shows cover one  *)
(* pixel, and a fifth sprite exactly when the list holds one past the limit *)
(* (collectSpriteRows and renderSprites in pico9918.c).  The shifter is the  *)
(* board's: a shift by the whole word clears it.                            *)
THEOREM SpriteStatusHolds ==
  ASSUME ~ShiftWraps
  PROVE  LineSpec => []SpriteStatus
<1>1. ScanInit => SpriteInv
  BY SpriteInvInit DEF ScanInit
<1>2. SpriteInv /\ [LineNext]_scanVars => SpriteInv'
  BY LineStepInv
<1>3. SpriteInv => SpriteStatus
  BY DEF SpriteInv
<1> QED BY <1>1, <1>2, <1>3, PTL DEF LineSpec

(* And every pixel shows the first sprite of the list that covers it, in the*)
(* colour its planes spell, with exactly those pixels in the mask the layers*)
(* get.                                                                     *)
THEOREM SpriteLineHolds ==
  ASSUME ~ShiftWraps
  PROVE  LineSpec => []SpriteLine
<1>1. ScanInit => SpriteInv
  BY SpriteInvInit DEF ScanInit
<1>2. SpriteInv /\ [LineNext]_scanVars => SpriteInv'
  BY LineStepInv
<1>3. SpriteInv => SpriteLine
  BY DEF SpriteInv
<1> QED BY <1>1, <1>2, <1>3, PTL DEF LineSpec
=============================================================================
