--------------------------- MODULE TextLine_proofs ---------------------------
(***************************************************************************)
(* A finished line is the one the layers' priorities give it, for every    *)
(* scene, name table, attribute table, pattern, scroll and width.          *)
(*                                                                         *)
(* The line is drawn by walks, masks and buffers; it is stated by          *)
(* positions. The invariant of the walk ties the two: a walk is at the     *)
(* place its cell's position gives, a mask holds the solid pixels of the   *)
(* cells passed, and a buffer their colours. The memo of an empty name is  *)
(* tied to a cell on the left that has it. What differs from the line by   *)
(* position where the code is known to differ is left to the exemptions of *)
(* ScanLine and TextLine.                                                  *)
(***************************************************************************)
EXTENDS Sprites_proofs

-----------------------------------------------------------------------------
(* The inductive invariant *)

(* The cell of a layer's row a pixel is in, and its column in the cell.     *)
TOf(k, x) == Across(k, x) \div CellWidth
OOf(k, x) == Across(k, x) % CellWidth

(* The walk's place at a cell.                                             *)
PageAt(k, t) ==
  LET home == L(k).base \div Page
      down == IF BelowOf(k) THEN 1 - home \div 2 ELSE home \div 2
      side == IF L(k).wide /\ ~m.text /\ t >= Cols THEN 1 - (home % 2) ELSE home % 2
  IN (2 * down) + side
ColAt(k, t) == IF m.text /\ Scroll(k) >= Cols * CellWidth THEN t ELSE t % Cols
RowStart(k) == (RowOf(k) \div 8) * Cols
Place(k, t) ==
  [col   |-> ColAt(k, t), names |-> Page * PageAt(k, t) + RowStart(k),
   attrs |-> IF ~PerPosition THEN 0 ELSE IF m.text THEN RowStart(k) ELSE Page * PageAt(k, t) + RowStart(k)]

(* A transparent cell no plane of which sets a pixel.                      *)
EmptyAt(k, z) ==
  LET a == AttrOf(k, z)
  IN /\ a.transparent
     /\ \A p \in Levels : PlaneOf(k, NameOf(k, z), a.flipX, a.flipY, p) = {}

(* The walk of a layer's row: its place is its cell's, and the name it     *)
(* remembers is that of an empty cell it has passed.                       *)
WalkInv(k) ==
  /\ walk.k \in 0 .. Cells(k)
  /\ walk.k < Cells(k) => walk.at = Place(k, StartCell(k) + walk.k)
  /\ \/ walk.empty = -1
     \/ \E z \in Columns : /\ TOf(k, z) < StartCell(k) + walk.k
                           /\ NameOf(k, z) = walk.empty /\ EmptyAt(k, z)

(* The pixel is in a cell the walk has passed.                             *)
Past(k, x) == TOf(k, x) < StartCell(k) + walk.k

(* While the tiles are drawn the sprites' pixels are the visible ones.     *)
Tiling == pc \in {"tile2", "tile1", "composite"}
PixelsInv == pc = "done" \/ Tiling =>
   /\ spriteBits \subseteq Columns
   /\ \A x \in Columns : pixels[x] = Beneath <=> ~Visible(x)
   /\ \A x \in spriteBits : hasSprites

(* What a sprite is drawn on: the backdrop and the bitmap layer, or a       *)
(* locked device's row.                                                    *)
Below(x) == IF BitmapAt(x) THEN b.pal + Value((x - b.x) % Pixels) ELSE m.backdrop
LockedBelow(x) ==
  LET name == NameTable[L(1).base + (scene.y \div 8) * Cols + x \div Unit]
      pair == LockedPair(name)
  IN IF scene.suppress.tile1 THEN m.backdrop
     ELSE IF x % Unit \in LockedPattern(name) THEN pair.fg ELSE pair.bg

(* The ground once it is drawn, and the mask of a priority bitmap layer:   *)
(* its pixels but for the ones ByMask leaves open.                         *)
GroundIs ==
  IF r.unlocked
  THEN \A x \in Columns :
         /\ under[x] = Below(x)
         /\ ~Covered /\ x \in rowBits => BitmapAt(x) /\ b.priority
         /\ ~Covered /\ BitmapAt(x) /\ b.priority => x \in rowBits \/ ByMask(x)
  ELSE \A x \in Columns : under[x] = LockedBelow(x)

(* Before it is drawn it is the backdrop.                                  *)
GroundInv ==
  IF pc = "collect" /\ walk.k = 0
  THEN "k" \in DOMAIN walk /\ rowBits = {} /\ \A x \in Columns : under[x] = m.backdrop
  ELSE GroundIs

(* Layer 2's masks are empty until the tiles are drawn.                    *)
TileMasks ==
  /\ selection \subseteq Int /\ final \subseteq Int
  /\ pc \in {"collect", "draw", "done"} => selection = {} /\ final = {}

(* The pixel is one layer 2 took, in whichever layer's coordinates the mask *)
(* is: taken are the solid ones of the cells passed, and hold its colours. *)
Took(x) == IF pc = "tile2" THEN x + Fine(2) \in selection
           ELSE IF pc = "tile1" THEN x + Fine(1) \in final
           ELSE x \in selection
TookAt(x) == InText(x) =>
  /\ Took(x) => Solid(2, x) /\ layers[2][x + Fine(2)] = ColourAt(2, x)
  /\ Took(x) /\ pc = "tile2" => Past(2, x)
  /\ Solid(2, x) /\ (pc = "tile2" => Past(2, x)) => Took(x) \/ ByMemo(x)

(* A visible sprite's pixel leaves the mask where a tile lifts above it:    *)
(* layer 2's, or layer 1's behind what layer 2 took.                       *)
LiftAt(x) ==
  /\ x \in spriteBits => Visible(x) /\ (InText(x) => ~(Took(x) /\ Lifts(2, x)))
  /\ InText(x) /\ Visible(x) /\ x \notin spriteBits =>
       (Took(x) /\ Lifts(2, x)) \/ (Lifts(1, x) /\ pc # "tile2")
  /\ InText(x) /\ x \in spriteBits /\ Lifts(1, x) /\ pc # "tile2" /\ (pc = "tile1" => Past(1, x))
       => Took(x) \/ ByMemo(x)
  /\ m.ecm = 0 /\ Visible(x) => x \in spriteBits

(* Layer 1's buffer holds its pixels up to the walk's cell, and no pixel    *)
(* where layer 2 is over it or the memo skipped a cell.                    *)
FrontAt(x) == InText(x) /\ On(1) /\ (pc = "tile1" => Past(1, x)) =>
  \/ layers[1][x + Fine(1)] = (IF Solid(1, x) THEN ColourAt(1, x) ELSE backdropOrNone)
  \/ layers[1][x + Fine(1)] = backdropOrNone /\ (Took(x) \/ ByMemo(x))

(* A text row's borders are the backdrop.                                  *)
BorderAt(x) == On(1) /\ ~InText(x) => layers[1][x + Fine(1)] = m.backdrop

(* What holds from the first cell of a tile layer to the composite.        *)
TileInv ==
  /\ \A x \in Columns : TookAt(x) /\ LiftAt(x)
  /\ pc = "tile2" => On(2) /\ WalkInv(2)
  /\ pc = "tile1" =>
       /\ On(1) /\ WalkInv(1) /\ \A x \in Columns : FrontAt(x)
       /\ IF On(2) THEN final = Moved(selection, Fine(1) - Fine(2)) ELSE selection = {}
  /\ pc = "composite" => \A x \in Columns : FrontAt(x) /\ BorderAt(x)

(* The line that is put together from the layers. Rows that go past their  *)
(* tables are ByPaging's: nothing is said of what an unlocked device reads *)
(* there.                                                                  *)
LineInv == ~Packed /\ ~(r.unlocked /\ ByPaging) =>
  /\ PixelsInv /\ GroundInv /\ TileMasks /\ DOMAIN layers = 1 .. 2
  /\ Tiling => r.unlocked /\ ~Covered /\ TileInv

(* The line that is written in place: the row under the sprites.           *)
TextGround(x) ==
  IF ~InText(x) \/ scene.suppress.tile1 THEN m.backdrop
  ELSE IF ~PerCell THEN (IF BitOf(1, x, 0, FALSE) THEN m.fixed.fg ELSE m.fixed.bg)
  ELSE IF Tile(2, x) # 0 THEN Tile(2, x) ELSE MainColour(Tile(1, x))
(* The row is on the line when its one pass is over, and the sprites leave *)
(* it there.                                                               *)
TextInv == Packed =>
  /\ PixelsInv /\ walk.k \in {0, 1}
  /\ pc = "collect" /\ walk.k = 0 => "k" \in DOMAIN walk /\ \A x \in Columns : under[x] = m.backdrop
  /\ walk.k = 1 \/ pc # "collect" => ByPaging \/ ByReadingOn \/ \A x \in Columns : under[x] = TextGround(x)

-----------------------------------------------------------------------------
(* Geometry                                                                *)

(* A quotient and its remainder are found by any pair that fits.           *)
LEMMA Division ==
  ASSUME NEW w \in Nat, w > 0, NEW q \in Int, NEW o \in 0 .. w - 1
  PROVE  (q * w + o) \div w = q /\ (q * w + o) % w = o
<1>1. q * w + o \in Int /\ q * w \in Int
  OBVIOUS
<1>2. q * w + o = w * ((q * w + o) \div w) + ((q * w + o) % w) /\ (q * w + o) % w \in 0 .. w - 1
      /\ (q * w + o) \div w \in Int
  <2>1. PICK v : v = q * w + o
    OBVIOUS
  <2>2. v \in Int
    BY <2>1, <1>1
  <2>3. v = w * (v \div w) + (v % w) /\ v % w \in 0 .. w - 1 /\ v \div w \in Int
    BY <2>2
  <2> QED BY <2>1, <2>3
<1> DEFINE d == (q * w + o) \div w
           e == (q * w + o) % w
<1>3. PICK dd, ee : dd = d /\ ee = e
  OBVIOUS
<1>4. dd \in Int /\ ee \in 0 .. w - 1 /\ q * w + o = w * dd + ee
  BY <1>2, <1>3
<1> HIDE DEF d, e
<1>5. w * (q - dd) = ee - o
  BY <1>4
<1>6. q - dd = 0
  <2>1. ee - o < w /\ ee - o > -w
    BY <1>4
  <2>2. q - dd \in Int
    BY <1>4
  <2>3. PICK z : z = q - dd
    OBVIOUS
  <2>4. z \in Int /\ w * z < w /\ w * z > -w
    BY <2>1, <2>2, <2>3, <1>5
  <2>5. ~(z >= 1)
    <3> SUFFICES ASSUME z >= 1 PROVE FALSE
      OBVIOUS
    <3>1. w * z >= w * 1
      BY <2>4
    <3> QED BY <2>4, <3>1
  <2>6. ~(z <= -1)
    <3> SUFFICES ASSUME z <= -1 PROVE FALSE
      OBVIOUS
    <3>1. w * z <= w * (-1)
      BY <2>4
    <3> QED BY <2>4, <3>1
  <2> QED BY <2>3, <2>4, <2>5, <2>6
<1>7. dd = q /\ ee = o
  BY <1>4, <1>5, <1>6
<1> QED BY <1>3, <1>7 DEF d, e

(* What a scene's registers hold.                                          *)
LEMMA SceneParts ==
  ASSUME SceneOK
  PROVE  /\ m \in SceneMode /\ b \in SceneBitmap /\ L(1) \in SceneLayer /\ L(2) \in SceneLayer
         /\ scene.suppress \in [tile1 : BOOLEAN, tile2 : BOOLEAN, bitmap : BOOLEAN]
         /\ scene.y \in Nat /\ m.rows \in Nat /\ scene.y < 8 * m.rows
         /\ r.unlocked \in BOOLEAN /\ r.suppressed \in BOOLEAN
<1>1. /\ m \in SceneMode /\ b \in SceneBitmap /\ scene.layer \in [1 .. 2 -> SceneLayer]
      /\ scene.suppress \in [tile1 : BOOLEAN, tile2 : BOOLEAN, bitmap : BOOLEAN]
      /\ scene.y < 8 * m.rows
  BY LayerAssumption DEF SceneOK, m, b
<1>2. L(1) \in SceneLayer /\ L(2) \in SceneLayer
  BY <1>1 DEF L
<1>3. scene.y \in Nat /\ r.unlocked \in BOOLEAN /\ r.suppressed \in BOOLEAN
  BY SceneTypes DEF SpriteRegisters
<1>4. m.rows \in Nat
  BY <1>1 DEF SceneMode
<1> QED BY <1>1, <1>2, <1>3, <1>4

(* The cells of a row and its two borders are the line.                    *)
LEMMA Geometry ==
  ASSUME SceneOK
  PROVE  /\ CellWidth \in Nat /\ CellWidth > 0 /\ Cols \in Nat /\ Cols > 0 /\ Pad \in Nat
         /\ Cols * CellWidth \in Nat /\ 2 * Pad + Cols * CellWidth = Pixels /\ Pixels \in Nat
         /\ (~Row80 => CellWidth <= Word) /\ Word \in Nat
         /\ (~m.text => Pad = 0 /\ Cols = Pixels \div Unit /\ CellWidth = Unit)
<1>1. Unit \in Nat /\ Unit > 0 /\ Word = 4 * Unit /\ Pixels \in Nat /\ Pixels > 0 /\ LineWords \in Nat /\ LineWords > 0
  BY ConstantTypes
<1>2. Pixels \div Unit = 4 * LineWords /\ Pixels = (4 * LineWords) * Unit
  <2>1. Pixels = (4 * LineWords) * Unit
    BY <1>1 DEF Pixels
  <2>2. 4 * LineWords \in Int /\ 0 \in 0 .. Unit - 1
    BY <1>1
  <2>3. ((4 * LineWords) * Unit + 0) \div Unit = 4 * LineWords
    BY <1>1, <2>2, Division
  <2>4. (4 * LineWords) * Unit + 0 = Pixels
    BY <2>1, <1>1
  <2> QED BY <2>1, <2>3, <2>4
<1>3. m \in SceneMode
  BY SceneParts
<1>4. CASE ~m.text
  <2>1. CellWidth = Unit /\ Cols = Pixels \div Unit
    BY <1>4 DEF CellWidth, Cols, Row80
  <2>2. Cols * CellWidth = Pixels
    BY <1>2, <2>1
  <2>3. Pad = 0
    BY <1>1, <2>2 DEF Pad
  <2> QED BY <1>1, <1>2, <1>4, <2>1, <2>2, <2>3
<1>5. CASE m.text
  <2> DEFINE w == (3 * Unit) \div 4
  <2>1. Unit % 4 = 0 /\ TextCols \in Nat /\ TextCols > 0 /\ WideCols \in Nat /\ WideCols > 0
    BY TextAssumption
  <2>2. PICK q \in 0 .. Pixels : 2 * q + TextCols * w = Pixels
    BY TextAssumption
  <2>3. PICK p \in 0 .. Pixels : 2 * p + WideCols * CellBytes = Pixels
    BY TextAssumption
  <2>4. w \in Nat /\ w > 0 /\ w <= Word
    BY <1>1, <2>1
  <2>5. CASE m.text80
    <3>1. CellWidth = 3 /\ Cols = WideCols /\ Row80
      BY <1>5, <2>5 DEF CellWidth, Cols, Row80, CellBytes
    <3>2. WideCols * CellBytes = Pixels - 2 * p /\ WideCols * CellBytes = Cols * CellWidth
      BY <2>1, <2>3, <3>1, <1>1 DEF CellBytes
    <3>3. Pad = p
      BY <3>2, <1>1, <2>3 DEF Pad
    <3> QED BY <1>1, <1>5, <2>1, <2>3, <3>1, <3>2, <3>3
  <2>6. CASE ~m.text80
    <3>1. CellWidth = w /\ Cols = TextCols
      BY <1>5, <2>6 DEF CellWidth, Cols, Row80
    <3> HIDE DEF w
    <3>2. TextCols * w = Pixels - 2 * q /\ TextCols * w = Cols * CellWidth
      BY <2>1, <2>2, <3>1, <2>4, <1>1
    <3>3. Pad = q
      BY <3>2, <1>1, <2>2 DEF Pad
    <3> QED BY <1>1, <1>5, <2>1, <2>2, <2>4, <3>1, <3>2, <3>3
  <2> QED BY <2>5, <2>6
<1> QED BY <1>4, <1>5

(* A number is its quotient and its remainder.                             *)
LEMMA DivParts ==
  ASSUME NEW w \in Nat, w > 0, NEW v \in Int
  PROVE  v = w * (v \div w) + (v % w) /\ v % w \in 0 .. w - 1 /\ v \div w \in Int
OBVIOUS

(* A product of naturals is one.                                           *)
LEMMA Product ==
  ASSUME NEW i \in Nat, NEW j \in Nat
  PROVE  i * j \in Nat
OBVIOUS

(* Order is kept by multiplying.                                           *)
LEMMA Monotone ==
  ASSUME NEW w \in Nat, w > 0, NEW i \in Int, NEW j \in Int
  PROVE  i <= j <=> i * w <= j * w
<1>1. ASSUME i <= j PROVE i * w <= j * w
  BY <1>1
<1>2. ASSUME ~(i <= j) PROVE ~(i * w <= j * w)
  <2>1. i >= j + 1
    BY <1>2
  <2>2. i * w >= (j + 1) * w
    BY <2>1
  <2>3. (j + 1) * w = j * w + w /\ j * w \in Int /\ i * w \in Int
    OBVIOUS
  <2> QED BY <2>2, <2>3
<1> QED BY <1>1, <1>2

(* A layer's scroll, cell by cell.                                         *)
LEMMA ScrollParts ==
  ASSUME SceneOK, r.unlocked, NEW k \in 1 .. 2
  PROVE  /\ L(k) \in SceneLayer /\ Scroll(k) = L(k).hscroll
         /\ L(k).hscroll \in 0 .. 255 /\ L(k).hscroll < Pixels /\ L(k).vscroll \in 0 .. 255
         /\ StartCell(k) \in Nat /\ Fine(k) \in 0 .. CellWidth - 1
         /\ L(k).hscroll = StartCell(k) * CellWidth + Fine(k) /\ StartCell(k) * CellWidth \in Nat
         /\ Cells(k) \in Nat /\ Cells(k) >= Cols /\ (Fine(k) # 0 => Cells(k) >= Cols + 1)
         /\ (~m.text => StartCell(k) < Cols /\ Cells(k) = IF Fine(k) = 0 THEN Cols ELSE Cols + 1)
         /\ (Scroll(k) >= Cols * CellWidth <=> StartCell(k) >= Cols)
         /\ Cells(k) <= Cols + 2
<1>1. L(k) \in SceneLayer
  <2>1. k = 1 \/ k = 2
    OBVIOUS
  <2> QED BY <2>1, SceneParts
<1>2. L(k).hscroll \in 0 .. 255 /\ L(k).hscroll < Pixels /\ L(k).vscroll \in 0 .. 255
  BY <1>1, ConstantTypes DEF SceneLayer
<1>3. CellWidth \in Nat /\ CellWidth > 0 /\ Cols \in Nat /\ Cols > 0 /\ Pad \in Nat
      /\ Cols * CellWidth \in Nat /\ 2 * Pad + Cols * CellWidth = Pixels /\ Pixels \in Nat
      /\ (~m.text => Pad = 0)
  BY Geometry
<1>4. /\ L(k).hscroll = CellWidth * StartCell(k) + Fine(k) /\ Fine(k) \in 0 .. CellWidth - 1
      /\ StartCell(k) \in Int
  <2>1. PICK h \in Int : h = L(k).hscroll
    BY <1>2
  <2>0. CellWidth \in Nat /\ CellWidth > 0
    BY <1>3
  <2>2. h = CellWidth * (h \div CellWidth) + (h % CellWidth) /\ h % CellWidth \in 0 .. CellWidth - 1
        /\ h \div CellWidth \in Int
    BY <2>0, <2>1, DivParts
  <2> QED BY <2>1, <2>2 DEF StartCell, Fine
<1>5. StartCell(k) * CellWidth = CellWidth * StartCell(k) /\ StartCell(k) * CellWidth \in Int
  BY <1>3, <1>4
<1>6. StartCell(k) >= 0
  <2> SUFFICES ASSUME StartCell(k) <= -1 PROVE FALSE
    BY <1>4
  <2>1. StartCell(k) * CellWidth <= (-1) * CellWidth
    BY <1>3, <1>4, Monotone
  <2> QED BY <1>2, <1>3, <1>4, <1>5, <2>1
<1>7. Scroll(k) = L(k).hscroll
  BY DEF Scroll
<1>8. Scroll(k) >= Cols * CellWidth <=> StartCell(k) >= Cols
  <2>1. Cols <= StartCell(k) <=> Cols * CellWidth <= StartCell(k) * CellWidth
    BY <1>3, <1>4, Monotone
  <2>2. Cols + 0 \in Int /\ (~(Cols <= StartCell(k)) => (StartCell(k) + 1) * CellWidth <= Cols * CellWidth)
    <3>1. StartCell(k) + 1 <= Cols => (StartCell(k) + 1) * CellWidth <= Cols * CellWidth
      BY <1>3, <1>4, Monotone
    <3> QED BY <1>3, <1>4, <3>1
  <2>3. (StartCell(k) + 1) * CellWidth = StartCell(k) * CellWidth + CellWidth
    BY <1>3, <1>4
  <2> QED BY <1>2, <1>3, <1>4, <1>5, <1>7, <2>1, <2>2, <2>3
<1>9. Cells(k) \in Nat /\ Cells(k) >= Cols /\ (Fine(k) # 0 => Cells(k) >= Cols + 1)
      /\ (~m.text => Cells(k) = IF Fine(k) = 0 THEN Cols ELSE Cols + 1) /\ Cells(k) <= Cols + 2
  BY <1>3, <1>4 DEF Cells
<1>10. ~m.text => StartCell(k) < Cols
  BY <1>2, <1>3, <1>4, <1>7, <1>8
<1> QED BY <1>1, <1>2, <1>3, <1>4, <1>5, <1>6, <1>7, <1>8, <1>9, <1>10

(* A scroll's cells and pixels are naturals.                               *)
LEMMA FineNat ==
  ASSUME SceneOK, r.unlocked, NEW k \in 1 .. 2
  PROVE  StartCell(k) \in Nat /\ Fine(k) \in Nat
<1>1. CellWidth \in Nat
  BY Geometry
<1>2. StartCell(k) \in Nat /\ Fine(k) \in 0 .. CellWidth - 1
  BY ScrollParts
<1> QED BY <1>1, <1>2

(* A pixel's cell and its column there, from the screen's left edge.       *)
LEMMA PixelCell ==
  ASSUME SceneOK, r.unlocked, NEW k \in 1 .. 2, NEW x \in Int
  PROVE  /\ Across(k, x) \in Int /\ TOf(k, x) \in Int /\ OOf(k, x) \in InCell /\ OOf(k, x) \in Int
         /\ (TOf(k, x) - StartCell(k)) * CellWidth \in Int
         /\ x + Fine(k) - Pad = (TOf(k, x) - StartCell(k)) * CellWidth + OOf(k, x)
<1>1. CellWidth \in Nat /\ CellWidth > 0 /\ Pad \in Nat
  BY Geometry
<1>2. /\ Scroll(k) = L(k).hscroll /\ L(k).hscroll \in Nat /\ StartCell(k) \in Nat /\ Fine(k) \in Nat
      /\ L(k).hscroll = StartCell(k) * CellWidth + Fine(k) /\ StartCell(k) * CellWidth \in Nat
  <2>1. /\ Scroll(k) = L(k).hscroll /\ L(k).hscroll \in 0 .. 255 /\ StartCell(k) \in Nat
        /\ L(k).hscroll = StartCell(k) * CellWidth + Fine(k) /\ StartCell(k) * CellWidth \in Nat
    BY ScrollParts
  <2>2. Fine(k) \in 0 .. CellWidth - 1
    BY ScrollParts
  <2>3. Fine(k) \in Nat
    BY <1>1, <2>2
  <2> QED BY <2>1, <2>3
<1>3. Across(k, x) = x - Pad + StartCell(k) * CellWidth + Fine(k) /\ Across(k, x) \in Int
  BY <1>1, <1>2 DEF Across
<1>4. Across(k, x) = CellWidth * TOf(k, x) + OOf(k, x) /\ OOf(k, x) \in 0 .. CellWidth - 1 /\ TOf(k, x) \in Int
  BY <1>1, <1>3, DivParts DEF TOf, OOf
<1>5. (TOf(k, x) - StartCell(k)) * CellWidth = CellWidth * TOf(k, x) - StartCell(k) * CellWidth
      /\ CellWidth * TOf(k, x) \in Int
  BY <1>1, <1>2, <1>4
<1> QED BY <1>1, <1>2, <1>3, <1>4, <1>5 DEF InCell

(* The place found by counting cells from the left is that one.            *)
LEMMA CellUnique ==
  ASSUME SceneOK, r.unlocked, NEW k \in 1 .. 2, NEW x \in Int, NEW j \in Int, NEW o \in InCell,
         x + Fine(k) - Pad = j * CellWidth + o
  PROVE  TOf(k, x) = StartCell(k) + j /\ OOf(k, x) = o
<1>1. CellWidth \in Nat /\ CellWidth > 0 /\ Pad \in Nat
  BY Geometry
<1>2. StartCell(k) \in Nat /\ Fine(k) \in Nat
  BY FineNat
<1>3. TOf(k, x) \in Int /\ OOf(k, x) \in 0 .. CellWidth - 1 /\ o \in 0 .. CellWidth - 1
      /\ x + Fine(k) - Pad = (TOf(k, x) - StartCell(k)) * CellWidth + OOf(k, x)
  BY PixelCell DEF InCell
<1>4. PICK i \in Int : i = TOf(k, x) - StartCell(k)
  BY <1>2, <1>3
<1>5. (i * CellWidth + OOf(k, x)) \div CellWidth = i /\ (i * CellWidth + OOf(k, x)) % CellWidth = OOf(k, x)
  BY <1>1, <1>3, <1>4, Division
<1>6. (j * CellWidth + o) \div CellWidth = j /\ (j * CellWidth + o) % CellWidth = o
  BY <1>1, <1>3, Division
<1>7. i * CellWidth + OOf(k, x) = j * CellWidth + o
  BY <1>3, <1>4
<1>8. i = j /\ OOf(k, x) = o
  BY <1>5, <1>6, <1>7
<1> QED BY <1>2, <1>3, <1>4, <1>8

(* A pixel of the text area is in one of the row's cells.                  *)
LEMMA TextCell ==
  ASSUME SceneOK, r.unlocked, NEW k \in 1 .. 2, NEW x \in Columns, InText(x)
  PROVE  TOf(k, x) \in StartCell(k) .. StartCell(k) + Cells(k) - 1
         /\ TOf(k, x) <= StartCell(k) + Cols
<1>1. CellWidth \in Nat /\ CellWidth > 0 /\ Pad \in Nat /\ Cols \in Nat /\ Cols > 0 /\ Pixels \in Nat
      /\ Cols * CellWidth \in Nat /\ 2 * Pad + Cols * CellWidth = Pixels
  BY Geometry
<1>2. StartCell(k) \in Nat /\ Fine(k) \in 0 .. CellWidth - 1 /\ Cells(k) \in Nat /\ Cells(k) >= Cols
      /\ (Fine(k) # 0 => Cells(k) >= Cols + 1)
  BY ScrollParts
<1>3. x \in Int /\ x >= Pad /\ x <= Pixels - Pad - 1
  BY <1>1 DEF InText, Columns
<1>4. TOf(k, x) \in Int /\ OOf(k, x) \in 0 .. CellWidth - 1
      /\ x + Fine(k) - Pad = (TOf(k, x) - StartCell(k)) * CellWidth + OOf(k, x)
  BY <1>3, PixelCell DEF InCell
<1>5. PICK i \in Int : i = TOf(k, x) - StartCell(k)
  BY <1>2, <1>4
<1>6. i * CellWidth \in Int /\ (-1) * CellWidth = -CellWidth /\ (Cols + 1) * CellWidth = Cols * CellWidth + CellWidth
  BY <1>1, <1>5
<1>7. x + Fine(k) - Pad = i * CellWidth + OOf(k, x)
  BY <1>4, <1>5
<1>8. ~(i <= -1)
  <2>1. i <= -1 => i * CellWidth <= (-1) * CellWidth
    BY <1>1, <1>5, Monotone
  <2> QED BY <1>1, <1>2, <1>3, <1>4, <1>6, <1>7, <2>1
<1>9. i <= Cols
  <2>1. Cols + 1 <= i => (Cols + 1) * CellWidth <= i * CellWidth
    BY <1>1, <1>5, Monotone
  <2> QED BY <1>1, <1>2, <1>3, <1>4, <1>5, <1>6, <1>7, <2>1
<1>10. Fine(k) = 0 => i < Cols
  <2>1. Cols <= i => Cols * CellWidth <= i * CellWidth
    BY <1>1, <1>5, Monotone
  <2> QED BY <1>1, <1>2, <1>3, <1>4, <1>5, <1>6, <1>7, <2>1
<1> QED BY <1>1, <1>2, <1>4, <1>5, <1>8, <1>9, <1>10

(* The cell the walk is at is placed where its pixels are.                 *)
LEMMA PlacedAt ==
  ASSUME SceneOK, r.unlocked, NEW k \in 1 .. 2, NEW x \in Int, walk.k \in Nat, NEW S \in SUBSET InCell
  PROVE  x + Fine(k) \in Placed(S) <=> TOf(k, x) = StartCell(k) + walk.k /\ OOf(k, x) \in S
<1>1. CellWidth \in Nat /\ CellWidth > 0 /\ Pad \in Nat /\ InCell \subseteq Int
  BY Geometry DEF InCell
<1>2. StartCell(k) \in Nat /\ Fine(k) \in Nat /\ walk.k * CellWidth \in Nat
  BY <1>1, FineNat, Product
<1>3. TOf(k, x) \in Int /\ OOf(k, x) \in InCell
      /\ x + Fine(k) - Pad = (TOf(k, x) - StartCell(k)) * CellWidth + OOf(k, x)
  BY PixelCell
<1>4. ASSUME x + Fine(k) \in Placed(S)
      PROVE  TOf(k, x) = StartCell(k) + walk.k /\ OOf(k, x) \in S
  <2>1. PICK o \in S : x + Fine(k) = Pad + walk.k * CellWidth + o
    BY <1>4 DEF Placed, XOf
  <2>2. x + Fine(k) - Pad = walk.k * CellWidth + o /\ o \in InCell
    <3>1. o \in InCell /\ o \in Int
      BY <1>1, <2>1
    <3>2. PICK w \in Nat : w = walk.k * CellWidth
      BY <1>2
    <3> QED BY <1>1, <1>2, <2>1, <3>1, <3>2
  <2> QED BY <2>1, <2>2, CellUnique
<1>5. ASSUME TOf(k, x) = StartCell(k) + walk.k, OOf(k, x) \in S
      PROVE  x + Fine(k) \in Placed(S)
  <2>1. TOf(k, x) - StartCell(k) = walk.k
    BY <1>2, <1>5
  <2>2. x + Fine(k) = Pad + walk.k * CellWidth + OOf(k, x)
    <3>1. PICK w \in Nat : w = walk.k * CellWidth
      BY <1>2
    <3>2. OOf(k, x) \in Int /\ x + Fine(k) - Pad = w + OOf(k, x)
      BY <1>1, <1>3, <2>1, <3>1
    <3> QED BY <1>1, <1>2, <3>1, <3>2
  <2> QED BY <1>5, <2>2 DEF Placed, XOf
<1> QED BY <1>4, <1>5

-----------------------------------------------------------------------------
(* Where the walk is                                                       *)

(* An address of one of the four pages, its page, and the pages beside and *)
(* below it.                                                               *)
LEMMA PageParts ==
  ASSUME NEW P \in Nat, P > 0, NEW p \in 0 .. 3, NEW o \in 0 .. P - 1
  PROVE  /\ (P * p + o) \div P = p
         /\ (P * p + o) % (4 * P) = P * p + o
         /\ Flip(P * p + o, P) = P * (2 * (p \div 2) + (1 - (p % 2))) + o
         /\ Flip(P * p + o, 2 * P) = P * (2 * (1 - (p \div 2)) + (p % 2)) + o
<1>1. PICK a : a = P * p
  OBVIOUS
<1>2. a \in Nat /\ (p = 0 => a = 0) /\ (p = 1 => a = P) /\ (p = 2 => a = 2 * P) /\ (p = 3 => a = 3 * P)
  BY <1>1
<1>3. (a + o) \div P = p
  <2>1. (p * P + o) \div P = p
    BY Division
  <2>2. p * P = a
    BY <1>1
  <2> QED BY <2>1, <2>2
<1>4. (a + o) \div (2 * P) = p \div 2
  <2>1. PICK w \in Nat : w = 2 * P
    OBVIOUS
  <2>2. PICK q \in Int, s \in 0 .. w - 1 : q = p \div 2 /\ a + o = q * w + s
    <3>1. CASE p \in {0, 1}
      <4>1. a + o = 0 * w + (a + o) /\ a + o \in 0 .. w - 1 /\ 0 = p \div 2
        BY <1>2, <2>1, <3>1
      <4> QED BY <4>1
    <3>2. CASE p \in {2, 3}
      <4>1. a + o = 1 * w + (a + o - w) /\ a + o - w \in 0 .. w - 1 /\ 1 = p \div 2
        BY <1>2, <2>1, <3>2
      <4> QED BY <4>1
    <3> QED BY <3>1, <3>2
  <2>3. (q * w + s) \div w = q
    BY <2>1, <2>2, Division
  <2> QED BY <2>1, <2>2, <2>3
<1>5. (a + o) % (4 * P) = a + o
  <2>1. PICK w \in Nat : w = 4 * P
    OBVIOUS
  <2>2. a + o \in 0 .. w - 1 /\ w > 0
    BY <1>2, <2>1
  <2>3. (a + o) % w = a + o
    BY <2>2
  <2> QED BY <2>1, <2>3
<1>6. Flip(a + o, P) = P * (2 * (p \div 2) + (1 - (p % 2))) + o
  <2>1. Flip(a + o, P) = IF p % 2 = 1 THEN a + o - P ELSE a + o + P
    <3>1. \A v, w : Flip(v, w) = IF (v \div w) % 2 = 1 THEN v - w ELSE v + w
      BY Zenon DEF Flip
    <3>2. PICK v \in Nat, w \in Nat : v = a + o /\ w = P
      BY <1>2
    <3>3. Flip(v, w) = IF p % 2 = 1 THEN v - w ELSE v + w
      BY <1>3, <3>1, <3>2, Zenon
    <3> QED BY <1>2, <3>2, <3>3
  <2>2. P * (2 * (p \div 2) + (1 - (p % 2))) = IF p % 2 = 1 THEN a - P ELSE a + P
    <3>1. p = 0 \/ p = 1 \/ p = 2 \/ p = 3
      OBVIOUS
    <3> QED BY <1>2, <3>1
  <2> QED BY <1>2, <2>1, <2>2
<1>7. Flip(a + o, 2 * P) = P * (2 * (1 - (p \div 2)) + (p % 2)) + o
  <2>1. Flip(a + o, 2 * P) = IF (p \div 2) % 2 = 1 THEN a + o - 2 * P ELSE a + o + 2 * P
    <3>1. \A v, w : Flip(v, w) = IF (v \div w) % 2 = 1 THEN v - w ELSE v + w
      BY Zenon DEF Flip
    <3>2. PICK v \in Nat, w \in Nat : v = a + o /\ w = 2 * P
      BY <1>2
    <3>3. Flip(v, w) = IF (p \div 2) % 2 = 1 THEN v - w ELSE v + w
      BY <1>4, <3>1, <3>2, Zenon
    <3> QED BY <1>2, <3>2, <3>3
  <2>2. P * (2 * (1 - (p \div 2)) + (p % 2)) = IF (p \div 2) % 2 = 1 THEN a - 2 * P ELSE a + 2 * P
    <3>1. p = 0 \/ p = 1 \/ p = 2 \/ p = 3
      OBVIOUS
    <3> QED BY <1>2, <3>1
  <2> QED BY <1>2, <2>1, <2>2
<1> QED BY <1>1, <1>3, <1>5, <1>6, <1>7

(* The row of a layer, as the code finds it and as it should be.           *)
LEMMA RowParts ==
  ASSUME SceneOK, NEW k \in 1 .. 2
  PROVE  /\ RowY(k) = RowOf(k) /\ RowOf(k) \in Nat /\ RowStart(k) \in Nat
         /\ (Crossed(k) /\ L(k).tall /\ ~m.text <=> BelowOf(k))
         /\ (L(k).on /\ ~ByPaging => RowStart(k) < IF m.text THEN 4 * Page ELSE Page)
         /\ Page \in Nat /\ Page > 0
         /\ \E p \in 0 .. 3 : L(k).base = Page * p /\ L(k).base \div Page = p
<1>1. L(k) \in SceneLayer
  <2>1. k = 1 \/ k = 2
    OBVIOUS
  <2> QED BY <2>1, SceneParts
<1>2. scene.y \in Nat /\ m.rows \in Nat /\ scene.y < 8 * m.rows
  BY SceneParts
<1>3. L(k).vscroll \in Nat
  BY <1>1 DEF SceneLayer
<1>4. Crossed(k) <=> scene.y + L(k).vscroll >= 8 * m.rows
  BY <1>2, <1>3 DEF Crossed, VirtY
<1>5. RowY(k) = RowOf(k) /\ RowOf(k) \in Nat
  BY <1>2, <1>3, <1>4 DEF RowY, RowOf, VirtY
<1>6. Cols \in Nat
  BY Geometry
<1>7. RowStart(k) \in Nat
  <2>1. PICK q \in Nat : q = RowOf(k) \div 8
    BY <1>5
  <2> QED BY <1>6, <2>1, Product DEF RowStart
<1>8. Page \in Nat /\ Page > 0
  <2>1. PageRows \in Nat /\ PageRows > 0
    BY LayerAssumption
  <2>2. Unit \in Nat /\ Unit > 0 /\ LineWords \in Nat /\ LineWords > 0 /\ Pixels = LineWords * (4 * Unit)
    BY ConstantTypes DEF Pixels
  <2>3. Pixels \div Unit = 4 * LineWords
    <3>1. ((4 * LineWords) * Unit + 0) \div Unit = 4 * LineWords
      BY <2>2, Division
    <3>2. (4 * LineWords) * Unit + 0 = Pixels
      BY <2>2
    <3> QED BY <3>1, <3>2
  <2>4. Page = PageRows * (4 * LineWords)
    BY <2>3 DEF Page
  <2>5. 4 * LineWords \in Nat /\ 4 * LineWords > 0
    BY <2>2
  <2>6. \A i, j \in Nat : i > 0 /\ j > 0 => i * j \in Nat /\ i * j > 0
    OBVIOUS
  <2> QED BY <2>1, <2>4, <2>5, <2>6
<1>9. \E p \in 0 .. 3 : L(k).base = Page * p /\ L(k).base \div Page = p
  <2>1. PICK p \in 0 .. 3 : L(k).base = Page * p
    BY <1>1 DEF SceneLayer
  <2>2. (Page * p + 0) \div Page = p
    BY <1>8, PageParts
  <2>3. Page * p + 0 = Page * p
    BY <1>8
  <2> QED BY <2>1, <2>2, <2>3
<1>10. L(k).on /\ ~ByPaging => RowStart(k) < IF m.text THEN 4 * Page ELSE Page
  <2> SUFFICES ASSUME L(k).on, ~ByPaging PROVE RowStart(k) < IF m.text THEN 4 * Page ELSE Page
    OBVIOUS
  <2>1. ~(RowStart(k) >= IF m.text THEN 4 * Page ELSE Page)
    BY Zenon DEF ByPaging, RowStart
  <2> QED BY <1>7, <1>8, <2>1
<1> QED BY <1>4, <1>5, <1>7, <1>8, <1>9, <1>10 DEF BelowOf

-----------------------------------------------------------------------------
(* What stays while the scene does                                         *)

(* The registers and the geometry they give.                               *)
LEMMA GeometryFixed ==
  ASSUME scene' = scene
  PROVE  /\ m' = m /\ b' = b /\ r' = r /\ \A k : L(k)' = L(k)
         /\ CellWidth' = CellWidth /\ Cols' = Cols /\ Packed' = Packed /\ Pad' = Pad /\ InCell' = InCell
         /\ Levels' = Levels /\ PerPosition' = PerPosition
         /\ \A k : /\ Fine(k)' = Fine(k) /\ StartCell(k)' = StartCell(k) /\ Cells(k)' = Cells(k)
                   /\ Scroll(k)' = Scroll(k) /\ On(k)' = On(k) /\ RowOf(k)' = RowOf(k) /\ RowY(k)' = RowY(k)
                   /\ BelowOf(k)' = BelowOf(k) /\ RowStart(k)' = RowStart(k)
         /\ \A k, x : Across(k, x)' = Across(k, x) /\ TOf(k, x)' = TOf(k, x) /\ OOf(k, x)' = OOf(k, x)
         /\ \A x : InText(x)' = InText(x)
         /\ \A p : LevelPal(p)' = LevelPal(p)
<1>1. m' = m /\ b' = b /\ r' = r /\ \A k : L(k)' = L(k)
  BY DEF m, b, r, L
<1>2. Row80' = Row80
  BY <1>1 DEF Row80
<1>3. CellWidth' = CellWidth /\ Cols' = Cols
  BY <1>1, <1>2 DEF CellWidth, Cols
<1>4. Packed' = Packed /\ Pad' = Pad /\ InCell' = InCell /\ Levels' = Levels /\ PerPosition' = PerPosition
  BY <1>1, <1>3 DEF Packed, Pad, InCell, Levels, PerPosition
<1>5. \A k : Fine(k)' = Fine(k) /\ StartCell(k)' = StartCell(k) /\ Scroll(k)' = Scroll(k)
  BY <1>1, <1>3 DEF Fine, StartCell, Scroll
<1>6. \A k : Cells(k)' = Cells(k)
  BY <1>1, <1>3, <1>5 DEF Cells
<1>7. \A k : /\ On(k)' = On(k) /\ RowOf(k)' = RowOf(k) /\ BelowOf(k)' = BelowOf(k)
             /\ VirtY(k)' = VirtY(k)
  BY <1>1 DEF On, RowOf, BelowOf, VirtY
<1>8. \A k : RowY(k)' = RowY(k)
  <2>1. \A k : Crossed(k)' = Crossed(k)
    BY <1>1, <1>7 DEF Crossed
  <2> QED BY <1>1, <1>7, <2>1 DEF RowY
<1>9. \A k : RowStart(k)' = RowStart(k)
  BY <1>3, <1>7 DEF RowStart
<1>10. \A k, x : Across(k, x)' = Across(k, x)
  BY <1>4, <1>5 DEF Across
<1>11. \A k, x : TOf(k, x)' = TOf(k, x) /\ OOf(k, x)' = OOf(k, x)
  BY <1>3, <1>10 DEF TOf, OOf
<1>12. \A x : InText(x)' = InText(x)
  BY <1>4 DEF InText
<1>13. \A p : LevelPal(p)' = LevelPal(p)
  BY <1>1 DEF LevelPal
<1> QED BY <1>1, <1>3, <1>4, <1>5, <1>6, <1>7, <1>8, <1>9, <1>10, <1>11, <1>12, <1>13

(* The names and attributes found by position, and the walk's places.      *)
LEMMA PlacesFixed ==
  ASSUME scene' = scene
  PROVE  /\ \A k, x : NameOf(k, x)' = NameOf(k, x) /\ AttrOf(k, x)' = AttrOf(k, x)
         /\ \A k, t : Place(k, t)' = Place(k, t)
         /\ \A k, x : EmptyAt(k, x)' = EmptyAt(k, x)
<1>1. \A k, x : ColOf(k, x)' = ColOf(k, x) /\ BesideOf(k, x)' = BesideOf(k, x)
  BY GeometryFixed DEF ColOf, BesideOf
<1>2. \A k, x : PageOf(k, x)' = PageOf(k, x)
  BY <1>1, GeometryFixed DEF PageOf
<1>3. \A k, x : Position(k, x)' = Position(k, x)
  BY <1>1, <1>2, GeometryFixed DEF Position
<1>4. \A k, x : NameOf(k, x)' = NameOf(k, x)
  BY <1>3 DEF NameOf
<1>5. \A k, x : AttrOf(k, x)' = AttrOf(k, x)
  BY <1>1, <1>3, <1>4, GeometryFixed DEF AttrOf
<1>6. \A k, t : ColAt(k, t)' = ColAt(k, t) /\ PageAt(k, t)' = PageAt(k, t)
  BY GeometryFixed DEF ColAt, PageAt
<1>7. \A k, t : Place(k, t)' = Place(k, t)
  BY <1>6, GeometryFixed DEF Place
<1>8. \A k, name, fx, fy, p : PlaneOf(k, name, fx, fy, p)' = PlaneOf(k, name, fx, fy, p)
  <2> TAKE k, name, fx, fy, p
  <2>1. RowY(k)' = RowY(k) /\ CellWidth' = CellWidth /\ InCell' = InCell
    BY GeometryFixed
  <2> DEFINE bits == Pattern[p][name * 8 + (IF fy THEN 7 - (RowY(k) % 8) ELSE RowY(k) % 8)] \cap InCell
  <2>2. bits' = bits
    BY <2>1
  <2>3. PlaneOf(k, name, fx, fy, p) = IF fx THEN {CellWidth - 1 - o : o \in bits} ELSE bits
    BY Zenon DEF PlaneOf
  <2>4. PlaneOf(k, name, fx, fy, p)' = IF fx THEN {CellWidth' - 1 - o : o \in bits'} ELSE bits'
    BY Zenon DEF PlaneOf
  <2> HIDE DEF bits
  <2> QED BY <2>1, <2>2, <2>3, <2>4
<1>9. \A k, x : EmptyAt(k, x)' = EmptyAt(k, x)
  BY <1>4, <1>5, <1>8, GeometryFixed DEF EmptyAt
<1> QED BY <1>4, <1>5, <1>7, <1>9

(* What each layer has at a pixel.                                         *)
LEMMA LayersFixed ==
  ASSUME scene' = scene
  PROVE  /\ \A k, x : /\ PairAt(k, x)' = PairAt(k, x) /\ Solid(k, x)' = Solid(k, x)
                      /\ ColourAt(k, x)' = ColourAt(k, x) /\ Lifts(k, x)' = Lifts(k, x)
                      /\ InFront(k, x)' = InFront(k, x)
         /\ \A k, x, p, f : BitOf(k, x, p, f)' = BitOf(k, x, p, f)
         /\ \A x : /\ Visible(x)' = Visible(x) /\ BitmapAt(x)' = BitmapAt(x) /\ Border(x)' = Border(x)
                   /\ Below(x)' = Below(x) /\ LockedBelow(x)' = LockedBelow(x)
         /\ Covered' = Covered /\ underLayer' = underLayer /\ backdropOrNone' = backdropOrNone
         /\ DrawsBeneath' = DrawsBeneath
         /\ \A o : Value(o)' = Value(o) /\ Draws(o)' = Draws(o)
<1>1. \A k, x, p, f : BitOf(k, x, p, f)' = BitOf(k, x, p, f)
  BY GeometryFixed, PlacesFixed DEF BitOf
<1>2. \A k, x : PairAt(k, x)' = PairAt(k, x)
  BY <1>1, GeometryFixed, PlacesFixed DEF PairAt
<1>3. \A k, x : Solid(k, x)' = Solid(k, x)
  BY <1>1, <1>2, GeometryFixed, PlacesFixed DEF Solid
<1>4. \A k, x : ColourAt(k, x)' = ColourAt(k, x)
  <2> TAKE k, x
  <2>1. /\ L(k)' = L(k) /\ m' = m /\ PairAt(k, x)' = PairAt(k, x) /\ AttrOf(k, x)' = AttrOf(k, x)
        /\ LevelPal(L(k).pal)' = LevelPal(L(k).pal) /\ Levels' = Levels
        /\ \A p : BitOf(k, x, p, TRUE)' = BitOf(k, x, p, TRUE)
    BY <1>1, <1>2, GeometryFixed, PlacesFixed DEF LevelPal
  <2> DEFINE ps == {q \in Levels : BitOf(k, x, q, TRUE)}
             base == LevelPal(L(k).pal) + (AttrOf(k, x).colour \div (IF m.ecm = 3 THEN 2 ELSE 1)) * 2 ^ m.ecm
  <2>2. ps' = ps /\ base' = base
    BY <2>1
  <2>3. ColourAt(k, x) = IF m.ecm = 0 THEN L(k).pal + PairAt(k, x) ELSE base + Spelt(ps)
    BY Zenon DEF ColourAt
  <2>4. ColourAt(k, x)' = IF m'.ecm = 0 THEN L(k)'.pal + PairAt(k, x)' ELSE base' + Spelt(ps')
    BY Zenon DEF ColourAt, Spelt
  <2>5. Spelt(ps') = Spelt(ps)
    BY <2>2, Zenon
  <2> HIDE DEF ps, base
  <2> QED BY <2>1, <2>2, <2>3, <2>4, <2>5
<1>5. \A k, x : Lifts(k, x)' = Lifts(k, x)
  BY <1>3, GeometryFixed, PlacesFixed DEF Lifts
<1>6. BitmapHere' = BitmapHere /\ BitmapBytes' = BitmapBytes
  BY GeometryFixed DEF BitmapHere, BitmapBytes
<1>7. underLayer' = underLayer /\ Covered' = Covered /\ DrawsBeneath' = DrawsBeneath
  BY <1>6, GeometryFixed DEF underLayer, Covered, DrawsBeneath
<1>8. backdropOrNone' = backdropOrNone
  BY <1>7, GeometryFixed DEF backdropOrNone
<1>9. \A k, x : InFront(k, x)' = InFront(k, x)
  BY <1>3, <1>4, <1>7, GeometryFixed DEF InFront
<1>10. \A o : Value(o)' = Value(o)
  BY GeometryFixed DEF Value
<1>11. \A o : Draws(o)' = Draws(o)
  BY <1>10, GeometryFixed DEF Draws
<1>12. \A x : BitmapAt(x)' = BitmapAt(x) /\ Border(x)' = Border(x)
  BY <1>6, <1>7, <1>11, GeometryFixed DEF BitmapAt, Border
<1>13. \A x : Below(x)' = Below(x)
  BY <1>10, <1>12, GeometryFixed DEF Below
<1>14. \A x : LockedBelow(x)' = LockedBelow(x)
  <2>1. \A name : LockedPattern(name)' = LockedPattern(name)
    BY DEF LockedPattern
  <2>2. \A c : MainColour(c)' = MainColour(c)
    BY GeometryFixed DEF MainColour
  <2>3. \A name : LockedPair(name)' = LockedPair(name)
    BY <2>2 DEF LockedPair
  <2> QED BY <2>1, <2>3, GeometryFixed DEF LockedBelow
<1>15. \A x : Visible(x)' = Visible(x)
  <2>1. r' = r /\ Ecm' = Ecm /\ Shown' = Shown /\ \A k, x : Covers(k, x)' = Covers(k, x)
    BY SceneFixed DEF r, Ecm
  <2>2. \A x : Over(x)' = Over(x)
    BY <2>1 DEF Over
  <2>3. \A x : Owner(x)' = Owner(x)
    BY <2>2 DEF Owner, Min
  <2> QED BY <2>1, <2>2, <2>3 DEF Visible
<1> QED BY <1>1, <1>2, <1>3, <1>4, <1>5, <1>7, <1>8, <1>9, <1>10, <1>11, <1>12, <1>13, <1>14, <1>15

(* Where the code is known to differ.                                      *)
LEMMA ExemptionsFixed ==
  ASSUME scene' = scene
  PROVE  /\ \A x : /\ ByMemo(x)' = ByMemo(x) /\ ByMask(x)' = ByMask(x) /\ ByLift(x)' = ByLift(x)
                   /\ ByBorder(x)' = ByBorder(x) /\ TextGround(x)' = TextGround(x)
         /\ ByPaging' = ByPaging /\ ByReadingOn' = ByReadingOn /\ PerCell' = PerCell
<1>1. \A k, x : EmptyCell(k, x)' = EmptyCell(k, x)
  BY GeometryFixed, LayersFixed DEF EmptyCell
<1>2. \A x : ByMemo(x)' = ByMemo(x)
  BY <1>1, GeometryFixed, PlacesFixed DEF ByMemo
<1>3. \A x : ByMask(x)' = ByMask(x)
  BY GeometryFixed, LayersFixed DEF ByMask
<1>4. \A x : ByLift(x)' = ByLift(x) /\ ByBorder(x)' = ByBorder(x)
  BY GeometryFixed, LayersFixed DEF ByLift, ByBorder
<1>5. ByPaging' = ByPaging /\ PerCell' = PerCell
  BY GeometryFixed DEF ByPaging, PerCell
<1>6. \A k : TextScroll(k)' = TextScroll(k)
  BY GeometryFixed DEF TextScroll
<1>7. ByReadingOn' = ByReadingOn
  BY <1>5, <1>6, GeometryFixed DEF ByReadingOn
<1>8. \A c : MainColour(c)' = MainColour(c)
  BY GeometryFixed DEF MainColour
<1>9. \A k, x : Tile(k, x)' = Tile(k, x)
  BY GeometryFixed, LayersFixed DEF Tile
<1>10. \A x : TextGround(x)' = TextGround(x)
  BY <1>5, <1>8, <1>9, GeometryFixed, LayersFixed DEF TextGround
<1> QED BY <1>2, <1>3, <1>4, <1>5, <1>7, <1>10

-----------------------------------------------------------------------------
(* The walk goes where the positions are                                   *)

(* The remainder of the next number.                                       *)
LEMMA NextRemainder ==
  ASSUME NEW w \in Nat, w > 0, NEW t \in Nat
  PROVE  /\ (t + 1) % w = IF (t % w) + 1 < w THEN (t % w) + 1 ELSE 0
         /\ t < w => t % w = t
         /\ w <= t /\ t < 2 * w => t % w = t - w
<1>1. PICK q \in Int, s \in 0 .. w - 1 : q = t \div w /\ s = t % w
  BY DivParts
<1>2. t = q * w + s
  BY <1>1, DivParts
<1>3. PICK a \in Int : a = q * w
  BY <1>1
<1>4. CASE s + 1 < w
  <2>1. s + 1 \in 0 .. w - 1
    BY <1>1, <1>4
  <2>2. (q * w + (s + 1)) % w = s + 1
    BY <1>1, <2>1, Division
  <2>3. q * w + (s + 1) = t + 1
    BY <1>1, <1>2, <1>3
  <2> QED BY <1>1, <1>4, <2>2, <2>3
<1>5. CASE ~(s + 1 < w)
  <2>1. s + 1 = w
    BY <1>1, <1>5
  <2>2. ((q + 1) * w + 0) % w = 0
    BY <1>1, Division
  <2>3. (q + 1) * w = a + w
    BY <1>1, <1>3
  <2>4. (q + 1) * w + 0 = t + 1
    BY <1>1, <1>2, <1>3, <2>1, <2>3
  <2> QED BY <1>1, <1>5, <2>2, <2>4
<1>6. t < w => t % w = t
  <2> SUFFICES ASSUME t < w PROVE t % w = t
    OBVIOUS
  <2>1. (0 * w + t) % w = t
    BY Division
  <2> QED BY <2>1
<1>7. w <= t /\ t < 2 * w => t % w = t - w
  <2> SUFFICES ASSUME w <= t, t < 2 * w PROVE t % w = t - w
    OBVIOUS
  <2>1. t - w \in 0 .. w - 1
    OBVIOUS
  <2>2. (1 * w + (t - w)) % w = t - w
    BY <2>1, Division
  <2>3. 1 * w + (t - w) = t
    OBVIOUS
  <2> QED BY <2>2, <2>3
<1> QED BY <1>1, <1>4, <1>5, <1>6, <1>7

(* A walk's page is one of the four.                                       *)
LEMMA PageAtParts ==
  ASSUME SceneOK, NEW k \in 1 .. 2, NEW t
  PROVE  \E p \in 0 .. 3 :
           /\ L(k).base = Page * p
           /\ PageAt(k, t) = 2 * (IF BelowOf(k) THEN 1 - (p \div 2) ELSE p \div 2)
                               + (IF L(k).wide /\ ~m.text /\ t >= Cols THEN 1 - (p % 2) ELSE p % 2)
           /\ PageAt(k, t) \in 0 .. 3
<1>1. PICK p \in 0 .. 3 : L(k).base = Page * p /\ L(k).base \div Page = p
  BY RowParts
<1>2. PageAt(k, t) = 2 * (IF BelowOf(k) THEN 1 - (p \div 2) ELSE p \div 2)
                       + (IF L(k).wide /\ ~m.text /\ t >= Cols THEN 1 - (p % 2) ELSE p % 2)
  BY <1>1 DEF PageAt
<1>3. PageAt(k, t) \in 0 .. 3
  BY <1>1, <1>2
<1> QED BY <1>1, <1>2, <1>3

(* A row begins at the place of its first cell (renderTextLayerRow and its  *)
(* callers).                                                               *)
LEMMA StartPlace ==
  ASSUME SceneOK, r.unlocked, NEW k \in 1 .. 2, L(k).on, ~ByPaging
  PROVE  Start(k) = Place(k, StartCell(k))
<1> DEFINE t == StartCell(k)
<1>1. /\ RowY(k) = RowOf(k) /\ RowStart(k) \in Nat
      /\ (Crossed(k) /\ L(k).tall /\ ~m.text <=> BelowOf(k))
      /\ RowStart(k) < IF m.text THEN 4 * Page ELSE Page
      /\ Page \in Nat /\ Page > 0
  BY RowParts
<1>2. /\ t \in Nat /\ Cols \in Nat /\ Cols > 0 /\ (~m.text => t < Cols)
      /\ (Scroll(k) >= Cols * CellWidth <=> t >= Cols)
  BY ScrollParts, Geometry
<1>3. PICK p \in 0 .. 3 :
           /\ L(k).base = Page * p
           /\ PageAt(k, t) = 2 * (IF BelowOf(k) THEN 1 - (p \div 2) ELSE p \div 2)
                               + (IF L(k).wide /\ ~m.text /\ t >= Cols THEN 1 - (p % 2) ELSE p % 2)
           /\ PageAt(k, t) \in 0 .. 3
  BY PageAtParts
<1>4. ColAt(k, t) = t
  <2>1. t < Cols => t % Cols = t
    BY <1>2, NextRemainder
  <2> QED BY <1>2, <2>1 DEF ColAt
<1>5. PageAt(k, t) = 2 * (IF BelowOf(k) THEN 1 - (p \div 2) ELSE p \div 2) + (p % 2)
  BY <1>2, <1>3
<1> DEFINE names == IF Crossed(k) /\ L(k).tall /\ ~m.text THEN Flip(L(k).base + RowStart(k), 2 * Page)
                    ELSE L(k).base + RowStart(k)
<1>6. names = Page * PageAt(k, t) + RowStart(k)
  <2>1. CASE BelowOf(k)
    <3>1. RowStart(k) \in 0 .. Page - 1
      BY <1>1, <2>1 DEF BelowOf
    <3>2. Flip(Page * p + RowStart(k), 2 * Page) = Page * (2 * (1 - (p \div 2)) + (p % 2)) + RowStart(k)
      BY <1>1, <3>1, PageParts
    <3> QED BY <1>1, <1>3, <1>5, <2>1, <3>2
  <2>2. CASE ~BelowOf(k)
    <3>1. PageAt(k, t) = p
      BY <1>5, <2>2
    <3> QED BY <1>1, <1>3, <2>2, <3>1
  <2> QED BY <2>1, <2>2
<1> DEFINE page == IF m.text THEN 0 ELSE Page * (names \div Page)
<1>7. PerPosition => (page + RowStart(k)) % (4 * Page)
                       = IF m.text THEN RowStart(k) ELSE Page * PageAt(k, t) + RowStart(k)
  <2> HIDE DEF names
  <2>1. CASE m.text
    <3>1. page = 0
      BY <2>1
    <3>2. 4 * Page \in Nat /\ 4 * Page > 0 /\ RowStart(k) < 4 * Page
      BY <1>1, <2>1
    <3>3. RowStart(k) % (4 * Page) = RowStart(k)
      BY <1>1, <3>2, NextRemainder
    <3> QED BY <1>1, <2>1, <3>1, <3>3
  <2>2. CASE ~m.text
    <3>1. RowStart(k) \in 0 .. Page - 1
      BY <1>1, <2>2
    <3>2. names \div Page = PageAt(k, t)
          /\ (Page * PageAt(k, t) + RowStart(k)) % (4 * Page) = Page * PageAt(k, t) + RowStart(k)
      BY <1>1, <1>3, <1>6, <3>1, PageParts
    <3>3. page = Page * PageAt(k, t)
      BY <2>2, <3>2
    <3> QED BY <2>2, <3>2, <3>3
  <2> QED BY <2>1, <2>2
<1>8. Start(k) = [col |-> t, names |-> names, attrs |-> IF PerPosition THEN (page + RowStart(k)) % (4 * Page) ELSE 0]
  <2>1. (RowY(k) \div 8) * Cols = RowStart(k)
    BY <1>1 DEF RowStart
  <2> QED BY <2>1, Zenon DEF Start
<1>9. Place(k, t) =
        [col |-> ColAt(k, t), names |-> Page * PageAt(k, t) + RowStart(k),
         attrs |-> IF ~PerPosition THEN 0
                   ELSE IF m.text THEN RowStart(k) ELSE Page * PageAt(k, t) + RowStart(k)]
  BY DEF Place
<1> HIDE DEF names, page, t
<1> QED BY <1>4, <1>6, <1>7, <1>8, <1>9 DEF t

(* From a cell to the next the walk goes to the next place: round the row,  *)
(* into the page beside, or on past the last cell of a text row.            *)
LEMMA AdvancePlace ==
  ASSUME SceneOK, r.unlocked, NEW k \in 1 .. 2, L(k).on, ~ByPaging,
         NEW t \in Nat, t >= StartCell(k), t + 1 < StartCell(k) + Cells(k)
  PROVE  Advance(k, Place(k, t)) = Place(k, t + 1)
<1> DEFINE at == Place(k, t)
<1> SUFFICES Advance(k, at) = Place(k, t + 1)
  OBVIOUS
<1>1. /\ RowStart(k) \in Nat /\ Page \in Nat /\ Page > 0
      /\ RowStart(k) < IF m.text THEN 4 * Page ELSE Page
  BY RowParts
<1>2. /\ StartCell(k) \in Nat /\ Cols \in Nat /\ Cols > 0 /\ Cells(k) \in Nat
      /\ (~m.text => StartCell(k) < Cols /\ Cells(k) <= Cols + 1)
      /\ (Scroll(k) >= Cols * CellWidth <=> StartCell(k) >= Cols)
  <2>1. /\ StartCell(k) \in Nat /\ Cells(k) \in Nat
        /\ (~m.text => StartCell(k) < Cols /\ Cells(k) = IF Fine(k) = 0 THEN Cols ELSE Cols + 1)
        /\ (Scroll(k) >= Cols * CellWidth <=> StartCell(k) >= Cols)
        /\ Cells(k) <= Cols + 2
    BY ScrollParts
  <2>2. Cols \in Nat /\ Cols > 0
    BY Geometry
  <2> QED BY <2>1, <2>2
<1>3. at = [col |-> ColAt(k, t), names |-> Page * PageAt(k, t) + RowStart(k),
            attrs |-> IF ~PerPosition THEN 0
                      ELSE IF m.text THEN RowStart(k) ELSE Page * PageAt(k, t) + RowStart(k)]
  BY DEF Place
<1>4. Place(k, t + 1) =
        [col |-> ColAt(k, t + 1), names |-> Page * PageAt(k, t + 1) + RowStart(k),
         attrs |-> IF ~PerPosition THEN 0
                   ELSE IF m.text THEN RowStart(k) ELSE Page * PageAt(k, t + 1) + RowStart(k)]
  BY DEF Place
<1>5. /\ (t + 1) % Cols = IF (t % Cols) + 1 < Cols THEN (t % Cols) + 1 ELSE 0
      /\ t < Cols => t % Cols = t
      /\ Cols <= t /\ t < 2 * Cols => t % Cols = t - Cols
  BY <1>2, NextRemainder
<1> DEFINE moved(d) == [col |-> d, names |-> at.names, attrs |-> at.attrs]
<1>11. \A d : [at EXCEPT !.col = d] = moved(d)
  <2> TAKE d
  <2>1. PICK nm, as, c :
           /\ nm = Page * PageAt(k, t) + RowStart(k) /\ c = ColAt(k, t)
           /\ as = IF ~PerPosition THEN 0
                   ELSE IF m.text THEN RowStart(k) ELSE Page * PageAt(k, t) + RowStart(k)
    OBVIOUS
  <2>2. at = [col |-> c, names |-> nm, attrs |-> as]
    BY <1>3, <2>1
  <2>3. PICK a : a = at
    OBVIOUS
  <2> HIDE DEF at
  <2>4. a = [col |-> c, names |-> nm, attrs |-> as]
    BY <2>2, <2>3
  <2>5. [a EXCEPT !.col = d] = [col |-> d, names |-> nm, attrs |-> as] /\ a.names = nm /\ a.attrs = as
    <3>1. PICK f : f = [a EXCEPT !.col = d]
      OBVIOUS
    <3>2. f.names = nm /\ f.col = d /\ f.attrs = as
      BY <2>4, <3>1
    <3>3. DOMAIN f = {"col", "names", "attrs"} /\ f = [x \in {"col", "names", "attrs"} |-> f[x]]
      BY <2>4, <3>1
    <3>4. f = [col |-> d, names |-> nm, attrs |-> as]
      BY <3>2, <3>3
    <3>5. a.names = nm /\ a.attrs = as
      BY <2>4
    <3> QED BY <3>1, <3>4, <3>5, Zenon
  <2> QED BY <2>3, <2>5, Zenon
<1>6. Advance(k, at) =
        IF at.col + 1 < Cols \/ (m.text /\ at.col >= Cols) THEN moved(at.col + 1)
        ELSE IF ~L(k).wide \/ m.text THEN moved(0)
        ELSE [col |-> 0, names |-> Flip(at.names, Page),
              attrs |-> IF PerPosition
                        THEN (at.attrs + 2 * Page * ((Flip(at.names, Page) \div Page) % 2) - Page) % (4 * Page)
                        ELSE at.attrs]
  BY <1>11, Zenon DEF Advance
<1> HIDE DEF at
<1>10. PageAt(k, t + 1) = PageAt(k, t) => Place(k, t + 1) = moved(ColAt(k, t + 1))
  <2> SUFFICES ASSUME PageAt(k, t + 1) = PageAt(k, t) PROVE Place(k, t + 1) = moved(ColAt(k, t + 1))
    OBVIOUS
  <2>1. at.names = Page * PageAt(k, t + 1) + RowStart(k)
        /\ at.attrs = IF ~PerPosition THEN 0
                      ELSE IF m.text THEN RowStart(k) ELSE Page * PageAt(k, t + 1) + RowStart(k)
    BY <1>3
  <2> QED BY <1>4, <2>1, Zenon
<1>7. CASE m.text
  <2>1. PageAt(k, t + 1) = PageAt(k, t)
    BY <1>7 DEF PageAt
  <2>2. CASE StartCell(k) >= Cols
    <3>1. ColAt(k, t) = t /\ ColAt(k, t + 1) = t + 1
      BY <1>2, <1>7, <2>2 DEF ColAt
    <3>2. at.col = t /\ t >= Cols
      BY <1>2, <1>3, <2>2, <3>1
    <3>3. Advance(k, at) = moved(t + 1)
      BY <1>6, <1>7, <3>2
    <3> QED BY <1>10, <2>1, <3>1, <3>3
  <2>3. CASE ~(StartCell(k) >= Cols)
    <3>1. ColAt(k, t) = t % Cols /\ ColAt(k, t + 1) = (t + 1) % Cols
      BY <1>2, <2>3 DEF ColAt
    <3>2. at.col = t % Cols /\ t % Cols \in 0 .. Cols - 1
      BY <1>2, <1>3, <3>1, DivParts
    <3>3. PICK q \in 0 .. Cols - 1 : q = t % Cols
      BY <3>2
    <3>4. Advance(k, at) = moved(IF q + 1 < Cols THEN q + 1 ELSE 0)
      BY <1>2, <1>6, <1>7, <3>2, <3>3
    <3>5. ColAt(k, t + 1) = IF q + 1 < Cols THEN q + 1 ELSE 0
      BY <1>5, <3>1, <3>3
    <3> QED BY <1>10, <2>1, <3>4, <3>5
  <2> QED BY <2>2, <2>3
<1>8. CASE ~m.text
  <2>1. ColAt(k, t) = t % Cols /\ ColAt(k, t + 1) = (t + 1) % Cols
    BY <1>8 DEF ColAt
  <2>2. t + 1 < 2 * Cols
    BY <1>2, <1>8
  <2>3. CASE t + 1 # Cols
    <3>1. PageAt(k, t + 1) = PageAt(k, t)
      <4>1. t + 1 >= Cols <=> t >= Cols
        BY <1>2, <2>3
      <4> QED BY <4>1 DEF PageAt
    <3>2. (t % Cols) + 1 < Cols /\ t % Cols \in Nat
      BY <1>2, <1>5, <2>2, <2>3
    <3>3. ColAt(k, t + 1) = (t % Cols) + 1
      BY <1>5, <2>1, <3>2
    <3>4. at.col = t % Cols
      BY <1>3, <2>1
    <3>5. Advance(k, at) = moved((t % Cols) + 1)
      BY <1>6, <3>2, <3>4
    <3> QED BY <1>10, <3>1, <3>3, <3>5
  <2>4. CASE t + 1 = Cols
    <3>1. at.col = Cols - 1 /\ ColAt(k, t + 1) = 0
      BY <1>2, <1>3, <1>5, <2>1, <2>4
    <3>2. CASE ~L(k).wide
      <4>1. PageAt(k, t + 1) = PageAt(k, t)
        BY <3>2 DEF PageAt
      <4>2. Advance(k, at) = moved(0)
        BY <1>2, <1>6, <1>8, <3>1, <3>2
      <4> QED BY <1>10, <3>1, <4>1, <4>2
    <3>3. CASE L(k).wide
      <4>1. PICK p \in 0 .. 3 :
              PageAt(k, t) = 2 * (IF BelowOf(k) THEN 1 - (p \div 2) ELSE p \div 2)
                               + (IF L(k).wide /\ ~m.text /\ t >= Cols THEN 1 - (p % 2) ELSE p % 2)
              /\ PageAt(k, t) \in 0 .. 3 /\ L(k).base = Page * p
        BY PageAtParts
      <4>2. PICK q \in 0 .. 3 :
              PageAt(k, t + 1) = 2 * (IF BelowOf(k) THEN 1 - (q \div 2) ELSE q \div 2)
                               + (IF L(k).wide /\ ~m.text /\ t + 1 >= Cols THEN 1 - (q % 2) ELSE q % 2)
              /\ PageAt(k, t + 1) \in 0 .. 3 /\ L(k).base = Page * q
        BY PageAtParts
      <4>3. p = q
        <5>1. Page * p = Page * q
          BY <4>1, <4>2
        <5> QED BY <1>1, <5>1
      <4>4. PICK c, d \in 0 .. 3 : c = PageAt(k, t) /\ d = PageAt(k, t + 1)
        BY <4>1, <4>2
      <4>5. d = 2 * (c \div 2) + (1 - (c % 2))
        BY <1>2, <1>8, <2>4, <3>3, <4>1, <4>2, <4>3, <4>4
      <4>6. RowStart(k) \in 0 .. Page - 1
        BY <1>1, <1>8
      <4>7. at.names = Page * c + RowStart(k)
        BY <1>3, <4>4
      <4>8. Flip(at.names, Page) = Page * d + RowStart(k)
        <5>1. Flip(Page * c + RowStart(k), Page) = Page * (2 * (c \div 2) + (1 - (c % 2))) + RowStart(k)
          BY <1>1, <4>4, <4>6, PageParts
        <5> QED BY <4>5, <4>7, <5>1
      <4>9. Flip(at.names, Page) \div Page = d
            /\ (Page * d + RowStart(k)) % (4 * Page) = Page * d + RowStart(k)
        <5>1. /\ (Page * d + RowStart(k)) \div Page = d
              /\ (Page * d + RowStart(k)) % (4 * Page) = Page * d + RowStart(k)
          BY <1>1, <4>4, <4>6, PageParts
        <5> QED BY <4>8, <5>1
      <4>10. Advance(k, at) =
               [col |-> 0, names |-> Page * d + RowStart(k),
                attrs |-> IF PerPosition THEN (at.attrs + 2 * Page * (d % 2) - Page) % (4 * Page) ELSE at.attrs]
        <5>1. ~(at.col + 1 < Cols)
          BY <1>2, <3>1
        <5> QED BY <1>6, <1>8, <3>3, <4>8, <4>9, <5>1, Zenon
      <4>11. PerPosition => at.attrs + 2 * Page * (d % 2) - Page = Page * d + RowStart(k)
        <5> SUFFICES ASSUME PerPosition PROVE at.attrs + 2 * Page * (d % 2) - Page = Page * d + RowStart(k)
          OBVIOUS
        <5>1. at.attrs = Page * c + RowStart(k)
          BY <1>3, <1>8, <4>4
        <5>2. (c = 0 /\ d = 1) \/ (c = 1 /\ d = 0) \/ (c = 2 /\ d = 3) \/ (c = 3 /\ d = 2)
          BY <4>4, <4>5
        <5> QED BY <1>1, <5>1, <5>2
      <4>12. ~PerPosition => at.attrs = 0
        BY <1>3
      <4>13. PICK e : e = Page * d + RowStart(k)
        OBVIOUS
      <4>14. Place(k, t + 1) = [col |-> 0, names |-> e, attrs |-> IF ~PerPosition THEN 0 ELSE e]
        BY <1>4, <1>8, <3>1, <4>4, <4>13
      <4>15. PerPosition => (at.attrs + 2 * Page * (d % 2) - Page) % (4 * Page) = e
        BY <4>9, <4>11, <4>13
      <4> QED BY <4>10, <4>12, <4>13, <4>14, <4>15
    <3> QED BY <3>2, <3>3
  <2> QED BY <2>3, <2>4
<1> QED BY <1>7, <1>8

(* At the place of a pixel's cell the emitter reads the pixel's name and    *)
(* attribute.                                                              *)
LEMMA NameAtIs ==
  ASSUME NEW k, NEW x, walk.at = Place(k, TOf(k, x))
  PROVE  NameAt = NameOf(k, x) /\ AttrAt = AttrOf(k, x)
<1>1. ColOf(k, x) = ColAt(k, TOf(k, x))
  BY DEF ColOf, ColAt, TOf
<1>2. PageOf(k, x) = PageAt(k, TOf(k, x))
  BY Zenon DEF PageOf, PageAt, TOf, BesideOf
<1>3. Position(k, x) = Page * PageAt(k, TOf(k, x)) + RowStart(k) + ColAt(k, TOf(k, x))
  BY <1>1, <1>2 DEF Position, RowStart
<1>4. /\ walk.at.col = ColAt(k, TOf(k, x)) /\ walk.at.names = Page * PageAt(k, TOf(k, x)) + RowStart(k)
      /\ walk.at.attrs = IF ~PerPosition THEN 0 ELSE IF m.text THEN RowStart(k)
                         ELSE Page * PageAt(k, TOf(k, x)) + RowStart(k)
  BY DEF Place
<1>5. NameAt = NameOf(k, x)
  BY <1>3, <1>4, Zenon DEF NameAt, NameOf
<1>6. AttrAt = AttrOf(k, x)
  <2>1. CASE ~PerPosition
    BY <1>5, <2>1 DEF AttrAt, AttrOf
  <2>2. CASE PerPosition /\ m.text
    <3>1. walk.at.attrs + walk.at.col = (RowOf(k) \div 8) * Cols + ColOf(k, x)
      BY <1>1, <1>4, <2>2 DEF RowStart
    <3> QED BY <2>2, <3>1 DEF AttrAt, AttrOf
  <2>3. CASE PerPosition /\ ~m.text
    <3>1. walk.at.attrs + walk.at.col = Position(k, x)
      BY <1>3, <1>4, <2>3
    <3> QED BY <2>3, <3>1 DEF AttrAt, AttrOf
  <2> QED BY <2>1, <2>2, <2>3
<1> QED BY <1>5, <1>6

-----------------------------------------------------------------------------
(* The cell under a pixel                                                  *)

(* A plane of a cell sets the pixels the positions give.                   *)
LEMMA PlaneIs ==
  ASSUME SceneOK, r.unlocked, NEW k \in 1 .. 2, NEW x \in Int, NEW p
  PROVE  /\ OOf(k, x) \in PlaneOf(k, NameOf(k, x), AttrOf(k, x).flipX, AttrOf(k, x).flipY, p)
              <=> BitOf(k, x, p, TRUE)
         /\ OOf(k, x) \in PlaneOf(k, NameOf(k, x), FALSE, FALSE, p) <=> BitOf(k, x, p, FALSE)
         /\ \A fx, fy : PlaneOf(k, NameOf(k, x), fx, fy, p) \subseteq InCell
<1>1. CellWidth \in Nat /\ CellWidth > 0 /\ InCell = 0 .. CellWidth - 1
  BY Geometry DEF InCell
<1>2. OOf(k, x) \in InCell /\ OOf(k, x) = Across(k, x) % CellWidth
  BY PixelCell DEF OOf
<1>3. RowY(k) = RowOf(k)
  BY RowParts
<1> DEFINE bits(fy) == Pattern[p][NameOf(k, x) * 8 + (IF fy THEN 7 - (RowOf(k) % 8) ELSE RowOf(k) % 8)] \cap InCell
           plane(fx, fy) == PlaneOf(k, NameOf(k, x), fx, fy, p)
<1>4. \A fx, fy : plane(fx, fy) = IF fx THEN {CellWidth - 1 - o : o \in bits(fy)} ELSE bits(fy)
  BY <1>3, Zenon DEF PlaneOf
<1>5. \A fy : bits(fy) \subseteq InCell
  OBVIOUS
<1>6. \A fx, fy : plane(fx, fy) \subseteq InCell
  <2> HIDE DEF bits, plane
  <2> QED BY <1>1, <1>4, <1>5
<1>7. \A fx, fy : OOf(k, x) \in plane(fx, fy) <=> (IF fx THEN CellWidth - 1 - OOf(k, x) ELSE OOf(k, x)) \in bits(fy)
  <2> HIDE DEF bits, plane
  <2> TAKE fx, fy
  <2>1. CASE fx
    <3>1. plane(fx, fy) = {CellWidth - 1 - o : o \in bits(fy)}
      BY <1>4, <2>1
    <3>2. \A o \in bits(fy) : o \in Int
      BY <1>1, <1>5
    <3>3. OOf(k, x) \in Int
      BY <1>1, <1>2
    <3>4. ASSUME NEW q \in bits(fy) PROVE OOf(k, x) = CellWidth - 1 - q <=> q = CellWidth - 1 - OOf(k, x)
      BY <1>1, <3>2, <3>3
    <3>5. OOf(k, x) \in plane(fx, fy) <=> \E q \in bits(fy) : OOf(k, x) = CellWidth - 1 - q
      BY <3>1
    <3>6. OOf(k, x) \in plane(fx, fy) <=> CellWidth - 1 - OOf(k, x) \in bits(fy)
      BY <3>4, <3>5
    <3> QED BY <2>1, <3>6
  <2>2. CASE ~fx
    BY <1>4, <2>2
  <2> QED BY <2>1, <2>2
<1>8. CellWidth - 1 - OOf(k, x) \in InCell
  BY <1>1, <1>2
<1>9. \A fx, fy : (IF fx THEN CellWidth - 1 - OOf(k, x) ELSE OOf(k, x)) \in bits(fy)
           <=> (IF fx THEN CellWidth - 1 - OOf(k, x) ELSE OOf(k, x))
                  \in Pattern[p][NameOf(k, x) * 8 + (IF fy THEN 7 - (RowOf(k) % 8) ELSE RowOf(k) % 8)]
  BY <1>2, <1>8
<1>10. BitOf(k, x, p, TRUE) <=>
         (IF AttrOf(k, x).flipX THEN CellWidth - 1 - OOf(k, x) ELSE OOf(k, x))
            \in Pattern[p][NameOf(k, x) * 8 + (IF AttrOf(k, x).flipY THEN 7 - (RowOf(k) % 8) ELSE RowOf(k) % 8)]
  BY <1>2, Zenon DEF BitOf
<1>11. BitOf(k, x, p, FALSE) <=> OOf(k, x) \in Pattern[p][NameOf(k, x) * 8 + (RowOf(k) % 8)]
  BY <1>2, Zenon DEF BitOf
<1>12. OOf(k, x) \in plane(FALSE, FALSE) <=> OOf(k, x) \in Pattern[p][NameOf(k, x) * 8 + (RowOf(k) % 8)]
  BY <1>7, <1>9
<1>13. OOf(k, x) \in plane(AttrOf(k, x).flipX, AttrOf(k, x).flipY) <=> BitOf(k, x, p, TRUE)
  <2>1. PICK fx, fy : fx = AttrOf(k, x).flipX /\ fy = AttrOf(k, x).flipY
    OBVIOUS
  <2>2. BitOf(k, x, p, TRUE) <=> (IF fx THEN CellWidth - 1 - OOf(k, x) ELSE OOf(k, x))
            \in Pattern[p][NameOf(k, x) * 8 + (IF fy THEN 7 - (RowOf(k) % 8) ELSE RowOf(k) % 8)]
    BY <1>10, <2>1
  <2>3. OOf(k, x) \in plane(fx, fy) <=> BitOf(k, x, p, TRUE)
    <3>1. OOf(k, x) \in plane(fx, fy) <=> (IF fx THEN CellWidth - 1 - OOf(k, x) ELSE OOf(k, x)) \in bits(fy)
      BY <1>7
    <3>2. (IF fx THEN CellWidth - 1 - OOf(k, x) ELSE OOf(k, x)) \in bits(fy)
           <=> (IF fx THEN CellWidth - 1 - OOf(k, x) ELSE OOf(k, x))
                  \in Pattern[p][NameOf(k, x) * 8 + (IF fy THEN 7 - (RowOf(k) % 8) ELSE RowOf(k) % 8)]
      BY <1>9
    <3> HIDE DEF bits, plane
    <3> QED BY <2>2, <3>1, <3>2
  <2> QED BY <2>1, <2>3
<1> QED BY <1>6, <1>11, <1>12, <1>13

(* The cell the emitters draw has the pixel: solid where the layer is, in   *)
(* its colour, and lifting where it lifts.                                 *)
LEMMA CellIs ==
  ASSUME SceneOK, r.unlocked, NEW k \in 1 .. 2, NEW x \in Int, InText(x), On(k), NEW c,
         c = CellAt(k, NameOf(k, x), AttrOf(k, x))
  PROVE  /\ c.solid \subseteq InCell
         /\ OOf(k, x) \in c.solid <=> Solid(k, x)
         /\ c.colour[OOf(k, x)] = ColourAt(k, x)
         /\ Lifts(k, x) <=> Solid(k, x) /\ c.lifts
         /\ m.ecm > 0 /\ c.solid = {} => EmptyAt(k, x)
<1> DEFINE name == NameOf(k, x)
           a == AttrOf(k, x)
           o == OOf(k, x)
<1>1. m.ecm \in 0 .. 3 /\ m.ecm \in Nat
  BY SceneParts DEF SceneMode
<1>2. o \in InCell
  BY PixelCell
<1>3. CASE m.ecm = 0
  <2> DEFINE patt == PlaneOf(k, name, FALSE, FALSE, 0)
             pair == PairOf(name, a)
             hue(q) == IF q \in patt THEN pair.fg ELSE pair.bg
  <2>1. c = [solid  |-> {q \in InCell : hue(q) # 0}, lifts |-> FALSE,
             colour |-> [q \in InCell |-> LevelPal(L(k).pal) + hue(q)]]
    BY <1>3, Zenon DEF CellAt, PairCell
  <2>2. o \in patt <=> BitOf(k, x, 0, FALSE)
    BY PlaneIs
  <2>3. pair = IF ~m.text THEN ColourTable[name] ELSE IF m.posAttr THEN a.pair ELSE m.fixed
    BY DEF PairOf
  <2>4. hue(o) = PairAt(k, x)
    BY <2>2, <2>3, Zenon DEF PairAt
  <2>5. LevelPal(L(k).pal) = L(k).pal
    BY <1>3 DEF LevelPal
  <2> HIDE DEF patt, pair, hue, o
  <2>6. c.solid = {q \in InCell : hue(q) # 0} /\ c.lifts = FALSE /\ c.colour[o] = L(k).pal + PairAt(k, x)
    BY <1>2, <2>1, <2>4, <2>5
  <2>7. Solid(k, x) <=> PairAt(k, x) # 0
    BY <1>3 DEF Solid
  <2>8. ColourAt(k, x) = L(k).pal + PairAt(k, x)
    BY <1>3 DEF ColourAt
  <2>9. ~Lifts(k, x)
    BY <1>3 DEF Lifts
  <2> QED BY <1>2, <1>3, <2>4, <2>6, <2>7, <2>8, <2>9 DEF o
<1>4. CASE m.ecm # 0
  <2> DEFINE bits == [p \in Levels |-> PlaneOf(k, name, a.flipX, a.flipY, p)]
             base == LevelPal(L(k).pal) + (a.colour \div (IF m.ecm = 3 THEN 2 ELSE 1)) * 2 ^ m.ecm
  <2>1. c = [solid  |-> IF a.transparent THEN UNION {bits[p] : p \in Levels} ELSE InCell,
             lifts  |-> a.priority \/ (k = 2 /\ m.layer2OnTop),
             colour |-> [q \in InCell |-> base + Spelt({p \in Levels : q \in bits[p]})]]
    BY <1>4, Zenon DEF CellAt, PlaneCell
  <2>2. \A p \in Levels : o \in bits[p] <=> BitOf(k, x, p, TRUE)
    BY PlaneIs
  <2>3. \A p \in Levels : bits[p] \subseteq InCell /\ bits[p] = PlaneOf(k, name, a.flipX, a.flipY, p)
    BY PlaneIs
  <2>4. {p \in Levels : o \in bits[p]} = {p \in Levels : BitOf(k, x, p, TRUE)}
    BY <2>2
  <2>5. ColourAt(k, x) = base + Spelt({p \in Levels : BitOf(k, x, p, TRUE)})
    BY <1>4, Zenon DEF ColourAt
  <2>6. Lifts(k, x) <=> Solid(k, x) /\ (a.priority \/ (k = 2 /\ m.layer2OnTop))
    BY <1>1, <1>4 DEF Lifts
  <2>7. Solid(k, x) <=> ~a.transparent \/ \E p \in Levels : BitOf(k, x, p, TRUE)
    BY <1>4 DEF Solid
  <2>8. EmptyAt(k, x) <=> a.transparent /\ \A p \in Levels : PlaneOf(k, name, a.flipX, a.flipY, p) = {}
    BY DEF EmptyAt
  <2> HIDE DEF bits, base, o, name, a
  <2>9. /\ c.solid = IF a.transparent THEN UNION {bits[p] : p \in Levels} ELSE InCell
        /\ c.lifts = (a.priority \/ (k = 2 /\ m.layer2OnTop))
        /\ c.colour[o] = base + Spelt({p \in Levels : o \in bits[p]})
    <3>1. /\ c.solid = IF a.transparent THEN UNION {bits[p] : p \in Levels} ELSE InCell
          /\ c.lifts = (a.priority \/ (k = 2 /\ m.layer2OnTop))
          /\ c.colour = [q \in InCell |-> base + Spelt({p \in Levels : q \in bits[p]})]
      BY <2>1
    <3> QED BY <1>2, <3>1, Zenon
  <2>10. c.solid \subseteq InCell /\ (o \in c.solid <=> Solid(k, x))
    <3>1. CASE a.transparent
      <4>1. c.solid = UNION {bits[p] : p \in Levels}
        BY <2>9, <3>1
      <4>2. \A q : q \in c.solid <=> \E p \in Levels : q \in bits[p]
        BY <4>1
      <4> QED BY <2>2, <2>3, <2>7, <3>1, <4>2
    <3>2. CASE ~a.transparent
      BY <1>2, <2>7, <2>9, <3>2
    <3> QED BY <3>1, <3>2
  <2>11. c.colour[o] = ColourAt(k, x)
    BY <2>4, <2>5, <2>9, Zenon
  <2>12. c.solid = {} => EmptyAt(k, x)
    BY <1>2, <2>3, <2>8, <2>9
  <2> QED BY <2>6, <2>9, <2>10, <2>11, <2>12 DEF o
<1> QED BY <1>3, <1>4

-----------------------------------------------------------------------------
(* The memo                                                                *)

(* Pixels of one cell have its name and attribute.                         *)
LEMMA SameCell ==
  ASSUME NEW k, NEW x, NEW z, TOf(k, z) = TOf(k, x)
  PROVE  NameOf(k, z) = NameOf(k, x) /\ AttrOf(k, z) = AttrOf(k, x) /\ (EmptyAt(k, z) <=> EmptyAt(k, x))
<1>1. ColOf(k, z) = ColOf(k, x) /\ BesideOf(k, z) = BesideOf(k, x)
  BY DEF ColOf, BesideOf, TOf
<1>2. PageOf(k, z) = PageOf(k, x)
  BY <1>1 DEF PageOf
<1>3. Position(k, z) = Position(k, x)
  BY <1>1, <1>2 DEF Position
<1>4. NameOf(k, z) = NameOf(k, x)
  BY <1>3 DEF NameOf
<1>5. AttrOf(k, z) = AttrOf(k, x)
  BY <1>1, <1>3, <1>4 DEF AttrOf
<1>6. EmptyAt(k, z) <=> EmptyAt(k, x)
  BY <1>4, <1>5, Zenon DEF EmptyAt
<1> QED BY <1>4, <1>5, <1>6

(* An empty cell is nowhere solid.                                         *)
LEMMA EmptyNotSolid ==
  ASSUME SceneOK, r.unlocked, m.ecm > 0, NEW k \in 1 .. 2, NEW x \in Int, EmptyAt(k, x)
  PROVE  ~Solid(k, x)
<1>1. m.ecm # 0
  BY SceneParts DEF SceneMode
<1>2. /\ AttrOf(k, x).transparent
      /\ \A p \in Levels : PlaneOf(k, NameOf(k, x), AttrOf(k, x).flipX, AttrOf(k, x).flipY, p) = {}
  BY DEF EmptyAt
<1>3. \A p \in Levels : ~BitOf(k, x, p, TRUE)
  BY <1>2, PlaneIs
<1> QED BY <1>1, <1>2, <1>3 DEF Solid

(* A cell to the left is of pixels to the left.                            *)
LEMMA LeftCell ==
  ASSUME SceneOK, r.unlocked, NEW k \in 1 .. 2, NEW x \in Int, NEW z \in Int, TOf(k, z) < TOf(k, x)
  PROVE  z < x
<1>1. CellWidth \in Nat /\ CellWidth > 0 /\ Pad \in Nat
  BY Geometry
<1>2. Fine(k) \in Nat /\ StartCell(k) \in Nat
  BY FineNat
<1>3. /\ TOf(k, x) \in Int /\ OOf(k, x) \in 0 .. CellWidth - 1
      /\ x + Fine(k) - Pad = (TOf(k, x) - StartCell(k)) * CellWidth + OOf(k, x)
  BY PixelCell DEF InCell
<1>4. /\ TOf(k, z) \in Int /\ OOf(k, z) \in 0 .. CellWidth - 1
      /\ z + Fine(k) - Pad = (TOf(k, z) - StartCell(k)) * CellWidth + OOf(k, z)
  BY PixelCell DEF InCell
<1>5. PICK i, j \in Int : i = TOf(k, x) - StartCell(k) /\ j = TOf(k, z) - StartCell(k)
  BY <1>2, <1>3, <1>4
<1>6. j + 1 <= i
  BY <1>2, <1>3, <1>4, <1>5
<1>7. (j + 1) * CellWidth <= i * CellWidth /\ (j + 1) * CellWidth = j * CellWidth + CellWidth
      /\ i * CellWidth \in Int /\ j * CellWidth \in Int
  BY <1>1, <1>5, <1>6, Monotone
<1> QED BY <1>1, <1>2, <1>3, <1>4, <1>5, <1>7

(* Every cell of a graphics row shows on the line.                         *)
LEMMA CellShown ==
  ASSUME SceneOK, r.unlocked, ~m.text, NEW k \in 1 .. 2, NEW j \in 0 .. Cells(k) - 1
  PROVE  \E z \in Columns : TOf(k, z) = StartCell(k) + j
<1>1. CellWidth \in Nat /\ CellWidth > 0 /\ Pad = 0 /\ Cols \in Nat /\ Pixels \in Nat /\ Cols * CellWidth = Pixels
      /\ Cols > 0
  BY Geometry
<1>2. /\ Fine(k) \in 0 .. CellWidth - 1 /\ StartCell(k) \in Nat
      /\ Cells(k) = IF Fine(k) = 0 THEN Cols ELSE Cols + 1
  BY ScrollParts
<1>3. PICK v \in Int : v = j * CellWidth
  BY <1>1, <1>2
<1>4. j <= Cols /\ (Fine(k) = 0 => j + 1 <= Cols) /\ j \in Nat
  BY <1>1, <1>2
<1>5. v >= 0 /\ v <= Pixels /\ (Fine(k) = 0 => v < Pixels) /\ (j # 0 => v >= CellWidth) /\ (j = 0 => v = 0)
  <2>1. j * CellWidth <= Cols * CellWidth /\ 0 * CellWidth <= j * CellWidth
    BY <1>1, <1>4, Monotone
  <2>2. j + 1 <= Cols => (j + 1) * CellWidth <= Cols * CellWidth
    BY <1>1, <1>4, Monotone
  <2>3. 1 <= j => 1 * CellWidth <= j * CellWidth
    BY <1>1, <1>4, Monotone
  <2>4. (j + 1) * CellWidth = v + CellWidth
    BY <1>1, <1>3, <1>4
  <2> QED BY <1>1, <1>3, <1>4, <2>1, <2>2, <2>3, <2>4
<1>6. CASE v >= Fine(k)
  <2>1. v - Fine(k) \in Columns /\ v - Fine(k) \in Int
    BY <1>1, <1>2, <1>5, <1>6, ConstantTypes DEF Columns
  <2>2. (v - Fine(k)) + Fine(k) - Pad = j * CellWidth + 0 /\ 0 \in InCell
    BY <1>1, <1>2, <1>3 DEF InCell
  <2>3. TOf(k, v - Fine(k)) = StartCell(k) + j
    BY <2>1, <2>2, <1>4, CellUnique
  <2> QED BY <2>1, <2>3
<1>7. CASE ~(v >= Fine(k))
  <2>1. j = 0
    BY <1>1, <1>2, <1>4, <1>5, <1>7
  <2>2. 0 + Fine(k) - Pad = 0 * CellWidth + Fine(k) /\ Fine(k) \in InCell /\ 0 \in Columns
    BY <1>1, <1>2, ConstantTypes DEF InCell, Columns
  <2>3. TOf(k, 0) = StartCell(k) + 0
    BY <2>2, CellUnique
  <2> QED BY <2>1, <2>2, <2>3
<1> QED BY <1>6, <1>7

(* A graphics name is read from the tables.                                *)
LEMMA NameIsNat ==
  ASSUME SceneOK, r.unlocked, ~m.text, NEW k \in 1 .. 2, L(k).on, ~ByPaging, NEW x \in Int
  PROVE  NameOf(k, x) \in Nat
<1>1. Cols \in Nat /\ Cols > 0 /\ Cols = Pixels \div Unit
  BY Geometry
<1>2. RowStart(k) \in Nat /\ RowStart(k) < Page /\ Page \in Nat /\ Page > 0 /\ RowOf(k) \in Nat
  BY RowParts
<1>3. Page = PageRows * Cols /\ PageRows \in Nat
  BY <1>1, LayerAssumption DEF Page
<1>4. RowStart(k) + Cols <= Page
  <2>1. PICK q \in Nat : q = RowOf(k) \div 8 /\ RowStart(k) = q * Cols
    BY <1>2 DEF RowStart
  <2>2. q + 1 <= PageRows
    <3>1. PageRows <= q => PageRows * Cols <= q * Cols
      BY <1>1, <1>3, <2>1, Monotone
    <3> QED BY <1>2, <1>3, <2>1, <3>1
  <2>3. (q + 1) * Cols <= PageRows * Cols /\ (q + 1) * Cols = q * Cols + Cols
    BY <1>1, <1>3, <2>1, <2>2, Monotone
  <2> QED BY <1>3, <2>1, <2>3
<1>5. ColOf(k, x) \in 0 .. Cols - 1
  <2>1. ColOf(k, x) = TOf(k, x) % Cols /\ TOf(k, x) \in Int
    BY PixelCell DEF ColOf, TOf
  <2> QED BY <1>1, <2>1, DivParts
<1>6. PICK p \in 0 .. 3 : PageAt(k, TOf(k, x)) = p
  BY PageAtParts
<1>7. PageOf(k, x) = p
  BY <1>6, Zenon DEF PageOf, PageAt, TOf, BesideOf
<1>8. Position(k, x) = Page * p + RowStart(k) + ColOf(k, x)
  BY <1>7 DEF Position, RowStart
<1>9. Position(k, x) \in 0 .. 4 * Page - 1
  <2>1. PICK v : v = Page * p
    OBVIOUS
  <2>2. v \in Nat /\ v <= 3 * Page
    BY <1>2, <2>1
  <2> QED BY <1>1, <1>2, <1>4, <1>5, <1>8, <2>1, <2>2
<1> QED BY <1>9, LayerAssumption DEF NameOf

(* Where the emitter skips a cell for the name it remembers, the cell is    *)
(* empty, or an earlier one of its name was and positions carry attributes. *)
LEMMA MemoIs ==
  ASSUME SceneOK, r.unlocked, NEW k \in 1 .. 2, On(k), L(k).on, ~ByPaging, WalkInv(k), Remembered,
         NEW x \in Columns, TOf(k, x) = StartCell(k) + walk.k, walk.at = Place(k, TOf(k, x))
  PROVE  ByMemo(x) \/ ~Solid(k, x)
<1>1. m.ecm > 0 /\ ~m.text /\ walk.empty = NameOf(k, x)
  BY NameAtIs DEF Remembered
<1>2. x \in Int /\ Columns \subseteq Int
  BY DEF Columns
<1>3. walk.empty # -1
  BY <1>1, <1>2, NameIsNat
<1>4. PICK z \in Columns : TOf(k, z) < TOf(k, x) /\ NameOf(k, z) = NameOf(k, x) /\ EmptyAt(k, z)
  BY <1>1, <1>3 DEF WalkInv
<1>5. z < x /\ z \in Int
  BY <1>2, <1>4, LeftCell
<1>6. CASE PerPosition
  <2>1. ASSUME NEW o \in InCell PROVE ~Solid(k, z - (Across(k, z) % CellWidth) + o)
    <3>1. PICK y : y = z - (Across(k, z) % CellWidth) + o
      OBVIOUS
    <3>2. CellWidth \in Nat /\ CellWidth > 0 /\ Pad \in Nat /\ o \in Int
      BY Geometry DEF InCell
    <3>3. /\ OOf(k, z) \in Int /\ TOf(k, z) \in Int
          /\ z + Fine(k) - Pad = (TOf(k, z) - StartCell(k)) * CellWidth + OOf(k, z)
          /\ (TOf(k, z) - StartCell(k)) * CellWidth \in Int
      BY <1>5, PixelCell
    <3>4. y = z - OOf(k, z) + o
      BY <3>1 DEF OOf
    <3>5. Fine(k) \in Nat /\ StartCell(k) \in Nat
      BY FineNat
    <3>6. PICK j \in Int : j = TOf(k, z) - StartCell(k)
      BY <3>3, <3>5
    <3>7. y \in Int
      BY <1>5, <3>2, <3>3, <3>4
    <3>8. y + Fine(k) - Pad = j * CellWidth + o
      <4>1. PICK v \in Int : v = j * CellWidth
        BY <3>2, <3>6
      <4>2. z + Fine(k) - Pad = v + OOf(k, z)
        BY <3>3, <3>6, <4>1
      <4>3. PICK q, f, d \in Int : q = OOf(k, z) /\ f = Fine(k) /\ d = Pad
        BY <3>2, <3>3, <3>5
      <4>4. z + f - d = v + q /\ y = z - q + o
        BY <3>4, <4>2, <4>3
      <4>5. y + f - d = v + o
        <5>1. z \in Int /\ o \in Int /\ v \in Int /\ q \in Int /\ f \in Int /\ d \in Int
          BY <1>5, <3>2, <4>1, <4>3
        <5>2. v = z + f - d - q
          BY <4>4, <5>1
        <5> QED BY <4>4, <5>1, <5>2
      <4> QED BY <4>1, <4>3, <4>5
    <3>9. TOf(k, y) = StartCell(k) + j
      BY <3>6, <3>7, <3>8, CellUnique
    <3>10. TOf(k, y) = TOf(k, z)
      BY <3>3, <3>5, <3>6, <3>9
    <3>11. EmptyAt(k, y)
      BY <1>4, <3>10, SameCell
    <3> QED BY <1>1, <3>1, <3>7, <3>11, EmptyNotSolid
  <2>2. EmptyCell(k, z)
    BY <2>1 DEF EmptyCell
  <2> QED BY <1>1, <1>4, <1>5, <1>6, <2>2 DEF ByMemo
<1>7. CASE ~PerPosition
  <2>1. AttrOf(k, z) = AttrOf(k, x)
    BY <1>4, <1>7 DEF AttrOf
  <2>2. EmptyAt(k, x)
    BY <1>4, <2>1, Zenon DEF EmptyAt
  <2> QED BY <1>1, <1>2, <2>2, EmptyNotSolid
<1> QED BY <1>6, <1>7

-----------------------------------------------------------------------------
(* The walk of a layer's cells                                             *)

(* A cell's pixels are in the cell, and one with a pair never lifts.       *)
LEMMA SolidInCell ==
  ASSUME SceneOK, NEW k, NEW name, NEW a
  PROVE  /\ CellAt(k, name, a).solid \subseteq InCell
         /\ m.ecm = 0 => ~CellAt(k, name, a).lifts
<1>1. CellWidth \in Nat /\ CellWidth > 0 /\ InCell = 0 .. CellWidth - 1
  BY Geometry DEF InCell
<1>2. CASE m.ecm = 0
  <2>1. CellAt(k, name, a) = PairCell(k, name, a)
    BY <1>2 DEF CellAt
  <2>2. PairCell(k, name, a).solid \subseteq InCell /\ PairCell(k, name, a).lifts = FALSE
    <3> DEFINE patt == PlaneOf(k, name, FALSE, FALSE, 0)
               pair == PairOf(name, a)
               hue(q) == IF q \in patt THEN pair.fg ELSE pair.bg
    <3>1. PairCell(k, name, a) = [solid  |-> {q \in InCell : hue(q) # 0}, lifts |-> FALSE,
                                  colour |-> [q \in InCell |-> LevelPal(L(k).pal) + hue(q)]]
      BY Zenon DEF PairCell
    <3> HIDE DEF hue
    <3> QED BY <3>1
  <2> QED BY <2>1, <2>2
<1>3. CASE m.ecm # 0
  <2> DEFINE bits == [p \in Levels |-> PlaneOf(k, name, a.flipX, a.flipY, p)]
             base == LevelPal(L(k).pal) + (a.colour \div (IF m.ecm = 3 THEN 2 ELSE 1)) * 2 ^ m.ecm
  <2>1. CellAt(k, name, a) =
          [solid  |-> IF a.transparent THEN UNION {bits[p] : p \in Levels} ELSE InCell,
           lifts  |-> a.priority \/ (k = 2 /\ m.layer2OnTop),
           colour |-> [q \in InCell |-> base + Spelt({p \in Levels : q \in bits[p]})]]
    BY <1>3, Zenon DEF CellAt, PlaneCell
  <2>2. ASSUME NEW p \in Levels PROVE bits[p] \subseteq InCell
    <3>1. PICK fx, fy : fx = a.flipX /\ fy = a.flipY
      OBVIOUS
    <3> DEFINE set == Pattern[p][name * 8 + (IF fy THEN 7 - (RowY(k) % 8) ELSE RowY(k) % 8)] \cap InCell
    <3>2. PlaneOf(k, name, fx, fy, p) = IF fx THEN {CellWidth - 1 - o : o \in set} ELSE set
      BY Zenon DEF PlaneOf
    <3>3. set \subseteq InCell
      OBVIOUS
    <3> HIDE DEF set
    <3>4. PlaneOf(k, name, fx, fy, p) \subseteq InCell
      <4>1. \A o \in set : o \in InCell /\ CellWidth - 1 - o \in InCell
        BY <1>1, <3>3
      <4> QED BY <3>2, <4>1
    <3> QED BY <3>1, <3>4
  <2> HIDE DEF bits, base
  <2>3. CellAt(k, name, a).solid = IF a.transparent THEN UNION {bits[p] : p \in Levels} ELSE InCell
    BY <2>1
  <2>4. \A q \in CellAt(k, name, a).solid : q \in InCell
    BY <2>2, <2>3
  <2> QED BY <1>3, <2>4
<1> QED BY <1>2, <1>3

(* A walk begins left of every pixel, at the place of its first cell.      *)
LEMMA StartWalk ==
  ASSUME SceneOK, r.unlocked, NEW k \in 1 .. 2, L(k).on, ~ByPaging, scene' = scene, walk' = Memo(Start(k))
  PROVE  /\ WalkInv(k)'
         /\ \A x \in Columns : InText(x) => ~Past(k, x)'
<1>1. walk'.k = 0 /\ walk'.at = Place(k, StartCell(k)) /\ walk'.empty = -1
  BY StartPlace DEF Memo
<1>2. StartCell(k) \in Nat /\ Cells(k) \in Nat
  BY ScrollParts
<1>3. /\ Cells(k)' = Cells(k) /\ StartCell(k)' = StartCell(k)
      /\ \A t : Place(k, t)' = Place(k, t)
      /\ \A x : TOf(k, x)' = TOf(k, x)
  BY GeometryFixed, PlacesFixed
<1>4. WalkInv(k)'
  <2>1. walk'.k \in 0 .. Cells(k)'
    BY <1>1, <1>2, <1>3
  <2>2. walk'.at = Place(k, StartCell(k) + walk'.k)
    BY <1>1, <1>2
  <2>3. Place(k, StartCell(k) + walk.k)' = Place(k, StartCell(k) + walk'.k)
    BY <1>3, GeometryFixed, Zenon DEF Place, ColAt, PageAt, RowStart
  <2> QED BY <1>1, <1>3, <2>1, <2>2, <2>3 DEF WalkInv
<1>5. \A x \in Columns : InText(x) => ~Past(k, x)'
  <2> SUFFICES ASSUME NEW x \in Columns, InText(x) PROVE ~Past(k, x)'
    OBVIOUS
  <2>1. TOf(k, x) \in StartCell(k) .. StartCell(k) + Cells(k) - 1
    BY TextCell
  <2> QED BY <1>1, <1>2, <1>3, <2>1 DEF Past
<1> QED BY <1>4, <1>5

(* At its cell the walk draws what is under the cell's pixels, and what it  *)
(* skips is empty.                                                         *)
LEMMA WalkCell ==
  ASSUME SceneOK, r.unlocked, NEW k \in 1 .. 2, On(k), ~ByPaging, WalkInv(k), walk.k < Cells(k),
         NEW c, c = CellAt(k, NameAt, AttrAt),
         NEW x \in Columns, TOf(k, x) = StartCell(k) + walk.k
  PROVE  /\ NameAt = NameOf(k, x)
         /\ InText(x) => /\ OOf(k, x) \in c.solid <=> Solid(k, x)
                         /\ c.colour[OOf(k, x)] = ColourAt(k, x)
                         /\ Lifts(k, x) <=> Solid(k, x) /\ c.lifts
                         /\ m.ecm > 0 /\ c.solid = {} => EmptyAt(k, x)
                         /\ Remembered => ByMemo(x) \/ ~Solid(k, x)
<1>1. walk.at = Place(k, TOf(k, x)) /\ L(k).on /\ x \in Int
  BY DEF WalkInv, On, Columns
<1>2. NameAt = NameOf(k, x) /\ AttrAt = AttrOf(k, x)
  BY <1>1, NameAtIs
<1>3. ASSUME InText(x) PROVE /\ OOf(k, x) \in c.solid <=> Solid(k, x)
                             /\ c.colour[OOf(k, x)] = ColourAt(k, x)
                             /\ Lifts(k, x) <=> Solid(k, x) /\ c.lifts
                             /\ m.ecm > 0 /\ c.solid = {} => EmptyAt(k, x)
  <2>1. c = CellAt(k, NameOf(k, x), AttrOf(k, x))
    BY <1>2
  <2> QED BY <1>1, <1>3, <2>1, CellIs
<1>4. Remembered => ByMemo(x) \/ ~Solid(k, x)
  BY <1>1, MemoIs
<1> QED BY <1>2, <1>3, <1>4

(* From cell to cell the walk keeps its place and what it remembers.       *)
LEMMA NextWalk ==
  ASSUME SceneOK, r.unlocked, NEW k \in 1 .. 2, On(k), ~ByPaging, WalkInv(k), walk.k < Cells(k),
         scene' = scene, NEW e, NextCell(k, e),
         e = walk.empty \/ e = Emptied(CellAt(k, NameAt, AttrAt))
  PROVE  /\ WalkInv(k)'
         /\ \A x \in Columns : Past(k, x)' <=> Past(k, x) \/ TOf(k, x) = StartCell(k) + walk.k
<1>1. walk'.k = walk.k + 1 /\ walk'.at = Advance(k, walk.at) /\ walk'.empty = e
  BY DEF NextCell
<1>2. StartCell(k) \in Nat /\ Cells(k) \in Nat /\ L(k).on
  BY ScrollParts DEF On
<1>3. walk.k \in 0 .. Cells(k) - 1 /\ walk.at = Place(k, StartCell(k) + walk.k)
  BY <1>2 DEF WalkInv
<1>4. /\ Cells(k)' = Cells(k) /\ StartCell(k)' = StartCell(k)
      /\ \A t : Place(k, t)' = Place(k, t)
      /\ \A x : TOf(k, x)' = TOf(k, x)
      /\ \A x : NameOf(k, x)' = NameOf(k, x) /\ EmptyAt(k, x)' = EmptyAt(k, x)
      /\ Columns' = Columns
  BY GeometryFixed, PlacesFixed DEF Columns
<1>5. ASSUME walk'.k < Cells(k) PROVE walk'.at = Place(k, StartCell(k) + walk'.k)
  <2>1. PICK t \in Nat : t = StartCell(k) + walk.k
    BY <1>2, <1>3
  <2>2. t >= StartCell(k) /\ t + 1 < StartCell(k) + Cells(k)
    BY <1>1, <1>2, <1>3, <1>5, <2>1
  <2>3. Advance(k, Place(k, t)) = Place(k, t + 1)
    BY <1>2, <2>2, AdvancePlace
  <2>4. t + 1 = StartCell(k) + walk'.k
    BY <1>1, <1>2, <1>3, <2>1
  <2> QED BY <1>1, <1>3, <2>1, <2>3, <2>4
<1>6. \A x \in Columns : TOf(k, x) \in Int
  <2> TAKE x \in Columns
  <2>1. x \in Int
    BY DEF Columns
  <2> QED BY <2>1, PixelCell
<1>7. \A x \in Columns : TOf(k, x) < StartCell(k) + walk'.k
                           <=> TOf(k, x) < StartCell(k) + walk.k \/ TOf(k, x) = StartCell(k) + walk.k
  BY <1>1, <1>2, <1>3, <1>6
<1>8. walk'.empty = -1 \/ \E z \in Columns : /\ TOf(k, z) < StartCell(k) + walk'.k
                                             /\ NameOf(k, z) = walk'.empty /\ EmptyAt(k, z)
  <2>1. CASE e = walk.empty
    BY <1>1, <1>7, <2>1 DEF WalkInv
  <2>2. CASE e # walk.empty
    <3> DEFINE c == CellAt(k, NameAt, AttrAt)
    <3>1. m.ecm > 0 /\ ~m.text /\ c.solid = {} /\ e = NameAt
      BY <2>2 DEF Emptied
    <3>2. PICK z \in Columns : TOf(k, z) = StartCell(k) + walk.k
      BY <1>3, <3>1, CellShown
    <3>3. InText(z)
      BY <3>1, <3>2, Geometry, ConstantTypes DEF InText, Columns
    <3>4. NameAt = NameOf(k, z) /\ EmptyAt(k, z)
      BY <3>1, <3>2, <3>3, WalkCell
    <3> QED BY <1>1, <1>7, <3>1, <3>2, <3>4
  <2> QED BY <2>1, <2>2
<1>9. WalkInv(k)'
  <2>1. walk'.k \in 0 .. Cells(k)
    BY <1>1, <1>2, <1>3
  <2>2. Place(k, StartCell(k) + walk.k)' = Place(k, StartCell(k) + walk'.k)
    BY <1>4, GeometryFixed, Zenon DEF Place, ColAt, PageAt, RowStart
  <2>3. walk'.k < Cells(k)' => walk'.at = Place(k, StartCell(k) + walk.k)'
    BY <1>4, <1>5, <2>2
  <2> QED BY <1>4, <1>8, <2>1, <2>3 DEF WalkInv
<1>10. \A x \in Columns : Past(k, x)' <=> Past(k, x) \/ TOf(k, x) = StartCell(k) + walk.k
  BY <1>4, <1>7 DEF Past
<1> QED BY <1>9, <1>10

(* What a mask moved by an offset holds.                                   *)
LEMMA MovedIs ==
  ASSUME NEW mask, mask \subseteq Int, NEW by \in Int, NEW p \in Buffer
  PROVE  p \in Moved(mask, by) <=> p - by \in mask
<1>1. p \in Int
  BY ConstantTypes DEF Buffer
<1>2. p \in Moved(mask, by) <=> \E q \in mask : p = q + by
  BY DEF Moved
<1>3. \A q \in mask : p = q + by <=> q = p - by
  BY <1>1
<1> QED BY <1>2, <1>3

(* A pixel is in the buffer in every layer's coordinates.                  *)
LEMMA InBuffer ==
  ASSUME SceneOK, r.unlocked, ~Packed, NEW k \in 1 .. 2, NEW x \in Columns
  PROVE  x \in Buffer /\ x + Fine(k) \in Buffer /\ x \in Int /\ Fine(k) \in Nat
<1>1. Word \in Nat /\ Pixels \in Nat
  BY ConstantTypes
<1>2. CellWidth \in Nat /\ CellWidth <= Word
  BY Geometry DEF Packed, Row80
<1>3. Fine(k) \in 0 .. CellWidth - 1
  BY ScrollParts
<1> QED BY <1>1, <1>2, <1>3 DEF Buffer, Columns

(* A cell is written over its own pixels only.                             *)
LEMMA Written ==
  ASSUME SceneOK, r.unlocked, ~Packed, NEW k \in 1 .. 2, DOMAIN layers = 1 .. 2, walk.k \in Nat,
         NEW cell, Write(k, cell)
  PROVE  /\ DOMAIN layers' = 1 .. 2
         /\ \A j \in 1 .. 2 : j # k => layers'[j] = layers[j]
         /\ \A x \in Columns :
              layers'[k][x + Fine(k)] = IF TOf(k, x) = StartCell(k) + walk.k THEN cell[OOf(k, x)]
                                        ELSE layers[k][x + Fine(k)]
<1> DEFINE new == [p \in Buffer |-> IF p \in Placed(InCell) THEN cell[p - XOf(0)] ELSE layers[k][p]]
<1>1. layers' = [layers EXCEPT ![k] = new]
  BY Zenon DEF Write
<1> HIDE DEF new
<1>2. DOMAIN layers' = 1 .. 2 /\ layers'[k] = new /\ \A j \in 1 .. 2 : j # k => layers'[j] = layers[j]
  BY <1>1
<1>3. ASSUME NEW x \in Columns
      PROVE  layers'[k][x + Fine(k)] = IF TOf(k, x) = StartCell(k) + walk.k THEN cell[OOf(k, x)]
                                       ELSE layers[k][x + Fine(k)]
  <2>1. x + Fine(k) \in Buffer /\ x \in Int /\ Fine(k) \in Nat
    BY InBuffer
  <2>2. new[x + Fine(k)] = IF x + Fine(k) \in Placed(InCell) THEN cell[(x + Fine(k)) - XOf(0)]
                           ELSE layers[k][x + Fine(k)]
    BY <2>1, Zenon DEF new
  <2>3. x + Fine(k) \in Placed(InCell) <=> TOf(k, x) = StartCell(k) + walk.k
    BY <2>1, PlacedAt, PixelCell
  <2>4. ASSUME TOf(k, x) = StartCell(k) + walk.k PROVE (x + Fine(k)) - XOf(0) = OOf(k, x)
    <3>1. /\ OOf(k, x) \in Int /\ x + Fine(k) - Pad = (TOf(k, x) - StartCell(k)) * CellWidth + OOf(k, x)
          /\ TOf(k, x) \in Int
      BY <2>1, PixelCell
    <3>2. CellWidth \in Nat /\ Pad \in Nat /\ StartCell(k) \in Nat
      BY Geometry, FineNat
    <3>3. PICK w \in Nat : w = walk.k * CellWidth
      BY <3>2, Product
    <3>4. TOf(k, x) - StartCell(k) = walk.k
      BY <2>4, <3>2
    <3>5. x + Fine(k) - Pad = w + OOf(k, x)
      BY <3>1, <3>3, <3>4
    <3>6. XOf(0) = Pad + w + 0
      BY <3>3 DEF XOf
    <3>7. w \in Int /\ Pad \in Int /\ Fine(k) \in Int /\ x \in Int /\ OOf(k, x) \in Int
      BY <2>1, <3>1, <3>2, <3>3
    <3>8. PICK f, d, q, v \in Int : f = Fine(k) /\ d = Pad /\ q = OOf(k, x) /\ v = x
      BY <3>7
    <3>9. v + f - d = w + q /\ XOf(0) = d + w + 0 /\ w \in Int
      BY <3>5, <3>6, <3>7, <3>8
    <3>10. (v + f) - XOf(0) = q
      BY <3>8, <3>9
    <3> QED BY <3>8, <3>10
  <2> QED BY <1>2, <2>2, <2>3, <2>4
<1> QED BY <1>2, <1>3

-----------------------------------------------------------------------------
(* The steps of the tile layers                                            *)

(* A cell's pixels are placed at numbers.                                  *)
LEMMA PlacedInt ==
  ASSUME SceneOK, walk.k \in Nat, NEW S, S \subseteq InCell
  PROVE  Placed(S) \subseteq Int
<1>1. CellWidth \in Nat /\ Pad \in Nat /\ InCell \subseteq Int
  BY Geometry DEF InCell
<1>2. PICK w \in Nat : w = walk.k * CellWidth
  BY <1>1, Product
<1>3. \A o \in S : XOf(o) \in Int
  <2> TAKE o \in S
  <2>1. o \in Int /\ XOf(o) = Pad + w + o
    BY <1>1, <1>2 DEF XOf
  <2> QED BY <1>1, <1>2, <2>1
<1> QED BY <1>3 DEF Placed

(* The pixels a cell takes leave the sprites' mask where it lifts.         *)
LEMMA LiftedIs ==
  ASSUME SceneOK, r.unlocked, NEW k \in 1 .. 2, walk.k \in Nat, NEW c, c.solid \subseteq InCell,
         spriteBits \subseteq Columns, \A x \in spriteBits : hasSprites, NEW x \in Columns
  PROVE  x \in Lifted(k, c) <=> x \in spriteBits /\ ~(/\ c.lifts /\ TOf(k, x) = StartCell(k) + walk.k
                                                     /\ OOf(k, x) \in c.solid)
<1>1. x \in Int /\ Fine(k) \in Nat
  BY FineNat DEF Columns
<1>2. x + Fine(k) \in Placed(c.solid) <=> TOf(k, x) = StartCell(k) + walk.k /\ OOf(k, x) \in c.solid
  BY <1>1, PlacedAt
<1>3. x \in {p - Fine(k) : p \in Placed(c.solid)} <=> x + Fine(k) \in Placed(c.solid)
  <2>1. \A p \in Placed(c.solid) : p \in Int
    BY PlacedInt
  <2>2. \A p \in Placed(c.solid) : x = p - Fine(k) <=> p = x + Fine(k)
    BY <1>1, <2>1
  <2> QED BY <2>2
<1>4. Lifted(k, c) = IF c.lifts /\ hasSprites THEN spriteBits \ {p - Fine(k) : p \in Placed(c.solid)}
                     ELSE spriteBits
  BY Zenon DEF Lifted
<1>5. CASE c.lifts /\ hasSprites
  BY <1>2, <1>3, <1>4, <1>5
<1>6. CASE ~(c.lifts /\ hasSprites)
  BY <1>4, <1>6
<1> QED BY <1>5, <1>6

(* The tile's facts of a pixel that stay while the scene does.             *)
LEMMA PixelFixed ==
  ASSUME scene' = scene, NEW x
  PROVE  /\ InText(x)' = InText(x) /\ Visible(x)' = Visible(x) /\ ByMemo(x)' = ByMemo(x)
         /\ \A k : /\ On(k)' = On(k) /\ Fine(k)' = Fine(k) /\ Solid(k, x)' = Solid(k, x)
                   /\ ColourAt(k, x)' = ColourAt(k, x) /\ Lifts(k, x)' = Lifts(k, x)
         /\ backdropOrNone' = backdropOrNone /\ m' = m /\ ByPaging' = ByPaging /\ r' = r /\ Covered' = Covered
  BY GeometryFixed, LayersFixed, ExemptionsFixed

(* A cell of layer 2 takes what is solid in it.                            *)
LEMMA Cell2Step ==
  ASSUME SceneOK, ~Packed, r.unlocked, ~ByPaging, PixelsInv, TileMasks, DOMAIN layers = 1 .. 2, TileInv, Cell2
  PROVE  TileInv' /\ DOMAIN layers' = 1 .. 2 /\ spriteBits' \subseteq spriteBits /\ selection' \subseteq Int
<1> DEFINE c == CellAt(2, NameAt, AttrAt)
           here(x) == TOf(2, x) = StartCell(2) + walk.k
<1>1. /\ pc = "tile2" /\ pc' = "tile2" /\ walk.k < Cells(2) /\ scene' = scene /\ final' = final
      /\ IF Remembered
         THEN NextCell(2, walk.empty) /\ layers' = layers /\ selection' = selection /\ spriteBits' = spriteBits
         ELSE /\ NextCell(2, Emptied(c)) /\ selection' = selection \cup Placed(c.solid)
              /\ spriteBits' = Lifted(2, c) /\ Write(2, c.colour)
  BY DEF Cell2
<1>2. On(2) /\ WalkInv(2) /\ \A x \in Columns : TookAt(x) /\ LiftAt(x)
  BY <1>1 DEF TileInv
<1>3. spriteBits \subseteq Columns /\ \A x \in spriteBits : hasSprites
  BY <1>1 DEF PixelsInv, Tiling
<1>4. c.solid \subseteq InCell /\ (m.ecm = 0 => ~c.lifts) /\ walk.k \in Nat
  <2>1. Cells(2) \in Nat
    BY ScrollParts
  <2> QED BY <1>2, <2>1, SolidInCell DEF WalkInv
<1>5. PICK e : NextCell(2, e) /\ (e = walk.empty \/ e = Emptied(c))
  BY <1>1
<1>6. WalkInv(2)' /\ \A x \in Columns : Past(2, x)' <=> Past(2, x) \/ here(x)
  BY <1>1, <1>2, <1>5, NextWalk
<1>7. ASSUME NEW x \in Columns, here(x)
      PROVE  InText(x) => /\ OOf(2, x) \in c.solid <=> Solid(2, x)
                          /\ c.colour[OOf(2, x)] = ColourAt(2, x)
                          /\ Lifts(2, x) <=> Solid(2, x) /\ c.lifts
                          /\ Remembered => ByMemo(x) \/ ~Solid(2, x)
  BY <1>1, <1>2, <1>7, WalkCell
<1>8. ASSUME NEW x \in Columns PROVE here(x) => ~Past(2, x)
  <2>1. StartCell(2) + walk.k \in Int
    BY <1>4, FineNat
  <2> QED BY <2>1 DEF Past
<1> HIDE DEF c, here
<1>9. /\ DOMAIN layers' = 1 .. 2
      /\ \A x \in Columns : layers'[2][x + Fine(2)] = IF ~Remembered /\ here(x) THEN c.colour[OOf(2, x)]
                                                      ELSE layers[2][x + Fine(2)]
  <2>1. CASE Remembered
    BY <1>1, <2>1
  <2>2. CASE ~Remembered
    <3>1. Write(2, c.colour)
      BY <1>1, <2>2
    <3> QED BY <1>4, <2>2, <3>1, Written DEF here
  <2> QED BY <2>1, <2>2
<1>10. ASSUME NEW x \in Columns
       PROVE  x + Fine(2) \in selection' <=> x + Fine(2) \in selection \/ (~Remembered /\ here(x) /\ OOf(2, x) \in c.solid)
  <2>1. x + Fine(2) \in Placed(c.solid) <=> here(x) /\ OOf(2, x) \in c.solid
    BY <1>4, PlacedAt DEF Columns, here
  <2> QED BY <1>1, <2>1
<1>11. ASSUME NEW x \in Columns
       PROVE  x \in spriteBits' <=> x \in spriteBits /\ ~(~Remembered /\ c.lifts /\ here(x) /\ OOf(2, x) \in c.solid)
  <2>1. x \in Lifted(2, c) <=> x \in spriteBits /\ ~(c.lifts /\ here(x) /\ OOf(2, x) \in c.solid)
    BY <1>3, <1>4, LiftedIs DEF here
  <2> QED BY <1>1, <2>1
<1>12. spriteBits' \subseteq spriteBits
  BY <1>1, Zenon DEF Lifted
<1>13. ASSUME NEW x \in Columns PROVE TookAt(x)' /\ LiftAt(x)'
  <2>1. TookAt(x) /\ LiftAt(x)
    BY <1>2
  <2>2. /\ InText(x)' = InText(x) /\ Visible(x)' = Visible(x) /\ ByMemo(x)' = ByMemo(x)
        /\ \A k : /\ On(k)' = On(k) /\ Fine(k)' = Fine(k) /\ Solid(k, x)' = Solid(k, x)
                  /\ ColourAt(k, x)' = ColourAt(k, x) /\ Lifts(k, x)' = Lifts(k, x)
        /\ m' = m
    BY <1>1, PixelFixed
  <2>3. (Took(x) <=> x + Fine(2) \in selection) /\ (Took(x)' <=> x + Fine(2) \in selection')
    BY <1>1, <2>2 DEF Took
  <2>4. Past(2, x)' <=> Past(2, x) \/ here(x)
    BY <1>6
  <2>5. layers'[2][x + Fine(2)] = IF ~Remembered /\ here(x) THEN c.colour[OOf(2, x)]
                                  ELSE layers[2][x + Fine(2)]
    BY <1>9
  <2>6. TookAt(x)'
    <3> SUFFICES ASSUME InText(x)
                 PROVE  /\ Took(x)' => Solid(2, x) /\ layers'[2][x + Fine(2)] = ColourAt(2, x)
                        /\ Took(x)' => Past(2, x)'
                        /\ Solid(2, x) /\ Past(2, x)' => Took(x)' \/ ByMemo(x)
      BY <1>1, <2>2, Zenon DEF TookAt
    <3>1. /\ Took(x) => Solid(2, x) /\ layers[2][x + Fine(2)] = ColourAt(2, x)
          /\ Took(x) => Past(2, x)
          /\ Solid(2, x) /\ Past(2, x) => Took(x) \/ ByMemo(x)
      BY <1>1, <2>1 DEF TookAt
    <3>2. CASE here(x)
      BY <1>7, <1>8, <1>10, <2>3, <2>4, <2>5, <3>1, <3>2
    <3>3. CASE ~here(x)
      BY <1>10, <2>3, <2>4, <2>5, <3>1, <3>3
    <3> QED BY <3>2, <3>3
  <2>7. LiftAt(x)'
    <3> SUFFICES /\ x \in spriteBits' => Visible(x) /\ (InText(x) => ~(Took(x)' /\ Lifts(2, x)))
                 /\ InText(x) /\ Visible(x) /\ x \notin spriteBits' => Took(x)' /\ Lifts(2, x)
                 /\ m.ecm = 0 /\ Visible(x) => x \in spriteBits'
      BY <1>1, <2>2, Zenon DEF LiftAt
    <3>1. /\ x \in spriteBits => Visible(x) /\ (InText(x) => ~(Took(x) /\ Lifts(2, x)))
          /\ InText(x) /\ Visible(x) /\ x \notin spriteBits => Took(x) /\ Lifts(2, x)
          /\ m.ecm = 0 /\ Visible(x) => x \in spriteBits
      BY <1>1, <2>1 DEF LiftAt
    <3>2. Lifts(2, x) => Solid(2, x)
      BY DEF Lifts
    <3>3. InText(x) /\ x \in spriteBits' => ~(Took(x)' /\ Lifts(2, x))
      BY <1>7, <1>8, <1>10, <1>11, <2>3, <3>1
    <3>4. InText(x) /\ Visible(x) /\ x \notin spriteBits' => Took(x)' /\ Lifts(2, x)
      BY <1>7, <1>10, <1>11, <2>3, <3>1
    <3> QED BY <1>4, <1>11, <3>1, <3>3, <3>4
  <2> QED BY <2>6, <2>7
<1>14. TileInv'
  <2>1. On(2)' /\ ByPaging' = ByPaging /\ Columns' = Columns
    BY <1>1, <1>2, PixelFixed DEF Columns
  <2> QED BY <1>1, <1>6, <1>13, <2>1 DEF TileInv
<1>15. selection' \subseteq Int
  <2>1. Placed(c.solid) \subseteq Int
    BY <1>4, PlacedInt
  <2> QED BY <1>1, <2>1 DEF TileMasks
<1> QED BY <1>9, <1>12, <1>14, <1>15

(* A cell of layer 1 is written where layer 2 has not filled it.           *)
LEMMA Cell1Step ==
  ASSUME SceneOK, ~Packed, r.unlocked, ~ByPaging, PixelsInv, TileMasks, DOMAIN layers = 1 .. 2, TileInv, Cell1
  PROVE  TileInv' /\ DOMAIN layers' = 1 .. 2 /\ spriteBits' \subseteq spriteBits
<1> DEFINE c == CellAt(1, NameAt, AttrAt)
           hidden == Remembered \/ Filled
           here(x) == TOf(1, x) = StartCell(1) + walk.k
           pixel == [o \in InCell |-> IF hidden \/ o \notin c.solid THEN backdropOrNone ELSE c.colour[o]]
<1>1. /\ pc = "tile1" /\ pc' = "tile1" /\ walk.k < Cells(1) /\ scene' = scene /\ final' = final
      /\ selection' = selection
      /\ Write(1, pixel) /\ NextCell(1, IF hidden THEN walk.empty ELSE Emptied(c))
      /\ spriteBits' = IF hidden THEN spriteBits ELSE Lifted(1, c)
  BY Zenon DEF Cell1
<1>2. /\ On(1) /\ WalkInv(1) /\ \A x \in Columns : TookAt(x) /\ LiftAt(x) /\ FrontAt(x)
      /\ IF On(2) THEN final = Moved(selection, Fine(1) - Fine(2)) ELSE selection = {}
  BY <1>1 DEF TileInv
<1>3. spriteBits \subseteq Columns /\ \A x \in spriteBits : hasSprites
  BY <1>1 DEF PixelsInv, Tiling
<1>4. c.solid \subseteq InCell /\ (m.ecm = 0 => ~c.lifts) /\ walk.k \in Nat
  <2>1. Cells(1) \in Nat
    BY ScrollParts
  <2> QED BY <1>2, <2>1, SolidInCell DEF WalkInv
<1>5. PICK e : NextCell(1, e) /\ (e = walk.empty \/ e = Emptied(c))
  BY <1>1
<1>6. WalkInv(1)' /\ \A x \in Columns : Past(1, x)' <=> Past(1, x) \/ here(x)
  BY <1>1, <1>2, <1>5, NextWalk
<1>7. ASSUME NEW x \in Columns, here(x)
      PROVE  InText(x) => /\ OOf(1, x) \in c.solid <=> Solid(1, x)
                          /\ c.colour[OOf(1, x)] = ColourAt(1, x)
                          /\ Lifts(1, x) <=> Solid(1, x) /\ c.lifts
                          /\ Remembered => ByMemo(x) \/ ~Solid(1, x)
  BY <1>1, <1>2, <1>7, WalkCell
<1>8. ASSUME NEW x \in Columns PROVE here(x) => ~Past(1, x)
  <2>1. StartCell(1) + walk.k \in Int
    BY <1>4, FineNat
  <2> QED BY <2>1 DEF Past
<1>9. ASSUME NEW x \in Columns, here(x), Filled PROVE x + Fine(1) \in final
  <2>1. x \in Int /\ OOf(1, x) \in InCell
    BY PixelCell DEF Columns
  <2>2. x + Fine(1) \in Placed(InCell)
    BY <1>4, <1>9, <2>1, PlacedAt
  <2> QED BY <1>9, <2>2 DEF Filled
<1>10. ASSUME NEW x \in Columns
       PROVE  pixel[OOf(1, x)] = IF hidden \/ OOf(1, x) \notin c.solid THEN backdropOrNone ELSE c.colour[OOf(1, x)]
  <2>1. OOf(1, x) \in InCell
    BY PixelCell DEF Columns
  <2> QED BY <2>1, Zenon
<1> HIDE DEF c, here, pixel, hidden
<1>11. /\ DOMAIN layers' = 1 .. 2 /\ layers'[2] = layers[2]
       /\ \A x \in Columns : layers'[1][x + Fine(1)] = IF here(x) THEN pixel[OOf(1, x)]
                                                       ELSE layers[1][x + Fine(1)]
  BY <1>1, <1>4, Written DEF here
<1>12. ASSUME NEW x \in Columns
       PROVE  x \in spriteBits' <=> x \in spriteBits /\ ~(~hidden /\ c.lifts /\ here(x) /\ OOf(1, x) \in c.solid)
  <2>1. x \in Lifted(1, c) <=> x \in spriteBits /\ ~(c.lifts /\ here(x) /\ OOf(1, x) \in c.solid)
    BY <1>3, <1>4, LiftedIs DEF here
  <2> QED BY <1>1, <2>1
<1>13. spriteBits' \subseteq spriteBits
  BY <1>1, Zenon DEF Lifted
<1>14. ASSUME NEW x \in Columns PROVE TookAt(x)' /\ LiftAt(x)' /\ FrontAt(x)'
  <2>1. TookAt(x) /\ LiftAt(x) /\ FrontAt(x)
    BY <1>2
  <2>2. /\ InText(x)' = InText(x) /\ Visible(x)' = Visible(x) /\ ByMemo(x)' = ByMemo(x)
        /\ \A k : /\ On(k)' = On(k) /\ Fine(k)' = Fine(k) /\ Solid(k, x)' = Solid(k, x)
                  /\ ColourAt(k, x)' = ColourAt(k, x) /\ Lifts(k, x)' = Lifts(k, x)
        /\ m' = m /\ backdropOrNone' = backdropOrNone
    BY <1>1, PixelFixed
  <2>3. Took(x) <=> x + Fine(1) \in final
    BY <1>1 DEF Took
  <2>4. Took(x)' <=> Took(x)
    BY <1>1, <2>2, <2>3 DEF Took
  <2>5. Past(1, x)' <=> Past(1, x) \/ here(x)
    BY <1>6 DEF here
  <2>6. layers'[1][x + Fine(1)] = IF here(x) THEN pixel[OOf(1, x)] ELSE layers[1][x + Fine(1)]
    BY <1>11
  <2>7. here(x) /\ Filled => Took(x)
    BY <1>9, <2>3 DEF here
  <2>8. hidden <=> Remembered \/ Filled
    BY DEF hidden
  <2>9. here(x) /\ InText(x) => /\ OOf(1, x) \in c.solid <=> Solid(1, x)
                                /\ c.colour[OOf(1, x)] = ColourAt(1, x)
                                /\ Lifts(1, x) <=> Solid(1, x) /\ c.lifts
                                /\ Remembered => ByMemo(x) \/ ~Solid(1, x)
    BY <1>7 DEF here, c
  <2>10. TookAt(x)'
    <3>1. InText(x) => /\ Took(x) => Solid(2, x) /\ layers[2][x + Fine(2)] = ColourAt(2, x)
                       /\ Solid(2, x) => Took(x) \/ ByMemo(x)
      BY <1>1, <2>1 DEF TookAt
    <3> QED BY <1>1, <1>11, <2>2, <2>4, <3>1, Zenon DEF TookAt
  <2>11. LiftAt(x)'
    <3> SUFFICES /\ x \in spriteBits' => Visible(x) /\ (InText(x) => ~(Took(x) /\ Lifts(2, x)))
                 /\ InText(x) /\ Visible(x) /\ x \notin spriteBits' => (Took(x) /\ Lifts(2, x)) \/ Lifts(1, x)
                 /\ InText(x) /\ x \in spriteBits' /\ Lifts(1, x) /\ Past(1, x)' => Took(x) \/ ByMemo(x)
                 /\ m.ecm = 0 /\ Visible(x) => x \in spriteBits'
      BY <1>1, <2>2, <2>4, Zenon DEF LiftAt
    <3>1. /\ x \in spriteBits => Visible(x) /\ (InText(x) => ~(Took(x) /\ Lifts(2, x)))
          /\ InText(x) /\ Visible(x) /\ x \notin spriteBits => (Took(x) /\ Lifts(2, x)) \/ Lifts(1, x)
          /\ InText(x) /\ x \in spriteBits /\ Lifts(1, x) /\ Past(1, x) => Took(x) \/ ByMemo(x)
          /\ m.ecm = 0 /\ Visible(x) => x \in spriteBits
      BY <1>1, <2>1 DEF LiftAt
    <3>2. InText(x) /\ Visible(x) /\ x \notin spriteBits' => (Took(x) /\ Lifts(2, x)) \/ Lifts(1, x)
      BY <1>12, <2>9, <3>1
    <3>3. InText(x) /\ x \in spriteBits' /\ Lifts(1, x) /\ Past(1, x)' => Took(x) \/ ByMemo(x)
      BY <1>12, <2>5, <2>7, <2>8, <2>9, <3>1
    <3>4. m.ecm = 0 /\ Visible(x) => x \in spriteBits'
      BY <1>4, <1>12, <3>1
    <3> QED BY <1>12, <3>1, <3>2, <3>3, <3>4
  <2>12. FrontAt(x)'
    <3> SUFFICES ASSUME InText(x), Past(1, x)'
                 PROVE  \/ layers'[1][x + Fine(1)] = (IF Solid(1, x) THEN ColourAt(1, x) ELSE backdropOrNone)
                        \/ layers'[1][x + Fine(1)] = backdropOrNone /\ (Took(x) \/ ByMemo(x))
      BY <1>1, <2>2, <2>4, Zenon DEF FrontAt
    <3>1. CASE here(x)
      <4>1. layers'[1][x + Fine(1)] = IF hidden \/ OOf(1, x) \notin c.solid THEN backdropOrNone ELSE c.colour[OOf(1, x)]
        BY <1>10, <2>6, <3>1 DEF pixel, hidden, c
      <4>2. CASE ~hidden
        BY <2>9, <3>1, <4>1, <4>2
      <4>3. CASE hidden
        <5>1. layers'[1][x + Fine(1)] = backdropOrNone
          BY <4>1, <4>3
        <5>2. Took(x) \/ ByMemo(x) \/ ~Solid(1, x)
          BY <2>7, <2>8, <2>9, <3>1, <4>3
        <5> QED BY <5>1, <5>2
      <4> QED BY <4>2, <4>3
    <3>2. CASE ~here(x)
      <4>1. Past(1, x)
        BY <2>5, <3>2
      <4>2. layers'[1][x + Fine(1)] = layers[1][x + Fine(1)]
        BY <2>6, <3>2
      <4> QED BY <1>1, <1>2, <2>1, <4>1, <4>2 DEF FrontAt
    <3> QED BY <3>1, <3>2
  <2> QED BY <2>10, <2>11, <2>12
<1>15. TileInv'
  <2>1. On(1)' /\ On(2)' = On(2) /\ ByPaging' = ByPaging /\ Columns' = Columns
        /\ Fine(1)' = Fine(1) /\ Fine(2)' = Fine(2)
    BY <1>1, <1>2, PixelFixed DEF Columns
  <2>2. Moved(selection, Fine(1) - Fine(2))' = Moved(selection, Fine(1) - Fine(2))
    BY <1>1, <2>1 DEF Moved, Buffer
  <2>3. IF On(2)' THEN final' = Moved(selection, Fine(1) - Fine(2))' ELSE selection' = {}
    BY <1>1, <1>2, <2>1, <2>2
  <2> QED BY <1>1, <1>6, <1>14, <2>1, <2>3 DEF TileInv
<1> QED BY <1>11, <1>13, <1>15

(* The tiles begin with every visible sprite in the mask and nothing taken. *)
LEMMA StartTilesStep ==
  ASSUME SceneOK, ~Packed, ~ByPaging, PixelsInv, TileMasks, SpriteLine, DOMAIN layers = 1 .. 2, StartTiles
  PROVE  TileInv'
<1>1. /\ pc = "done" /\ r.unlocked /\ scene' = scene /\ selection' = selection /\ final' = final
      /\ spriteBits' = spriteBits
      /\ pc' = IF On(2) THEN "tile2" ELSE IF On(1) THEN "tile1" ELSE "composite"
      /\ walk' = Memo(Start(IF On(2) THEN 2 ELSE 1))
  BY DEF StartTiles, masks
<1>2. selection = {} /\ final = {} /\ spriteBits = {x \in Columns : Visible(x)}
  BY <1>1 DEF TileMasks, SpriteLine
<1>3. On(2) => pc' = "tile2" /\ WalkInv(2)' /\ \A x \in Columns : InText(x) => ~Past(2, x)'
  <2> SUFFICES ASSUME On(2) PROVE pc' = "tile2" /\ WalkInv(2)' /\ \A x \in Columns : InText(x) => ~Past(2, x)'
    OBVIOUS
  <2>1. L(2).on /\ walk' = Memo(Start(2)) /\ pc' = "tile2"
    BY <1>1 DEF On
  <2> QED BY <1>1, <2>1, StartWalk
<1>4. ~On(2) /\ On(1) => pc' = "tile1" /\ WalkInv(1)' /\ \A x \in Columns : InText(x) => ~Past(1, x)'
  <2> SUFFICES ASSUME ~On(2), On(1)
               PROVE  pc' = "tile1" /\ WalkInv(1)' /\ \A x \in Columns : InText(x) => ~Past(1, x)'
    OBVIOUS
  <2>1. L(1).on /\ walk' = Memo(Start(1)) /\ pc' = "tile1"
    BY <1>1 DEF On
  <2> QED BY <1>1, <2>1, StartWalk
<1>5. ASSUME NEW x \in Columns PROVE TookAt(x)' /\ LiftAt(x)' /\ (pc' # "tile2" => FrontAt(x)')
                                     /\ (pc' = "composite" => BorderAt(x)')
  <2>2. /\ InText(x)' = InText(x) /\ Visible(x)' = Visible(x) /\ ByMemo(x)' = ByMemo(x)
        /\ \A k : /\ On(k)' = On(k) /\ Fine(k)' = Fine(k) /\ Solid(k, x)' = Solid(k, x)
                  /\ ColourAt(k, x)' = ColourAt(k, x) /\ Lifts(k, x)' = Lifts(k, x)
        /\ m' = m
    BY <1>1, PixelFixed
  <2>3. ~Took(x)'
    BY <1>1, <1>2 DEF Took
  <2>4. Solid(1, x) => On(1) /\ InText(x)
    BY DEF Solid
  <2>5. Solid(2, x) => On(2) /\ InText(x)
    BY DEF Solid
  <2>6. Lifts(1, x) => Solid(1, x)
    BY DEF Lifts
  <2>7. TookAt(x)'
    <3> SUFFICES ASSUME InText(x) PROVE Solid(2, x) => ~(pc' = "tile2" => Past(2, x)')
      BY <2>2, <2>3, Zenon DEF TookAt
    <3> QED BY <1>3, <2>5
  <2>8. x \in spriteBits' <=> Visible(x)
    BY <1>1, <1>2
  <2>9. LiftAt(x)'
    <3> SUFFICES ASSUME InText(x), Lifts(1, x), pc' # "tile2" PROVE pc' = "tile1" /\ ~Past(1, x)'
      BY <2>2, <2>3, <2>8, Zenon DEF LiftAt
    <3> QED BY <1>1, <1>3, <1>4, <2>4, <2>6
  <2>10. pc' # "tile2" => FrontAt(x)'
    <3> SUFFICES ASSUME InText(x), On(1), pc' # "tile2" PROVE pc' = "tile1" /\ ~Past(1, x)'
      BY <2>2, Zenon DEF FrontAt
    <3> QED BY <1>1, <1>3, <1>4
  <2>11. pc' = "composite" => BorderAt(x)'
    BY <1>1, <2>2 DEF BorderAt
  <2> QED BY <2>7, <2>9, <2>10, <2>11
<1>6. TileInv'
  <2>1. /\ On(1)' = On(1) /\ On(2)' = On(2) /\ ByPaging' = ByPaging /\ Columns' = Columns
    BY <1>1, PixelFixed DEF Columns
  <2>2. pc' = "tile1" => On(1) /\ ~On(2) /\ selection' = {}
    BY <1>1, <1>2
  <2>3. pc' = "tile2" => On(2)
    BY <1>1
  <2> QED BY <1>1, <1>3, <1>4, <1>5, <2>1, <2>2, <2>3 DEF TileInv
<1> QED BY <1>6

(* At the end of layer 2's row its mask is the screen's in layer 1's        *)
(* coordinates, or back in the screen's.                                   *)
LEMMA EndTile2Step ==
  ASSUME SceneOK, ~Packed, r.unlocked, ~ByPaging, PixelsInv, TileMasks, DOMAIN layers = 1 .. 2, TileInv, EndTile2
  PROVE  TileInv' /\ selection' \subseteq Int /\ final' \subseteq Int
<1>1. /\ pc = "tile2" /\ walk.k = Cells(2) /\ scene' = scene /\ layers' = layers /\ spriteBits' = spriteBits
      /\ final' = Moved(selection, Fine(1) - Fine(2))
      /\ pc' = IF On(1) THEN "tile1" ELSE "composite"
      /\ walk' = Memo(Start(1))
      /\ selection' = IF On(1) \/ (Fine(1) = 0 /\ Fine(2) = 0) THEN selection ELSE Moved(final', -Fine(1))
  BY DEF EndTile2, Restored, masks
<1>2. On(2) /\ \A x \in Columns : TookAt(x) /\ LiftAt(x)
  BY <1>1 DEF TileInv
<1>3. Fine(1) \in Nat /\ Fine(2) \in Nat /\ StartCell(2) \in Nat /\ Cells(2) \in Nat
  BY FineNat, ScrollParts
<1>4. selection \subseteq Int /\ final' \subseteq Int /\ Buffer \subseteq Int /\ final' \subseteq Buffer
  <2>1. Buffer \subseteq Int
    BY ConstantTypes DEF Buffer
  <2>2. final' \subseteq Buffer
    BY <1>1 DEF Moved
  <2> QED BY <2>1, <2>2 DEF TileMasks
<1>5. selection' \subseteq Int
  <2>1. Moved(final', -Fine(1)) \subseteq Buffer
    BY DEF Moved
  <2> QED BY <1>1, <1>4, <2>1
<1>6. On(1) => WalkInv(1)' /\ \A x \in Columns : InText(x) => ~Past(1, x)'
  <2>1. On(1) => L(1).on
    BY DEF On
  <2> QED BY <1>1, <2>1, StartWalk
<1>7. ASSUME NEW x \in Columns PROVE TookAt(x)' /\ LiftAt(x)' /\ FrontAt(x)' /\ (~On(1) => BorderAt(x)')
  <2>1. TookAt(x) /\ LiftAt(x)
    BY <1>2
  <2>2. /\ InText(x)' = InText(x) /\ Visible(x)' = Visible(x) /\ ByMemo(x)' = ByMemo(x)
        /\ \A k : /\ On(k)' = On(k) /\ Fine(k)' = Fine(k) /\ Solid(k, x)' = Solid(k, x)
                  /\ ColourAt(k, x)' = ColourAt(k, x) /\ Lifts(k, x)' = Lifts(k, x)
        /\ m' = m
    BY <1>1, PixelFixed
  <2>3. x \in Buffer /\ x + Fine(1) \in Buffer /\ x \in Int
    BY InBuffer
  <2>4. x + Fine(1) \in final' <=> x + Fine(2) \in selection
    <3>1. x + Fine(1) \in final' <=> (x + Fine(1)) - (Fine(1) - Fine(2)) \in selection
      <4>1. Fine(1) - Fine(2) \in Int
        BY <1>3
      <4> QED BY <1>1, <1>4, <2>3, <4>1, MovedIs
    <3>2. (x + Fine(1)) - (Fine(1) - Fine(2)) = x + Fine(2)
      BY <1>3, <2>3
    <3> QED BY <3>1, <3>2
  <2>5. Took(x)' <=> Took(x)
    <3>1. CASE On(1)
      <4>1. Took(x)' <=> x + Fine(1) \in final'
        BY <1>1, <2>2, <3>1 DEF Took
      <4> QED BY <1>1, <2>4, <4>1 DEF Took
    <3>2. CASE ~On(1)
      <4>1. Took(x)' <=> x \in selection'
        BY <1>1, <3>2 DEF Took
      <4>2. CASE Fine(1) = 0 /\ Fine(2) = 0
        <5>1. x + Fine(2) = x
          BY <2>3, <4>2
        <5> QED BY <1>1, <3>2, <4>1, <4>2, <5>1 DEF Took
      <4>3. CASE ~(Fine(1) = 0 /\ Fine(2) = 0)
        <5>1. x \in Moved(final', -Fine(1)) <=> x - (-Fine(1)) \in final'
          <6>1. -Fine(1) \in Int
            BY <1>3
          <6> QED BY <1>4, <2>3, <6>1, MovedIs
        <5>2. x - (-Fine(1)) = x + Fine(1)
          BY <1>3, <2>3
        <5> QED BY <1>1, <2>4, <3>2, <4>1, <4>3, <5>1, <5>2 DEF Took
      <4> QED BY <4>2, <4>3
    <3> QED BY <3>1, <3>2
  <2>6. InText(x) => Past(2, x)
    <3>1. InText(x) => TOf(2, x) \in StartCell(2) .. StartCell(2) + Cells(2) - 1
      BY TextCell
    <3> QED BY <1>1, <1>3, <3>1 DEF Past
  <2>7. pc' # "tile2"
    BY <1>1
  <2>8. TookAt(x)'
    <3>1. InText(x) => /\ Took(x) => Solid(2, x) /\ layers[2][x + Fine(2)] = ColourAt(2, x)
                       /\ Solid(2, x) => Took(x) \/ ByMemo(x)
      BY <1>1, <2>1, <2>6 DEF TookAt
    <3> QED BY <1>1, <2>2, <2>5, <2>7, <3>1, Zenon DEF TookAt
  <2>9. Lifts(1, x) => On(1)
    BY DEF Lifts, Solid
  <2>10. LiftAt(x)'
    <3>1. /\ x \in spriteBits => Visible(x) /\ (InText(x) => ~(Took(x) /\ Lifts(2, x)))
          /\ InText(x) /\ Visible(x) /\ x \notin spriteBits => Took(x) /\ Lifts(2, x)
          /\ m.ecm = 0 /\ Visible(x) => x \in spriteBits
      BY <1>1, <2>1 DEF LiftAt
    <3>2. InText(x) /\ Lifts(1, x) => pc' = "tile1" /\ ~Past(1, x)'
      BY <1>1, <1>6, <2>9
    <3> QED BY <1>1, <2>2, <2>5, <3>1, <3>2, Zenon DEF LiftAt
  <2>11. FrontAt(x)'
    <3>1. InText(x) /\ On(1) => pc' = "tile1" /\ ~Past(1, x)'
      BY <1>1, <1>6
    <3> QED BY <2>2, <3>1, Zenon DEF FrontAt
  <2>12. ~On(1) => BorderAt(x)'
    BY <2>2 DEF BorderAt
  <2> QED BY <2>8, <2>10, <2>11, <2>12
<1>8. TileInv'
  <2>1. /\ On(1)' = On(1) /\ On(2)' = On(2) /\ ByPaging' = ByPaging /\ Columns' = Columns
        /\ Fine(1)' = Fine(1) /\ Fine(2)' = Fine(2)
    BY <1>1, PixelFixed DEF Columns
  <2>2. On(1) => Moved(selection, Fine(1) - Fine(2))' = Moved(selection, Fine(1) - Fine(2))
    BY <1>1, <2>1 DEF Moved, Buffer
  <2>3. On(1) => final' = Moved(selection, Fine(1) - Fine(2))'
    BY <1>1, <2>2
  <2> QED BY <1>1, <1>2, <1>6, <1>7, <2>1, <2>3 DEF TileInv
<1> QED BY <1>4, <1>5, <1>8

(* At the end of layer 1's row the mask is the screen's again, and a text   *)
(* row has its borders.                                                    *)
LEMMA EndTile1Step ==
  ASSUME SceneOK, ~Packed, r.unlocked, ~ByPaging, PixelsInv, TileMasks, DOMAIN layers = 1 .. 2, TileInv, EndTile1
  PROVE  TileInv' /\ DOMAIN layers' = 1 .. 2 /\ selection' \subseteq Int
<1> DEFINE side(p) == p - Fine(1) \in 0 .. Pad - 1 \cup Pixels - Pad .. Pixels - 1
           new == [p \in Buffer |-> IF side(p) THEN m.backdrop ELSE layers[1][p]]
<1>1. /\ pc = "tile1" /\ walk.k = Cells(1) /\ scene' = scene /\ final' = final /\ spriteBits' = spriteBits
      /\ layers' = [layers EXCEPT ![1] = new] /\ pc' = "composite"
      /\ selection' = IF ~On(2) \/ (Fine(1) = 0 /\ Fine(2) = 0) THEN selection ELSE Moved(final, -Fine(1))
  BY Zenon DEF EndTile1, Restored, masks
<1>2. /\ On(1) /\ \A x \in Columns : TookAt(x) /\ LiftAt(x) /\ FrontAt(x)
      /\ IF On(2) THEN final = Moved(selection, Fine(1) - Fine(2)) ELSE selection = {}
  BY <1>1 DEF TileInv
<1>3. Fine(1) \in Nat /\ Fine(2) \in Nat /\ StartCell(1) \in Nat /\ Cells(1) \in Nat
  BY FineNat, ScrollParts
<1>4. selection \subseteq Int /\ final \subseteq Int /\ Buffer \subseteq Int
  BY ConstantTypes DEF TileMasks, Buffer
<1>5. selection' \subseteq Int
  <2>1. Moved(final, -Fine(1)) \subseteq Buffer
    BY DEF Moved
  <2> QED BY <1>1, <1>4, <2>1
<1>6. DOMAIN layers' = 1 .. 2 /\ layers'[2] = layers[2] /\ layers'[1] = new
  <2> HIDE DEF new
  <2> QED BY <1>1
<1>7. ASSUME NEW x \in Columns PROVE TookAt(x)' /\ LiftAt(x)' /\ FrontAt(x)' /\ BorderAt(x)'
  <2>1. TookAt(x) /\ LiftAt(x) /\ FrontAt(x)
    BY <1>2
  <2>2. /\ InText(x)' = InText(x) /\ Visible(x)' = Visible(x) /\ ByMemo(x)' = ByMemo(x)
        /\ \A k : /\ On(k)' = On(k) /\ Fine(k)' = Fine(k) /\ Solid(k, x)' = Solid(k, x)
                  /\ ColourAt(k, x)' = ColourAt(k, x) /\ Lifts(k, x)' = Lifts(k, x)
        /\ m' = m /\ backdropOrNone' = backdropOrNone
    BY <1>1, PixelFixed
  <2>3. x \in Buffer /\ x + Fine(1) \in Buffer /\ x \in Int
    BY InBuffer
  <2>4. InText(x) => (Took(x)' <=> Took(x))
    <3>1. (Took(x)' <=> x \in selection') /\ (Took(x) <=> x + Fine(1) \in final)
      BY <1>1 DEF Took
    <3>2. CASE ~On(2)
      <4>1. ~Solid(2, x)
        BY <3>2 DEF Solid
      <4>2. Moved(selection, Fine(1) - Fine(2)) = {} /\ selection' = {}
        BY <1>1, <1>2, <3>2 DEF Moved
      <4>3. ~Took(x)'
        BY <3>1, <4>2
      <4>4. ~(InText(x) /\ Took(x))
        BY <2>1, <4>1 DEF TookAt
      <4> QED BY <3>2, <4>3, <4>4
    <3>3. CASE On(2) /\ Fine(1) = 0 /\ Fine(2) = 0
      <4>1. x + Fine(1) = x /\ Fine(1) - Fine(2) \in Int /\ (x + Fine(1)) - (Fine(1) - Fine(2)) = x
        BY <1>3, <2>3, <3>3
      <4>2. x + Fine(1) \in final <=> (x + Fine(1)) - (Fine(1) - Fine(2)) \in selection
        BY <1>2, <1>4, <2>3, <3>3, <4>1, MovedIs
      <4> QED BY <1>1, <3>1, <3>3, <4>1, <4>2
    <3>4. CASE On(2) /\ ~(Fine(1) = 0 /\ Fine(2) = 0)
      <4>1. -Fine(1) \in Int /\ x - (-Fine(1)) = x + Fine(1)
        BY <1>3, <2>3
      <4>2. x \in Moved(final, -Fine(1)) <=> x - (-Fine(1)) \in final
        BY <1>4, <2>3, <4>1, MovedIs
      <4> QED BY <1>1, <3>1, <3>4, <4>1, <4>2
    <3> QED BY <3>2, <3>3, <3>4
  <2>5. InText(x) => Past(1, x)
    <3>1. InText(x) => TOf(1, x) \in StartCell(1) .. StartCell(1) + Cells(1) - 1
      BY TextCell
    <3> QED BY <1>1, <1>3, <3>1 DEF Past
  <2>6. layers'[1][x + Fine(1)] = IF InText(x) THEN layers[1][x + Fine(1)] ELSE m.backdrop
    <3>1. new[x + Fine(1)] = IF side(x + Fine(1)) THEN m.backdrop ELSE layers[1][x + Fine(1)]
      BY <2>3, Zenon
    <3>2. side(x + Fine(1)) <=> ~InText(x)
      <4>1. (x + Fine(1)) - Fine(1) = x /\ Pad \in Nat /\ Pixels \in Nat /\ x \in 0 .. Pixels - 1
        BY <1>3, <2>3, Geometry, ConstantTypes DEF Columns
      <4>2. Cols * CellWidth \in Nat /\ 2 * Pad + Cols * CellWidth = Pixels
        BY Geometry
      <4>3. 2 * Pad <= Pixels
        BY <4>1, <4>2
      <4> QED BY <4>1, <4>3 DEF InText
    <3> QED BY <1>6, <3>1, <3>2
  <2>7. TookAt(x)'
    <3>1. InText(x) => /\ Took(x) => Solid(2, x) /\ layers[2][x + Fine(2)] = ColourAt(2, x)
                       /\ Solid(2, x) => Took(x) \/ ByMemo(x)
      BY <1>1, <2>1 DEF TookAt
    <3> QED BY <1>1, <1>6, <2>2, <2>4, <3>1, Zenon DEF TookAt
  <2>8. LiftAt(x)'
    <3>1. /\ x \in spriteBits => Visible(x) /\ (InText(x) => ~(Took(x) /\ Lifts(2, x)))
          /\ InText(x) /\ Visible(x) /\ x \notin spriteBits => (Took(x) /\ Lifts(2, x)) \/ Lifts(1, x)
          /\ InText(x) /\ x \in spriteBits /\ Lifts(1, x) => Took(x) \/ ByMemo(x)
          /\ m.ecm = 0 /\ Visible(x) => x \in spriteBits
      BY <1>1, <2>1, <2>5 DEF LiftAt
    <3> QED BY <1>1, <2>2, <2>4, <3>1, Zenon DEF LiftAt
  <2>9. FrontAt(x)'
    <3>1. InText(x) => \/ layers[1][x + Fine(1)] = (IF Solid(1, x) THEN ColourAt(1, x) ELSE backdropOrNone)
                       \/ layers[1][x + Fine(1)] = backdropOrNone /\ (Took(x) \/ ByMemo(x))
      BY <1>1, <1>2, <2>1, <2>5 DEF FrontAt
    <3>2. FrontAt(x)' <=> (InText(x) /\ On(1) =>
            \/ layers'[1][x + Fine(1)] = (IF Solid(1, x) THEN ColourAt(1, x) ELSE backdropOrNone)
            \/ layers'[1][x + Fine(1)] = backdropOrNone /\ (Took(x) \/ ByMemo(x)))
      BY <1>1, <2>2, <2>4, Zenon DEF FrontAt
    <3> QED BY <2>6, <3>1, <3>2
  <2>10. BorderAt(x)'
    <3>1. BorderAt(x)' <=> (On(1) /\ ~InText(x) => layers'[1][x + Fine(1)] = m.backdrop)
      BY <2>2, Zenon DEF BorderAt
    <3> QED BY <2>6, <3>1
  <2> QED BY <2>7, <2>8, <2>9, <2>10
<1>8. TileInv'
  <2>1. ByPaging' = ByPaging /\ Columns' = Columns
    BY <1>1, PixelFixed DEF Columns
  <2> QED BY <1>1, <1>7, <2>1 DEF TileInv
<1> QED BY <1>5, <1>6, <1>8

(* What the layers leave alone stays beneath them.                         *)
LEMMA GroundFixed ==
  ASSUME scene' = scene, under' = under, rowBits' = rowBits
  PROVE  GroundIs' <=> GroundIs
<1>1. r' = r /\ b' = b /\ Covered' = Covered /\ Columns' = Columns
  BY GeometryFixed, LayersFixed DEF Columns
<1>2. \A x : /\ Below(x)' = Below(x) /\ LockedBelow(x)' = LockedBelow(x) /\ BitmapAt(x)' = BitmapAt(x)
             /\ ByMask(x)' = ByMask(x)
  BY LayersFixed, ExemptionsFixed
<1> QED BY <1>1, <1>2 DEF GroundIs

(* The sprites hand over the mask and the line SpriteLine promises.        *)
LEMMA DonePixels ==
  SpriteInv /\ pc = "done" => PixelsInv
<1> SUFFICES ASSUME SpriteInv, pc = "done" PROVE PixelsInv
  OBVIOUS
<1>1. SceneOK /\ spriteBits = {x \in Columns : Visible(x)} /\ (~hasSprites => spriteBits = {})
      /\ \A x \in Columns : IF ~Visible(x) THEN pixels[x] = Beneath
                            ELSE IF HalfCut(Owner(x)) THEN pixels[x] # Beneath
                            ELSE pixels[x] = Colour(Owner(x), x)
  BY DEF SpriteInv, SpriteLine
<1>2. ASSUME NEW x \in Columns, Visible(x) PROVE pixels[x] # Beneath
  <2>1. Over(x) # {} /\ Over(x) \subseteq HitList /\ HitList \subseteq Nat
    <3>1. HitList \subseteq Nat
      BY <1>1, HitRanks
    <3> QED BY <1>2, <3>1 DEF Visible, Over, Shown
  <2>2. \E k \in Over(x) : \A j \in Over(x) : k <= j
    BY <2>1, LeastNatural
  <2>3. Owner(x) \in Over(x)
    BY <2>2, Zenon DEF Owner, Min
  <2>4. Owner(x) \in HitList /\ Covers(Owner(x), x)
    BY <2>1, <2>3 DEF Over
  <2>5. /\ Emitted(RowFor(Owner(x)), x) # Beneath
        /\ ~HalfCut(Owner(x)) => Emitted(RowFor(Owner(x)), x) = Colour(Owner(x), x)
    BY <1>1, <2>4, EmittedIsColour
  <2> QED BY <1>1, <1>2, <2>5
<1> QED BY <1>1, <1>2 DEF PixelsInv

(* The steps of the tile layers keep the invariant of the line.            *)
LEMMA TileStepInv ==
  ASSUME SpriteInv, ~Packed, ~(r.unlocked /\ ByPaging), LineInv,
         StartTiles \/ Cell2 \/ EndTile2 \/ Cell1 \/ EndTile1
  PROVE  LineInv'
<1>1. /\ SceneOK /\ PixelsInv /\ GroundInv /\ TileMasks /\ DOMAIN layers = 1 .. 2
      /\ Tiling => r.unlocked /\ ~Covered /\ TileInv
  BY DEF LineInv, SpriteInv
<1>2. /\ scene' = scene /\ under' = under /\ rowBits' = rowBits /\ pixels' = pixels /\ hasSprites' = hasSprites
      /\ pc' \in {"tile2", "tile1", "composite"} /\ (pc = "done" \/ Tiling)
  BY Zenon DEF StartTiles, Cell2, EndTile2, Cell1, EndTile1, Tiling
<1>3. r.unlocked /\ ~Covered
  BY <1>1, <1>2 DEF StartTiles, Tiling, Cell2, EndTile2, Cell1, EndTile1
<1>4. /\ TileInv' /\ DOMAIN layers' = 1 .. 2 /\ spriteBits' \subseteq spriteBits
      /\ selection' \subseteq Int /\ final' \subseteq Int
  <2>1. CASE StartTiles
    <3>1. SpriteLine /\ layers' = layers /\ spriteBits' = spriteBits /\ selection' = selection /\ final' = final
      BY <2>1 DEF SpriteInv, StartTiles, masks
    <3>2. TileInv'
      BY <1>1, <1>3, <2>1, <3>1, StartTilesStep
    <3> QED BY <1>1, <3>1, <3>2 DEF TileMasks
  <2>2. CASE Cell2
    <3>1. final' = final /\ Tiling
      BY <2>2 DEF Cell2, Tiling
    <3>2. TileInv' /\ DOMAIN layers' = 1 .. 2 /\ spriteBits' \subseteq spriteBits /\ selection' \subseteq Int
      BY <1>1, <1>3, <2>2, <3>1, Cell2Step
    <3> QED BY <1>1, <3>1, <3>2 DEF TileMasks
  <2>3. CASE EndTile2
    <3>1. layers' = layers /\ spriteBits' = spriteBits /\ Tiling
      BY <2>3 DEF EndTile2, masks, Tiling
    <3>2. TileInv' /\ selection' \subseteq Int /\ final' \subseteq Int
      BY <1>1, <1>3, <2>3, <3>1, EndTile2Step
    <3> QED BY <1>1, <3>1, <3>2
  <2>4. CASE Cell1
    <3>1. final' = final /\ selection' = selection /\ Tiling
      BY <2>4, Zenon DEF Cell1, Tiling
    <3>2. TileInv' /\ DOMAIN layers' = 1 .. 2 /\ spriteBits' \subseteq spriteBits
      BY <1>1, <1>3, <2>4, <3>1, Cell1Step
    <3> QED BY <1>1, <3>1, <3>2 DEF TileMasks
  <2>5. CASE EndTile1
    <3>1. final' = final /\ spriteBits' = spriteBits /\ Tiling
      BY <2>5 DEF EndTile1, masks, Tiling
    <3>2. TileInv' /\ DOMAIN layers' = 1 .. 2 /\ selection' \subseteq Int
      BY <1>1, <1>3, <2>5, <3>1, EndTile1Step
    <3> QED BY <1>1, <3>1, <3>2 DEF TileMasks
  <2> QED BY <2>1, <2>2, <2>3, <2>4, <2>5
<1>5. PixelsInv'
  <2>1. \A x : Visible(x)' = Visible(x)
    BY <1>2, LayersFixed
  <2>2. Columns' = Columns /\ Beneath' = Beneath
    BY DEF Columns, Beneath
  <2> QED BY <1>1, <1>2, <1>4, <2>1, <2>2 DEF PixelsInv
<1>6. GroundInv'
  <2>1. GroundIs
    BY <1>1, <1>2 DEF GroundInv, Tiling
  <2>2. GroundIs'
    BY <1>2, <2>1, GroundFixed
  <2> QED BY <1>2, <2>2 DEF GroundInv
<1>7. TileMasks'
  BY <1>2, <1>4 DEF TileMasks
<1>8. r'.unlocked /\ ~Covered'
  BY <1>2, <1>3, GeometryFixed, LayersFixed
<1> QED BY <1>4, <1>5, <1>6, <1>7, <1>8 DEF LineInv

-----------------------------------------------------------------------------
(* The finished line                                                       *)

(* The line a viewer should see is the registers' and the sprites'.        *)
LEMMA ExpectedFixed ==
  ASSUME scene' = scene, pixels' = pixels
  PROVE  \A x : /\ Expected(x)' = Expected(x) /\ ExpectedLocked(x)' = ExpectedLocked(x)
                /\ ExpectedText(x)' = ExpectedText(x)
<1> TAKE x
<1>1. /\ Visible(x)' = Visible(x) /\ Covered' = Covered /\ Below(x)' = Below(x) /\ Border(x)' = Border(x)
      /\ LockedBelow(x)' = LockedBelow(x) /\ BitmapAt(x)' = BitmapAt(x)
      /\ \A k : /\ InFront(k, x)' = InFront(k, x) /\ Solid(k, x)' = Solid(k, x)
                /\ Lifts(k, x)' = Lifts(k, x) /\ ColourAt(k, x)' = ColourAt(k, x)
  BY LayersFixed
<1>2. m' = m /\ b' = b /\ r' = r /\ TextGround(x)' = TextGround(x)
  BY GeometryFixed, ExemptionsFixed
<1>3. Expected(x)' = Expected(x)
  <2>1. Expected(x) =
          LET sprite == IF Visible(x) THEN pixels[x] ELSE Below(x)
          IN IF Covered THEN sprite
             ELSE IF InFront(2, x)
             THEN (IF Visible(x) /\ ~Lifts(2, x) THEN sprite ELSE ColourAt(2, x))
             ELSE IF Solid(2, x) \/ (BitmapAt(x) /\ b.priority) THEN sprite
             ELSE IF InFront(1, x)
             THEN (IF Visible(x) /\ ~Lifts(1, x) THEN sprite ELSE ColourAt(1, x))
             ELSE IF Border(x) /\ ~Visible(x) THEN m.backdrop
             ELSE sprite
    BY Zenon DEF Expected, Below
  <2>2. Expected(x)' =
          LET sprite == IF Visible(x)' THEN pixels'[x] ELSE Below(x)'
          IN IF Covered' THEN sprite
             ELSE IF InFront(2, x)'
             THEN (IF Visible(x)' /\ ~Lifts(2, x)' THEN sprite ELSE ColourAt(2, x)')
             ELSE IF Solid(2, x)' \/ (BitmapAt(x)' /\ b'.priority) THEN sprite
             ELSE IF InFront(1, x)'
             THEN (IF Visible(x)' /\ ~Lifts(1, x)' THEN sprite ELSE ColourAt(1, x)')
             ELSE IF Border(x)' /\ ~Visible(x)' THEN m'.backdrop
             ELSE sprite
    BY Zenon DEF Expected, Below
  <2> QED BY <1>1, <1>2, <2>1, <2>2
<1>4. ExpectedLocked(x)' = ExpectedLocked(x)
  <2>1. ExpectedLocked(x) = IF Visible(x) THEN pixels[x] ELSE LockedBelow(x)
    BY Zenon DEF ExpectedLocked, LockedBelow
  <2>2. ExpectedLocked(x)' = IF Visible(x)' THEN pixels'[x] ELSE LockedBelow(x)'
    BY Zenon DEF ExpectedLocked, LockedBelow
  <2> QED BY <1>1, <2>1, <2>2
<1>5. ExpectedText(x)' = ExpectedText(x)
  <2>1. ExpectedText(x) = IF r.unlocked /\ Visible(x) THEN pixels[x] ELSE TextGround(x)
    BY Zenon DEF ExpectedText, TextGround
  <2>2. ExpectedText(x)' = IF r'.unlocked /\ Visible(x)' THEN pixels'[x] ELSE TextGround(x)'
    BY Zenon DEF ExpectedText, TextGround
  <2> QED BY <1>1, <1>2, <2>1, <2>2
<1> QED BY <1>3, <1>4, <1>5

(* The sprite's pixel, or what it would be on.                             *)
SpriteOr(x) == IF Visible(x) THEN pixels[x] ELSE Below(x)

(* What the code's priorities are to come to, by what the layers have.     *)
LEMMA ExpectedIs ==
  ASSUME NEW x
  PROVE  /\ Covered => Expected(x) = SpriteOr(x)
         /\ ~Covered /\ Solid(2, x) =>
              Expected(x) = IF (underLayer /\ On(1) /\ ColourAt(2, x) = 0) \/ (Visible(x) /\ ~Lifts(2, x))
                            THEN SpriteOr(x) ELSE ColourAt(2, x)
         /\ ~Covered /\ ~Solid(2, x) /\ BitmapAt(x) /\ b.priority => Expected(x) = SpriteOr(x)
         /\ ~Covered /\ ~Solid(2, x) /\ ~(BitmapAt(x) /\ b.priority) /\ Solid(1, x) =>
              Expected(x) = IF (underLayer /\ On(1) /\ ColourAt(1, x) = 0) \/ (Visible(x) /\ ~Lifts(1, x))
                            THEN SpriteOr(x) ELSE ColourAt(1, x)
         /\ ~Covered /\ ~Solid(2, x) /\ ~(BitmapAt(x) /\ b.priority) /\ ~Solid(1, x) =>
              Expected(x) = IF Border(x) /\ ~Visible(x) THEN m.backdrop ELSE SpriteOr(x)
<1>1. Expected(x) =
        IF Covered THEN SpriteOr(x)
        ELSE IF InFront(2, x)
        THEN (IF Visible(x) /\ ~Lifts(2, x) THEN SpriteOr(x) ELSE ColourAt(2, x))
        ELSE IF Solid(2, x) \/ (BitmapAt(x) /\ b.priority) THEN SpriteOr(x)
        ELSE IF InFront(1, x)
        THEN (IF Visible(x) /\ ~Lifts(1, x) THEN SpriteOr(x) ELSE ColourAt(1, x))
        ELSE IF Border(x) /\ ~Visible(x) THEN m.backdrop
        ELSE SpriteOr(x)
  BY Zenon DEF Expected, SpriteOr, Below
<1>2. \A k : InFront(k, x) <=> Solid(k, x) /\ ~(underLayer /\ On(1) /\ ColourAt(k, x) = 0)
  BY DEF InFront
<1>3. Covered => Expected(x) = SpriteOr(x)
  BY <1>1
<1>4. ~Covered /\ Solid(2, x) =>
        Expected(x) = IF (underLayer /\ On(1) /\ ColourAt(2, x) = 0) \/ (Visible(x) /\ ~Lifts(2, x))
                      THEN SpriteOr(x) ELSE ColourAt(2, x)
  BY <1>1, <1>2
<1>5. ~Covered /\ ~Solid(2, x) /\ BitmapAt(x) /\ b.priority => Expected(x) = SpriteOr(x)
  BY <1>1, <1>2
<1>6. ~Covered /\ ~Solid(2, x) /\ ~(BitmapAt(x) /\ b.priority) /\ Solid(1, x) =>
        Expected(x) = IF (underLayer /\ On(1) /\ ColourAt(1, x) = 0) \/ (Visible(x) /\ ~Lifts(1, x))
                      THEN SpriteOr(x) ELSE ColourAt(1, x)
  <2>1. Solid(1, x) => ~Border(x)
    BY DEF Solid, Border
  <2> QED BY <1>1, <1>2, <2>1
<1>7. ~Covered /\ ~Solid(2, x) /\ ~(BitmapAt(x) /\ b.priority) /\ ~Solid(1, x) =>
        Expected(x) = IF Border(x) /\ ~Visible(x) THEN m.backdrop ELSE SpriteOr(x)
  BY <1>1, <1>2
<1> QED BY <1>3, <1>4, <1>5, <1>6, <1>7

(* The composite gives every pixel to the layer it is of.                  *)
LEMMA CompositeShows ==
  ASSUME SceneOK, ~Packed, r.unlocked, ~Covered, PixelsInv, GroundIs, TileInv, Composite,
         NEW x \in Columns, ~ByMemo(x), ~ByMask(x), ~ByLift(x), ~ByBorder(x)
  PROVE  line'[x] = Expected(x)
<1>1. /\ pc = "composite"
      /\ line'[x] = IF HandedOut THEN Overlaid(x) ELSE IF On(1) THEN Merged(x) ELSE Layer2Only(x)
  BY DEF Composite
<1>2. TookAt(x) /\ LiftAt(x) /\ FrontAt(x) /\ BorderAt(x) /\ (Took(x) <=> x \in selection)
  BY <1>1 DEF TileInv, Took
<1>3. x \in Selected <=> InText(x) /\ Took(x)
  BY <1>2 DEF Selected, InText
<1>4. Pixel(x) = SpriteOr(x)
  BY <1>1 DEF PixelsInv, Tiling, GroundIs, Pixel, SpriteOr
<1>5. x \in rowBits <=> BitmapAt(x) /\ b.priority
  BY DEF GroundIs
<1>6. (\A k : Lifts(k, x) => Solid(k, x)) /\ (\A k \in 1 .. 2 : Solid(k, x) => On(k) /\ InText(x))
  BY DEF Lifts, Solid
<1>7. backdropOrNone = IF underLayer THEN 0 ELSE m.backdrop
  BY DEF backdropOrNone
<1>8. BitmapAt(x) /\ ~underLayer => b.priority /\ b.on
  BY DEF BitmapAt, underLayer, BitmapHere
<1>9. HandedOut => On(1) /\ ~On(2) /\ ~underLayer /\ ~b.on
  BY DEF HandedOut
<1>10. CASE Solid(2, x)
  <2>1. InText(x) /\ On(2) /\ Took(x) /\ x \in Selected /\ Read(2, x) = ColourAt(2, x)
    BY <1>1, <1>2, <1>3, <1>6, <1>10 DEF TookAt, Read
  <2>2. x \in spriteBits <=> Visible(x) /\ ~Lifts(2, x)
    BY <1>1, <1>2, <1>10, <2>1 DEF LiftAt, ByLift
  <2>3. Expected(x) = IF (underLayer /\ On(1) /\ ColourAt(2, x) = 0) \/ x \in spriteBits
                      THEN SpriteOr(x) ELSE ColourAt(2, x)
    BY <1>10, <2>2, ExpectedIs
  <2>4. ~HandedOut
    BY <1>9, <2>1
  <2>5. CASE On(1)
    <3>1. Merged(x) = IF x \in spriteBits \/ (underLayer /\ ColourAt(2, x) = 0) THEN Pixel(x) ELSE ColourAt(2, x)
      BY <2>1 DEF Merged, Through, Picked
    <3> QED BY <1>1, <1>4, <2>3, <2>4, <2>5, <3>1
  <2>6. CASE ~On(1)
    <3>1. Layer2Only(x) = IF x \notin spriteBits THEN ColourAt(2, x) ELSE Pixel(x)
      BY <2>1 DEF Layer2Only
    <3> QED BY <1>1, <1>4, <2>3, <2>4, <2>6, <3>1
  <2> QED BY <2>5, <2>6
<1>11. CASE ~Solid(2, x)
  <2>1. x \notin Selected /\ ~(InText(x) /\ Took(x)) /\ ~Lifts(2, x)
    BY <1>2, <1>3, <1>6, <1>11 DEF TookAt
  <2>2. Layer2Only(x) = Pixel(x)
    BY <2>1 DEF Layer2Only
  <2>3. /\ Overlaid(x) = IF x \in spriteBits THEN Pixel(x) ELSE Read(1, x)
        /\ Merged(x) = IF x \in spriteBits \/ x \in rowBits \/ (underLayer /\ Read(1, x) = 0) THEN Pixel(x)
                       ELSE Read(1, x)
    BY <2>1 DEF Overlaid, Merged, Through, Picked
  <2>4. HandedOut => ~BitmapAt(x)
    BY <1>8, <1>9
  <2>5. line'[x] = IF ~On(1) \/ x \in spriteBits \/ x \in rowBits \/ (underLayer /\ Read(1, x) = 0) THEN Pixel(x)
                   ELSE Read(1, x)
    <3>1. CASE HandedOut
      BY <1>1, <1>5, <1>9, <2>3, <2>4, <3>1
    <3>2. CASE ~HandedOut /\ On(1)
      BY <1>1, <2>3, <3>2
    <3>3. CASE ~HandedOut /\ ~On(1)
      BY <1>1, <2>2, <3>3
    <3> QED BY <3>1, <3>2, <3>3
  <2>6. Visible(x) /\ x \notin spriteBits => Lifts(1, x) /\ Solid(1, x)
    <3>1. CASE InText(x)
      BY <1>1, <1>2, <1>6, <2>1, <3>1 DEF LiftAt
    <3>2. CASE ~InText(x)
      <4>1. m.text
        <5>1. ~m.text => Pad = 0 /\ Pixels \in Nat /\ x \in 0 .. Pixels - 1
          BY Geometry DEF Columns
        <5>2. Pad = 0 /\ Pixels \in Nat /\ x \in 0 .. Pixels - 1 => InText(x)
          BY DEF InText
        <5> QED BY <3>2, <5>1, <5>2
      <4>2. m.ecm \in 0 .. 3
        BY SceneParts DEF SceneMode
      <4>3. ~(m.ecm > 0 /\ Visible(x))
        BY <3>2, <4>1 DEF ByBorder
      <4> QED BY <1>2, <4>2, <4>3 DEF LiftAt
    <3> QED BY <3>1, <3>2
  <2>7. x \in spriteBits => Visible(x) /\ ~Lifts(1, x)
    <3>1. Lifts(1, x) => InText(x)
      BY <1>6
    <3> QED BY <1>1, <1>2, <2>1, <3>1 DEF LiftAt
  <2>8. Border(x) <=> m.text /\ ~InText(x) /\ On(1) /\ ~(underLayer /\ m.backdrop = 0)
    BY DEF Border
  <2>9. CASE BitmapAt(x) /\ b.priority
    BY <1>4, <1>5, <1>11, <2>5, <2>9, ExpectedIs
  <2>10. CASE ~(BitmapAt(x) /\ b.priority) /\ Solid(1, x)
    <3>1. InText(x) /\ On(1) /\ Read(1, x) = ColourAt(1, x)
      BY <1>1, <1>2, <1>6, <2>1, <2>10 DEF FrontAt, Read
    <3>2. Expected(x) = IF (underLayer /\ On(1) /\ ColourAt(1, x) = 0) \/ (Visible(x) /\ ~Lifts(1, x))
                        THEN SpriteOr(x) ELSE ColourAt(1, x)
      BY <1>11, <2>10, ExpectedIs
    <3> QED BY <1>4, <1>5, <2>5, <2>6, <2>7, <2>10, <3>1, <3>2
  <2>11. CASE ~(BitmapAt(x) /\ b.priority) /\ ~Solid(1, x)
    <3>1. Expected(x) = IF Border(x) /\ ~Visible(x) THEN m.backdrop ELSE SpriteOr(x)
      BY <1>11, <2>11, ExpectedIs
    <3>2. x \in spriteBits <=> Visible(x)
      BY <2>6, <2>7, <2>11
    <3>3. CASE ~On(1)
      BY <1>4, <2>5, <2>8, <3>1, <3>3
    <3>4. CASE On(1) /\ InText(x)
      <4>1. Read(1, x) = backdropOrNone
        BY <1>1, <1>2, <2>1, <2>11, <3>4 DEF FrontAt, Read
      <4>2. ~Visible(x) /\ ~underLayer => SpriteOr(x) = m.backdrop
        BY <1>8, <2>11 DEF SpriteOr, Below
      <4> QED BY <1>4, <1>5, <1>7, <2>5, <2>8, <2>11, <3>1, <3>2, <3>4, <4>1, <4>2
    <3>5. CASE On(1) /\ ~InText(x)
      <4>1. Read(1, x) = m.backdrop
        BY <1>2, <3>5 DEF BorderAt, Read
      <4>2. m.text
        <5>1. ~m.text => Pad = 0 /\ Pixels \in Nat /\ x \in 0 .. Pixels - 1
          BY Geometry DEF Columns
        <5>2. Pad = 0 /\ Pixels \in Nat /\ x \in 0 .. Pixels - 1 => InText(x)
          BY DEF InText
        <5> QED BY <3>5, <5>1, <5>2
      <4> QED BY <1>4, <1>5, <2>5, <2>8, <2>11, <3>1, <3>2, <3>5, <4>1, <4>2
    <3> QED BY <3>3, <3>4, <3>5
  <2> QED BY <2>9, <2>10, <2>11
<1> QED BY <1>10, <1>11

(* A line without tiles shows the sprites over what they were drawn on.    *)
LEMMA NoTilesShows ==
  ASSUME SpriteInv, ~Packed, GroundIs, NoTiles, NEW x \in Columns
  PROVE  line'[x] = IF r.unlocked THEN Expected(x) ELSE ExpectedLocked(x)
<1>1. pc = "done" /\ line'[x] = Pixel(x) /\ (~r.unlocked \/ Covered)
  BY DEF NoTiles
<1>2. pixels[x] = Beneath <=> ~Visible(x)
  BY <1>1, DonePixels DEF PixelsInv
<1>3. CASE r.unlocked
  BY <1>1, <1>2, <1>3, ExpectedIs DEF Pixel, SpriteOr, GroundIs
<1>4. CASE ~r.unlocked
  <2>1. ExpectedLocked(x) = IF Visible(x) THEN pixels[x] ELSE LockedBelow(x)
    BY Zenon DEF ExpectedLocked, LockedBelow
  <2> QED BY <1>1, <1>2, <1>4, <2>1 DEF Pixel, GroundIs
<1> QED BY <1>3, <1>4

-----------------------------------------------------------------------------
(* The bitmap layer's mask                                                 *)

(* What holds of 0 and of every number after one it holds of.              *)
LEMMA Induction ==
  ASSUME NEW N \in Nat, NEW G, 0 \in G, \A k \in 1 .. N : k - 1 \in G => k \in G
  PROVE  \A k \in 0 .. N : k \in G
<1> DEFINE T == (0 .. N) \ G
<1>1. SUFFICES ASSUME T # {} PROVE FALSE
  OBVIOUS
<1>2. T \subseteq Nat
  OBVIOUS
<1>3. PICK k \in T : \A y \in T : k <= y
  <2> HIDE DEF T
  <2> QED BY <1>1, <1>2, LeastNatural
<1>4. k \in 1 .. N /\ k - 1 \in 0 .. N /\ ~(k <= k - 1)
  OBVIOUS
<1> QED BY <1>3, <1>4

(* A word of the mask as it is gathered, byte by byte.                     *)
NoneGathered == [bits |-> {}, held |-> {}, at |-> 0, from |-> 0]
(* One byte of the mask after another.                                     *)
GatheredByte(k, before) ==
  LET drawn == {o \in 4 * (k - 1) .. 4 * k - 1 : Draws(o)}
      held  == IF before.at >= Word THEN before.held ELSE before.held \cup drawn
  IN IF before.at + 4 >= Word /\ held # {}
     THEN [bits |-> before.bits \cup {BitmapX(before.from) + o - before.from : o \in held},
           held |-> {}, at |-> 0, from |-> 4 * k]
     ELSE [before EXCEPT !.held = held, !.at = @ + 4]
(* A function that gathers w bytes.                                        *)
Gathering(w, f) == f = [k \in 0 .. w |-> IF k = 0 THEN NoneGathered ELSE GatheredByte(k, f[k - 1])]

(* There is such a function, for any number of bytes.                      *)
LEMMA GatheringExists ==
  ASSUME NEW w \in Nat
  PROVE  \E f : Gathering(w, f)
<1> DEFINE G == {k \in Nat : \E f : Gathering(k, f)}
<1>1. 0 \in G
  <2>1. Gathering(0, [k \in 0 .. 0 |-> NoneGathered])
    BY DEF Gathering
  <2> QED BY <2>1
<1>2. ASSUME NEW k \in 1 .. w, k - 1 \in G PROVE k \in G
  <2>1. PICK f : Gathering(k - 1, f)
    BY <1>2
  <2> DEFINE g == [i \in 0 .. k |-> IF i = k THEN GatheredByte(k, f[k - 1]) ELSE f[i]]
  <2>2. Gathering(k, g)
    <3>1. \A i \in 0 .. k - 1 : g[i] = f[i]
      OBVIOUS
    <3>2. \A i \in 0 .. k : g[i] = IF i = 0 THEN NoneGathered ELSE GatheredByte(i, g[i - 1])
      BY <2>1, <3>1 DEF Gathering
    <3> QED BY <3>2 DEF Gathering
  <2> HIDE DEF g
  <2> QED BY <2>2
<1>3. w \in G
  <2> HIDE DEF G
  <2>1. \A k \in 0 .. w : k \in G
    BY <1>1, <1>2, Induction
  <2> QED BY <2>1
<1> QED BY <1>3

(* Gathered is what such a function comes to, and the word still held.     *)
LEMMA GatheredIs ==
  ASSUME NEW w \in Nat
  PROVE  \E f : /\ Gathering(w, f)
                /\ Gathered(w) = f[w].bits \cup {BitmapX(f[w].from) + o - f[w].from : o \in f[w].held}
<1> DEFINE f == CHOOSE g : Gathering(w, g)
<1>1. Gathering(w, f)
  BY GatheringExists
<1>2. Gathered(w) = f[w].bits \cup {BitmapX(f[w].from) + o - f[w].from : o \in f[w].held}
  BY Zenon DEF Gathered, Gathering, NoneGathered, GatheredByte
<1> HIDE DEF f
<1> QED BY <1>1, <1>2

(* The bitmap layer's pixels lie on the line.                              *)
LEMMA BitmapParts ==
  ASSUME SceneOK
  PROVE  /\ b.x \in 0 .. Pixels - 1 /\ b.priority \in BOOLEAN /\ b.transparent \in BOOLEAN
         /\ BitmapBytes \in Nat /\ 4 * BitmapBytes <= Pixels
<1>1. b.x \in 0 .. Pixels - 1 /\ b.priority \in BOOLEAN /\ b.transparent \in BOOLEAN /\ b.width \in 0 .. Pixels
  BY SceneParts DEF SceneBitmap
<1>2. PICK q \in Nat : Pixels = 4 * q
  <2>1. LineWords * Unit \in Nat /\ LineWords * (4 * Unit) = 4 * (LineWords * Unit)
    BY ConstantTypes
  <2> QED BY <2>1, ConstantTypes DEF Pixels
<1>3. BitmapBytes \in Nat /\ 4 * BitmapBytes <= Pixels
  <2>1. Pixels \div 4 = q
    BY <1>2
  <2>2. PICK v \in Nat : v = b.width /\ v <= 4 * q
    BY <1>1, <1>2
  <2>3. (v + 3) \div 4 \in Nat /\ (v + 3) \div 4 <= q
    BY <2>2
  <2> QED BY <1>2, <2>1, <2>2, <2>3 DEF BitmapBytes
<1> QED BY <1>1, <1>3

(* Where a byte's pixel lands on the line, which goes round.               *)
LEMMA BitmapXIs ==
  ASSUME SceneOK, NEW o \in 0 .. Pixels - 1
  PROVE  BitmapX(o) = IF b.x + o < Pixels THEN b.x + o ELSE b.x + o - Pixels
<1>1. PICK p \in Nat : p = Pixels /\ p > 0
  BY ConstantTypes
<1>2. PICK v \in Nat : v = b.x + o /\ v < 2 * p
  BY <1>1, BitmapParts
<1>3. CASE v < p
  <2>1. (0 * p + v) % p = v
    BY <1>1, <1>2, <1>3, Division
  <2>2. 0 * p + v = v
    BY <1>1, <1>2
  <2> QED BY <1>1, <1>2, <1>3, <2>1, <2>2 DEF BitmapX
<1>4. CASE ~(v < p)
  <2>1. v - p \in 0 .. p - 1
    BY <1>1, <1>2, <1>4
  <2>2. (1 * p + (v - p)) % p = v - p
    BY <1>1, <2>1, Division
  <2>3. 1 * p + (v - p) = v
    BY <1>1, <1>2
  <2>4. BitmapX(o) = v % p
    BY <1>1, <1>2 DEF BitmapX
  <2>5. v % p = v - p
    BY <2>2, <2>3
  <2>6. BitmapX(o) = v - p /\ ~(b.x + o < Pixels)
    BY <1>1, <1>2, <1>4, <2>4, <2>5
  <2>7. b.x + o - Pixels = v - p
    BY <1>1, <1>2, BitmapParts
  <2> QED BY <2>6, <2>7
<1> QED BY <1>3, <1>4

(* The byte's pixel under a pixel of the line.                             *)
LEMMA OffsetIs ==
  ASSUME SceneOK, NEW x \in Columns
  PROVE  LET o == (x - b.x) % Pixels
         IN o \in 0 .. Pixels - 1 /\ x = IF b.x + o < Pixels THEN b.x + o ELSE b.x + o - Pixels
<1>1. PICK p \in Nat : p = Pixels /\ p > 0
  BY ConstantTypes
<1>2. PICK y, z \in 0 .. p - 1 : y = x /\ z = b.x
  BY <1>1, BitmapParts DEF Columns
<1>3. CASE z <= y
  <2>1. y - z \in 0 .. p - 1 /\ 0 * p + (y - z) = y - z
    BY <1>1, <1>2, <1>3
  <2>2. (0 * p + (y - z)) % p = y - z
    BY <1>1, <2>1, Division
  <2>3. (x - b.x) % Pixels = y - z
    BY <1>1, <1>2, <2>1, <2>2
  <2>4. PICK d \in 0 .. p - 1 : d = y - z
    BY <2>1
  <2>5. z + d = y /\ y < p
    BY <1>1, <1>2, <2>4
  <2>6. (x - b.x) % Pixels = d /\ x = z + d /\ z + d < p
    BY <1>2, <2>3, <2>4, <2>5
  <2> QED BY <1>1, <1>2, <2>4, <2>6
<1>4. CASE ~(z <= y)
  <2>1. y - z + p \in 0 .. p - 1 /\ -1 * p + (y - z + p) = y - z
    BY <1>1, <1>2, <1>4
  <2>2. (-1 * p + (y - z + p)) % p = y - z + p
    BY <1>1, <2>1, Division
  <2>3. (x - b.x) % Pixels = y - z + p
    BY <1>1, <1>2, <2>1, <2>2
  <2>4. z + (y - z + p) = y + p /\ ~(y + p < p) /\ y + p - p = y
    BY <1>1, <1>2
  <2>5. PICK d \in 0 .. p - 1 : d = y - z + p
    BY <2>1
  <2>6. z + d = y + p /\ ~(y + p < p) /\ z + d - p = y
    BY <1>1, <1>2, <2>5
  <2>7. (x - b.x) % Pixels = d /\ x = z + d - p /\ ~(z + d < p)
    BY <1>2, <2>3, <2>5, <2>6
  <2> QED BY <1>1, <1>2, <2>5, <2>7
<1> QED BY <1>3, <1>4

(* Two pixels of the line are one when they are the same offset from b.x.  *)
LEMMA OffsetUnique ==
  ASSUME SceneOK, NEW x \in Columns, NEW o \in 0 .. Pixels - 1,
         x = b.x + o \/ x = b.x + o - Pixels
  PROVE  (x - b.x) % Pixels = o
<1>1. PICK p \in Nat : p = Pixels /\ p > 0
  BY ConstantTypes
<1>2. PICK d \in 0 .. p - 1 : d = (x - b.x) % Pixels
  BY <1>1, OffsetIs
<1>3. x = IF b.x + d < p THEN b.x + d ELSE b.x + d - p
  BY <1>1, <1>2, OffsetIs
<1>4. PICK y, z \in 0 .. p - 1 : y = x /\ z = b.x
  BY <1>1, BitmapParts DEF Columns
<1>5. PICK e \in 0 .. p - 1 : e = o
  BY <1>1
<1>6. d = e
  <2>1. (y = z + d \/ y = z + d - p) /\ (y = z + e \/ y = z + e - p)
    BY <1>1, <1>3, <1>4, <1>5
  <2> QED BY <1>1, <1>4, <2>1
<1> QED BY <1>2, <1>5, <1>6

(* After k bytes: the word still held began at from and is at bytes long;   *)
(* the landed bits are drawn pixels, each as far from its word's place as   *)
(* it was in the word; every drawn pixel before the word has landed.  A     *)
(* word that went past its length drew nothing.                            *)
GatheredTo(k, s) ==
  /\ DOMAIN s = {"bits", "held", "at", "from"}
  /\ s.at \in Nat /\ s.from \in Nat /\ s.from + s.at = 4 * k
  /\ (\E u \in Nat : s.at = 4 * u) /\ (\E q \in Nat : s.from = q * Word)
  /\ IF s.at < Word THEN s.held = {o \in s.from .. 4 * k - 1 : Draws(o)}
     ELSE s.held = {} /\ \A o \in s.from .. s.from + Word - 1 : ~Draws(o)
  /\ \A e \in s.bits : \E o \in 0 .. 4 * k - 1 : \E fr \in 0 .. o : Draws(o) /\ e = BitmapX(fr) + o - fr
  /\ \A o \in 0 .. s.from - 1 : Draws(o) => \E fr \in 0 .. o : BitmapX(fr) + o - fr \in s.bits

(* Every byte keeps it.                                                    *)
LEMMA GatheringTells ==
  ASSUME NEW w \in Nat, NEW f, Gathering(w, f)
  PROVE  GatheredTo(w, f[w])
<1> DEFINE G == {k \in 0 .. w : GatheredTo(k, f[k])}
<1>1. 0 \in G
  <2>1. f[0] = NoneGathered
    BY DEF Gathering
  <2>2. /\ f[0].at = 0 /\ f[0].from = 0 /\ f[0].held = {} /\ f[0].bits = {}
        /\ DOMAIN f[0] = {"bits", "held", "at", "from"}
    BY <2>1 DEF NoneGathered
  <2>3. 0 = 4 * 0 /\ 0 = 0 * Word /\ 0 < Word
    BY ConstantTypes
  <2>4. {o \in 0 .. 4 * 0 - 1 : Draws(o)} = {}
    OBVIOUS
  <2>5. GatheredTo(0, f[0])
    BY <2>2, <2>3, <2>4 DEF GatheredTo
  <2> QED BY <2>5
<1>2. ASSUME NEW k \in 1 .. w, k - 1 \in G PROVE k \in G
  <2> DEFINE s == f[k - 1]
             drawn == {o \in 4 * (k - 1) .. 4 * k - 1 : Draws(o)}
             held  == IF s.at >= Word THEN s.held ELSE s.held \cup drawn
  <2>1. GatheredTo(k - 1, s) /\ k \in Nat /\ k >= 1 /\ k \in 0 .. w
    BY <1>2
  <2>2. f[k] = GatheredByte(k, s)
    BY DEF Gathering
  <2>3. PICK at, from \in Nat : at = s.at /\ from = s.from /\ from + at = 4 * (k - 1)
    BY <2>1 DEF GatheredTo
  <2>4. PICK u \in Nat, q \in Nat : at = 4 * u /\ from = q * Word
    BY <2>1, <2>3 DEF GatheredTo
  <2>13. at + 4 \in Nat /\ from + (at + 4) = 4 * k /\ at + 4 = 4 * (u + 1) /\ u + 1 \in Nat
    <3>1. at = 4 * u
      BY <2>4
    <3>2. k \in Nat /\ from + at = 4 * (k - 1)
      BY <2>1, <2>3
    <3> QED BY <3>1, <3>2
  <2>5. /\ IF at < Word THEN s.held = {o \in from .. 4 * (k - 1) - 1 : Draws(o)}
           ELSE s.held = {} /\ \A o \in from .. from + Word - 1 : ~Draws(o)
        /\ \A e \in s.bits : \E o \in 0 .. 4 * (k - 1) - 1 : \E fr \in 0 .. o :
             Draws(o) /\ e = BitmapX(fr) + o - fr
        /\ \A o \in 0 .. from - 1 : Draws(o) => \E fr \in 0 .. o : BitmapX(fr) + o - fr \in s.bits
    BY <2>1, <2>3 DEF GatheredTo
  <2>6. Word \in Nat /\ Word > 0 /\ Word = 4 * Unit /\ Unit \in Nat
    BY ConstantTypes
  <2>7. at < Word => at + 4 <= Word
    BY <2>4, <2>6
  <2>8. held = IF at < Word THEN {o \in from .. 4 * k - 1 : Draws(o)} ELSE {}
    <3>1. CASE at < Word
      <4>1. held = s.held \cup drawn
        BY <2>3, <2>6, <3>1
      <4>2. \A o : o \in from .. 4 * k - 1 <=> o \in from .. 4 * (k - 1) - 1 \/ o \in 4 * (k - 1) .. 4 * k - 1
        BY <2>1, <2>3
      <4> QED BY <2>5, <3>1, <4>1, <4>2
    <3>2. CASE ~(at < Word)
      <4>1. held = s.held
        BY <2>3, <2>6, <3>2
      <4> QED BY <2>5, <3>2, <4>1
    <3> QED BY <3>1, <3>2
  <2>9. f[k] = IF at + 4 >= Word /\ held # {}
               THEN [bits |-> s.bits \cup {BitmapX(from) + o - from : o \in held},
                     held |-> {}, at |-> 0, from |-> 4 * k]
               ELSE [s EXCEPT !.held = held, !.at = @ + 4]
    BY <2>2, <2>3, Zenon DEF GatheredByte
  <2>10. \A e \in s.bits : \E o \in 0 .. 4 * k - 1 : \E fr \in 0 .. o : Draws(o) /\ e = BitmapX(fr) + o - fr
    <3>1. 0 .. 4 * (k - 1) - 1 \subseteq 0 .. 4 * k - 1
      BY <2>1
    <3> QED BY <2>5, <3>1
  <2>11. CASE at + 4 >= Word /\ held # {}
    <3> DEFINE new == {BitmapX(from) + o - from : o \in held}
    <3>1. /\ f[k].bits = s.bits \cup new /\ f[k].held = {} /\ f[k].at = 0 /\ f[k].from = 4 * k
          /\ DOMAIN f[k] = {"bits", "held", "at", "from"}
      BY <2>9, <2>11
    <3> HIDE DEF held
    <3>9. at < Word /\ held = {o \in from .. 4 * k - 1 : Draws(o)}
      BY <2>8, <2>11
    <3>2. at + 4 = Word /\ held = {o \in from .. 4 * k - 1 : Draws(o)}
      BY <2>3, <2>6, <2>7, <2>11, <3>9
    <3>3. 4 * k = (q + 1) * Word /\ q + 1 \in Nat
      <4>1. (q + 1) * Word = q * Word + Word
        BY <2>4, <2>6
      <4>2. 4 * k = from + Word
        BY <2>3, <3>2
      <4> QED BY <2>4, <4>1, <4>2
    <3>4. {o \in 4 * k .. 4 * k - 1 : Draws(o)} = {}
      BY <2>1
    <3>5. \A e \in f[k].bits : \E o \in 0 .. 4 * k - 1 : \E fr \in 0 .. o : Draws(o) /\ e = BitmapX(fr) + o - fr
      <4> TAKE e \in f[k].bits
      <4>1. CASE e \in s.bits
        BY <2>10, <4>1
      <4>2. CASE e \in new
        <5>1. PICK o \in held : e = BitmapX(from) + o - from
          BY <4>2
        <5>2. o \in 0 .. 4 * k - 1 /\ from \in 0 .. o /\ Draws(o)
          BY <2>3, <3>2
        <5> QED BY <5>1, <5>2
      <4> HIDE DEF new
      <4> QED BY <3>1, <4>1, <4>2
    <3>6. \A o \in 0 .. f[k].from - 1 : Draws(o) => \E fr \in 0 .. o : BitmapX(fr) + o - fr \in f[k].bits
      <4> SUFFICES ASSUME NEW o \in 0 .. 4 * k - 1, Draws(o)
                   PROVE  \E fr \in 0 .. o : BitmapX(fr) + o - fr \in f[k].bits
        BY <3>1
      <4>1. CASE o < from
        <5>1. o \in 0 .. from - 1
          BY <2>3, <4>1
        <5> QED BY <2>5, <3>1, <5>1
      <4>2. CASE ~(o < from)
        <5>1. o \in held /\ from \in 0 .. o
          BY <2>1, <2>3, <3>2, <4>2
        <5>2. BitmapX(from) + o - from \in new
          BY <5>1
        <5> HIDE DEF new
        <5> QED BY <3>1, <5>1, <5>2
      <4> QED BY <4>1, <4>2
    <3>7. 0 < Word /\ 0 = 4 * 0 /\ 4 * k \in Nat /\ 4 * k + 0 = 4 * k
      BY <2>1, <2>6
    <3> HIDE DEF new
    <3>8. GatheredTo(k, f[k])
      BY <3>1, <3>3, <3>4, <3>5, <3>6, <3>7 DEF GatheredTo
    <3> QED BY <2>1, <3>8
  <2>12. CASE ~(at + 4 >= Word /\ held # {})
    <3>1. f[k] = [s EXCEPT !.held = held, !.at = @ + 4]
      BY <2>9, <2>12, Zenon
    <3> HIDE DEF held
    <3>2. /\ f[k].bits = s.bits /\ f[k].held = held /\ f[k].at = at + 4 /\ f[k].from = from
          /\ DOMAIN f[k] = {"bits", "held", "at", "from"}
      <4>1. DOMAIN s = {"bits", "held", "at", "from"}
        BY <2>1 DEF GatheredTo
      <4> QED BY <2>3, <3>1, <4>1
    <3>3. CASE at + 4 < Word
      <4>1. at < Word
        BY <2>3, <2>6, <3>3
      <4>2. at + 4 \in Nat /\ from + (at + 4) = 4 * k /\ at + 4 = 4 * (u + 1) /\ u + 1 \in Nat
        BY <2>13
      <4>3. GatheredTo(k, f[k])
        BY <2>3, <2>4, <2>5, <2>8, <2>10, <3>2, <3>3, <4>1, <4>2 DEF GatheredTo
      <4> QED BY <2>1, <4>3
    <3>4. CASE ~(at + 4 < Word)
      <4>1. held = {}
        BY <2>3, <2>6, <2>12, <3>4
      <4>2. at + 4 \in Nat /\ from + (at + 4) = 4 * k /\ at + 4 = 4 * (u + 1) /\ u + 1 \in Nat
        BY <2>13
      <4>3. \A o \in from .. from + Word - 1 : ~Draws(o)
        <5>1. CASE at < Word
          <6>1. at + 4 = Word /\ from + Word - 1 = 4 * k - 1
            BY <2>3, <2>6, <2>7, <3>4, <4>2, <5>1
          <6>2. {o \in from .. 4 * k - 1 : Draws(o)} = {}
            BY <2>8, <4>1, <5>1
          <6> QED BY <6>1, <6>2
        <5>2. CASE ~(at < Word)
          BY <2>5, <5>2
        <5> QED BY <5>1, <5>2
      <4>4. GatheredTo(k, f[k])
        BY <2>3, <2>4, <2>5, <2>10, <3>2, <3>4, <4>1, <4>2, <4>3 DEF GatheredTo
      <4> QED BY <2>1, <4>4
    <3> QED BY <3>3, <3>4
  <2> QED BY <2>11, <2>12
<1> HIDE DEF G
<1>3. \A k \in 0 .. w : k \in G
  BY <1>1, <1>2, Induction
<1>4. w \in G
  BY <1>3
<1> QED BY <1>4 DEF G

(* On the line the mask is the drawn pixels, but those past the right edge  *)
(* and those past a word that drew nothing.                                *)
LEMMA GatheredShows ==
  ASSUME SceneOK, NEW x \in Columns, ~Covered, b.priority, r.unlocked, BitmapHere
  PROVE  /\ x \in Gathered(BitmapBytes) => BitmapAt(x)
         /\ BitmapAt(x) => x \in Gathered(BitmapBytes) \/ ByMask(x)
<1>1. PICK w \in Nat : w = BitmapBytes /\ 4 * w <= Pixels
  BY BitmapParts
<1>2. PICK f : /\ Gathering(w, f)
               /\ Gathered(w) = f[w].bits \cup {BitmapX(f[w].from) + o - f[w].from : o \in f[w].held}
  BY GatheredIs
<1>3. PICK s : s = f[w]
  OBVIOUS
<1>4. GatheredTo(w, s)
  BY <1>2, <1>3, GatheringTells
<1>5. PICK from \in Nat : from = s.from
  BY <1>4 DEF GatheredTo
<1>6. Gathered(w) = s.bits \cup {BitmapX(from) + o - from : o \in s.held}
  BY <1>2, <1>3, <1>5
<1>7. /\ s.held \subseteq {o \in from .. 4 * w - 1 : Draws(o)}
      /\ \/ s.held = {o \in from .. 4 * w - 1 : Draws(o)}
         \/ \A o \in from .. from + Word - 1 : ~Draws(o)
      /\ \E q \in Nat : from = q * Word
      /\ \A e \in s.bits : \E o \in 0 .. 4 * w - 1 : \E fr \in 0 .. o : Draws(o) /\ e = BitmapX(fr) + o - fr
      /\ \A o \in 0 .. from - 1 : Draws(o) => \E fr \in 0 .. o : BitmapX(fr) + o - fr \in s.bits
  BY <1>4, <1>5 DEF GatheredTo
<1>8. PICK p \in Nat : p = Pixels /\ p > 0 /\ 4 * w <= p
  BY <1>1, ConstantTypes
<1>9. PICK z \in 0 .. p - 1 : z = b.x
  BY <1>8, BitmapParts
<1>10. x \in 0 .. p - 1
  BY <1>8 DEF Columns
<1>11. \A o \in 0 .. 4 * w - 1 : \A fr \in 0 .. o :
         /\ BitmapX(fr) + o - fr = z + o \/ BitmapX(fr) + o - fr = z + o - p
         /\ z + o < p => BitmapX(fr) + o - fr = z + o
  <2> TAKE o \in 0 .. 4 * w - 1
  <2> TAKE fr \in 0 .. o
  <2>1. o \in Nat /\ fr \in 0 .. Pixels - 1 /\ fr <= o /\ fr \in Nat
    BY <1>8
  <2>2. BitmapX(fr) = IF z + fr < p THEN z + fr ELSE z + fr - p
    BY <1>8, <1>9, <2>1, BitmapXIs
  <2>3. PICK v \in Int : v = BitmapX(fr)
    BY <1>8, <1>9, <2>1, <2>2
  <2>4. v = IF z + fr < p THEN z + fr ELSE z + fr - p
    BY <2>2, <2>3
  <2>5. (v + o - fr = z + o \/ v + o - fr = z + o - p) /\ (z + o < p => v + o - fr = z + o)
    BY <1>8, <1>9, <2>1, <2>4
  <2> QED BY <2>3, <2>5
<1>12. ASSUME x \in Gathered(w) PROVE BitmapAt(x)
  <2>1. PICK o \in 0 .. 4 * w - 1 : Draws(o) /\ \E fr \in 0 .. o : x = BitmapX(fr) + o - fr
    <3>1. CASE x \in s.bits
      BY <1>7, <3>1
    <3>2. CASE x \notin s.bits
      <4>1. PICK o \in s.held : x = BitmapX(from) + o - from
        BY <1>6, <1>12, <3>2
      <4>2. o \in 0 .. 4 * w - 1 /\ from \in 0 .. o /\ Draws(o)
        BY <1>7, <4>1
      <4> QED BY <4>1, <4>2
    <3> QED BY <3>1, <3>2
  <2>2. x = b.x + o \/ x = b.x + o - Pixels
    BY <1>8, <1>9, <1>11, <2>1
  <2>3. o \in 0 .. Pixels - 1
    BY <1>8
  <2>4. (x - b.x) % Pixels = o
    BY <2>2, <2>3, OffsetUnique
  <2>5. o < 4 * BitmapBytes
    BY <1>1
  <2> QED BY <2>1, <2>4, <2>5 DEF BitmapAt
<1>13. ASSUME BitmapAt(x), ~ByMask(x) PROVE x \in Gathered(w)
  <2>1. PICK o \in 0 .. p - 1 : o = (x - b.x) % Pixels /\ x = IF z + o < p THEN z + o ELSE z + o - p
    BY <1>8, <1>9, OffsetIs
  <2>2. o < 4 * w /\ Draws(o) /\ o \in 0 .. 4 * w - 1
    BY <1>1, <1>13, <2>1 DEF BitmapAt
  <2>3. /\ z + o < p
        /\ ~\E i \in 0 .. (o \div Word) - 1 : \A j \in 0 .. Word - 1 : ~Draws(i * Word + j)
    <3>1. ByMask(x) <=> \/ b.x + o >= Pixels
                        \/ \E i \in 0 .. (o \div Word) - 1 : \A j \in 0 .. Word - 1 : ~Draws(i * Word + j)
      BY <1>13, <2>1 DEF ByMask
    <3> QED BY <1>8, <1>9, <1>13, <3>1
  <2>4. x = z + o
    BY <2>1, <2>3
  <2>5. CASE o < from
    <3>1. o \in 0 .. from - 1
      BY <2>5
    <3>2. PICK fr \in 0 .. o : BitmapX(fr) + o - fr \in s.bits
      BY <1>7, <2>2, <3>1
    <3> QED BY <1>6, <1>11, <2>2, <2>3, <2>4, <3>2
  <2>6. CASE ~(o < from) /\ s.held = {i \in from .. 4 * w - 1 : Draws(i)}
    <3>1. o \in s.held /\ from \in 0 .. o
      BY <2>2, <2>6
    <3>2. BitmapX(from) + o - from = x
      BY <1>11, <2>2, <2>3, <2>4, <3>1
    <3> QED BY <1>6, <3>1, <3>2
  <2>7. CASE ~(o < from) /\ \A i \in from .. from + Word - 1 : ~Draws(i)
    <3>1. PICK wd \in Nat : wd = Word /\ wd > 0
      BY ConstantTypes
    <3>2. PICK q \in Nat : from = q * wd
      BY <1>7, <3>1
    <3>3. o >= from + wd
      <4>1. ~(o \in from .. from + wd - 1)
        BY <2>2, <2>7, <3>1
      <4> QED BY <2>7, <3>1, <4>1
    <3>4. q + 1 <= o \div wd
      <4>1. PICK d \in Int, e \in 0 .. wd - 1 : d = o \div wd /\ o = wd * d + e
        BY <3>1, DivParts
      <4>2. d * wd > from
        <5>1. wd * d = d * wd /\ d * wd \in Int
          BY <3>1
        <5> QED BY <3>1, <3>3, <4>1, <5>1
      <4>3. ~(d <= q)
        <5>1. d <= q => d * wd <= q * wd
          BY <3>1, Monotone
        <5>2. d * wd \in Int
          BY <3>1
        <5> QED BY <3>2, <4>2, <5>1, <5>2
      <4> QED BY <4>1, <4>3
    <3>5. q \in 0 .. (o \div Word) - 1
      <4>1. o \div wd \in Int
        BY <3>1
      <4> QED BY <3>1, <3>4, <4>1
    <3>6. \A j \in 0 .. Word - 1 : ~Draws(q * Word + j)
      <4> TAKE j \in 0 .. Word - 1
      <4>1. from + j \in from .. from + Word - 1
        BY <3>1
      <4>2. q * Word + j = from + j
        BY <3>1, <3>2
      <4> QED BY <2>7, <4>1, <4>2
    <3> QED BY <2>3, <3>5, <3>6
  <2> QED BY <1>7, <2>5, <2>6, <2>7
<1> QED BY <1>1, <1>12, <1>13

(* The bitmap layer leaves its pixels on the backdrop and in the mask.     *)
LEMMA BitmapStepInv ==
  ASSUME SceneOK, ~Packed, ~(r.unlocked /\ ByPaging), LineInv, Bitmap
  PROVE  LineInv'
<1>1. /\ PixelsInv /\ GroundInv /\ TileMasks /\ DOMAIN layers = 1 .. 2
  BY DEF LineInv
<1>2. /\ pc = "collect" /\ pc' = "collect" /\ scene' = scene /\ r.unlocked /\ BitmapHere /\ walk.k = 0
      /\ layers' = layers /\ selection' = selection /\ final' = final
      /\ rowBits' = IF Covered THEN Columns
                    ELSE IF b.priority THEN Gathered(BitmapBytes) \cap Columns ELSE {}
      /\ walk' = [walk EXCEPT !.k = 1]
  BY DEF Bitmap, spriteVars
<1>3. under' = [x \in Columns |-> IF (x - b.x) % Pixels < 4 * BitmapBytes /\ Draws((x - b.x) % Pixels)
                                  THEN b.pal + Value((x - b.x) % Pixels) ELSE under[x]]
  BY Zenon DEF Bitmap
<1>4. \A x \in Columns : under[x] = m.backdrop
  BY <1>1, <1>2 DEF GroundInv
<1>5. r' = r /\ b' = b /\ Covered' = Covered /\ Columns' = Columns
  BY <1>2, GeometryFixed, LayersFixed DEF Columns
<1>6. ASSUME NEW x \in Columns
      PROVE  /\ under'[x] = Below(x)
             /\ ~Covered /\ x \in rowBits' => BitmapAt(x) /\ b.priority
             /\ ~Covered /\ BitmapAt(x) /\ b.priority => x \in rowBits' \/ ByMask(x)
  <2>1. under'[x] = Below(x)
    BY <1>2, <1>3, <1>4 DEF Below, BitmapAt
  <2>2. ~Covered /\ b.priority => /\ x \in Gathered(BitmapBytes) => BitmapAt(x)
                                  /\ BitmapAt(x) => x \in Gathered(BitmapBytes) \/ ByMask(x)
    BY <1>2, GatheredShows
  <2> QED BY <1>2, <2>1, <2>2
<1>7. GroundIs'
  <2>1. \A x : Below(x)' = Below(x) /\ BitmapAt(x)' = BitmapAt(x) /\ ByMask(x)' = ByMask(x)
    BY <1>2, LayersFixed, ExemptionsFixed
  <2> QED BY <1>2, <1>5, <1>6, <2>1 DEF GroundIs
<1>8. walk'.k = 1
  <2>1. "k" \in DOMAIN walk
    BY <1>1, <1>2 DEF GroundInv
  <2> QED BY <1>2, <2>1
<1> QED BY <1>1, <1>2, <1>7, <1>8 DEF LineInv, PixelsInv, Tiling, GroundInv, TileMasks

-----------------------------------------------------------------------------
(* A locked device's row, and the sprites                                  *)

(* The cells of a locked row, each with the colours of the last one where   *)
(* it has its name.                                                        *)
LockedName(c) == NameTable[L(1).base + (scene.y \div 8) * Cols + c]
(* A cell is the last one's where it has its name.                         *)
LockedCell(c, last) ==
  IF LockedName(c) = last.name THEN last
  ELSE [name |-> LockedName(c), patt |-> LockedPattern(LockedName(c)), pair |-> LockedPair(LockedName(c))]
(* What the row's first name is compared with.                             *)
FirstCell == [name |-> 0, patt |-> LockedPattern(0), pair |-> LockedPair(0)]
(* A function that gives the cells up to k.                                *)
InOrder(k, f) == f = [c \in 0 .. k |-> LockedCell(c, IF c = 0 THEN FirstCell ELSE f[c - 1])]

(* There is such a function, for any number of cells.                      *)
LEMMA InOrderExists ==
  ASSUME NEW w \in Nat
  PROVE  \E f : InOrder(w, f)
<1> DEFINE G == {k \in Nat : \E f : InOrder(k, f)}
<1>1. 0 \in G
  <2>1. InOrder(0, [c \in 0 .. 0 |-> LockedCell(0, FirstCell)])
    BY DEF InOrder
  <2> QED BY <2>1
<1>2. ASSUME NEW k \in 1 .. w, k - 1 \in G PROVE k \in G
  <2>1. PICK f : InOrder(k - 1, f)
    BY <1>2
  <2> DEFINE g == [c \in 0 .. k |-> IF c = k THEN LockedCell(k, f[k - 1]) ELSE f[c]]
  <2>2. InOrder(k, g)
    <3>1. \A c \in 0 .. k - 1 : g[c] = f[c]
      OBVIOUS
    <3>2. \A c \in 0 .. k : g[c] = LockedCell(c, IF c = 0 THEN FirstCell ELSE g[c - 1])
      BY <2>1, <3>1 DEF InOrder
    <3> QED BY <3>2 DEF InOrder
  <2> HIDE DEF g
  <2> QED BY <2>2
<1>3. w \in G
  <2> HIDE DEF G
  <2>1. \A k \in 0 .. w : k \in G
    BY <1>1, <1>2, Induction
  <2> QED BY <2>1
<1> QED BY <1>3

(* Every cell has the pattern and the colours of its own name.             *)
LEMMA LockedCellsAre ==
  ASSUME Cols \in Nat, Cols > 0, NEW c \in 0 .. Cols - 1
  PROVE  LockedCells[c].patt = LockedPattern(LockedName(c)) /\ LockedCells[c].pair = LockedPair(LockedName(c))
<1> DEFINE f == CHOOSE g : InOrder(Cols - 1, g)
           own(i) == [name |-> LockedName(i), patt |-> LockedPattern(LockedName(i)),
                      pair |-> LockedPair(LockedName(i))]
           G == {i \in 0 .. Cols - 1 : f[i] = own(i)}
<1>1. InOrder(Cols - 1, f)
  BY InOrderExists
<1>2. LockedCells = f
  BY Zenon DEF LockedCells, InOrder, LockedCell, FirstCell, LockedName
<1> HIDE DEF f
<1>3. ASSUME NEW i, NEW last, last = own(i) \/ \E j : last = own(j) \/ last = FirstCell
      PROVE  LockedCell(i, last) = own(i)
  <2>1. \A j : own(j).name = LockedName(j)
    OBVIOUS
  <2>2. \A j : LockedName(i) = LockedName(j) => own(i) = own(j)
    OBVIOUS
  <2>3. FirstCell.name = 0 /\ (LockedName(i) = 0 => own(i) = FirstCell)
    BY DEF FirstCell
  <2>4. LockedCell(i, last) = IF LockedName(i) = last.name THEN last ELSE own(i)
    BY DEF LockedCell
  <2> HIDE DEF own
  <2> QED BY <1>3, <2>1, <2>2, <2>3, <2>4
<1>4. 0 \in G
  <2>1. f[0] = LockedCell(0, FirstCell)
    BY <1>1 DEF InOrder
  <2> HIDE DEF own
  <2>2. f[0] = own(0)
    BY <1>3, <2>1
  <2> QED BY <2>2
<1>5. ASSUME NEW i \in 1 .. Cols - 1, i - 1 \in G PROVE i \in G
  <2>1. f[i] = LockedCell(i, f[i - 1])
    BY <1>1 DEF InOrder
  <2> HIDE DEF own
  <2>2. f[i] = own(i)
    BY <1>3, <1>5, <2>1
  <2> QED BY <2>2
<1>6. c \in G
  <2> HIDE DEF G
  <2>1. Cols - 1 \in Nat
    OBVIOUS
  <2>2. \A i \in 0 .. Cols - 1 : i \in G
    BY <1>4, <1>5, <2>1, Induction
  <2> QED BY <2>2
<1> QED BY <1>2, <1>6

(* A locked device's row is under the sprites.                             *)
LEMMA LockedRowStepInv ==
  ASSUME SceneOK, ~Packed, LineInv, LockedRow
  PROVE  LineInv'
<1>1. /\ pc = "collect" /\ pc' = "collect" /\ scene' = scene /\ ~r.unlocked /\ walk.k = 0
      /\ ~scene.suppress.tile1 /\ rowBits' = rowBits
      /\ layers' = layers /\ selection' = selection /\ final' = final
      /\ walk' = [walk EXCEPT !.k = 1]
  BY Zenon DEF LockedRow, spriteVars
<1>2. under' = [x \in Columns |-> IF x % Unit \in LockedCells[x \div Unit].patt
                                  THEN LockedCells[x \div Unit].pair.fg ELSE LockedCells[x \div Unit].pair.bg]
  BY Zenon DEF LockedRow
<1>3. /\ PixelsInv /\ GroundInv /\ TileMasks /\ DOMAIN layers = 1 .. 2
  BY <1>1 DEF LineInv
<1>4. ~m.text
  BY <1>1 DEF Packed
<1>5. ASSUME NEW x \in Columns PROVE under'[x] = LockedBelow(x)
  <2>1. Cols \in Nat /\ Cols > 0 /\ Unit \in Nat /\ Unit > 0 /\ Pixels \in Nat /\ Cols * Unit = Pixels
    BY <1>4, Geometry, ConstantTypes
  <2>2. x \div Unit \in 0 .. Cols - 1
    <3>1. PICK u \in Nat : u = Unit /\ u > 0
      BY <2>1
    <3>2. PICK d \in Int, e \in 0 .. u - 1 : d = x \div u /\ x = u * d + e
      BY <3>1, DivParts DEF Columns
    <3>3. x \in Nat /\ x < Pixels /\ u * d = d * u /\ d * u \in Int
      BY <2>1, <3>1 DEF Columns
    <3>4. ~(d <= -1)
      <4>1. d <= -1 => d * u <= (-1) * u
        BY <3>1, Monotone
      <4> QED BY <3>1, <3>2, <3>3, <4>1
    <3>5. ~(Cols <= d)
      <4>1. Cols <= d => Cols * u <= d * u
        BY <2>1, <3>1, Monotone
      <4> QED BY <2>1, <3>1, <3>2, <3>3, <4>1
    <3> QED BY <2>1, <3>1, <3>2, <3>4, <3>5
  <2>3. /\ LockedCells[x \div Unit].patt = LockedPattern(LockedName(x \div Unit))
        /\ LockedCells[x \div Unit].pair = LockedPair(LockedName(x \div Unit))
    BY <2>1, <2>2, LockedCellsAre
  <2>4. LockedBelow(x) = IF x % Unit \in LockedPattern(LockedName(x \div Unit))
                         THEN LockedPair(LockedName(x \div Unit)).fg ELSE LockedPair(LockedName(x \div Unit)).bg
    BY <1>1 DEF LockedBelow, LockedName
  <2> QED BY <1>2, <2>3, <2>4
<1>6. GroundIs'
  <2>1. (\A x : LockedBelow(x)' = LockedBelow(x)) /\ r' = r /\ Columns' = Columns
    BY <1>1, GeometryFixed, LayersFixed DEF Columns
  <2> QED BY <1>1, <1>5, <2>1 DEF GroundIs
<1>7. walk'.k = 1
  <2>1. "k" \in DOMAIN walk
    BY <1>1, <1>3 DEF GroundInv
  <2> QED BY <1>1, <2>1
<1> QED BY <1>1, <1>3, <1>6, <1>7 DEF LineInv, PixelsInv, Tiling, GroundInv, TileMasks

(* What a sprite step leaves of the other layers.                          *)
LEMMA SpriteStepPc ==
  ASSUME SpriteNext
  PROVE  /\ pc \in {"collect", "draw"} /\ pc' \in {"draw", "done"} /\ scene' = scene
         /\ pc = "collect" => pixels' = pixels
BY DEF SpriteNext, Collect, NotThisLine, Limit, DrawSprite, Finish, Next1

(* The passes over the sprites leave the ground as it is, and end with the  *)
(* pixels SpriteLine promises.                                             *)
LEMMA SpritesKeepLine ==
  ASSUME ~ShiftWraps, SpriteInv, ~Packed, ~(r.unlocked /\ ByPaging), LineInv, SpriteStep
  PROVE  LineInv'
<1>1. /\ SpriteNext /\ (DrawsBeneath => walk.k = 1)
      /\ under' = under /\ rowBits' = rowBits /\ layers' = layers /\ selection' = selection
      /\ final' = final /\ walk' = walk
  BY DEF SpriteStep, tileVars
<1>2. /\ pc \in {"collect", "draw"} /\ pc' \in {"draw", "done"} /\ scene' = scene
  BY <1>1, SpriteStepPc
<1>3. /\ SceneOK /\ GroundInv /\ TileMasks /\ DOMAIN layers = 1 .. 2
  BY DEF LineInv, SpriteInv
<1>4. PixelsInv'
  <2>1. SpriteInv'
    BY <1>1, SpriteStepInv
  <2>2. CASE pc' = "done"
    <3>1. (SpriteInv /\ pc = "done" => PixelsInv)'
      BY DonePixels, PTL
    <3> QED BY <2>1, <2>2, <3>1
  <2>3. CASE pc' = "draw"
    BY <2>3 DEF PixelsInv, Tiling
  <2> QED BY <1>2, <2>2, <2>3
<1>5. GroundIs
  <2>1. CASE pc = "collect" /\ walk.k = 0
    <3>1. ~DrawsBeneath /\ rowBits = {} /\ \A x \in Columns : under[x] = m.backdrop
      BY <1>1, <1>3, <2>1 DEF GroundInv
    <3>2. r.unlocked => \A x \in Columns : under[x] = Below(x) /\ ~BitmapAt(x)
      BY <3>1 DEF DrawsBeneath, BitmapAt, Below
    <3>3. ~r.unlocked => \A x \in Columns : under[x] = LockedBelow(x)
      <4>1. ~r.unlocked => scene.suppress.tile1
        BY <3>1 DEF DrawsBeneath
      <4> QED BY <3>1, <4>1 DEF LockedBelow
    <3> QED BY <3>1, <3>2, <3>3 DEF GroundIs
  <2>2. CASE ~(pc = "collect" /\ walk.k = 0)
    BY <1>3, <2>2 DEF GroundInv
  <2> QED BY <2>1, <2>2
<1>6. GroundInv'
  BY <1>1, <1>2, <1>5, GroundFixed DEF GroundInv
<1> QED BY <1>1, <1>2, <1>3, <1>4, <1>6 DEF LineInv, Tiling, TileMasks

-----------------------------------------------------------------------------
(* The text written to the line                                            *)

(* Its row's scroll is split into the first cell and the bytes into it.    *)
LEMMA TextScrollIs ==
  ASSUME SceneOK, Packed, NEW k \in 1 .. 2
  PROVE  /\ TextScroll(k).startCell \in Nat /\ TextScroll(k).bytes \in 0 .. CellWidth - 1
         /\ Scroll(k) = TextScroll(k).startCell * CellWidth + TextScroll(k).bytes
         /\ r.unlocked => CellWidth = CellBytes /\ CellBytes = 3 /\ Cols > 1
         /\ TextScroll(k).startCol = IF TextScroll(k).startCell >= TextScroll(k).bytes
                                     THEN TextScroll(k).startCell - TextScroll(k).bytes
                                     ELSE TextScroll(k).startCell + Cols - TextScroll(k).bytes
         /\ TextScroll(k).cells = IF TextScroll(k).bytes = 0 THEN Cols ELSE Cols + 4
<1>1. CellWidth \in Nat /\ CellWidth > 0
  BY Geometry
<1> DEFINE h == IF r.unlocked THEN 2 * L(k).hscroll ELSE 0
           cell == textScrollCell(h)
           bytes == (h - 6 * cell) \div 2
<1>2. TextScroll(k) = [startCell |-> cell, bytes |-> bytes,
                       startCol |-> IF cell >= bytes THEN cell - bytes ELSE cell + Cols - bytes,
                       cells |-> IF bytes = 0 THEN Cols ELSE Cols + 4]
  BY Zenon DEF TextScroll
<1>3. CASE r.unlocked
  <2>1. CellWidth = 3 /\ CellBytes = 3 /\ Cols = WideCols /\ WideCols > 1
    BY <1>3, TextAssumption DEF Packed, Row80, CellWidth, CellBytes, Cols
  <2>2. PICK v \in 0 .. 255 : v = L(k).hscroll
    <3>1. L(k) \in SceneLayer
      <4>1. k = 1 \/ k = 2
        OBVIOUS
      <4> QED BY <4>1, SceneParts
    <3> QED BY <3>1 DEF SceneLayer
  <2>3. h = 2 * v /\ h \in 0 .. 510
    BY <1>3, <2>2
  <2>4. cell = h \div 6
    BY <2>3, ReciprocalAssumption
  <2>5. PICK c \in Nat : c = v \div 3 /\ v - 3 * c \in 0 .. 2
    BY <2>2
  <2>6. cell = c
    <3>1. (2 * v) \div 6 = c
      BY <2>2, <2>5
    <3> QED BY <2>3, <2>4, <3>1
  <2>7. bytes = v - 3 * c
    <3>1. (2 * v - 6 * c) \div 2 = v - 3 * c
      BY <2>2, <2>5
    <3> QED BY <2>3, <2>6, <3>1
  <2>8. Scroll(k) = v
    BY <1>3, <2>2 DEF Scroll
  <2> HIDE DEF h, cell, bytes
  <2>9. TextScroll(k).startCell = c /\ TextScroll(k).bytes = v - 3 * c
    BY <1>2, <2>6, <2>7
  <2>10. c * CellWidth + (v - 3 * c) = v
    BY <2>1, <2>2, <2>5
  <2>11. /\ TextScroll(k).startCell \in Nat /\ TextScroll(k).bytes \in 0 .. CellWidth - 1
         /\ Scroll(k) = TextScroll(k).startCell * CellWidth + TextScroll(k).bytes
    BY <2>1, <2>5, <2>8, <2>9, <2>10
  <2> QED BY <1>2, <2>1, <2>11
<1>4. CASE ~r.unlocked
  <2>1. h = 0 /\ 0 \in 0 .. 510 /\ 0 \div 6 = 0 /\ (0 - 6 * 0) \div 2 = 0
    BY <1>4
  <2>2. cell = 0
    BY <2>1, ReciprocalAssumption
  <2>3. bytes = 0
    BY <2>1, <2>2
  <2>4. Scroll(k) = 0
    BY <1>4 DEF Scroll
  <2> HIDE DEF h, cell, bytes
  <2>5. TextScroll(k).startCell = 0 /\ TextScroll(k).bytes = 0
    BY <1>2, <2>2, <2>3
  <2>6. 0 * CellWidth + 0 = 0
    BY <1>1
  <2>7. /\ TextScroll(k).startCell \in Nat /\ TextScroll(k).bytes \in 0 .. CellWidth - 1
        /\ Scroll(k) = TextScroll(k).startCell * CellWidth + TextScroll(k).bytes
    BY <1>1, <2>4, <2>5, <2>6
  <2> QED BY <1>2, <1>4, <2>7
<1> QED BY <1>3, <1>4

(* The cell of the row a pixel is in, counted from the first shown.        *)
LEMMA PackedCell ==
  ASSUME SceneOK, Packed, NEW k \in 1 .. 2, NEW x \in Int, NEW i \in Int, NEW o \in 0 .. CellWidth - 1,
         x - Pad + TextScroll(k).bytes = i * CellWidth + o
  PROVE  TOf(k, x) = TextScroll(k).startCell + i /\ OOf(k, x) = o
<1>1. CellWidth \in Nat /\ CellWidth > 0 /\ Pad \in Nat
  BY Geometry
<1>2. PICK c \in Nat, f \in 0 .. CellWidth - 1 :
        c = TextScroll(k).startCell /\ f = TextScroll(k).bytes /\ Scroll(k) = c * CellWidth + f
  BY TextScrollIs
<1>3. (c + i) * CellWidth = c * CellWidth + i * CellWidth /\ c * CellWidth \in Int /\ i * CellWidth \in Int
  BY <1>1, <1>2
<1>4. Across(k, x) = (c + i) * CellWidth + o
  <2>1. PICK a, d \in Int : a = c * CellWidth /\ d = i * CellWidth
    BY <1>3
  <2>2. x - Pad + f = d + o /\ Scroll(k) = a + f /\ (c + i) * CellWidth = a + d
    BY <1>2, <1>3, <2>1
  <2>3. x - Pad + (a + f) = (a + d) + o
    BY <1>1, <1>2, <2>1, <2>2
  <2> QED BY <2>2, <2>3 DEF Across
<1>5. c + i \in Int
  BY <1>2
<1>6. ((c + i) * CellWidth + o) \div CellWidth = c + i /\ ((c + i) * CellWidth + o) % CellWidth = o
  BY <1>1, <1>5, Division
<1> QED BY <1>2, <1>4, <1>6 DEF TOf, OOf

(* A row that begins within its cells goes round once.                     *)
LEMMA PackedColumn ==
  ASSUME SceneOK, Packed, NEW k \in 1 .. 2, NEW x \in Int, InText(x), NEW i \in Int, NEW o \in 0 .. CellWidth - 1,
         x - Pad + TextScroll(k).bytes = i * CellWidth + o, TextScroll(k).startCell < Cols
  PROVE  /\ i \in 0 .. Cols /\ (TextScroll(k).bytes = 0 => i < Cols)
         /\ ColOf(k, x) = (TextScroll(k).startCell + i) % Cols
         /\ ColOf(k, x) = IF TextScroll(k).startCell + i < Cols THEN TextScroll(k).startCell + i
                          ELSE TextScroll(k).startCell + i - Cols
<1>1. /\ CellWidth \in Nat /\ CellWidth > 0 /\ Pad \in Nat /\ Cols \in Nat /\ Cols > 0 /\ Pixels \in Nat
      /\ Cols * CellWidth \in Nat /\ 2 * Pad + Cols * CellWidth = Pixels
  BY Geometry
<1>2. PICK c \in Nat, f \in 0 .. CellWidth - 1 :
        c = TextScroll(k).startCell /\ f = TextScroll(k).bytes /\ Scroll(k) = c * CellWidth + f
  BY TextScrollIs
<1>3. PICK d, e \in Int : d = i * CellWidth /\ e = Cols * CellWidth
  BY <1>1
<1>4. d + o = x - Pad + f /\ x - Pad >= 0 /\ x - Pad < e
  <2>1. x >= Pad /\ x < Pixels - Pad
    BY <1>1 DEF InText
  <2> QED BY <1>1, <1>2, <1>3, <2>1
<1>5. i >= 0
  <2>1. i <= -1 => i * CellWidth <= (-1) * CellWidth
    BY <1>1, Monotone
  <2> QED BY <1>1, <1>2, <1>3, <1>4, <2>1
<1>6. i <= Cols
  <2>1. Cols + 1 <= i => (Cols + 1) * CellWidth <= i * CellWidth
    BY <1>1, Monotone
  <2>2. (Cols + 1) * CellWidth = e + CellWidth
    BY <1>1, <1>3
  <2> QED BY <1>1, <1>2, <1>3, <1>4, <2>1, <2>2
<1>7. f = 0 => i < Cols
  <2>1. Cols <= i => Cols * CellWidth <= i * CellWidth
    BY <1>1, Monotone
  <2> QED BY <1>1, <1>2, <1>3, <1>4, <2>1
<1>8. ~(Scroll(k) >= Cols * CellWidth)
  <2>1. c + 1 <= Cols
    BY <1>1, <1>2
  <2>2. PICK w \in Nat : w = CellWidth
    BY <1>1
  <2>3. c * w \in Int /\ (c + 1) * w = c * w + w /\ f < w
    BY <1>2, <2>2
  <2>4. (c + 1) * w <= Cols * w
    BY <1>1, <1>2, <2>1, <2>2, Monotone
  <2>5. PICK u \in Int : u = c * w
    BY <2>3
  <2>6. u + w <= e /\ Scroll(k) = u + f
    BY <1>2, <1>3, <2>2, <2>3, <2>4, <2>5
  <2> QED BY <1>2, <1>3, <2>2, <2>3, <2>5, <2>6
<1>9. TOf(k, x) = c + i
  BY <1>2, PackedCell
<1>10. ColOf(k, x) = (c + i) % Cols
  BY <1>8, <1>9 DEF ColOf, TOf
<1>11. (c + i) % Cols = IF c + i < Cols THEN c + i ELSE c + i - Cols
  <2>1. c + i \in Nat /\ c + i < 2 * Cols
    BY <1>1, <1>2, <1>5, <1>6
  <2>2. /\ c + i < Cols => (c + i) % Cols = c + i
        /\ Cols <= c + i => (c + i) % Cols = c + i - Cols
    BY <1>1, <2>1, NextRemainder
  <2> QED BY <1>1, <2>1, <2>2
<1> QED BY <1>1, <1>2, <1>5, <1>6, <1>7, <1>10, <1>11

(* A text row's names and attributes are found by their column.            *)
LEMMA PackedName ==
  ASSUME SceneOK, m.text, NEW k \in 1 .. 2, NEW x, ColOf(k, x) \in Int
  PROVE  /\ NameTable[Start(k).names + ColOf(k, x)] = NameOf(k, x) /\ RowY(k) = RowOf(k)
         /\ L(k).on /\ ~ByPaging /\ PerPosition => AttrTable[Start(k).attrs + ColOf(k, x)] = AttrOf(k, x)
<1>1. /\ RowY(k) = RowOf(k) /\ RowStart(k) \in Nat /\ Page \in Nat /\ Page > 0
      /\ (L(k).on /\ ~ByPaging => RowStart(k) < 4 * Page)
  BY RowParts
<1>2. PICK p \in 0 .. 3 : L(k).base = Page * p /\ L(k).base \div Page = p
  BY RowParts
<1>3. PageOf(k, x) = p
  <2>1. ~BelowOf(k) /\ ~BesideOf(k, x)
    BY DEF BelowOf, BesideOf
  <2>2. PageOf(k, x) = 2 * (p \div 2) + (p % 2)
    BY <1>2, <2>1 DEF PageOf
  <2>3. 2 * (p \div 2) + (p % 2) = p
    OBVIOUS
  <2> QED BY <2>2, <2>3
<1>4. /\ Start(k).names = L(k).base + RowStart(k)
      /\ PerPosition => Start(k).attrs = (0 + RowStart(k)) % (4 * Page)
  BY <1>1 DEF Start, RowStart
<1>5. Position(k, x) = Page * p + RowStart(k) + ColOf(k, x)
  BY <1>3 DEF Position, RowStart
<1>6. NameOf(k, x) = NameTable[Start(k).names + ColOf(k, x)]
  BY <1>2, <1>4, <1>5 DEF NameOf
<1>7. L(k).on /\ ~ByPaging /\ PerPosition => AttrTable[Start(k).attrs + ColOf(k, x)] = AttrOf(k, x)
  <2>1. PerPosition => AttrOf(k, x) = AttrTable[RowStart(k) + ColOf(k, x)]
    BY DEF AttrOf, RowStart
  <2>2. RowStart(k) < 4 * Page => (0 + RowStart(k)) % (4 * Page) = RowStart(k)
    <3>1. 4 * Page \in Nat /\ 4 * Page > 0 /\ 0 + RowStart(k) = RowStart(k)
      BY <1>1
    <3> QED BY <1>1, <3>1, NextRemainder
  <2> QED BY <1>1, <1>4, <2>1, <2>2
<1> QED BY <1>1, <1>6, <1>7

(* The columns of a row's cells, each the one after the last.              *)
InTurn(s, k, f) == f = [i \in 0 .. k |-> IF i = 0 THEN s.startCol ELSE NextCol(f[i - 1])]

(* There is such a function, for any number of cells.                      *)
LEMMA InTurnExists ==
  ASSUME NEW s, NEW w \in Nat
  PROVE  \E f : InTurn(s, w, f)
<1> DEFINE G == {k \in Nat : \E f : InTurn(s, k, f)}
<1>1. 0 \in G
  <2>1. InTurn(s, 0, [i \in 0 .. 0 |-> s.startCol])
    BY DEF InTurn
  <2> QED BY <2>1
<1>2. ASSUME NEW k \in 1 .. w, k - 1 \in G PROVE k \in G
  <2>1. PICK f : InTurn(s, k - 1, f)
    BY <1>2
  <2> DEFINE g == [i \in 0 .. k |-> IF i = k THEN NextCol(f[k - 1]) ELSE f[i]]
  <2>2. InTurn(s, k, g)
    <3>1. \A i \in 0 .. k - 1 : g[i] = f[i]
      OBVIOUS
    <3>2. \A i \in 0 .. k : g[i] = IF i = 0 THEN s.startCol ELSE NextCol(g[i - 1])
      BY <2>1, <3>1 DEF InTurn
    <3> QED BY <3>2 DEF InTurn
  <2> HIDE DEF g
  <2> QED BY <2>2
<1>3. w \in G
  <2> HIDE DEF G
  <2>1. \A k \in 0 .. w : k \in G
    BY <1>1, <1>2, Induction
  <2> QED BY <2>1
<1> QED BY <1>3

(* A row that begins at one of its columns stays within them.              *)
LEMMA ColumnsAre ==
  ASSUME Cols \in Nat, Cols > 0, NEW s, s.startCol \in 0 .. Cols - 1, s.cells \in Nat, NEW i \in 0 .. s.cells - 1
  PROVE  ColumnsOf(s)[i] = (s.startCol + i) % Cols
<1> DEFINE f == CHOOSE g : InTurn(s, s.cells - 1, g)
           G == {j \in 0 .. s.cells - 1 : f[j] = (s.startCol + j) % Cols}
<1>0. s.cells - 1 \in Nat
  OBVIOUS
<1>1. InTurn(s, s.cells - 1, f)
  BY <1>0, InTurnExists
<1>2. ColumnsOf(s) = f
  BY Zenon DEF ColumnsOf, InTurn
<1> HIDE DEF f
<1>3. 0 \in G
  <2>1. f[0] = s.startCol
    BY <1>0, <1>1 DEF InTurn
  <2>2. s.startCol % Cols = s.startCol
    BY NextRemainder
  <2> QED BY <1>0, <2>1, <2>2
<1>4. ASSUME NEW j \in 1 .. s.cells - 1, j - 1 \in G PROVE j \in G
  <2>1. f[j] = NextCol(f[j - 1])
    BY <1>1 DEF InTurn
  <2>2. PICK t \in Nat : t = s.startCol + (j - 1)
    OBVIOUS
  <2>3. f[j - 1] = t % Cols /\ t + 1 = s.startCol + j
    BY <1>4, <2>2
  <2>4. (t + 1) % Cols = IF (t % Cols) + 1 < Cols THEN (t % Cols) + 1 ELSE 0
    BY NextRemainder
  <2>5. t % Cols \in 0 .. Cols - 1
    BY DivParts
  <2>6. NextCol(t % Cols) = (t + 1) % Cols
    BY <2>4, <2>5 DEF NextCol
  <2> QED BY <2>1, <2>3, <2>6
<1>5. i \in G
  <2> HIDE DEF G
  <2>2. \A j \in 0 .. s.cells - 1 : j \in G
    BY <1>0, <1>3, <1>4, Induction
  <2> QED BY <2>2
<1> QED BY <1>2, <1>5

(* A pixel of a row is in a cell of it, at a column of the cell.           *)
LEMMA PackedParts ==
  ASSUME SceneOK, Packed, NEW k \in 1 .. 2, NEW x \in Int
  PROVE  \E i \in Int, o \in 0 .. CellWidth - 1 : x - Pad + TextScroll(k).bytes = i * CellWidth + o
<1>1. CellWidth \in Nat /\ CellWidth > 0 /\ Pad \in Nat
  BY Geometry
<1>2. TextScroll(k).bytes \in 0 .. CellWidth - 1
  BY TextScrollIs
<1>3. PICK v \in Int : v = x - Pad + TextScroll(k).bytes
  BY <1>1, <1>2
<1>4. PICK w \in Nat : w = CellWidth /\ w > 0
  BY <1>1
<1>5. PICK q \in Int, o \in 0 .. w - 1 : v = w * q + o
  BY <1>4, DivParts
<1>6. w * q = q * w
  BY <1>4
<1> QED BY <1>3, <1>4, <1>5, <1>6

(* renderText80Row gives every pixel of the row the colour its position has *)
(* it, and leaves what is there where layer 2 has none.                    *)
LEMMA CellRowIs ==
  ASSUME SceneOK, Packed, PerCell, NEW k \in 1 .. 2, L(k).on, ~ByPaging, TextScroll(k).startCell < Cols,
         NEW row, NEW x \in Columns, InText(x)
  PROVE  CellRow(k, row)[x] = IF k = 2 /\ PairAt(k, x) = 0 THEN row[x] ELSE MainColour(PairAt(k, x))
<1>1. /\ CellWidth = 3 /\ CellBytes = 3 /\ Cols = WideCols /\ WideCols \in Nat /\ Cols > 1 /\ m.text /\ r.unlocked
      /\ m.posAttr /\ PerPosition
  <2>1. m.text /\ m.text80 /\ r.unlocked /\ m.posAttr
    BY DEF Packed, PerCell
  <2>2. WideCols \in Nat /\ WideCols # 0 /\ WideCols # 1
    BY TextAssumption
  <2>3. PerPosition
    BY <2>1 DEF PerPosition
  <2> QED BY <2>1, <2>2, <2>3 DEF CellWidth, Cols, Row80, CellBytes
<1>2. Pad \in Nat /\ Pixels \in Nat /\ x \in Int /\ Cols \in Nat /\ Cols > 0
  <2>1. Pixels \in Nat
    BY Geometry
  <2>2. x \in Int
    BY <2>1 DEF Columns
  <2> QED BY <2>2, Geometry
<1>3. PICK j \in Int, o \in 0 .. CellWidth - 1 : x - Pad + TextScroll(k).bytes = j * CellWidth + o
  BY <1>2, PackedParts
<1>4. PICK c \in Nat, f \in 0 .. 2 : c = TextScroll(k).startCell /\ f = TextScroll(k).bytes
  BY <1>1, TextScrollIs
<1>5. /\ c < Cols /\ j \in 0 .. Cols /\ (f = 0 => j < Cols) /\ ColOf(k, x) = (c + j) % Cols
  <2>1. /\ j \in 0 .. Cols /\ (TextScroll(k).bytes = 0 => j < Cols)
        /\ ColOf(k, x) = (TextScroll(k).startCell + j) % Cols
    <3>1. x \in Int /\ InText(x) /\ TextScroll(k).startCell < Cols
      BY <1>2
    <3> QED BY <1>3, <3>1, PackedColumn
  <2> QED BY <1>4, <2>1
<1>6. PICK s : s = TextScroll(k) /\ s.startCol = (IF c >= f THEN c - f ELSE c + Cols - f)
               /\ s.cells = (IF f = 0 THEN Cols ELSE Cols + 4) /\ s.bytes = f
  BY <1>4, TextScrollIs
<1>7. s.startCol \in 0 .. Cols - 1 /\ s.cells \in Nat /\ j + f \in 0 .. s.cells - 1
  BY <1>1, <1>4, <1>5, <1>6
<1>8. ColumnsOf(s)[j + f] = ColOf(k, x)
  <2>1. ColumnsOf(s)[j + f] = (s.startCol + (j + f)) % Cols
    BY <1>2, <1>7, ColumnsAre
  <2>2. CASE c >= f
    <3>1. s.startCol + (j + f) = c + j
      BY <1>5, <1>6, <2>2
    <3> QED BY <1>5, <2>1, <3>1
  <2>3. CASE ~(c >= f)
    <3>1. s.startCol + (j + f) = (c + j) + Cols
      BY <1>2, <1>5, <1>6, <2>3
    <3>2. PICK q \in Int, e \in 0 .. Cols - 1 : c + j = Cols * q + e /\ e = (c + j) % Cols
      <4>1. c + j \in Int
        BY <1>5
      <4> QED BY <1>2, <4>1, DivParts
    <3>3. ((q + 1) * Cols + e) % Cols = e
      BY <1>2, Division
    <3>4. (q + 1) * Cols = Cols * q + Cols
      BY <1>2
    <3>5. PICK u \in Int : u = Cols * q
      BY <1>2
    <3>6. (q + 1) * Cols + e = (c + j) + Cols
      BY <1>2, <1>5, <3>2, <3>4, <3>5
    <3> QED BY <1>5, <2>1, <3>1, <3>2, <3>3, <3>6
  <2> QED BY <2>2, <2>3
<1>9. (x - Pad + 4 * s.bytes) \div CellBytes = j + f /\ (x - Pad + 4 * s.bytes) % CellBytes = o
  BY <1>1, <1>2, <1>3, <1>4, <1>6
<1>10. /\ NameTable[Start(k).names + ColOf(k, x)] = NameOf(k, x) /\ RowY(k) = RowOf(k)
       /\ AttrTable[Start(k).attrs + ColOf(k, x)] = AttrOf(k, x)
  <2>1. ColOf(k, x) \in Int
    BY <1>2, <1>5
  <2> QED BY <1>1, <2>1, PackedName
<1>11. OOf(k, x) = o
  BY <1>2, <1>3, PackedCell
<1>12. BitOf(k, x, 0, FALSE) <=> Lit(k, NameOf(k, x), o)
  <2>1. BitOf(k, x, 0, FALSE) <=> OOf(k, x) \in Pattern[0][NameOf(k, x) * 8 + (RowOf(k) % 8)]
    BY Zenon DEF BitOf, OOf
  <2> QED BY <1>10, <1>11, <2>1 DEF Lit
<1>13. PairAt(k, x) = IF Lit(k, NameOf(k, x), o) THEN AttrOf(k, x).pair.fg ELSE AttrOf(k, x).pair.bg
  BY <1>1, <1>12 DEF PairAt
<1> DEFINE colour(i, q) == LET pair == AttrTable[Start(k).attrs + ColumnsOf(s)[i]].pair
                           IN IF Lit(k, NameTable[Start(k).names + ColumnsOf(s)[i]], q) THEN pair.fg ELSE pair.bg
<1>14. colour(j + f, o) = PairAt(k, x)
  BY <1>8, <1>10, <1>13
<1>15. CellRow(k, row)[x] =
         IF (x - Pad + 4 * s.bytes) \div CellBytes \notin 0 .. s.cells - 1
              \/ (k = 2 /\ colour((x - Pad + 4 * s.bytes) \div CellBytes, (x - Pad + 4 * s.bytes) % CellBytes) = 0)
         THEN row[x]
         ELSE MainColour(colour((x - Pad + 4 * s.bytes) \div CellBytes, (x - Pad + 4 * s.bytes) % CellBytes))
  BY <1>6, Zenon DEF CellRow
<1> HIDE DEF colour
<1> QED BY <1>7, <1>9, <1>14, <1>15

(* The row in R7's two colours has every pixel its position's.             *)
LEMMA TwoToneIs ==
  ASSUME SceneOK, Packed, TextScroll(1).startCell < Cols, NEW row, NEW x \in Columns, InText(x)
  PROVE  TwoTone(row)[x] = IF BitOf(1, x, 0, FALSE) THEN m.fixed.fg ELSE m.fixed.bg
<1>1. CellWidth \in Nat /\ CellWidth > 0 /\ Pad \in Nat /\ Pixels \in Nat /\ Cols \in Nat /\ Cols > 0 /\ x \in Int
      /\ m.text /\ 1 \in 1 .. 2
  <2>1. Pixels \in Nat
    BY Geometry
  <2>2. x \in Int
    BY <2>1 DEF Columns
  <2> QED BY <2>2, Geometry DEF Packed
<1>2. PICK j \in Int, o \in 0 .. CellWidth - 1 : x - Pad + TextScroll(1).bytes = j * CellWidth + o
  BY <1>1, PackedParts
<1>3. PICK c \in Nat, f \in 0 .. CellWidth - 1 : c = TextScroll(1).startCell /\ f = TextScroll(1).bytes
  BY <1>1, TextScrollIs
<1>4. /\ c < Cols /\ j \in 0 .. Cols /\ (f = 0 => j < Cols)
      /\ ColOf(1, x) = IF c + j < Cols THEN c + j ELSE c + j - Cols
  <2>1. /\ j \in 0 .. Cols /\ (TextScroll(1).bytes = 0 => j < Cols)
        /\ ColOf(1, x) = IF TextScroll(1).startCell + j < Cols THEN TextScroll(1).startCell + j
                         ELSE TextScroll(1).startCell + j - Cols
    <3>1. x \in Int /\ InText(x) /\ TextScroll(1).startCell < Cols /\ 1 \in 1 .. 2
      BY <1>1
    <3> QED BY <1>2, <3>1, PackedColumn
  <2> QED BY <1>3, <2>1
<1>5. (x - Pad + f) \div CellWidth = j /\ (x - Pad + f) % CellWidth = o
  <2>1. (j * CellWidth + o) \div CellWidth = j /\ (j * CellWidth + o) % CellWidth = o
    BY <1>1, Division
  <2> QED BY <1>2, <1>3, <2>1
<1>6. NameTable[Start(1).names + ColOf(1, x)] = NameOf(1, x) /\ RowY(1) = RowOf(1)
  <2>1. ColOf(1, x) \in Int
    BY <1>1, <1>3, <1>4
  <2> QED BY <1>1, <2>1, PackedName
<1>7. OOf(1, x) = o
  BY <1>1, <1>2, PackedCell
<1>8. BitOf(1, x, 0, FALSE) <=> Lit(1, NameOf(1, x), o)
  <2>1. BitOf(1, x, 0, FALSE) <=> OOf(1, x) \in Pattern[0][NameOf(1, x) * 8 + (RowOf(1) % 8)]
    BY Zenon DEF BitOf, OOf
  <2> QED BY <1>6, <1>7, <2>1 DEF Lit
<1> DEFINE cells == IF TextScroll(1).bytes = 0 THEN Cols ELSE Cols + 1
           wraps == TextScroll(1).startCell < Cols /\ TextScroll(1).startCell + cells > Cols
           run   == IF wraps THEN Cols - TextScroll(1).startCell ELSE cells
           name(i) == NameTable[Start(1).names + IF i < run THEN TextScroll(1).startCell + i ELSE i - run]
<1>9. j \in 0 .. cells - 1 /\ (IF j < run THEN TextScroll(1).startCell + j ELSE j - run) = ColOf(1, x)
  <2>1. PICK v \in Nat : v = cells /\ v = IF f = 0 THEN Cols ELSE Cols + 1
    BY <1>1, <1>3
  <2>2. j \in 0 .. v - 1
    BY <1>1, <1>4, <2>1
  <2>3. CASE c + v > Cols
    <3>1. run = Cols - c
      BY <1>3, <1>4, <2>1, <2>3
    <3> HIDE DEF run
    <3> QED BY <1>1, <1>3, <1>4, <2>1, <2>2, <3>1
  <2>4. CASE ~(c + v > Cols)
    <3>1. run = v
      BY <1>3, <2>1, <2>4
    <3>2. j < v /\ c + j < Cols
      BY <1>1, <1>4, <2>1, <2>2, <2>4
    <3> HIDE DEF run
    <3> QED BY <1>3, <1>4, <2>1, <2>2, <3>1, <3>2
  <2> QED BY <2>3, <2>4
<1>10. name(j) = NameOf(1, x)
  BY <1>6, <1>9
<1>11. TwoTone(row)[x] =
         IF (x - Pad + TextScroll(1).bytes) \div CellWidth \notin 0 .. cells - 1 THEN row[x]
         ELSE IF Lit(1, name((x - Pad + TextScroll(1).bytes) \div CellWidth),
                     (x - Pad + TextScroll(1).bytes) % CellWidth) THEN m.fixed.fg ELSE m.fixed.bg
  BY Zenon DEF TwoTone
<1> HIDE DEF cells, name
<1> QED BY <1>3, <1>5, <1>8, <1>9, <1>10, <1>11

(* A row of text is what its layers' cells show, border and all.           *)
LEMMA TextRowShows ==
  ASSUME SceneOK, Packed, ~ByPaging, ~ByReadingOn, TextRow, \A x \in Columns : under[x] = m.backdrop,
         NEW x \in Columns
  PROVE  under'[x] = TextGround(x)
<1> DEFINE first  == IF L(1).on THEN CellRow(1, under) ELSE under
           second == IF L(2).on THEN CellRow(2, first) ELSE first
<1>1. under' = Bordered(IF PerCell THEN second ELSE TwoTone(under)) /\ ~scene.suppress.tile1
  BY Zenon DEF TextRow
<1>2. \A row : Bordered(row)[x] = IF InText(x) THEN row[x] ELSE m.backdrop
  BY DEF Bordered, InText
<1>3. under'[x] = IF InText(x) THEN (IF PerCell THEN second[x] ELSE TwoTone(under)[x]) ELSE m.backdrop
  <2> HIDE DEF second
  <2> QED BY <1>1, <1>2
<1>4. CASE ~InText(x)
  BY <1>3, <1>4 DEF TextGround
<1>5. \A k \in 1 .. 2 : (IF PerCell THEN L(k).on ELSE k = 1) => TextScroll(k).startCell < Cols
  <2> SUFFICES ASSUME NEW k \in 1 .. 2, IF PerCell THEN L(k).on ELSE k = 1 PROVE TextScroll(k).startCell < Cols
    OBVIOUS
  <2>1. ~(TextScroll(k).startCell >= Cols)
    BY Zenon DEF ByReadingOn
  <2>2. TextScroll(k).startCell \in Nat /\ Cols \in Nat
    BY Geometry, TextScrollIs
  <2> QED BY <2>1, <2>2
<1>6. CASE InText(x) /\ ~PerCell
  <2>1. TextScroll(1).startCell < Cols
    BY <1>5, <1>6
  <2>2. TwoTone(under)[x] = IF BitOf(1, x, 0, FALSE) THEN m.fixed.fg ELSE m.fixed.bg
    BY <1>6, <2>1, TwoToneIs
  <2> QED BY <1>1, <1>3, <1>6, <2>2 DEF TextGround
<1>7. CASE InText(x) /\ PerCell
  <2>1. first[x] = MainColour(Tile(1, x))
    <3>1. CASE L(1).on
      <4>1. 1 \in 1 .. 2 /\ TextScroll(1).startCell < Cols
        BY <1>5, <1>7, <3>1
      <4>2. CellRow(1, under)[x] = IF 1 = 2 /\ PairAt(1, x) = 0 THEN under[x] ELSE MainColour(PairAt(1, x))
        BY <1>7, <3>1, <4>1, CellRowIs
      <4> QED BY <3>1, <4>2 DEF Tile
    <3>2. CASE ~L(1).on
      BY <3>2 DEF Tile, MainColour
    <3> QED BY <3>1, <3>2
  <2>2. second[x] = IF Tile(2, x) # 0 THEN Tile(2, x) ELSE first[x]
    <3> HIDE DEF first
    <3>1. CASE L(2).on
      <4>1. 2 \in 1 .. 2 /\ TextScroll(2).startCell < Cols
        BY <1>5, <1>7, <3>1
      <4>2. CellRow(2, first)[x] = IF 2 = 2 /\ PairAt(2, x) = 0 THEN first[x] ELSE MainColour(PairAt(2, x))
        BY <1>7, <3>1, <4>1, CellRowIs
      <4> QED BY <3>1, <4>2 DEF Tile, MainColour
    <3>2. CASE ~L(2).on
      BY <3>2 DEF Tile
    <3> QED BY <3>1, <3>2
  <2> HIDE DEF first, second
  <2> QED BY <1>1, <1>3, <1>7, <2>1, <2>2 DEF TextGround
<1> QED BY <1>4, <1>6, <1>7

(* The row leaves the invariant of text.                                   *)
LEMMA TextRowStepInv ==
  ASSUME SceneOK, Packed, TextInv, TextRow
  PROVE  TextInv'
<1>1. /\ pc = "collect" /\ pc' = "collect" /\ scene' = scene /\ walk.k = 0 /\ walk' = [walk EXCEPT !.k = 1]
  BY Zenon DEF TextRow, spriteVars
<1>2. "k" \in DOMAIN walk /\ \A x \in Columns : under[x] = m.backdrop
  BY <1>1 DEF TextInv
<1>3. walk'.k = 1
  BY <1>1, <1>2
<1>4. ByPaging \/ ByReadingOn \/ \A x \in Columns : under'[x] = TextGround(x)
  BY <1>2, TextRowShows
<1>5. ByPaging' = ByPaging /\ ByReadingOn' = ByReadingOn /\ Columns' = Columns
      /\ \A x : TextGround(x)' = TextGround(x)
  BY <1>1, ExemptionsFixed DEF Columns
<1>6. PixelsInv'
  BY <1>1 DEF PixelsInv, Tiling
<1> QED BY <1>1, <1>3, <1>4, <1>5, <1>6 DEF TextInv

(* The sprites leave the row as it is.                                     *)
LEMMA TextSpritesStepInv ==
  ASSUME ~ShiftWraps, SpriteInv, Packed, TextInv, TextSprites
  PROVE  TextInv'
<1>1. /\ SpriteNext /\ RowDrawn /\ under' = under /\ walk' = walk
  BY DEF TextSprites, tileVars
<1>2. /\ pc \in {"collect", "draw"} /\ pc' \in {"draw", "done"} /\ scene' = scene
  BY <1>1, SpriteStepPc
<1>3. PixelsInv'
  <2>1. SpriteInv'
    BY <1>1, SpriteStepInv
  <2>2. CASE pc' = "done"
    <3>1. (SpriteInv /\ pc = "done" => PixelsInv)'
      BY DonePixels, PTL
    <3> QED BY <2>1, <2>2, <3>1
  <2>3. CASE pc' = "draw"
    BY <2>3 DEF PixelsInv, Tiling
  <2> QED BY <1>2, <2>2, <2>3
<1>4. walk.k \in {0, 1}
  BY DEF TextInv
<1>5. ByPaging \/ ByReadingOn \/ \A x \in Columns : under[x] = TextGround(x)
  <2>1. CASE pc = "collect" /\ walk.k = 0
    <3>1. scene.suppress.tile1 /\ \A x \in Columns : under[x] = m.backdrop
      BY <1>1, <2>1 DEF RowDrawn, TextInv
    <3> QED BY <3>1 DEF TextGround
  <2>2. CASE walk.k = 1 \/ pc # "collect"
    BY <2>2 DEF TextInv
  <2> QED BY <1>4, <2>1, <2>2
<1>6. ByPaging' = ByPaging /\ ByReadingOn' = ByReadingOn /\ Columns' = Columns
      /\ \A x : TextGround(x)' = TextGround(x)
  BY <1>2, ExemptionsFixed DEF Columns
<1> QED BY <1>1, <1>2, <1>3, <1>4, <1>5, <1>6 DEF TextInv

(* The finished line of text is the sprites over the row.                  *)
LEMMA TextShows ==
  ASSUME SpriteInv, Packed, TextInv, TextShown, ~ByPaging, ~ByReadingOn, NEW x \in Columns
  PROVE  line'[x] = ExpectedText(x)
<1>1. RowDrawn /\ pc = (IF r.unlocked THEN "done" ELSE "collect") /\ line'[x] = Pixel(x)
  BY DEF TextShown
<1>2. walk.k \in {0, 1} /\ PixelsInv
  BY DEF TextInv
<1>3. under[x] = TextGround(x)
  <2>1. CASE pc = "collect" /\ walk.k = 0
    <3>1. scene.suppress.tile1 /\ under[x] = m.backdrop
      BY <1>1, <2>1 DEF RowDrawn, TextInv
    <3> QED BY <3>1 DEF TextGround
  <2>2. CASE walk.k = 1 \/ pc # "collect"
    BY <2>2 DEF TextInv
  <2> QED BY <1>2, <2>1, <2>2
<1>4. ExpectedText(x) = IF r.unlocked /\ Visible(x) THEN pixels[x] ELSE TextGround(x)
  BY Zenon DEF ExpectedText, TextGround
<1>5. CASE r.unlocked
  <2>1. pixels[x] = Beneath <=> ~Visible(x)
    BY <1>1, <1>2, <1>5 DEF PixelsInv
  <2> QED BY <1>1, <1>3, <1>4, <1>5, <2>1 DEF Pixel
<1>6. CASE ~r.unlocked
  <2>1. pixels[x] = Beneath
    BY <1>1, <1>6 DEF SpriteInv, Clear
  <2> QED BY <1>1, <1>3, <1>4, <1>6, <2>1 DEF Pixel
<1> QED BY <1>5, <1>6

-----------------------------------------------------------------------------
(* The theorem                                                             *)

(* A step that changes nothing keeps what is said of the line.             *)
LEMMA LineUnchanged ==
  ASSUME UNCHANGED scanVars, LineInv, TextInv, LineIsArbitrated
  PROVE  LineInv' /\ TextInv' /\ LineIsArbitrated'
<1>1. /\ scene' = scene /\ pc' = pc /\ spriteBits' = spriteBits /\ pixels' = pixels /\ hasSprites' = hasSprites
      /\ under' = under /\ rowBits' = rowBits /\ layers' = layers /\ selection' = selection /\ final' = final
      /\ walk' = walk /\ line' = line /\ Columns' = Columns
  BY DEF scanVars, spriteVars, masks, tileVars, Columns
<1>2. /\ m' = m /\ r' = r /\ Packed' = Packed /\ Covered' = Covered /\ backdropOrNone' = backdropOrNone
      /\ ByPaging' = ByPaging /\ ByReadingOn' = ByReadingOn
  BY <1>1, GeometryFixed, LayersFixed, ExemptionsFixed
<1>3. \A k : Fine(k)' = Fine(k) /\ StartCell(k)' = StartCell(k) /\ Cells(k)' = Cells(k) /\ On(k)' = On(k)
  BY <1>1, GeometryFixed
<1>4. \A x : /\ InText(x)' = InText(x) /\ Visible(x)' = Visible(x)
             /\ ByMemo(x)' = ByMemo(x) /\ ByMask(x)' = ByMask(x) /\ ByLift(x)' = ByLift(x)
             /\ ByBorder(x)' = ByBorder(x) /\ TextGround(x)' = TextGround(x)
  BY <1>1, GeometryFixed, LayersFixed, ExemptionsFixed
<1>5. \A k, x : /\ TOf(k, x)' = TOf(k, x) /\ Solid(k, x)' = Solid(k, x) /\ ColourAt(k, x)' = ColourAt(k, x)
                /\ Lifts(k, x)' = Lifts(k, x) /\ NameOf(k, x)' = NameOf(k, x) /\ EmptyAt(k, x)' = EmptyAt(k, x)
  BY <1>1, GeometryFixed, LayersFixed, PlacesFixed
<1>6. PixelsInv' <=> PixelsInv
  BY <1>1, <1>4 DEF PixelsInv, Tiling
<1>7. GroundInv' <=> GroundInv
  BY <1>1, <1>2, GroundFixed DEF GroundInv
<1>8. TileMasks' <=> TileMasks
  BY <1>1 DEF TileMasks
<1>9. TileInv' <=> TileInv
  <2>1. \A k, x : Past(k, x)' <=> Past(k, x)
    BY <1>1, <1>3, <1>5 DEF Past
  <2>2. \A x : Took(x)' <=> Took(x)
    BY <1>1, <1>3 DEF Took
  <2>3. \A x : TookAt(x)' <=> TookAt(x)
    BY <1>1, <1>3, <1>4, <1>5, <2>1, <2>2 DEF TookAt
  <2>4. \A x : LiftAt(x)' <=> LiftAt(x)
    BY <1>1, <1>2, <1>3, <1>4, <1>5, <2>1, <2>2 DEF LiftAt
  <2>5. \A x : FrontAt(x)' <=> FrontAt(x)
    BY <1>1, <1>2, <1>3, <1>4, <1>5, <2>1, <2>2 DEF FrontAt
  <2>6. \A x : BorderAt(x)' <=> BorderAt(x)
    BY <1>1, <1>2, <1>3, <1>4 DEF BorderAt
  <2>7. \A k : WalkInv(k)' <=> WalkInv(k)
    <3>1. \A k, t : Place(k, t)' = Place(k, t)
      BY <1>1, PlacesFixed
    <3> QED BY <1>1, <1>3, <1>5, <3>1 DEF WalkInv
  <2>8. Moved(selection, Fine(1) - Fine(2))' = Moved(selection, Fine(1) - Fine(2))
    BY <1>1, <1>3 DEF Moved, Buffer
  <2> QED BY <1>1, <1>3, <2>3, <2>4, <2>5, <2>6, <2>7, <2>8 DEF TileInv
<1>10. LineInv'
  BY <1>1, <1>2, <1>6, <1>7, <1>8, <1>9 DEF LineInv, Tiling
<1>11. TextInv'
  BY <1>1, <1>2, <1>4, <1>6 DEF TextInv
<1>12. LineIsArbitrated'
  <2>1. \A x : /\ Expected(x)' = Expected(x) /\ ExpectedLocked(x)' = ExpectedLocked(x)
               /\ ExpectedText(x)' = ExpectedText(x)
    BY <1>1, ExpectedFixed
  <2>2. \A x : PixelArbitrated(x)' <=> PixelArbitrated(x)
    BY <1>1, <1>2, <1>4, <2>1 DEF PixelArbitrated
  <2> QED BY <1>1, <1>2, <2>1, <2>2 DEF LineIsArbitrated
<1> QED BY <1>10, <1>11, <1>12

(* A line begins with the backdrop and no layer drawn.                     *)
LEMMA LineInit ==
  ASSUME ScanInit
  PROVE  LineInv /\ TextInv /\ LineIsArbitrated
<1>1. /\ pc = "collect" /\ under = [x \in Columns |-> m.backdrop]
      /\ rowBits = {} /\ selection = {} /\ final = {} /\ DOMAIN layers = 1 .. 2
  BY DEF ScanInit, SpriteInit, m
<1>2. walk.k = 0 /\ "k" \in DOMAIN walk
  BY DEF ScanInit, Memo
<1>3. PixelsInv /\ ~Tiling
  BY <1>1 DEF PixelsInv, Tiling
<1>4. GroundInv /\ TileMasks
  BY <1>1, <1>2 DEF GroundInv, TileMasks
<1> QED BY <1>1, <1>2, <1>3, <1>4 DEF LineInv, TextInv, LineIsArbitrated

(* The steps before the line is finished.                                  *)
LEMMA DrawingStep ==
  ASSUME ~ShiftWraps, SpriteInv, LineInv, TextInv, LineNext, ~TextShown, ~Composite, ~NoTiles
  PROVE  LineInv' /\ TextInv' /\ LineIsArbitrated'
<1>0. SceneOK
  BY DEF SpriteInv
<1>1. CASE Packed
  <2>1. TextRow \/ TextSprites
    BY <1>1 DEF LineNext, TextNext
  <2>2. scene' = scene /\ pc' # "shown"
    <3>1. CASE TextRow
      BY <3>1, Zenon DEF TextRow, spriteVars
    <3>2. CASE TextSprites
      BY <3>2, SpriteStepPc DEF TextSprites
    <3> QED BY <2>1, <3>1, <3>2
  <2>3. TextInv'
    BY <1>0, <1>1, <2>1, TextRowStepInv, TextSpritesStepInv
  <2>4. Packed'
    BY <1>1, <2>2, GeometryFixed
  <2> QED BY <2>2, <2>3, <2>4 DEF LineInv, LineIsArbitrated
<1>2. CASE ~Packed
  <2>1. Bitmap \/ LockedRow \/ SpriteStep \/ (StartTiles \/ Cell2 \/ EndTile2 \/ Cell1 \/ EndTile1)
    BY <1>2 DEF LineNext, ScanNext
  <2>2. scene' = scene /\ pc' # "shown"
    <3>1. CASE Bitmap
      BY <3>1, Zenon DEF Bitmap, spriteVars
    <3>2. CASE LockedRow
      BY <3>2, Zenon DEF LockedRow, spriteVars
    <3>3. CASE SpriteStep
      BY <3>3, SpriteStepPc DEF SpriteStep
    <3>4. CASE StartTiles \/ Cell2 \/ EndTile2 \/ Cell1 \/ EndTile1
      <4>1. scene' = scene /\ pc' \in {"tile2", "tile1", "composite"}
        BY <3>4, Zenon DEF StartTiles, Cell2, EndTile2, Cell1, EndTile1
      <4> QED BY <4>1
    <3> QED BY <2>1, <3>1, <3>2, <3>3, <3>4
  <2>3. /\ ~Packed' /\ (r'.unlocked <=> r.unlocked) /\ (ByPaging' <=> ByPaging)
    BY <1>2, <2>2, GeometryFixed, ExemptionsFixed
  <2>4. TextInv' /\ LineIsArbitrated'
    BY <2>2, <2>3 DEF TextInv, LineIsArbitrated
  <2>5. CASE r.unlocked /\ ByPaging
    BY <2>3, <2>4, <2>5 DEF LineInv
  <2>6. CASE ~(r.unlocked /\ ByPaging)
    <3>1. CASE Bitmap
      BY <1>0, <1>2, <2>4, <2>6, <3>1, BitmapStepInv
    <3>2. CASE LockedRow
      BY <1>0, <1>2, <2>4, <3>2, LockedRowStepInv
    <3>3. CASE SpriteStep
      BY <1>2, <2>4, <2>6, <3>3, SpritesKeepLine
    <3>4. CASE StartTiles \/ Cell2 \/ EndTile2 \/ Cell1 \/ EndTile1
      BY <1>2, <2>4, <2>6, <3>4, TileStepInv
    <3> QED BY <2>1, <3>1, <3>2, <3>3, <3>4
  <2> QED BY <2>5, <2>6
<1> QED BY <1>1, <1>2

(* The step that finishes it.                                              *)
LEMMA ShownStep ==
  ASSUME SpriteInv, LineInv, TextInv, LineNext, TextShown \/ Composite \/ NoTiles
  PROVE  LineInv' /\ TextInv' /\ LineIsArbitrated'
<1>0. SceneOK
  BY DEF SpriteInv
<1>1. /\ scene' = scene /\ pc' = "shown" /\ pixels' = pixels /\ under' = under /\ rowBits' = rowBits
      /\ layers' = layers /\ selection' = selection /\ final' = final /\ walk' = walk
  BY Zenon DEF TextShown, Composite, NoTiles, tileVars
<1>2. /\ Packed' = Packed /\ r' = r /\ m' = m /\ ByPaging' = ByPaging /\ ByReadingOn' = ByReadingOn
      /\ Columns' = Columns
  BY <1>1, GeometryFixed, ExemptionsFixed DEF Columns
<1>3. PixelsInv' /\ ~Tiling'
  BY <1>1 DEF PixelsInv, Tiling
<1>4. \A x : /\ ByMemo(x)' = ByMemo(x) /\ ByMask(x)' = ByMask(x) /\ ByLift(x)' = ByLift(x)
             /\ ByBorder(x)' = ByBorder(x) /\ TextGround(x)' = TextGround(x)
             /\ Expected(x)' = Expected(x) /\ ExpectedLocked(x)' = ExpectedLocked(x)
             /\ ExpectedText(x)' = ExpectedText(x)
  BY <1>1, ExemptionsFixed, ExpectedFixed
<1>5. CASE Packed
  <2>1. TextShown
    <3>1. ~TextRow /\ ~TextSprites
      <4>1. TextRow => pc' = "collect"
        BY Zenon DEF TextRow, spriteVars
      <4>2. TextSprites => pc' \in {"draw", "done"}
        BY SpriteStepPc DEF TextSprites
      <4> QED BY <1>1, <4>1, <4>2
    <3> QED BY <1>5, <3>1 DEF LineNext, TextNext
  <2>2. walk.k \in {0, 1} /\ RowDrawn
    BY <1>5, <2>1 DEF TextInv, TextShown
  <2>3. ByPaging \/ ByReadingOn \/ \A x \in Columns : under[x] = TextGround(x)
    <3>1. CASE pc = "collect" /\ walk.k = 0
      <4>1. scene.suppress.tile1 /\ \A x \in Columns : under[x] = m.backdrop
        BY <1>5, <2>2, <3>1 DEF RowDrawn, TextInv
      <4> QED BY <4>1 DEF TextGround
    <3>2. CASE walk.k = 1 \/ pc # "collect"
      BY <1>5, <3>2 DEF TextInv
    <3> QED BY <2>2, <3>1, <3>2
  <2>4. TextInv'
    BY <1>1, <1>2, <1>3, <1>4, <2>2, <2>3 DEF TextInv
  <2>5. \A x \in Columns : ByPaging \/ ByReadingOn \/ line'[x] = ExpectedText(x)
    BY <1>5, <2>1, TextShows
  <2>6. LineIsArbitrated'
    BY <1>2, <1>4, <1>5, <2>5 DEF LineIsArbitrated
  <2> QED BY <1>2, <1>5, <2>4, <2>6 DEF LineInv
<1>6. CASE ~Packed
  <2>1. Composite \/ NoTiles
    <3>1. ScanNext
      BY <1>6 DEF LineNext
    <3>2. Bitmap \/ LockedRow => pc' = "collect"
      BY Zenon DEF Bitmap, LockedRow, spriteVars
    <3>3. SpriteStep => pc' \in {"draw", "done"}
      BY SpriteStepPc DEF SpriteStep
    <3>4. StartTiles \/ Cell2 \/ EndTile2 \/ Cell1 \/ EndTile1 => pc' \in {"tile2", "tile1", "composite"}
      BY Zenon DEF StartTiles, Cell2, EndTile2, Cell1, EndTile1
    <3> QED BY <1>1, <3>1, <3>2, <3>3, <3>4 DEF ScanNext
  <2>2. TextInv'
    BY <1>2, <1>6 DEF TextInv
  <2>3. CASE r.unlocked /\ ByPaging
    <3>1. \A x \in Columns : PixelArbitrated(x)'
      BY <1>2, <2>3 DEF PixelArbitrated
    <3> QED BY <1>2, <1>6, <2>2, <2>3, <3>1 DEF LineInv, LineIsArbitrated
  <2>4. CASE ~(r.unlocked /\ ByPaging)
    <3>1. /\ PixelsInv /\ GroundInv /\ TileMasks /\ DOMAIN layers = 1 .. 2
          /\ Tiling => r.unlocked /\ ~Covered /\ TileInv
      BY <1>6, <2>4 DEF LineInv
    <3>2. pc \in {"composite", "done"}
      BY <2>1 DEF Composite, NoTiles
    <3>3. GroundIs
      BY <3>1, <3>2 DEF GroundInv
    <3>4. GroundInv' /\ TileMasks'
      <4>1. GroundIs'
        BY <1>1, <3>3, GroundFixed
      <4> QED BY <1>1, <3>1, <4>1 DEF GroundInv, TileMasks
    <3>5. LineInv'
      BY <1>1, <1>3, <3>1, <3>4 DEF LineInv
    <3>6. ASSUME NEW x \in Columns
          PROVE  IF ~r.unlocked THEN line'[x] = ExpectedLocked(x)
                 ELSE (ByMemo(x) \/ ByMask(x) \/ ByLift(x) \/ ByBorder(x)) \/ line'[x] = Expected(x)
      <4>1. CASE Composite
        <5>1. r.unlocked /\ ~Covered /\ TileInv
          BY <3>1, <4>1 DEF Tiling, Composite
        <5> QED BY <1>0, <1>6, <3>1, <3>3, <4>1, <5>1, CompositeShows
      <4>2. CASE NoTiles
        BY <1>6, <3>3, <4>2, NoTilesShows
      <4> QED BY <2>1, <4>1, <4>2
    <3>7. \A x \in Columns : PixelArbitrated(x)'
      BY <1>2, <1>4, <3>6 DEF PixelArbitrated
    <3> QED BY <1>2, <1>6, <2>2, <3>5, <3>7 DEF LineIsArbitrated
  <2> QED BY <2>3, <2>4
<1> QED BY <1>5, <1>6

(* Whatever the scene, and however the layers are scrolled, masked, walked, *)
(* skipped and handed out, every pixel of a finished line is the one the    *)
(* layers' priorities give it, but for the pixels the property leaves out   *)
(* by name.                                                                *)
THEOREM LineIsArbitratedHolds ==
  ASSUME ~ShiftWraps
  PROVE  LineSpec => []LineIsArbitrated
<1> DEFINE Inv == SpriteInv /\ LineInv /\ TextInv /\ LineIsArbitrated
<1>1. ScanInit => Inv
  <2>1. ScanInit => SpriteInv
    BY SpriteInvInit DEF ScanInit
  <2> QED BY <2>1, LineInit
<1>2. Inv /\ [LineNext]_scanVars => Inv'
  <2> SUFFICES ASSUME Inv, [LineNext]_scanVars PROVE Inv'
    OBVIOUS
  <2>1. SpriteInv'
    BY LineStepInv
  <2>2. LineInv' /\ TextInv' /\ LineIsArbitrated'
    BY LineUnchanged, DrawingStep, ShownStep
  <2> QED BY <2>1, <2>2
<1>3. Inv => LineIsArbitrated
  OBVIOUS
<1> QED BY <1>1, <1>2, <1>3, PTL DEF LineSpec
=============================================================================
