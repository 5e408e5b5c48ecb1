----------------------------- MODULE ScanLine -----------------------------
(***************************************************************************)
(* One scanline, from the cleared masks to the finished line: the bitmap   *)
(* layer, the sprites (Sprites), tile layer 2, tile layer 1 behind it, and *)
(* the composite that arbitrates them, or on a locked device the tile row  *)
(* with the sprites over it.                                               *)
(*                                                                         *)
(* Each layer is drawn into a buffer of its own, on cell boundaries, and   *)
(* read back from its fine scroll on; the masks say which layer a pixel    *)
(* belongs to and move between the two scrolls.  Positions, masks and      *)
(* pattern bytes are those of Sprites: a graphics cell is Unit pixels, a   *)
(* cell of 40-column text three quarters of one.  Text that is written to  *)
(* the line, TextLine's, has 80 columns of CellBytes; the tier that gives  *)
(* 80 columns a layer buffer is left out.                                  *)
(***************************************************************************)
EXTENDS Sprites

CONSTANTS
  PageRows,     (* rows of a page of names: 32 in the code                 *)
  TextCols,     (* cells of a narrow text row: 40 in the code              *)
  WideCols,     (* cells of a wide one: 80 in the code                     *)
  NameTable,    (* the name tables: addresses to names                     *)
  AttrTable,    (* the attribute tables: addresses to attributes           *)
  ColourTable,  (* a name's colour pair in a graphics mode at level 0      *)
  BitmapRow     (* rows of the bitmap layer: bytes to their pixel values   *)

CellBytes == 3

(* A text row leaves a border of one width at each side.                    *)
ASSUME TextAssumption ==
  /\ Unit % 4 = 0 /\ TextCols \in Nat \ {0} /\ WideCols \in Nat \ {0, 1}
  /\ \E pad \in 0 .. Pixels : 2 * pad + TextCols * ((3 * Unit) \div 4) = Pixels
  /\ \E pad \in 0 .. Pixels : 2 * pad + WideCols * CellBytes = Pixels

(* The split of a text scroll multiplies by a reciprocal: it is a division  *)
(* by six for everything a doubled scroll register holds.                  *)
textScrollCell(h) == (h * 342) \div 2048
ASSUME ReciprocalAssumption == \A h \in 0 .. 510 : textScrollCell(h) = h \div 6

Page == PageRows * (Pixels \div Unit)

(* What the registers hold; a line is one of the rows'.                     *)
SceneMode == [text : BOOLEAN, text80 : BOOLEAN, ecm : 0 .. 3, posAttr : BOOLEAN, backdrop : Nat,
              layer2OnTop : BOOLEAN, rows : Nat, fixed : [fg : Nat, bg : Nat]]
SceneLayer == [on : BOOLEAN, hscroll : (0 .. 255) \cap (0 .. Pixels - 1), vscroll : 0 .. 255,
               wide : BOOLEAN, tall : BOOLEAN, base : {Page * p : p \in 0 .. 3}, pal : Nat]
SceneBitmap == [on : BOOLEAN, priority : BOOLEAN, transparent : BOOLEAN, fat : BOOLEAN,
                x : 0 .. Pixels - 1, top : Nat, width : 0 .. Pixels, height : Nat, pal : Nat, row : Nat]
ASSUME LayerAssumption ==
  /\ PageRows \in Nat \ {0} /\ NameTable \in [0 .. 4 * Page - 1 -> Nat]
  /\ \A sc \in Scenes :
       /\ sc.mode \in SceneMode /\ sc.layer \in [1 .. 2 -> SceneLayer] /\ sc.bitmap \in SceneBitmap
       /\ sc.suppress \in [tile1 : BOOLEAN, tile2 : BOOLEAN, bitmap : BOOLEAN]
       /\ sc.y < 8 * sc.mode.rows

VARIABLES
  under,      (* backdrop, bitmap layer and locked row: what a sprite is on *)
  rowBits,    (* rowMasks.rowBits: pixels a priority bitmap layer holds     *)
  layers,     (* tileLayer1Buffer and tileLayer2Buffer                      *)
  selection,  (* layerSelectionMask: pixels layer 2 takes                   *)
  final,      (* finalMask: the same in layer 1's coordinates               *)
  walk,       (* the row emitter: cell, column, addresses, last empty name  *)
  line        (* the finished line                                          *)

tileVars == <<layers, selection, final, walk>>
scanVars == <<spriteVars, under, rowBits, tileVars, line>>

m    == scene.mode
b    == scene.bitmap
L(k) == scene.layer[k]

Stale     == -2
Row80     == m.text /\ m.text80
CellWidth == IF Row80 THEN CellBytes ELSE IF m.text THEN (3 * Unit) \div 4 ELSE Unit
Cols      == IF Row80 THEN WideCols ELSE IF m.text THEN TextCols ELSE Pixels \div Unit
(* Text the device writes to the line: 80 columns, and a locked device's.   *)
Packed    == m.text /\ (m.text80 \/ ~r.unlocked)
Pad       == (Pixels - Cols * CellWidth) \div 2
Buffer    == 0 .. Pixels + Word - 1
LevelPal(p) == IF m.ecm = 0 THEN p ELSE IF m.ecm = 1 THEN 32 * (p \div 32) ELSE 0

(* The line holds the sprites' pixels over what they were drawn on.         *)
Pixel(x) == IF pixels[x] = Beneath THEN under[x] ELSE pixels[x]

Memo(at) == [k |-> 0, at |-> at, empty |-> -1]

ScanInit ==
  /\ SpriteInit
  /\ under = [x \in Columns |-> scene.mode.backdrop]
  /\ rowBits = {} /\ selection = {} /\ final = {}
  /\ layers = [k \in 1 .. 2 |-> [p \in Buffer |-> Stale]]
  /\ walk = Memo([col |-> 0, names |-> 0, attrs |-> 0]) /\ line = <<>>

-----------------------------------------------------------------------------
(* The bitmap layer *)

BitmapHere == /\ b.on /\ b.top <= scene.y /\ scene.y - b.top < b.height
              /\ ~scene.suppress.bitmap
BitmapBytes == IF b.width = 0 THEN Pixels \div 4 ELSE (b.width + 3) \div 4
underLayer  == r.unlocked /\ BitmapHere /\ ~b.priority

(* A byte is four pixels, or two fat ones. *)
Value(o) == LET byte == BitmapRow[b.row][o \div 4] IN IF b.fat THEN byte[(o % 4) \div 2] ELSE byte[o % 4]
Draws(o) == ~b.transparent \/ Value(o) > 0
BitmapX(o) == (b.x + o) % Pixels

(* Mask bits are gathered a word at a time and land from where the word     *)
(* began, the ones past the edge in the spare word; a word that gathered    *)
(* none is not begun again.                                                *)
Gathered(w) ==
  LET f[k \in 0 .. w] ==
        IF k = 0 THEN [bits |-> {}, held |-> {}, at |-> 0, from |-> 0]
        ELSE LET before == f[k-1]
                 drawn  == {o \in 4 * (k-1) .. 4 * k - 1 : Draws(o)}
                 held   == IF before.at >= Word THEN before.held ELSE before.held \cup drawn
             IN IF before.at + 4 >= Word /\ held # {}
                THEN [bits |-> before.bits \cup {BitmapX(before.from) + o - before.from : o \in held},
                      held |-> {}, at |-> 0, from |-> 4 * k]
                ELSE [before EXCEPT !.held = held, !.at = @ + 4]
  IN f[w].bits \cup {BitmapX(f[w].from) + o - f[w].from : o \in f[w].held}

(* An opaque layer of the whole width takes the line from the tiles.        *)
Covered == /\ r.unlocked /\ BitmapHere /\ b.priority /\ ~b.transparent
           /\ BitmapBytes = Pixels \div 4

Bitmap ==
  /\ pc = "collect" /\ r.unlocked /\ BitmapHere /\ walk.k = 0
  /\ under' = [x \in Columns |->
       LET o == (x - b.x) % Pixels
       IN IF o < 4 * BitmapBytes /\ Draws(o) THEN b.pal + Value(o) ELSE under[x]]
  /\ rowBits' = IF Covered THEN Columns
                ELSE IF b.priority THEN Gathered(BitmapBytes) \cap Columns ELSE {}
  /\ walk' = [walk EXCEPT !.k = 1]
  /\ UNCHANGED <<spriteVars, layers, selection, final, line>>

(* A locked device draws its row straight into the line, looking its        *)
(* colours up only where the name differs from the one before.             *)
LockedPattern(name) == Pattern[0][name * 8 + (scene.y % 8)]
MainColour(c) == IF c = 0 THEN m.backdrop ELSE c
LockedPair(name) == [fg |-> MainColour(ColourTable[name].fg), bg |-> MainColour(ColourTable[name].bg)]

LockedCells ==
  LET f[c \in 0 .. Cols - 1] ==
        LET name == NameTable[L(1).base + (scene.y \div 8) * Cols + c]
            last == IF c = 0 THEN [name |-> 0, patt |-> LockedPattern(0), pair |-> LockedPair(0)] ELSE f[c-1]
        IN IF name = last.name THEN last
           ELSE [name |-> name, patt |-> LockedPattern(name), pair |-> LockedPair(name)]
  IN f

LockedRow ==
  /\ pc = "collect" /\ ~r.unlocked /\ walk.k = 0 /\ ~scene.suppress.tile1
  /\ LET cells == LockedCells
     IN under' = [x \in Columns |->
          LET c == cells[x \div Unit] IN IF x % Unit \in c.patt THEN c.pair.fg ELSE c.pair.bg]
  /\ walk' = [walk EXCEPT !.k = 1]
  /\ UNCHANGED <<spriteVars, rowBits, layers, selection, final, line>>

DrawsBeneath == IF r.unlocked THEN BitmapHere ELSE ~scene.suppress.tile1

SpriteStep ==
  /\ DrawsBeneath => walk.k = 1
  /\ SpriteNext
  /\ UNCHANGED <<under, rowBits, tileVars, line>>

-----------------------------------------------------------------------------
(* Where a layer's row begins *)

StartCell(k) == L(k).hscroll \div CellWidth
Fine(k)      == L(k).hscroll % CellWidth
Cells(k)     == Cols + (IF Fine(k) = 0 THEN 0 ELSE IF m.text THEN 2 ELSE 1)

VirtY(k)   == scene.y + L(k).vscroll
Crossed(k) == L(k).vscroll # 0 /\ VirtY(k) >= 8 * m.rows
RowY(k)    == IF Crossed(k) THEN VirtY(k) - 8 * m.rows ELSE VirtY(k)
Flip(a, bit) == IF (a \div bit) % 2 = 1 THEN a - bit ELSE a + bit

(* Text is always coloured by cell when positions carry attributes, a       *)
(* graphics mode only at an enhanced level.                                *)
PerPosition == m.posAttr /\ (m.text \/ m.ecm > 0)

(* A row past the last one is the first of the page below; a text row's     *)
(* address carries no page.                                                *)
Start(k) ==
  LET offset == (RowY(k) \div 8) * Cols
      names  == IF Crossed(k) /\ L(k).tall /\ ~m.text THEN Flip(L(k).base + offset, 2 * Page)
                ELSE L(k).base + offset
      page   == IF m.text THEN 0 ELSE Page * (names \div Page)
  IN [col |-> StartCell(k), names |-> names,
      attrs |-> IF PerPosition THEN (page + offset) % (4 * Page) ELSE 0]

(* Past the last column a wide layer goes on in the page beside, and its    *)
(* attributes with it, which gained the page by addition; a text row that  *)
(* begins past it reads on.                                                *)
Advance(k, at) ==
  IF at.col + 1 < Cols \/ (m.text /\ at.col >= Cols) THEN [at EXCEPT !.col = @ + 1]
  ELSE IF ~L(k).wide \/ m.text THEN [at EXCEPT !.col = 0]
  ELSE LET names == Flip(at.names, Page)
       IN [col |-> 0, names |-> names,
           attrs |-> IF PerPosition
                     THEN (at.attrs + 2 * Page * ((names \div Page) % 2) - Page) % (4 * Page)
                     ELSE at.attrs]

-----------------------------------------------------------------------------
(* One cell: its solid pixels, their colours, and whether it lifts above    *)
(* the sprites.                                                            *)

InCell == 0 .. CellWidth - 1
Levels == 0 .. (IF m.ecm = 0 THEN 0 ELSE m.ecm - 1)

PlaneOf(k, name, flipX, flipY, p) ==
  LET row  == IF flipY THEN 7 - (RowY(k) % 8) ELSE RowY(k) % 8
      bits == Pattern[p][name * 8 + row] \cap InCell
  IN IF flipX THEN {CellWidth - 1 - o : o \in bits} ELSE bits

(* Below level 1 the cell has a colour pair, and colour 0 is no pixel.      *)
PairOf(name, a) == IF ~m.text THEN ColourTable[name] ELSE IF m.posAttr THEN a.pair ELSE m.fixed

PairCell(k, name, a) ==
  LET patt == PlaneOf(k, name, FALSE, FALSE, 0)
      pair == PairOf(name, a)
      c(o) == IF o \in patt THEN pair.fg ELSE pair.bg
  IN [solid  |-> {o \in InCell : c(o) # 0}, lifts |-> FALSE,
      colour |-> [o \in InCell |-> LevelPal(L(k).pal) + c(o)]]

(* From level 1 on the attribute says which pixels are solid: every one, or *)
(* where it is transparent those some plane sets.                          *)
PlaneCell(k, name, a) ==
  LET bits == [p \in Levels |-> PlaneOf(k, name, a.flipX, a.flipY, p)]
      base == LevelPal(L(k).pal) + (a.colour \div (IF m.ecm = 3 THEN 2 ELSE 1)) * 2 ^ m.ecm
  IN [solid  |-> IF a.transparent THEN UNION {bits[p] : p \in Levels} ELSE InCell,
      lifts  |-> a.priority \/ (k = 2 /\ m.layer2OnTop),
      colour |-> [o \in InCell |-> base + Spelt({q \in Levels : o \in bits[q]})]]

CellAt(k, name, a) == IF m.ecm = 0 THEN PairCell(k, name, a) ELSE PlaneCell(k, name, a)

-----------------------------------------------------------------------------
(* The row emitters *)

On(k)  == IF k = 1 THEN L(1).on /\ ~scene.suppress.tile1 ELSE L(2).on /\ ~scene.suppress.tile2
backdropOrNone == IF underLayer THEN 0 ELSE m.backdrop

NameAt == NameTable[walk.at.names + walk.at.col]
AttrAt == AttrTable[IF PerPosition THEN walk.at.attrs + walk.at.col ELSE NameAt]
XOf(o)    == Pad + walk.k * CellWidth + o
Placed(solid) == {XOf(o) : o \in solid}

(* The memo of the last name found empty, which only the enhanced levels of *)
(* a graphics mode keep.                                                   *)
Remembered == m.ecm > 0 /\ ~m.text /\ walk.empty = NameAt
Emptied(c) == IF m.ecm > 0 /\ ~m.text /\ c.solid = {} THEN NameAt ELSE walk.empty

Lifted(k, c) ==
  IF c.lifts /\ hasSprites
  THEN spriteBits \ {x - Fine(k) : x \in Placed(c.solid)} ELSE spriteBits

Write(k, cell) == layers' = [layers EXCEPT ![k] =
                     [p \in Buffer |-> IF p \in Placed(InCell) THEN cell[p - XOf(0)] ELSE @[p]]]

NextCell(k, empty) == walk' = [k |-> walk.k + 1, at |-> Advance(k, walk.at), empty |-> empty]

StartTiles ==
  /\ pc = "done" /\ r.unlocked /\ ~Covered
  /\ pc' = IF On(2) THEN "tile2" ELSE IF On(1) THEN "tile1" ELSE "composite"
  /\ walk' = Memo(Start(IF On(2) THEN 2 ELSE 1))
  /\ UNCHANGED <<scene, rows, n, spritesShown, tempStatus, masks, pixels, hasSprites>>
  /\ UNCHANGED <<under, rowBits, layers, selection, final, line>>

Cell2 ==
  /\ pc = "tile2" /\ walk.k < Cells(2)
  /\ LET c == CellAt(2, NameAt, AttrAt)
     IN IF Remembered
        THEN NextCell(2, walk.empty) /\ UNCHANGED <<layers, selection, spriteBits>>
        ELSE /\ NextCell(2, Emptied(c))
             /\ selection' = selection \cup Placed(c.solid)
             /\ spriteBits' = Lifted(2, c)
             /\ Write(2, c.colour)
  /\ UNCHANGED <<scene, rows, n, spritesShown, tempStatus, transparent, pixels, hasSprites>>
  /\ UNCHANGED <<under, rowBits, final, line, pc>>

(* The mask goes to layer 1's scroll and, unless neither layer is scrolled, *)
(* comes back to the screen's.                                             *)
Moved(mask, by) == {p + by : p \in mask} \cap Buffer

(* mutant: the mask stays in layer 2's coordinates *)
TestRestored(mask) == selection
Restored(mask) == IF Fine(1) = 0 /\ Fine(2) = 0 THEN selection ELSE Moved(mask, -Fine(1))

EndTile2 ==
  /\ pc = "tile2" /\ walk.k = Cells(2)
  /\ final' = Moved(selection, Fine(1) - Fine(2))
  /\ pc' = IF On(1) THEN "tile1" ELSE "composite"
  /\ walk' = Memo(Start(1))
  /\ selection' = IF On(1) THEN selection ELSE Restored(final')
  /\ UNCHANGED <<scene, rows, n, spritesShown, tempStatus, masks, pixels, hasSprites>>
  /\ UNCHANGED <<under, rowBits, layers, line>>

(* A cell layer 2 fills leaves nothing to draw. *)
Filled == ~m.text /\ Placed(InCell) \subseteq final

Cell1 ==
  /\ pc = "tile1" /\ walk.k < Cells(1)
  /\ LET c == CellAt(1, NameAt, AttrAt)
         hidden == Remembered \/ Filled
         pixel  == [o \in InCell |-> IF hidden \/ o \notin c.solid THEN backdropOrNone ELSE c.colour[o]]
     IN /\ Write(1, pixel)
        /\ NextCell(1, IF hidden THEN walk.empty ELSE Emptied(c))
        /\ spriteBits' = IF hidden THEN spriteBits ELSE Lifted(1, c)
  /\ UNCHANGED <<scene, rows, n, spritesShown, tempStatus, transparent, pixels, hasSprites>>
  /\ UNCHANGED <<under, rowBits, selection, final, line, pc>>

(* A text row leaves the side borders to be written over what it emitted.   *)
EndTile1 ==
  /\ pc = "tile1" /\ walk.k = Cells(1)
  /\ layers' = [layers EXCEPT ![1] =
       [p \in Buffer |-> IF p - Fine(1) \in 0 .. Pad - 1 \cup Pixels - Pad .. Pixels - 1
                         THEN m.backdrop ELSE @[p]]]
  /\ selection' = IF On(2) THEN Restored(final) ELSE selection
  /\ pc' = "composite"
  /\ UNCHANGED <<scene, rows, n, spritesShown, tempStatus, masks, pixels, hasSprites>>
  /\ UNCHANGED <<under, rowBits, final, walk, line>>

-----------------------------------------------------------------------------
(* The composite *)

Selected == selection \cap Pad .. Pixels - Pad - 1
Read(k, x) == layers[k][x + Fine(k)]

(* Layer 1's buffer is handed out as it stands, with the sprites put into   *)
(* it, when nothing else has to be arbitrated and it begins on a word.      *)
HandedOut == On(1) /\ ~On(2) /\ ~underLayer /\ Fine(1) % (Unit \div 2) = 0 /\ ~b.on

(* A chunk of words picks the layer by the mask, a chunk over an under layer *)
(* also looks for its colour 0.                                            *)
Picked(x)  == IF x \in Selected THEN Read(2, x) ELSE Read(1, x)
Through(x) == underLayer /\ Picked(x) = 0

Merged(x) ==
  IF x \in spriteBits \/ (x \in rowBits /\ x \notin Selected) \/ Through(x) THEN Pixel(x) ELSE Picked(x)

(* Without layer 1, what layer 2 does not take stays as it was drawn.       *)
Overlaid(x)   == IF x \in spriteBits THEN Pixel(x) ELSE Read(1, x)
Layer2Only(x) == IF x \in Selected \ spriteBits THEN Read(2, x) ELSE Pixel(x)

Composite ==
  /\ pc = "composite"
  /\ line' = [x \in Columns |->
       IF HandedOut THEN Overlaid(x) ELSE IF On(1) THEN Merged(x) ELSE Layer2Only(x)]
  /\ pc' = "shown"
  /\ UNCHANGED <<scene, rows, n, spritesShown, tempStatus, masks, pixels, hasSprites>>
  /\ UNCHANGED <<under, rowBits, tileVars>>

(* A locked line, and one an opaque bitmap layer covers, is what was drawn. *)
NoTiles ==
  /\ pc = "done" /\ (~r.unlocked \/ Covered)
  /\ line' = [x \in Columns |-> Pixel(x)] /\ pc' = "shown"
  /\ UNCHANGED <<scene, rows, n, spritesShown, tempStatus, masks, pixels, hasSprites>>
  /\ UNCHANGED <<under, rowBits, tileVars>>

ScanNext ==
  \/ Bitmap \/ LockedRow \/ SpriteStep \/ StartTiles \/ Cell2 \/ EndTile2 \/ Cell1 \/ EndTile1
  \/ Composite \/ NoTiles

ScanSpec == ScanInit /\ [][ScanNext]_scanVars

-----------------------------------------------------------------------------
(* The line a viewer should see, pixel by pixel: no walk, no masks, no      *)
(* buffers.                                                                *)

(* The cell of layer k under a pixel, counted from the layer's origin.      *)
Scroll(k)     == IF r.unlocked THEN L(k).hscroll ELSE 0
Across(k, x)  == x - Pad + Scroll(k)
InText(x)     == x \in Pad .. Pixels - Pad - 1

(* A row goes round, but text that starts past its last cell reads on into  *)
(* the next row (pico9918.c 1649).                                         *)
ColOf(k, x)   == LET cell == Across(k, x) \div CellWidth
                 IN IF m.text /\ Scroll(k) >= Cols * CellWidth THEN cell ELSE cell % Cols
BesideOf(k, x) == L(k).wide /\ ~m.text /\ Across(k, x) \div CellWidth >= Cols
BelowOf(k)    == L(k).tall /\ ~m.text /\ scene.y + L(k).vscroll >= 8 * m.rows

(* Rows go round once: a scroll that takes a line past them twice goes on   *)
(* in the rows of the page below the last one shown.                       *)
RowOf(k) == LET y == scene.y + L(k).vscroll IN IF y >= 8 * m.rows THEN y - 8 * m.rows ELSE y

PageOf(k, x) ==
  LET home == L(k).base \div Page
      down == IF BelowOf(k) THEN 1 - home \div 2 ELSE home \div 2
      side == IF BesideOf(k, x) THEN 1 - (home % 2) ELSE home % 2
  IN (2 * down) + side
Position(k, x) == Page * PageOf(k, x) + (RowOf(k) \div 8) * Cols + ColOf(k, x)

NameOf(k, x) == NameTable[Position(k, x)]
AttrOf(k, x) == AttrTable[IF ~PerPosition THEN NameOf(k, x)
                          ELSE IF m.text THEN (RowOf(k) \div 8) * Cols + ColOf(k, x)
                          ELSE Position(k, x)]

BitOf(k, x, p, flips) ==
  LET a   == AttrOf(k, x)
      o   == Across(k, x) % CellWidth
      row == RowOf(k) % 8
  IN (IF flips /\ a.flipX THEN CellWidth - 1 - o ELSE o)
        \in Pattern[p][NameOf(k, x) * 8 + (IF flips /\ a.flipY THEN 7 - row ELSE row)]

(* What layer k has at a pixel: nothing, or a colour.                       *)
PairAt(k, x) ==
  LET pair == IF ~m.text THEN ColourTable[NameOf(k, x)]
              ELSE IF m.posAttr THEN AttrOf(k, x).pair ELSE m.fixed
  IN IF BitOf(k, x, 0, FALSE) THEN pair.fg ELSE pair.bg

Solid(k, x) ==
  /\ On(k) /\ InText(x)
  /\ IF m.ecm = 0 THEN PairAt(k, x) # 0
     ELSE ~AttrOf(k, x).transparent \/ \E p \in Levels : BitOf(k, x, p, TRUE)

ColourAt(k, x) ==
  IF m.ecm = 0 THEN L(k).pal + PairAt(k, x)
  ELSE LevelPal(L(k).pal) + (AttrOf(k, x).colour \div (IF m.ecm = 3 THEN 2 ELSE 1)) * 2 ^ m.ecm
         + Spelt({q \in Levels : BitOf(k, x, q, TRUE)})

Lifts(k, x) == /\ m.ecm > 0 /\ Solid(k, x)
               /\ AttrOf(k, x).priority \/ (k = 2 /\ m.layer2OnTop)

BitmapAt(x) == /\ r.unlocked /\ BitmapHere
               /\ (x - b.x) % Pixels < 4 * BitmapBytes /\ Draws((x - b.x) % Pixels)

(* Tiles over the bitmap layer: over an under layer colour 0 is no pixel,   *)
(* of a tile or of the border of a text row, unless layer 1 is switched off.*)
InFront(k, x) == Solid(k, x) /\ ~(underLayer /\ On(1) /\ ColourAt(k, x) = 0)
Border(x)     == m.text /\ ~InText(x) /\ On(1) /\ ~(underLayer /\ m.backdrop = 0)

(* The line by priority: layer 2, a priority bitmap layer, layer 1, an      *)
(* under layer, the backdrop; a sprite, as SpriteLine has it, over all of   *)
(* them but a tile that lifts itself above.                                *)
Expected(x) ==
  LET below  == IF BitmapAt(x) THEN b.pal + Value((x - b.x) % Pixels) ELSE m.backdrop
      sprite == IF Visible(x) THEN pixels[x] ELSE below
  IN IF Covered THEN sprite
     ELSE IF InFront(2, x)
     THEN (IF Visible(x) /\ ~Lifts(2, x) THEN sprite ELSE ColourAt(2, x))
     ELSE IF Solid(2, x) \/ (BitmapAt(x) /\ b.priority) THEN sprite
     ELSE IF InFront(1, x)
     THEN (IF Visible(x) /\ ~Lifts(1, x) THEN sprite ELSE ColourAt(1, x))
     ELSE IF Border(x) /\ ~Visible(x) THEN m.backdrop
     ELSE sprite

ExpectedLocked(x) ==
  LET name == NameTable[L(1).base + (scene.y \div 8) * Cols + x \div Unit]
      pair == LockedPair(name)
  IN IF Visible(x) THEN pixels[x]
     ELSE IF scene.suppress.tile1 THEN m.backdrop
     ELSE IF x % Unit \in LockedPattern(name) THEN pair.fg ELSE pair.bg

-----------------------------------------------------------------------------
(* Where the code is known to differ, or the layers leave it open.          *)

(* A transparent cell left of this one, of its name, that nothing showed in. *)
EmptyCell(k, x) == \A o \in InCell :
  LET z == x - (Across(k, x) % CellWidth) + o IN z \in Columns => ~Solid(k, z)
ByMemo(x) == \E k \in 1 .. 2 : /\ On(k) /\ PerPosition /\ ~m.text
                               /\ \E z \in Columns : /\ z < x /\ NameOf(k, z) = NameOf(k, x)
                                                     /\ EmptyCell(k, z)

(* A bitmap pixel past the right edge, or past a word that drew nothing.    *)
ByMask(x) == LET o == (x - b.x) % Pixels
             IN /\ BitmapAt(x) /\ b.priority /\ ~Covered
                /\ \/ b.x + o >= Pixels
                   \/ \E w \in 0 .. (o \div Word) - 1 : \A i \in 0 .. Word - 1 : ~Draws(w * Word + i)

(* A layer 1 cell above the sprites below layer 2 lifts what is on it, but  *)
(* not where layer 2 fills it.                                             *)
ByLift(x) == Solid(2, x) /\ ~Lifts(2, x) /\ Lifts(1, x) /\ Visible(x)

(* A lifting cell of a scrolled text row reaches into the side border.      *)
ByBorder(x) == m.text /\ m.ecm > 0 /\ ~InText(x) /\ Visible(x)

(* Rows that doubling puts past the end of their page of names, or of the   *)
(* memory for attributes.                                                  *)
ByPaging == \E k \in 1 .. 2 :
  L(k).on /\ (RowOf(k) \div 8) * Cols >= IF m.text THEN 4 * Page ELSE Page

(* A pixel of a finished line is the one the layers' priorities give it.    *)
PixelArbitrated(x) ==
  IF ~r.unlocked THEN line[x] = ExpectedLocked(x)
  ELSE (ByPaging \/ ByMemo(x) \/ ByMask(x) \/ ByLift(x) \/ ByBorder(x)) \/ line[x] = Expected(x)

(* With position attributes a cell shows by the attribute of its position,  *)
(* whatever another cell of the same name showed.                          *)
TilesByPosition ==
  pc = "shown" /\ r.unlocked /\ PerPosition /\ ~Packed =>
    \A x \in Columns : (ByMask(x) \/ ByLift(x) \/ ByBorder(x)) \/ line[x] = Expected(x)

(* A pixel a priority bitmap layer draws is above tile layer 1.             *)
BitmapAboveTiles ==
  pc = "shown" /\ r.unlocked /\ b.priority =>
    \A x \in Columns : BitmapAt(x) /\ ~Solid(2, x) => ByMemo(x) \/ line[x] = Expected(x)
=============================================================================
