------------------------------ MODULE TextLine ------------------------------
(***************************************************************************)
(* Text that is written to the line itself rather than to a layer: the 80  *)
(* columns at four bits a pixel, and both widths of a locked device.  Every *)
(* other line is ScanLine's.                                               *)
(*                                                                         *)
(* A packed byte is two pixels of one cell and is taken as one; a sprite's *)
(* pixel fills a byte.  What a row backs over, at most eight bytes, lies   *)
(* in the code's side border, and in the model's left of the line where it *)
(* is narrower.                                                            *)
(***************************************************************************)
EXTENDS ScanLine

(* Registers 50 and up are only a program's once the device is unlocked.    *)
PerCell == r.unlocked /\ m.posAttr

(* textScroll80: the doubled register split into the first cell shown and   *)
(* the bytes into it.  The emitter stores words of four bytes, so it begins *)
(* that many cells early and the caller moves it a word for each.          *)
TextScroll(k) ==
  LET h     == IF r.unlocked THEN 2 * L(k).hscroll ELSE 0
      cell  == textScrollCell(h)
      bytes == (h - 6 * cell) \div 2
  IN [startCell |-> cell, bytes |-> bytes,
      startCol  |-> IF cell >= bytes THEN cell - bytes ELSE cell + Cols - bytes,
      cells     |-> IF bytes = 0 THEN Cols ELSE Cols + 4]

(* mutant: the row does not wrap to its own first cell *)
TestNextCol(col) == col + 1

(* The row wraps where a column becomes the count of them: one that begins  *)
(* past the end reads on.                                                  *)
NextCol(col) == IF col + 1 = Cols THEN 0 ELSE col + 1

ColumnsOf(s) == LET f[i \in 0 .. s.cells - 1] == IF i = 0 THEN s.startCol ELSE NextCol(f[i-1]) IN f

Lit(k, name, o) == o \in Pattern[0][name * 8 + (RowY(k) % 8)]

(* renderText80Row over a row: layer 1 is opaque, its colour 0 the          *)
(* backdrop's; where layer 2 has colour 0 the row stays as it was, four     *)
(* cells at a time when it is not scrolled.                                *)
CellRow(k, row) ==
  LET s    == TextScroll(k)
      at   == Start(k)
      cols == ColumnsOf(s)
      colour(i, o) == LET pair == AttrTable[at.attrs + cols[i]].pair
                      IN IF Lit(k, NameTable[at.names + cols[i]], o) THEN pair.fg ELSE pair.bg
  IN [x \in Columns |->
        LET i == (x - Pad + 4 * s.bytes) \div CellBytes
            o == (x - Pad + 4 * s.bytes) % CellBytes
        IN IF i \notin 0 .. s.cells - 1 \/ (k = 2 /\ colour(i, o) = 0) THEN row[x]
           ELSE MainColour(colour(i, o))]

(* The row in R7's two colours: the wrap is a second run of cells.          *)
TwoTone(row) ==
  LET s     == TextScroll(1)
      cells == IF s.bytes = 0 THEN Cols ELSE Cols + 1
      wraps == s.startCell < Cols /\ s.startCell + cells > Cols
      run   == IF wraps THEN Cols - s.startCell ELSE cells
      name(i) == NameTable[Start(1).names + IF i < run THEN s.startCell + i ELSE i - run]
  IN [x \in Columns |->
        LET i == (x - Pad + s.bytes) \div CellWidth
            o == (x - Pad + s.bytes) % CellWidth
        IN IF i \notin 0 .. cells - 1 THEN row[x]
           ELSE IF Lit(1, name(i), o) THEN m.fixed.fg ELSE m.fixed.bg]

Bordered(row) == [x \in Columns |-> IF x \in Pad .. Pixels - Pad - 1 THEN row[x] ELSE m.backdrop]

TextRow ==
  /\ pc = "collect" /\ walk.k = 0 /\ ~scene.suppress.tile1
  /\ LET first  == IF L(1).on THEN CellRow(1, under) ELSE under
         second == IF L(2).on THEN CellRow(2, first) ELSE first
     IN under' = Bordered(IF PerCell THEN second ELSE TwoTone(under))
  /\ walk' = [walk EXCEPT !.k = 1]
  /\ UNCHANGED <<spriteVars, rowBits, layers, selection, final, line>>

RowDrawn == walk.k = 1 \/ scene.suppress.tile1

(* Text has sprites only on an unlocked device. *)
TextSprites ==
  /\ RowDrawn /\ r.unlocked
  /\ SpriteNext
  /\ UNCHANGED <<under, rowBits, tileVars, line>>

TextShown ==
  /\ RowDrawn /\ pc = IF r.unlocked THEN "done" ELSE "collect"
  /\ line' = [x \in Columns |-> Pixel(x)] /\ pc' = "shown"
  /\ UNCHANGED <<scene, rows, n, spritesShown, tempStatus, masks, pixels, hasSprites>>
  /\ UNCHANGED <<under, rowBits, tileVars>>

TextNext == TextRow \/ TextSprites \/ TextShown

(* pico9918_scan_line's choice of the mode. *)
LineNext == (Packed /\ TextNext) \/ (~Packed /\ ScanNext)

LineSpec == ScanInit /\ [][LineNext]_scanVars

-----------------------------------------------------------------------------
(* Properties *)

(* What a packed row shows, cell by cell of its position.                   *)
Tile(k, x) == IF L(k).on THEN PairAt(k, x) ELSE 0
ExpectedText(x) ==
  IF r.unlocked /\ Visible(x) THEN pixels[x]
  ELSE IF ~InText(x) \/ scene.suppress.tile1 THEN m.backdrop
  ELSE IF ~PerCell THEN (IF BitOf(1, x, 0, FALSE) THEN m.fixed.fg ELSE m.fixed.bg)
  ELSE IF Tile(2, x) # 0 THEN Tile(2, x) ELSE MainColour(Tile(1, x))

(* A row scrolled past its last cell wraps or reads on into the next row as *)
(* its fine scroll has it.                                                 *)
ByReadingOn == \E k \in 1 .. 2 :
  TextScroll(k).startCell >= Cols /\ IF PerCell THEN L(k).on ELSE k = 1

(* Every pixel of a finished line is the one the layers' priorities give    *)
(* it, whatever scroll each layer has, whether the line was merged, handed  *)
(* out from layer 1's buffer, drawn without layer 1 or written in place,    *)
(* and whichever cells the emitters skipped or backed over.                 *)
LineIsArbitrated ==
  pc = "shown" =>
    \A x \in Columns :
      IF Packed THEN (ByPaging \/ ByReadingOn) \/ line[x] = ExpectedText(x) ELSE PixelArbitrated(x)
=============================================================================
