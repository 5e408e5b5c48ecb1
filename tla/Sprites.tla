------------------------------ MODULE Sprites ------------------------------
(***************************************************************************)
(* One scanline's sprites: the collect pass that walks the attribute table *)
(* and the drawing pass that takes the collected rows in list order, clips *)
(* each to the line, claims its pixels in the collision mask and emits it. *)
(*                                                                         *)
(* Across, everything is counted in pixels and scaled: a pattern byte is   *)
(* Unit pixels where the code has 8, so a mask word is 4 * Unit and the    *)
(* line is LineWords words.  A mask is the set of its screen positions, a  *)
(* pattern word the set of its offsets from the sprite's left edge.  Down, *)
(* nothing is scaled.                                                      *)
(***************************************************************************)
EXTENDS Integers, Sequences, FiniteSetsExt

CONSTANTS
  Unit,        (* pixels of a pattern byte: 8 in the code                  *)
  LineWords,   (* mask words of a line: 8 in the code                      *)
  ScanLimit,   (* MAX_SCANLINE_SPRITES: 4 in the code                      *)
  ShiftWraps,  (* what a shift by the whole word does: the shifter of the  *)
               (* host builds keeps the word, the board's clears it        *)
  Pattern,     (* the pattern table of each plane: addresses to pixel sets *)
  Scenes       (* the register settings and attribute tables looked at     *)

ASSUME UnitAssumption == Unit \in Nat \ {0} /\ LineWords \in Nat \ {0}
ASSUME LimitAssumption == ScanLimit \in Nat
ASSUME ShiftAssumption == ShiftWraps \in BOOLEAN

(* A pattern byte holds Unit pixels, whatever plane it is read from.        *)
ASSUME PatternAssumption ==
  Pattern \in [0 .. 2 -> [DOMAIN Pattern[0] -> SUBSET (0 .. Unit - 1)]]

SpriteAttribute ==
  [y : 0 .. 255, x : Nat, name : Nat, colour : Nat,
   early : BOOLEAN, flipX : BOOLEAN, flipY : BOOLEAN, big : BOOLEAN]

SpriteRegisters ==
  [unlocked : BOOLEAN, row30 : BOOLEAN, yReal : BOOLEAN, doubleRows : BOOLEAN,
   size16 : BOOLEAN, mag : BOOLEAN, ecm : 0 .. 3, pal : Nat, suppressed : BOOLEAN,
   limit : Nat, reportMax : BOOLEAN, maxSprites : Nat]

(* A name finds its bytes in the pattern table, and a line outside 30 rows  *)
(* is one of the 192 the frame driver asks for then.                       *)
ASSUME SceneAssumption ==
  \A sc \in Scenes :
    /\ sc.regs \in SpriteRegisters /\ sc.list \in Seq(SpriteAttribute) /\ sc.y \in Nat
    /\ \A k \in 1 .. Len(sc.list) :
         32 * (sc.list[k].name \div 4) .. 32 * (sc.list[k].name \div 4) + 31 \subseteq DOMAIN Pattern[0]
    /\ (sc.regs.unlocked /\ sc.regs.row30)
         \/ (IF sc.regs.doubleRows THEN sc.y \div 2 ELSE sc.y) < 192

VARIABLES
  scene,        (* registers and attribute table, fixed for the line       *)
  rows,         (* spriteAttrRows and spriteIndices, in list order         *)
  n,            (* the collected sprite the drawing pass is at             *)
  spritesShown, (* sprites found on the line so far                        *)
  tempStatus,   (* what the line will raise in the status register         *)
  spriteBits,   (* rowMasks.rowSpriteBits                                  *)
  transparent,  (* rowMasks.rowTransparentSpriteBits                       *)
  pixels,       (* the line: a colour, or the layer beneath                *)
  hasSprites,   (* scanlineHasSprites                                      *)
  pc            (* collect, draw, done                                     *)

masks      == <<spriteBits, transparent>>
spriteVars == <<scene, rows, n, spritesShown, tempStatus, masks, pixels, hasSprites, pc>>

Word    == 4 * Unit
Pixels  == LineWords * Word
Columns == 0 .. Pixels - 1
Beneath == -1
NoFifth == -1

r   == scene.regs
Ecm == IF r.unlocked THEN r.ecm ELSE 0
Pal == IF ~r.unlocked \/ Ecm > 1 THEN 0 ELSE IF Ecm = 1 THEN 32 * (r.pal \div 32) ELSE r.pal

SpriteInit ==
  /\ scene \in Scenes
  /\ rows = <<>> /\ n = 1 /\ spritesShown = 0
  /\ tempStatus = [collision |-> FALSE, fifth |-> NoFifth]
  /\ spriteBits = {} /\ transparent = {}
  /\ pixels = [x \in Columns |-> Beneath]
  /\ hasSprites = FALSE /\ pc = "collect"

-----------------------------------------------------------------------------
(* The collect pass *)

Row30  == r.unlocked /\ r.row30
Offset == IF r.yReal THEN 0 ELSE 1

(* Doubled rows still have low-resolution sprites. *)
Line == IF r.doubleRows THEN scene.y \div 2 ELSE scene.y

Wrapped(y) == IF y > (IF Row30 THEN 240 ELSE 224) - Offset THEN y - 256 ELSE y

(* The list ends at its 0xD0, where 30 rows leave that a line like any other. *)
ListEnd(k) == scene.list[k].y = 208 /\ ~Row30

IsZero(a) == /\ a.y = 0 /\ a.x = 0 /\ a.name = 0 /\ a.colour = 0
             /\ ~a.early /\ ~a.flipX /\ ~a.flipY /\ ~a.big

Walked == {k \in 1 .. Min({r.maxSprites, Len(scene.list)}) : \A j \in 1 .. k : ~ListEnd(j)}

PattRow(k) == Line - Offset - Wrapped(scene.list[k].y)

Kept(k) == PattRow(k) \in 0 .. 31 /\ ~(r.unlocked /\ IsZero(scene.list[k]))

Collect ==
  /\ pc = "collect"
  /\ LET kept == {k \in Walked : Kept(k)}
         nth(m) == CHOOSE k \in kept : Cardinality({j \in kept : j <= k}) = m
     IN /\ rows' = [m \in 1 .. Cardinality(kept) |->
                      [attr |-> scene.list[nth(m)], row |-> PattRow(nth(m)), index |-> nth(m) - 1]]
        /\ pc' = IF kept = {} THEN "done" ELSE "draw"
  /\ UNCHANGED <<scene, n, spritesShown, tempStatus, masks, pixels, hasSprites>>

-----------------------------------------------------------------------------
(* One collected sprite: size, clip and pattern *)

(* The attribute as the drawing pass reads it: a locked device has no flips *)
(* and no size bit.                                                        *)
Attr(s) == IF r.unlocked THEN s.attr
           ELSE [s.attr EXCEPT !.flipX = FALSE, !.flipY = FALSE, !.big = FALSE]

Size16(s) == r.size16 \/ Attr(s).big
Opaque(s) == r.size16 /\ Attr(s).big
Mag       == IF r.mag THEN 2 ELSE 1
Height(s) == IF Size16(s) THEN 16 ELSE 8
Width(s)  == (IF Size16(s) THEN 2 ELSE 1) * Unit * Mag

XPos(s) == s.attr.x - (IF s.attr.early THEN Word ELSE 0)

OnThisLine(s) == s.row \div Mag < Height(s)
OffTheLine(s) == XPos(s) > Pixels \/ -XPos(s) > Width(s)

Drop(p, k)   == {o - k : o \in {q \in p : q >= k}}
Right(p, k)  == {o + k : o \in p}
Reversed(p)  == {Unit - 1 - o : o \in p}

Doubled(p) == UNION {{2 * o, 2 * o + 1} : o \in p}

(* A row of one plane of a pattern; flipped, the halves of a 16-pixel one   *)
(* change places and each is reversed.                                     *)
Loaded(s, plane) ==
  LET row   == s.row \div Mag
      down  == IF Attr(s).flipY THEN Height(s) - row - 1 ELSE row
      name  == IF Size16(s) THEN 4 * (s.attr.name \div 4) ELSE s.attr.name
      first == name * 8 + down
      side(addr) == IF Attr(s).flipX THEN Reversed(Pattern[plane][addr]) ELSE Pattern[plane][addr]
  IN IF ~Size16(s) THEN side(first)
     ELSE IF Attr(s).flipX THEN Right(side(first), Unit) \cup side(first + 16)
     ELSE side(first) \cup Right(side(first + 16), Unit)

Planes == 0 .. (IF Ecm = 0 THEN 0 ELSE Ecm - 1)

WholeMask(s) ==
  LET bits == IF Opaque(s) THEN 0 .. 2 * Unit - 1 ELSE UNION {Loaded(s, p) : p \in Planes}
  IN IF r.mag THEN Doubled(bits) ELSE bits

Left(s) == IF XPos(s) < 0 THEN -XPos(s) ELSE 0
At(s)   == IF XPos(s) < 0 THEN 0 ELSE XPos(s)

(* The planes are shifted in pattern pixels, so half a doubled one is lost. *)
PlaneBits(s, p) == Drop(Loaded(s, p), Left(s) \div Mag)

(* mutant: the clip at the right edge is left out *)
TestPattMask(s) == Drop(WholeMask(s), Left(s))
PattMask(s) ==
  LET shifted == IF Left(s) = Word
                 THEN (IF ShiftWraps THEN WholeMask(s) ELSE {})
                 ELSE Drop(WholeMask(s), Left(s))
  IN shifted \cap 0 .. Pixels - At(s) - 1

ClippedWidth(s) == Min({Width(s) - Left(s), Pixels - At(s)})

(* Where a mask's bits land: those past the word's end go to the next word  *)
(* when the sprite's width reaches it.                                     *)
(* mutant: the width of a sprite with the size bit is the register's *)
TestSpread(s, p) ==
  LET bit == At(s) % Word
  IN {At(s) + o : o \in {q \in p : \/ bit + q < Word
                                   \/ Word - bit < (IF r.size16 THEN 2 ELSE 1) * Unit * Mag}}
Spread(s, p) ==
  LET bit == At(s) % Word
  IN {At(s) + o : o \in {q \in p : bit + q < Word \/ Word - bit < ClippedWidth(s)}}

-----------------------------------------------------------------------------
(* The drawing pass *)

(* The number that the bits of these planes spell.                          *)
Spelt(planes) ==
  (IF 0 \in planes THEN 1 ELSE 0) + (IF 1 \in planes THEN 2 ELSE 0) + (IF 2 \in planes THEN 4 ELSE 0)

(* The colour a plane's attribute stands for: level 3 drops its low bit.    *)
Base(s) == (s.attr.colour \div (IF Ecm = 3 THEN 2 ELSE 1)) * 2 ^ Ecm + Pal

(* At an enhanced level each plane adds its bit, and a doubled pixel looks  *)
(* at the half of its offset.                                              *)
Emitted(s, x) ==
  IF Ecm = 0 THEN Base(s)
  ELSE Base(s) + Spelt({q \in Planes : (x - At(s)) \div Mag \in PlaneBits(s, q)})

Drawn(s) == ~r.suppressed /\ (Ecm > 0 \/ s.attr.colour # 0)

(* The status of a sprite past the four: reported once, and when the limit  *)
(* is lifted only past the limit.                                          *)
Fifth(s, shown) ==
  IF /\ shown > ScanLimit /\ tempStatus.fifth = NoFifth
     /\ ~(r.unlocked /\ r.reportMax) \/ shown > r.limit
  THEN s.index ELSE tempStatus.fifth

PastTheLimit(shown) == shown > ScanLimit /\ shown > r.limit

(* A sprite of colour 0 keeps its pixels from the ones after it only.       *)
SetTransparent(valid) == transparent' = transparent \cup valid

(* Claims the sprite's pixels; any of them another had is a collision.      *)
Claim(s) ==
  LET asked == {At(s) + o : o \in PattMask(s)}
      valid == Spread(s, PattMask(s)) \ spriteBits
  IN /\ spriteBits' = spriteBits \cup valid
     /\ tempStatus' = [fifth |-> Fifth(s, spritesShown'),
                       collision |-> tempStatus.collision \/ valid # asked]
     /\ IF Drawn(s)
        THEN /\ pixels' = [x \in Columns |-> IF x \in valid THEN Emitted(s, x) ELSE pixels[x]]
             /\ hasSprites' = TRUE /\ UNCHANGED transparent
        ELSE /\ SetTransparent(valid)
             /\ UNCHANGED <<pixels, hasSprites>>

Next1 == n' = n + 1 /\ UNCHANGED <<scene, rows>>

NotThisLine ==
  /\ pc = "draw" /\ n <= Len(rows) /\ ~OnThisLine(rows[n])
  /\ Next1 /\ UNCHANGED <<spritesShown, tempStatus, masks, pixels, hasSprites, pc>>

(* The sprite that ends the list for this line. *)
Limit ==
  /\ pc = "draw" /\ n <= Len(rows) /\ OnThisLine(rows[n])
  /\ spritesShown' = spritesShown + 1 /\ PastTheLimit(spritesShown')
  /\ tempStatus' = [tempStatus EXCEPT !.fifth = Fifth(rows[n], spritesShown')]
  /\ n' = Len(rows) + 1
  /\ UNCHANGED <<scene, rows, masks, pixels, hasSprites, pc>>

(* A shown sprite with nothing on the line, or nothing to draw, claims none. *)
DrawSprite ==
  /\ pc = "draw" /\ n <= Len(rows) /\ OnThisLine(rows[n])
  /\ spritesShown' = spritesShown + 1 /\ ~PastTheLimit(spritesShown')
  /\ IF OffTheLine(rows[n]) \/ WholeMask(rows[n]) = {} \/ (XPos(rows[n]) < 0 /\ PattMask(rows[n]) = {})
     THEN /\ tempStatus' = [tempStatus EXCEPT !.fifth = Fifth(rows[n], spritesShown')]
          /\ UNCHANGED <<masks, pixels, hasSprites>>
     ELSE Claim(rows[n])
  /\ Next1 /\ UNCHANGED pc

(* The transparent pixels leave the mask the layers above and below use.    *)
WithoutTransparent == (spriteBits \ transparent) \cup (transparent \ spriteBits)

Finish ==
  /\ pc = "draw" /\ n > Len(rows)
  /\ spriteBits' = WithoutTransparent /\ pc' = "done"
  /\ UNCHANGED <<scene, rows, n, spritesShown, tempStatus, transparent, pixels, hasSprites>>

SpriteNext == Collect \/ NotThisLine \/ Limit \/ DrawSprite \/ Finish


-----------------------------------------------------------------------------
(* What the line should show, from positions alone: no words, masks, shifts *)
(* or clips.                                                               *)

ListAttr(k) == IF r.unlocked THEN scene.list[k]
               ELSE [scene.list[k] EXCEPT !.flipX = FALSE, !.flipY = FALSE, !.big = FALSE]
Side(k)     == IF r.size16 \/ ListAttr(k).big THEN 2 ELSE 1

(* The row of the sprite at a line: 24 rows leave no ambiguity modulo 256.  *)
RowAt(k) == IF Row30 THEN PattRow(k) ELSE (Line - Offset - scene.list[k].y) % 256

Hit(k)   == /\ RowAt(k) < 32 /\ RowAt(k) >= 0 /\ RowAt(k) \div Mag < 8 * Side(k)
            /\ ~(r.unlocked /\ IsZero(scene.list[k]))
HitList  == {k \in Walked : Hit(k)}
Rank(k)  == Cardinality({j \in HitList : j <= k})
Shown    == {k \in HitList : Rank(k) <= Max({ScanLimit, r.limit})}

(* The pattern column of a sprite under a pixel, before any flip.           *)
Column(k, x) == (x - scene.list[k].x + (IF scene.list[k].early THEN Word ELSE 0)) \div Mag

Bit(k, p, x) ==
  LET a    == ListAttr(k)
      col  == IF a.flipX THEN Side(k) * Unit - 1 - Column(k, x) ELSE Column(k, x)
      row  == IF a.flipY THEN 8 * Side(k) - 1 - RowAt(k) \div Mag ELSE RowAt(k) \div Mag
      name == IF Side(k) = 2 THEN 4 * (a.name \div 4) ELSE a.name
  IN col % Unit \in Pattern[p][name * 8 + row + 16 * (col \div Unit)]

Covers(k, x) ==
  /\ Column(k, x) \in 0 .. Side(k) * Unit - 1
  /\ (r.size16 /\ ListAttr(k).big) \/ \E p \in Planes : Bit(k, p, x)

Over(x)  == {k \in Shown : Covers(k, x)}
Owner(x) == Min(Over(x))

Visible(x) == Over(x) # {} /\ ~r.suppressed /\ (Ecm > 0 \/ scene.list[Owner(x)].colour # 0)

Colour(k, x) ==
  LET a == scene.list[k]
  IN (a.colour \div (IF Ecm = 3 THEN 2 ELSE 1)) * 2 ^ Ecm + Pal
       + (IF Ecm = 0 THEN 0 ELSE Spelt({q \in Planes : Bit(k, q, x)}))

(* A doubled sprite cut in the middle of one of its pixels by the left edge. *)
HalfCut(k) == Ecm > 0 /\ r.mag /\ scene.list[k].early /\ (Word - scene.list[k].x) % 2 = 1
              /\ scene.list[k].x < Word

(* At the end of a line every pixel shows the first sprite in the list that *)
(* covers it, in the colour its planes spell there, and the mask handed to  *)
(* the layers holds exactly those pixels: a sprite of colour 0 hides the    *)
(* later ones and is then gone.  The colours of a magnified sprite cut at   *)
(* half a pixel are left to ColumnsKept.                                    *)
SpriteLine ==
  pc = "done" =>
    /\ spriteBits = {x \in Columns : Visible(x)}
    /\ ~hasSprites => spriteBits = {}
    /\ \A x \in Columns :
         IF ~Visible(x) THEN pixels[x] = Beneath
         ELSE IF HalfCut(Owner(x)) THEN pixels[x] # Beneath
         ELSE pixels[x] = Colour(Owner(x), x)

(* The line reports a collision exactly when two sprites it shows cover one *)
(* pixel of the display, whatever their colours and though sprites are      *)
(* suppressed, and the fifth sprite exactly when the list holds one past    *)
(* the limit in force.                                                      *)
SpriteStatus ==
  pc = "done" =>
    /\ tempStatus.collision <=> \E x \in Columns : Cardinality(Over(x)) > 1
    /\ LET from == IF r.unlocked /\ r.reportMax THEN Max({ScanLimit, r.limit}) ELSE ScanLimit
           past == {k \in HitList : Rank(k) = from + 1}
       IN tempStatus.fifth = IF past = {} THEN NoFifth ELSE Min(past) - 1

(* Every pixel a sprite shows has the colour of the pattern column doubling *)
(* puts there, also when the left edge cuts a doubled pixel in half.        *)
ColumnsKept ==
  pc = "done" => \A x \in Columns : Visible(x) => pixels[x] = Colour(Owner(x), x)
=============================================================================
