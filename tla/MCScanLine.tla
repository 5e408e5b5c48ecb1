----------------------------- MODULE MCScanLine -----------------------------
(* Scenes for TLC: pattern bytes of 4 pixels, a line of two words, two of  *)
(* MAX_SCANLINE_SPRITES' four sprites.  Each set varies what one stage of  *)
(* the line looks at and keeps the rest plain.                             *)
EXTENDS TextLine

MCPattern ==
  [p \in 0 .. 2 |-> [a \in 0 .. 63 |->
     IF a >= 56 THEN {}
     ELSE {o \in 0 .. Unit - 1 : (a * 7 + (a \div 8) * 3 + o * 5 + p * 3) % (4 + p) \in {0, 2}}]]

Plain == [unlocked |-> FALSE, row30 |-> FALSE, yReal |-> FALSE, doubleRows |-> FALSE,
          size16 |-> FALSE, mag |-> FALSE, ecm |-> 0, pal |-> 16, suppressed |-> FALSE,
          limit |-> 2, reportMax |-> FALSE, maxSprites |-> 4]
Sprite == [y |-> 19, x |-> 3, name |-> 1, colour |-> 5, early |-> FALSE,
           flipX |-> FALSE, flipY |-> FALSE, big |-> FALSE]

Pair(f, g) == [fg |-> f, bg |-> g]
Attribute == [colour |-> 3, priority |-> FALSE, transparent |-> FALSE, flipX |-> FALSE,
              flipY |-> FALSE, pair |-> Pair(4, 0)]
MCNames == [a \in 0 .. 127 |-> (a * 5 + a \div 32 + 3 * (a \div 8)) % 8]
MCAttributes == [a \in 0 .. 127 |->
  [Attribute EXCEPT !.colour = a % 4, !.priority = a % 3 = 0, !.transparent = a % 2 = 0,
                    !.flipX = a % 5 = 1, !.flipY = a % 7 = 2, !.pair = Pair(a % 3, (a + a \div 8) % 4)]]
Layer == [on |-> TRUE, hscroll |-> 0, vscroll |-> 0, wide |-> FALSE, tall |-> FALSE, base |-> 0, pal |-> 16]
Mode == [text |-> FALSE, text80 |-> FALSE, ecm |-> 0, posAttr |-> FALSE, backdrop |-> 9, layer2OnTop |-> FALSE, rows |-> 3,
         fixed |-> Pair(7, 9)]
MCColours == [i \in 0 .. 7 |-> Pair((i * 3) % 4, (i + 1) % 3)]
NoBitmap == [on |-> FALSE, priority |-> FALSE, transparent |-> FALSE, fat |-> FALSE, x |-> 0, top |-> 0,
             width |-> 0, height |-> 40, pal |-> 32, row |-> 0]
(* Row 0 has every value in turn; row k draws nothing in its first k - 1 bytes. *)
MCRows == [k \in 0 .. 8 |-> [i \in 0 .. 7 |-> [q \in 0 .. 3 |->
             IF k = 0 THEN (i + q) % 4 ELSE IF i < k - 1 THEN 0 ELSE 1]]]
Suppressed == [tile1 |-> FALSE, tile2 |-> FALSE, bitmap |-> FALSE]

Bare == [regs |-> Plain, y |-> 21, list |-> <<[Sprite EXCEPT !.y = 99]>>, mode |-> Mode,
         layer |-> <<Layer, [Layer EXCEPT !.on = FALSE]>>, bitmap |-> NoBitmap, suppress |-> Suppressed]

-----------------------------------------------------------------------------
(* Sprites *)

SpriteAt(x, e, f, v, g) ==
  [Sprite EXCEPT !.x = x, !.early = e, !.flipX = f, !.flipY = v, !.big = g]
Sizes == {[Plain EXCEPT !.unlocked = u, !.size16 = s, !.mag = g, !.ecm = e]
           : u \in BOOLEAN, s \in BOOLEAN, g \in BOOLEAN, e \in {0, 1, 3}}
Second == {[Sprite EXCEPT !.x = 9, !.name = 4, !.colour = c] : c \in {0, 9}}
AcrossScenes ==
  {[Bare EXCEPT !.regs = g, !.layer[1].on = FALSE, !.list = <<SpriteAt(x, e, f, f # v, v # e), a>>]
     : g \in Sizes, x \in {0, 3, 6, 13, 15, 31}, e \in BOOLEAN, f \in BOOLEAN, v \in BOOLEAN, a \in Second}

DownRegs == {[Plain EXCEPT !.row30 = w, !.yReal = q, !.mag = q # w, !.doubleRows = d, !.unlocked = w]
              : w \in BOOLEAN, q \in BOOLEAN, d \in BOOLEAN}
DownScenes ==
  {[Bare EXCEPT !.regs = g, !.y = l, !.mode.rows = 24, !.suppress.tile1 = TRUE,
                !.list = <<[Sprite EXCEPT !.y = y], [Sprite EXCEPT !.y = 20, !.x = 9]>>]
     : g \in DownRegs, l \in {0, 1, 14, 28, 191}, y \in {0, 13, 190, 207, 208, 225, 239, 240, 241, 255}}

LimitRegs == {[Plain EXCEPT !.limit = k, !.reportMax = p, !.maxSprites = q, !.unlocked = u]
               : k \in 0 .. 4, p \in BOOLEAN, q \in {2, 5}, u \in BOOLEAN}
LimitScenes ==
  {[Bare EXCEPT !.regs = g, !.regs.suppressed = s, !.layer[1].on = FALSE,
                !.list = [k \in 1 .. 5 |->
                   IF k = gap THEN [Sprite EXCEPT !.y = 99]
                   ELSE IF k = 6 - gap THEN [Sprite EXCEPT !.y = 0, !.x = 0, !.name = 0, !.colour = 0]
                   ELSE [Sprite EXCEPT !.x = 5 * k]]]
     : g \in LimitRegs, gap \in {0, 1, 3, 4}, s \in BOOLEAN}

-----------------------------------------------------------------------------
(* Tiles *)

Open == [Plain EXCEPT !.unlocked = TRUE]
Unlocked == [Bare EXCEPT !.regs = Open, !.list = <<[Sprite EXCEPT !.x = 10], [Sprite EXCEPT !.x = 25, !.big = TRUE]>>]

Scrolls == {0, 2, 3, 5, 31}
LevelScenes ==
  {[Unlocked EXCEPT !.mode.ecm = e, !.mode.posAttr = p, !.mode.layer2OnTop = t, !.mode.text = x,
                    !.list[1].x = IF x THEN 0 ELSE 10,
                    !.layer[2].on = o, !.layer[1].on = o => e # 1,
                    !.layer[1].hscroll = h, !.layer[2].hscroll = g,
                    !.layer[2].base = 32, !.layer[2].pal = 32]
     : e \in {0, 1, 3}, p \in BOOLEAN, t \in BOOLEAN, x \in BOOLEAN, o \in BOOLEAN, h \in Scrolls, g \in {0, 3, 6}}

PageScenes ==
  {[Unlocked EXCEPT !.mode.ecm = e, !.mode.posAttr = e > 0, !.y = y,
                    !.layer[1].hscroll = 13, !.layer[1].vscroll = v, !.layer[1].wide = w, !.layer[1].tall = t,
                    !.layer[1].base = a]
     : e \in {0, 2}, y \in {0, 5, 21}, v \in {0, 7, 24, 30}, w \in BOOLEAN, t \in BOOLEAN, a \in {0, 32, 96}}

BitmapScenes ==
  {[Unlocked EXCEPT !.mode.ecm = e, !.layer[2].on = o, !.layer[2].base = 64, !.layer[1].on = w # 9,
                    !.layer[1].hscroll = h, !.mode.text = o # f,
                    !.bitmap.on = TRUE, !.bitmap.priority = p, !.bitmap.transparent = z, !.bitmap.fat = f,
                    !.bitmap.x = x, !.bitmap.width = w,
                    !.mode.backdrop = IF f THEN 0 ELSE 9, !.layer[2].pal = IF z THEN 0 ELSE 16]
     : e \in {0, 1}, o \in BOOLEAN, h \in {0, 3}, p \in BOOLEAN, z \in BOOLEAN, f \in BOOLEAN,
       x \in {0, 5, 20}, w \in {0, 9, 20}}
HollowScenes ==
  {[Unlocked EXCEPT !.bitmap.on = TRUE, !.bitmap.priority = TRUE, !.bitmap.transparent = TRUE, !.bitmap.row = k]
     : k \in 1 .. 8}

(* Packed text: both layers over their attributes or one in two colours.    *)
PackedScenes ==
  {[Unlocked EXCEPT !.mode.text = TRUE, !.mode.text80 = TRUE, !.mode.posAttr = p,
                    !.layer[1].on = o, !.layer[2].on = q,
                    !.layer[1].hscroll = h, !.layer[2].hscroll = g, !.layer[2].base = 32,
                    !.layer[1].vscroll = v, !.suppress.tile1 = v = 7]
     : p \in BOOLEAN, o \in BOOLEAN, q \in BOOLEAN, h \in {0, 1, 3, 8, 29, 31},
       g \in {0, 8, 28}, v \in {0, 5, 7}}
LockedTextScenes ==
  {[Bare EXCEPT !.mode.text = TRUE, !.mode.text80 = w, !.y = y, !.suppress.tile1 = s, !.layer[1].hscroll = 4]
     : y \in {0, 9, 21}, s \in BOOLEAN, w \in BOOLEAN}

MCScenes == AcrossScenes \cup DownScenes \cup LimitScenes \cup LevelScenes \cup PageScenes
              \cup BitmapScenes \cup HollowScenes \cup PackedScenes \cup LockedTextScenes
=============================================================================
