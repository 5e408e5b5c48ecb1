-------------------------- MODULE PaletteLut_proofs --------------------------
(***************************************************************************)
(* PaletteLut for any number of entries, any colours and any number of     *)
(* events: its types, that no stale entry of the table goes unowed, that a *)
(* line has the colours the host wrote before it, and that it is drawn     *)
(* through a table of its own layout.                                      *)
(***************************************************************************)
EXTENDS PaletteLut, TLAPS

LEMMA Constants == 1 \in Entries /\ Entries \subseteq Nat /\ Layout \in Layouts
  BY NAssumption DEF Entries, Layout, Layouts

(* What the next entry of a loop is. *)
LEMMA NextEntry ==
  ASSUME i \in Entries
  PROVE  i < N => i + 1 \in Entries
  BY NAssumption DEF Entries

(* The records of the table. *)
LEMMA CellType ==
  ASSUME NEW c \in Colours, NEW l \in Layouts
  PROVE  [colour |-> c, layout |-> l] \in [colour : Colours, layout : Layouts \cup {"none"}]
  OBVIOUS

-----------------------------------------------------------------------------
(* Types *)

LEMMA TypingInit == Init => TypeOK
<1> SUFFICES ASSUME Init PROVE TypeOK
  OBVIOUS
<1>1. PaletteType
  BY DefaultAssumption DEF Init, PaletteType
<1>2. FlagsType
  BY Zenon DEF Init, FlagsType
<1>3. PlacesType
  BY Constants, MaxEventsAssumption DEF Init, PlacesType, Layouts
<1> QED
  BY <1>1, <1>2, <1>3 DEF TypeOK

LEMMA PaletteKept ==
  ASSUME PaletteType, UNCHANGED <<pram, lut, shadow>>
  PROVE  PaletteType'
  BY DEF PaletteType

(* Every action of the frame path keeps the types. *)
LEMMA TypingThread ==
  ASSUME TypeOK, Thread
  PROVE  TypeOK'
<1> USE DEF TypeOK, palette, mode, thread, core0, history, Goto
<1>1. CASE StartLine
  <2>1. PaletteType'
    BY <1>1, PaletteKept DEF StartLine
  <2>2. FlagsType'
    BY Zenon, <1>1 DEF StartLine, FlagsType
  <2>3. PlacesType'
    BY <1>1 DEF StartLine, PlacesType
  <2> QED
    BY <2>1, <2>2, <2>3
<1>2. CASE CheckFlag
  <2>1. PaletteType'
    BY <1>2, PaletteKept DEF CheckFlag
  <2>2. FlagsType'
    BY Zenon, <1>2 DEF CheckFlag, FlagsType
  <2>3. PlacesType'
    BY <1>2 DEF CheckFlag, PlacesType
  <2> QED
    BY <2>1, <2>2, <2>3
<1>3. CASE CheckBusy
  <2>1. PaletteType'
    BY <1>3, PaletteKept DEF CheckBusy
  <2>2. FlagsType'
    BY Zenon, <1>3 DEF CheckBusy, AfterPalette, FlagsType
  <2>3. PlacesType'
    BY <1>3 DEF CheckBusy, AfterPalette, PlacesType
  <2> QED
    BY <2>1, <2>2, <2>3
<1>4. CASE FixLayout
  <2>1. PaletteType'
    BY <1>4, PaletteKept DEF FixLayout
  <2>2. FlagsType'
    BY Zenon, <1>4 DEF FixLayout, FlagsType
  <2>3. PlacesType'
    BY <1>4, Constants DEF FixLayout, PlacesType
  <2> QED
    BY <2>1, <2>2, <2>3
<1>5. CASE TestForced
  <2>1. PaletteType'
    BY <1>5, PaletteKept DEF TestForced
  <2>2. FlagsType'
    BY Zenon, <1>5 DEF TestForced, FlagsType
  <2>3. PlacesType'
    BY <1>5, Constants DEF TestForced, PlacesType
  <2> QED
    BY <2>1, <2>2, <2>3
<1>6. CASE Compare
  <2>1. PaletteType'
    BY <1>6, PaletteKept DEF Compare
  <2>2. FlagsType'
    BY Zenon, <1>6 DEF Compare, AfterPalette, FlagsType
  <2>3. PlacesType'
    BY <1>6, Constants, NextEntry DEF Compare, AfterPalette, PlacesType
  <2> QED
    BY <2>1, <2>2, <2>3
<1>7. CASE ClearDirty
  <2>1. PaletteType'
    BY <1>7, PaletteKept DEF ClearDirty
  <2>2. FlagsType'
    BY Zenon, <1>7 DEF ClearDirty, FlagsType
  <2>3. PlacesType'
    BY <1>7 DEF ClearDirty, PlacesType
  <2> QED
    BY <2>1, <2>2, <2>3
<1>8. CASE CopyShadow
  <2>1. PaletteType'
    BY <1>8 DEF CopyShadow, PaletteType, PlacesType
  <2>2. FlagsType'
    BY Zenon, <1>8 DEF CopyShadow, FlagsType
  <2>3. PlacesType'
    BY <1>8, Constants, NextEntry DEF CopyShadow, PlacesType
  <2> QED
    BY <2>1, <2>2, <2>3
<1>9. CASE Convert
  <2>1. PaletteType'
    BY <1>9, CellType DEF Convert, PaletteType, PlacesType
  <2>2. FlagsType'
    BY Zenon, <1>9 DEF Convert, AfterPalette, FlagsType
  <2>3. PlacesType'
    BY <1>9, Constants, NextEntry DEF Convert, AfterPalette, PlacesType
  <2> QED
    BY <2>1, <2>2, <2>3
<1>10. CASE ScanLine
  <2>1. PaletteType'
    BY <1>10, PaletteKept DEF ScanLine
  <2>2. FlagsType'
    BY Zenon, <1>10 DEF ScanLine, FlagsType
  <2>3. PlacesType'
    BY <1>10 DEF ScanLine, PlacesType
  <2> QED
    BY <2>1, <2>2, <2>3
<1>11. CASE Expand
  <2>1. PaletteType'
    BY <1>11, PaletteKept DEF Expand
  <2>2. FlagsType'
    BY Zenon, <1>11 DEF Expand, FlagsType
  <2>3. PlacesType'
    BY <1>11 DEF Expand, PlacesType
  <2> QED
    BY <2>1, <2>2, <2>3
<1> QED
  BY <1>1, <1>2, <1>3, <1>4, <1>5, <1>6, <1>7, <1>8, <1>9, <1>10, <1>11 DEF Thread

(* So does every other actor's, a console reset included. *)
LEMMA TypingOthers ==
  ASSUME TypeOK, Host \/ ConfigSeedsPalette \/ ConsoleReset \/ Gpu \/ Rearm
  PROVE  TypeOK'
<1> USE DEF TypeOK, palette, mode, thread, core0, history
<1>0. Spend => events' \in 0..MaxEvents
  BY MaxEventsAssumption DEF Spend, PlacesType
<1>1. ASSUME NEW e \in Entries, NEW c \in Colours, HostWritesEntry(e, c)
      PROVE  TypeOK'
  <2>1. PaletteType'
    BY <1>1 DEF HostWritesEntry, PaletteType
  <2>2. FlagsType'
    BY Zenon, <1>1 DEF HostWritesEntry, FlagsType
  <2>3. PlacesType'
    BY <1>1, <1>0 DEF HostWritesEntry, PlacesType
  <2> QED
    BY <2>1, <2>2, <2>3
<1>2. ASSUME NEW t \in BOOLEAN, HostSetsMode(t)
      PROVE  TypeOK'
  <2>1. PaletteType'
    BY <1>2, PaletteKept DEF HostSetsMode
  <2>2. FlagsType'
    BY Zenon, <1>2 DEF HostSetsMode, FlagsType
  <2>3. PlacesType'
    BY <1>2, <1>0 DEF HostSetsMode, PlacesType
  <2> QED
    BY <2>1, <2>2, <2>3
<1>3. CASE HostSetsLock
  <2>1. PaletteType'
    BY <1>3, PaletteKept DEF HostSetsLock
  <2>2. FlagsType'
    BY Zenon, <1>3 DEF HostSetsLock, FlagsType
  <2>3. PlacesType'
    BY <1>3, <1>0 DEF HostSetsLock, PlacesType
  <2> QED
    BY <2>1, <2>2, <2>3
<1>4. CASE HostResetsRegisters
  <2>1. PaletteType'
    BY <1>4, PaletteKept DEF HostResetsRegisters
  <2>2. FlagsType'
    BY Zenon, <1>4 DEF HostResetsRegisters, FlagsType
  <2>3. PlacesType'
    BY <1>4, <1>0 DEF HostResetsRegisters, PlacesType
  <2> QED
    BY <2>1, <2>2, <2>3
<1>5. CASE ConfigSeedsPalette
  <2>1. PaletteType'
    BY <1>5, DefaultAssumption DEF ConfigSeedsPalette, PaletteType
  <2>2. FlagsType'
    BY Zenon, <1>5 DEF ConfigSeedsPalette, FlagsType
  <2>3. PlacesType'
    BY <1>5, <1>0, DefaultAssumption DEF ConfigSeedsPalette, PlacesType
  <2> QED
    BY <2>1, <2>2, <2>3
<1>6. CASE ConsoleReset
  <2>1. PaletteType'
    BY <1>6, DefaultAssumption DEF ConsoleReset, PaletteType
  <2>2. FlagsType'
    BY Zenon, <1>6 DEF ConsoleReset, FlagsType
  <2>3. PlacesType'
    BY <1>6, <1>0, DefaultAssumption DEF ConsoleReset, PlacesType
  <2> QED
    BY <2>1, <2>2, <2>3
<1>7. CASE GpuStart \/ GpuStop
  <2>1. PaletteType'
    BY <1>7, PaletteKept DEF GpuStart, GpuStop
  <2>2. FlagsType'
    BY Zenon, <1>7 DEF GpuStart, GpuStop, FlagsType
  <2>3. PlacesType'
    BY <1>7, <1>0 DEF GpuStart, GpuStop, PlacesType
  <2> QED
    BY <2>1, <2>2, <2>3
<1>8. CASE RaiseFault \/ DropGuard
  <2>1. PaletteType'
    BY <1>8, PaletteKept DEF RaiseFault, DropGuard
  <2>2. FlagsType'
    BY Zenon, <1>8 DEF RaiseFault, DropGuard, FlagsType
  <2>3. PlacesType'
    BY <1>8, <1>0 DEF RaiseFault, DropGuard, PlacesType
  <2> QED
    BY <2>1, <2>2, <2>3
<1>9. ASSUME NEW e \in Entries, NEW c \in Colours, GpuWritesEntry(e, c)
      PROVE  TypeOK'
  <2>1. PaletteType'
    BY <1>9 DEF GpuWritesEntry, PaletteType
  <2>2. FlagsType'
    BY Zenon, <1>9 DEF GpuWritesEntry, FlagsType
  <2>3. PlacesType'
    BY <1>9, <1>0 DEF GpuWritesEntry, PlacesType
  <2> QED
    BY <2>1, <2>2, <2>3
<1>10. CASE RearmTest \/ RearmGuard \/ RearmAnnounce
  <2>1. PaletteType'
    BY <1>10, PaletteKept DEF RearmTest, RearmGuard, RearmAnnounce
  <2>2. FlagsType'
    BY Zenon, <1>10 DEF RearmTest, RearmGuard, RearmAnnounce, FlagsType
  <2>3. PlacesType'
    BY <1>10, <1>0 DEF RearmTest, RearmGuard, RearmAnnounce, PlacesType
  <2> QED
    BY <2>1, <2>2, <2>3
<1> QED
  BY <1>1, <1>2, <1>3, <1>4, <1>5, <1>6, <1>7, <1>8, <1>9, <1>10 DEF Host, Gpu, Rearm

(* Every reachable state is well typed, console resets included. *)
THEOREM Typing == SpecReset => []TypeOK
<1>1. ASSUME TypeOK, [NextReset]_vars PROVE TypeOK'
  <2>1. CASE UNCHANGED vars
    BY <1>1, <2>1 DEF TypeOK, PaletteType, FlagsType, PlacesType, vars, palette, mode,
                      thread, core0, history
  <2> QED
    BY <1>1, <2>1, TypingThread, TypingOthers DEF NextReset, Next
<1> QED
  BY <1>1, TypingInit, PTL DEF SpecReset

-----------------------------------------------------------------------------
(* The stale entries *)

(* Only these of the frame path's actions touch what the invariant looks at *)
(* in a way that could lose an owed entry.                                  *)
LEMMA StaleThread ==
  ASSUME TypeOK, StaleIsAnnounced, Thread
  PROVE  StaleIsAnnounced'
<1> USE DEF StaleIsAnnounced, Ahead, palette, mode, thread, core0, history, Goto
<1>1. CASE StartLine \/ CheckFlag \/ FixLayout
  BY <1>1 DEF StartLine, CheckFlag, FixLayout
<1>2. CASE CheckBusy \/ TestForced
  BY <1>2 DEF CheckBusy, TestForced
<1>3. CASE Compare
  BY <1>3 DEF Compare
<1>4. CASE ClearDirty
  BY <1>4 DEF ClearDirty
<1>5. CASE CopyShadow
  BY <1>5, NAssumption DEF CopyShadow, Entries
<1>6. CASE Convert
  <2>1. /\ palDirty' = palDirty /\ guardOff' = guardOff /\ gpu' = gpu
        /\ rearm' = rearm /\ pram' = pram /\ pc = "convert"
    BY <1>6 DEF Convert
  <2>2. \A e \in Entries : lut'[e].colour = (IF e = i THEN pram[e] ELSE lut[e].colour)
    BY <1>6 DEF Convert, TypeOK, PaletteType, PlacesType
  <2>3. \A e \in Entries : e # i /\ i <= e => pc' = "convert" /\ i' <= e
    BY <1>6, NAssumption DEF Convert, TypeOK, PlacesType, Entries
  <2> QED
    BY <2>1, <2>2, <2>3
<1>7. CASE ScanLine \/ Expand
  BY <1>7 DEF ScanLine, Expand, TypeOK, FlagsType
<1> QED
  BY <1>1, <1>2, <1>3, <1>4, <1>5, <1>6, <1>7 DEF Thread

LEMMA StaleOthers ==
  ASSUME TypeOK, StaleIsAnnounced, Host \/ ConfigSeedsPalette \/ ConsoleReset \/ Gpu \/ Rearm
  PROVE  StaleIsAnnounced'
<1> USE DEF StaleIsAnnounced, Ahead, palette, mode, thread, core0, history
<1>1. CASE Host
  BY <1>1 DEF Host, HostWritesEntry, HostSetsMode, HostSetsLock, HostResetsRegisters
<1>2. CASE ConfigSeedsPalette \/ ConsoleReset
  BY <1>2 DEF ConfigSeedsPalette, ConsoleReset
<1>3. CASE GpuStart \/ GpuStop \/ RaiseFault \/ DropGuard
  BY <1>3 DEF GpuStart, GpuStop, RaiseFault, DropGuard
<1>4. ASSUME NEW e \in Entries, NEW c \in Colours, GpuWritesEntry(e, c)
      PROVE  StaleIsAnnounced'
  BY <1>4 DEF GpuWritesEntry, TypeOK, PaletteType, PlacesType
<1>5. CASE Rearm
  BY <1>5 DEF Rearm, RearmTest, RearmGuard, RearmAnnounce
<1> QED
  BY <1>1, <1>2, <1>3, <1>4, <1>5 DEF Gpu

(* No stale entry of the table goes unowed: the clear before the reads in   *)
(* palette_regenerate, the flag before the guard in gpuPaletteFault, and    *)
(* the flag after the guard in the re-arm are together enough, whatever the *)
(* interleaving and however many entries a rebuild has.                     *)
THEOREM StaleIsAnnouncedHolds == SpecReset => []StaleIsAnnounced
<1>1. Init => StaleIsAnnounced
  BY DEF Init, StaleIsAnnounced
<1>2. ASSUME TypeOK, StaleIsAnnounced, [NextReset]_vars PROVE StaleIsAnnounced'
  <2>1. CASE UNCHANGED vars
    BY <1>2, <2>1 DEF StaleIsAnnounced, Ahead, vars, palette, mode, thread, core0, history
  <2> QED
    BY <1>2, <2>1, StaleThread, StaleOthers DEF NextReset, Next
<1> QED
  BY <1>1, <1>2, Typing, PTL DEF SpecReset

-----------------------------------------------------------------------------
(* The host's colours *)

LEMMA ColoursThread ==
  ASSUME TypeOK, ColoursInv, Thread
  PROVE  ColoursInv'
<1> USE DEF ColoursInv, Ahead, Behind, palette, mode, thread, core0, history, Goto
<1>1. CASE StartLine
  BY <1>1 DEF StartLine, TypeOK, PlacesType
<1>2. CASE CheckFlag \/ FixLayout
  BY <1>2 DEF CheckFlag, FixLayout
<1>3. CASE CheckBusy \/ TestForced
  BY <1>3 DEF CheckBusy, TestForced, AfterPalette
<1>4. CASE Compare
  BY <1>4 DEF Compare, AfterPalette
<1>5. CASE ClearDirty
  BY <1>5 DEF ClearDirty
<1>6. CASE CopyShadow
  BY <1>6, NAssumption DEF CopyShadow, Entries
<1>7. CASE Convert
  <2>1. /\ palDirty' = palDirty /\ pram' = pram /\ origin' = origin /\ pc = "convert"
    BY <1>7 DEF Convert
  <2>2. \A e \in Entries : lut'[e].colour = (IF e = i THEN pram[e] ELSE lut[e].colour)
    BY <1>7 DEF Convert, TypeOK, PaletteType, PlacesType
  <2>3. \A e \in Entries : e # i /\ i <= e => pc' = "convert" /\ i' <= e /\ ~(e < i')
    BY <1>7, NAssumption DEF Convert, TypeOK, PlacesType, Entries
  <2>4. \A e \in Entries : i <= e \/ e < i
    BY DEF TypeOK, PlacesType, Entries
  <2> QED
    BY <2>1, <2>2, <2>3, <2>4
<1>8. CASE ScanLine \/ Expand
  BY <1>8 DEF ScanLine, Expand, TypeOK, FlagsType
<1> QED
  BY <1>1, <1>2, <1>3, <1>4, <1>5, <1>6, <1>7, <1>8 DEF Thread

LEMMA ColoursOthers ==
  ASSUME TypeOK, ColoursInv, Host \/ ConfigSeedsPalette \/ ConsoleReset \/ Gpu \/ Rearm
  PROVE  ColoursInv'
<1> USE DEF ColoursInv, Ahead, Behind, palette, mode, thread, core0, history
<1>1. ASSUME NEW e \in Entries, NEW c \in Colours, HostWritesEntry(e, c)
      PROVE  ColoursInv'
  BY <1>1 DEF HostWritesEntry, TypeOK, PaletteType, PlacesType
<1>2. CASE (\E t \in BOOLEAN : HostSetsMode(t)) \/ HostSetsLock \/ HostResetsRegisters
  BY <1>2 DEF HostSetsMode, HostSetsLock, HostResetsRegisters
<1>3. CASE ConfigSeedsPalette \/ ConsoleReset
  BY <1>3 DEF ConfigSeedsPalette, ConsoleReset
<1>4. CASE GpuStart \/ GpuStop \/ RaiseFault \/ DropGuard
  BY <1>4 DEF GpuStart, GpuStop, RaiseFault, DropGuard
<1>5. ASSUME NEW e \in Entries, NEW c \in Colours, GpuWritesEntry(e, c)
      PROVE  ColoursInv'
  BY <1>5 DEF GpuWritesEntry, TypeOK, PaletteType, PlacesType
<1>6. CASE Rearm
  BY <1>6 DEF Rearm, RearmTest, RearmGuard, RearmAnnounce
<1> QED
  BY <1>1, <1>2, <1>3, <1>4, <1>5, <1>6 DEF Host, Gpu

(* What the host wrote before a line began is on that line, a console reset *)
(* at any time included: the flag is tested once per line, and a rebuild   *)
(* that is past an entry has read it after the line began                  *)
(* (pico9918_palette_dirty, palette_regenerate).                           *)
THEOREM HostColoursOnTheLineHolds == SpecReset => []HostColoursOnTheLine
<1>1. Init => ColoursInv
  BY DEF Init, ColoursInv, Behind
<1>2. ASSUME TypeOK, ColoursInv, [NextReset]_vars PROVE ColoursInv'
  <2>1. CASE UNCHANGED vars
    BY <1>2, <2>1 DEF ColoursInv, Ahead, Behind, vars, palette, mode, thread, core0, history
  <2> QED
    BY <1>2, <2>1, ColoursThread, ColoursOthers DEF NextReset, Next
<1>3. ColoursInv => HostColoursOnTheLine
  BY DEF ColoursInv, HostColoursOnTheLine
<1> QED
  BY <1>1, <1>2, <1>3, Typing, PTL DEF SpecReset

-----------------------------------------------------------------------------
(* The layout *)

LEMMA LayoutThread ==
  ASSUME WideTier = FALSE, TypeOK, LayoutInv, Thread
  PROVE  LayoutInv'
<1> USE DEF LayoutInv, Layout, Ahead, Behind, palette, mode, thread, core0, history, Goto
<1>1. CASE StartLine \/ CheckFlag \/ FixLayout
  BY <1>1 DEF StartLine, CheckFlag, FixLayout
<1>2. CASE CheckBusy \/ TestForced
  BY <1>2 DEF CheckBusy, TestForced, AfterPalette
<1>3. CASE Compare
  BY <1>3 DEF Compare, AfterPalette
<1>4. CASE ClearDirty
  BY <1>4 DEF ClearDirty
<1>5. CASE CopyShadow
  BY <1>5, NAssumption DEF CopyShadow, Entries
<1>6. CASE Convert
  <2>1. /\ palDirty' = palDirty /\ pc = "convert" /\ want = Layout /\ Layout' = Layout
        /\ want' = want /\ pc' \in {"convert", "scan", "idle"}
    BY <1>6 DEF Convert, AfterPalette
  <2>2. \A e \in Entries : lut'[e].layout = (IF e = i THEN want ELSE lut[e].layout)
    BY <1>6 DEF Convert, TypeOK, PaletteType, PlacesType
  <2>3. \A e \in Entries : e # i /\ i <= e => pc' = "convert" /\ i' <= e /\ ~(e < i')
    BY <1>6, NAssumption DEF Convert, TypeOK, PlacesType, Entries
  <2>4. \A e \in Entries : i <= e \/ e < i
    BY DEF TypeOK, PlacesType, Entries
  <2> QED
    BY <2>1, <2>2, <2>3, <2>4
<1>7. CASE ScanLine
  BY <1>7 DEF ScanLine, TypeOK, FlagsType
<1>8. CASE Expand
  BY <1>8 DEF Expand
<1> QED
  BY <1>1, <1>2, <1>3, <1>4, <1>5, <1>6, <1>7, <1>8 DEF Thread

LEMMA LayoutOthers ==
  ASSUME WideTier = FALSE, TypeOK, LayoutInv, Host \/ ConfigSeedsPalette \/ Gpu \/ Rearm
  PROVE  LayoutInv'
<1> USE DEF LayoutInv, Layout, Ahead, Behind, palette, mode, thread, core0, history
<1>1. CASE Host
  BY <1>1 DEF Host, HostWritesEntry, HostSetsMode, HostSetsLock, HostResetsRegisters
<1>2. CASE ConfigSeedsPalette
  BY <1>2 DEF ConfigSeedsPalette
<1>3. CASE Gpu
  BY <1>3 DEF Gpu, GpuStart, GpuStop, RaiseFault, DropGuard, GpuWritesEntry
<1>4. CASE Rearm
  BY <1>4 DEF Rearm, RearmTest, RearmGuard, RearmAnnounce
<1> QED
  BY <1>1, <1>2, <1>3, <1>4

(* Without the wide tier, where the lock does not decide the layout, a line *)
(* whose mode and lock stay is drawn through a table of its own layout: a  *)
(* rebuild fixes the layout before it takes the flag, and a line that      *)
(* samples another mode raises it (palette_regenerate, scan_line).         *)
THEOREM LayoutFollowsHolds ==
  ASSUME WideTier = FALSE
  PROVE  Spec => []LayoutFollows
<1>1. Init => LayoutInv
  BY DEF Init, LayoutInv, Behind
<1>2. ASSUME TypeOK, LayoutInv, [Next]_vars PROVE LayoutInv'
  <2>1. CASE UNCHANGED vars
    BY <1>2, <2>1 DEF LayoutInv, Layout, Ahead, Behind, vars, palette, mode, thread, core0, history
  <2> QED
    BY <1>2, <2>1, LayoutThread, LayoutOthers DEF Next
<1>3. LayoutInv => LayoutFollows
  BY DEF LayoutInv, LayoutFollows
<1>4. Next => NextReset
  BY DEF NextReset
<1>5. Spec => SpecReset
  BY <1>4, PTL DEF Spec, SpecReset
<1> QED
  BY <1>1, <1>2, <1>3, <1>5, Typing, PTL DEF Spec
=============================================================================
