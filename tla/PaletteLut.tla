----------------------------- MODULE PaletteLut -----------------------------
(***************************************************************************)
(* The converted palette of a board build: palette RAM, the lookup table   *)
(* the scanline expansion reads, and the flags that say the table is owed  *)
(* a rebuild.                                                              *)
(*                                                                         *)
(* Three actors.  The frame path on core 1 tests the flags once per line   *)
(* and rebuilds, one action per access another actor can see.  The host's  *)
(* handlers preempt it on the same core, each one action.  The GPU runs on *)
(* core 0 with an MPU region over palette RAM: its first write faults,     *)
(* raises the dirty flag and drops the region, and core 0's scanline       *)
(* interrupt puts the region back once the renderer has taken the flag.    *)
(***************************************************************************)
EXTENDS Integers

CONSTANTS
  N,          (* palette entries                                           *)
  Colours,    (* values of an entry                                        *)
  Default,    (* the colour a reset or the settings block seeds            *)
  WideTier,   (* the board draws unlocked 80-column text a byte a pixel    *)
  MaxEvents   (* bound on what the host and the GPU change in a behaviour  *)

ASSUME NAssumption == N \in Nat \ {0}
ASSUME DefaultAssumption == Default \in Colours
ASSUME WideTierAssumption == WideTier \in BOOLEAN
ASSUME MaxEventsAssumption == MaxEvents \in Nat

VARIABLES
  pram,          (* palette RAM                                            *)
  lut,           (* the table: a colour and the layout it was built for    *)
  shadow,        (* paletteShadow: palette RAM as of the last rebuild      *)
  shadowLayout,  (* paletteShadowLayout, "none" before the first rebuild   *)
  palDirty,      (* the table is owed a rebuild                            *)
  busy,          (* SR2 bit 7: the GPU runs                                *)
  guardOff,      (* the MPU region over palette RAM is down                *)
  text80,        (* R0 selects 80-column text                              *)
  cachedText80,  (* pico9918_cached_mode, as of the last line rendered     *)
  unlocked,      (* isUnlocked                                             *)
  pc,            (* the frame path's next access                           *)
  i,             (* the entry a loop is at                                 *)
  want,          (* pixelsDoubled of the running rebuild                   *)
  active,        (* the line is an active one, not the last border line    *)
  gpu,           (* the GPU's place                                        *)
  rearm,         (* the place of core 0's scanline interrupt               *)
  events,        (* changes so far                                         *)
  origin,        (* history: who wrote an entry last, and on which line    *)
  steady         (* history: the line's layout has not changed under it    *)

palette == <<pram, lut, shadow, shadowLayout>>
mode    == <<text80, cachedText80, unlocked>>
thread  == <<pc, i, want, active>>
core0   == <<busy, guardOff, gpu, rearm>>
history == <<origin, steady>>
vars    == <<palette, palDirty, mode, thread, core0, events, history>>

Entries == 1..N
Layouts == {"doubled", "paired"}

(* A packed 80-column byte is two pixels; every other byte is one. *)
Layout == IF cachedText80 /\ ~(unlocked /\ WideTier) THEN "paired" ELSE "doubled"

Init ==
  /\ pram = [e \in Entries |-> Default] /\ palDirty = TRUE
  /\ lut \in [Entries -> [colour : Colours, layout : {"none"}]]
  /\ shadow \in [Entries -> Colours] /\ shadowLayout = "none"
  /\ busy = FALSE /\ guardOff = FALSE /\ gpu = "stopped" /\ rearm = "idle"
  /\ text80 = FALSE /\ cachedText80 = FALSE /\ unlocked = FALSE
  /\ pc = "idle" /\ i = 1 /\ want = "doubled" /\ active = FALSE
  /\ events = 0
  /\ origin = [e \in Entries |-> "before"] /\ steady = TRUE

-----------------------------------------------------------------------------
(* The frame path on core 1 *)

Goto(from, to) == pc = from /\ pc' = to

AfterPalette == IF active THEN "scan" ELSE "idle"

(* A line that looks at the palette: an active one or the last border line. *)
StartLine ==
  /\ Goto("idle", "check")
  /\ active' \in BOOLEAN
  /\ steady' = TRUE
  /\ origin' = [e \in Entries |-> IF origin[e] = "line" THEN "before" ELSE origin[e]]
  /\ UNCHANGED <<palette, palDirty, mode, i, want, core0, events>>

CheckFlagNever ==   \* mutant: only the suspicion is looked at
  /\ Goto("check", "suspect")
  /\ UNCHANGED <<palette, palDirty, mode, i, want, active, core0, events, history>>

(* palette_dirty: the flag, then the suspicion. *)
CheckFlag ==
  /\ Goto("check", IF palDirty THEN "layout" ELSE "suspect")
  /\ UNCHANGED <<palette, palDirty, mode, i, want, active, core0, events, history>>

CheckBusy ==
  /\ Goto("suspect", IF busy THEN "layout" ELSE AfterPalette)
  /\ UNCHANGED <<palette, palDirty, mode, i, want, active, core0, events, history>>

(* palette_regenerate fixes the layout first ... *)
FixLayout ==
  /\ Goto("layout", "test")
  /\ want' = Layout
  /\ UNCHANGED <<palette, palDirty, mode, i, active, core0, events, history>>

(* ... and only a suspicion compares palette RAM with its shadow. *)
TestForced ==
  /\ Goto("test", IF ~palDirty /\ shadowLayout = want THEN "compare" ELSE "clear")
  /\ i' = 1
  /\ UNCHANGED <<palette, palDirty, mode, want, active, core0, events, history>>

Compare ==
  /\ pc = "compare"
  /\ \/ pram[i] # shadow[i] /\ pc' = "clear" /\ i' = 1
     \/ pram[i] = shadow[i] /\ i < N /\ i' = i + 1 /\ UNCHANGED pc
     \/ pram[i] = shadow[i] /\ i = N /\ pc' = AfterPalette /\ i' = 1
  /\ UNCHANGED <<palette, palDirty, mode, want, active, core0, events, history>>

ClearNothing ==   \* mutant: the flag is never taken
  /\ Goto("clear", "copy")
  /\ UNCHANGED <<palette, palDirty, mode, i, want, active, core0, events, history>>

(* The clear precedes every read of palette RAM, the shadow's included. *)
ClearDirty ==
  /\ Goto("clear", "copy")
  /\ palDirty' = FALSE
  /\ UNCHANGED <<palette, mode, i, want, active, core0, events, history>>

CopyShadow ==
  /\ pc = "copy"
  /\ shadow' = [shadow EXCEPT ![i] = pram[i]]
  /\ IF i < N THEN i' = i + 1 /\ UNCHANGED <<pc, shadowLayout>>
     ELSE i' = 1 /\ pc' = "convert" /\ shadowLayout' = want
  /\ UNCHANGED <<pram, lut, palDirty, mode, want, active, core0, events, history>>

Convert ==
  /\ pc = "convert"
  /\ lut' = [lut EXCEPT ![i] = [colour |-> pram[i], layout |-> want]]
  /\ IF i < N THEN i' = i + 1 /\ UNCHANGED pc ELSE i' = 1 /\ pc' = AfterPalette
  /\ UNCHANGED <<pram, shadow, shadowLayout, palDirty, mode, want, active, core0, events, history>>

(* scan_line takes the mode of the line; a change owes a rebuild, which     *)
(* only the next line can pay.                                              *)
ScanLineOwesNothing ==   \* mutant: a mode change is not announced
  /\ Goto("scan", "expand")
  /\ cachedText80' = text80
  /\ steady' = (steady /\ text80 = cachedText80)
  /\ UNCHANGED <<palette, palDirty, text80, unlocked, i, want, active, core0, events, origin>>

ScanLine ==
  /\ Goto("scan", "expand")
  /\ cachedText80' = text80
  /\ palDirty' = (palDirty \/ text80 # cachedText80)
  /\ steady' = (steady /\ text80 = cachedText80)
  /\ UNCHANGED <<palette, text80, unlocked, i, want, active, core0, events, origin>>

(* The line goes through the table. *)
Expand ==
  /\ Goto("expand", "idle")
  /\ UNCHANGED <<palette, palDirty, mode, i, want, active, core0, events, history>>

Thread ==
  \/ StartLine \/ CheckFlag \/ CheckBusy \/ FixLayout \/ TestForced \/ Compare
  \/ ClearDirty \/ CopyShadow \/ Convert \/ ScanLine \/ Expand

-----------------------------------------------------------------------------
(* The host, in handlers on core 1 *)

Spend == events < MaxEvents /\ events' = events + 1

(* The second byte of a palette entry through the data port. *)
HostWritesEntrySilently(e, c) ==   \* mutant: the write raises nothing
  /\ Spend
  /\ pram' = [pram EXCEPT ![e] = c]
  /\ origin' = [origin EXCEPT ![e] = "line"]
  /\ UNCHANGED <<lut, shadow, shadowLayout, palDirty, mode, thread, core0, steady>>

HostWritesEntry(e, c) ==
  /\ Spend
  /\ pram' = [pram EXCEPT ![e] = c] /\ palDirty' = TRUE
  /\ origin' = [origin EXCEPT ![e] = "line"]
  /\ UNCHANGED <<lut, shadow, shadowLayout, mode, thread, core0, steady>>

HostSetsMode(t) ==
  /\ Spend
  /\ text80' = t
  /\ UNCHANGED <<palette, palDirty, cachedText80, unlocked, thread, core0, history>>

(* The unlock register, a write that changes the lock. *)
HostSetsLock ==
  /\ Spend
  /\ unlocked' = ~unlocked /\ palDirty' = TRUE /\ steady' = FALSE
  /\ UNCHANGED <<palette, text80, cachedText80, thread, core0, origin>>

(* R50's reset bit relocks and leaves 80-column text; no flag is raised. *)
HostResetsRegisters ==
  /\ Spend /\ unlocked
  /\ unlocked' = FALSE /\ text80' = FALSE /\ steady' = FALSE
  /\ UNCHANGED <<palette, palDirty, cachedText80, thread, core0, origin>>

Host ==
  \/ \E e \in Entries, c \in Colours : HostWritesEntry(e, c)
  \/ \E t \in BOOLEAN : HostSetsMode(t)
  \/ HostSetsLock \/ HostResetsRegisters

(* The settings block seeds the palette at the end of a frame. *)
ConfigSeedsPalette ==
  /\ Spend /\ pc = "idle"
  /\ pram' = [e \in Entries |-> Default] /\ palDirty' = TRUE
  /\ origin' = [e \in Entries |-> "line"]
  /\ UNCHANGED <<lut, shadow, shadowLayout, mode, thread, core0, steady>>

ConsoleReset ==
  /\ Spend
  /\ pram' = [e \in Entries |-> Default] /\ palDirty' = TRUE
  /\ text80' = FALSE /\ cachedText80' = FALSE /\ unlocked' = FALSE
  /\ origin' = [e \in Entries |-> "line"] /\ steady' = FALSE
  /\ UNCHANGED <<lut, shadow, shadowLayout, thread, core0>>

-----------------------------------------------------------------------------
(* The GPU and the guard, on core 0.  An interrupt of core 0 preempts the   *)
(* GPU, so neither moves while the other is half way.                       *)

GpuStart ==
  /\ rearm = "idle" /\ gpu = "stopped"
  /\ gpu' = "runs" /\ busy' = TRUE
  /\ UNCHANGED <<palette, palDirty, mode, thread, guardOff, rearm, events, history>>

GpuStop ==
  /\ rearm = "idle" /\ gpu = "runs"
  /\ gpu' = "stopped" /\ busy' = FALSE
  /\ UNCHANGED <<palette, palDirty, mode, thread, guardOff, rearm, events, history>>

(* A write under the guard faults; the handler turns the MPU off, the write *)
(* is retried and lands, and the program stops.                             *)
GpuWritesEntry(e, c) ==
  /\ rearm = "idle" /\ gpu = "runs" /\ Spend
  /\ pram' = [pram EXCEPT ![e] = c]
  /\ gpu' = IF guardOff THEN "runs" ELSE "faulted"
  /\ origin' = [origin EXCEPT ![e] = "gpu"]
  /\ UNCHANGED <<lut, shadow, shadowLayout, palDirty, mode, thread, busy, guardOff, rearm, steady>>

(* gpuPaletteFault: the flag, then the guard, and the program goes on. *)
RaiseFault ==
  /\ rearm = "idle" /\ gpu = "faulted"
  /\ palDirty' = TRUE /\ gpu' = "flagged"
  /\ UNCHANGED <<palette, mode, thread, busy, guardOff, rearm, events, history>>

DropGuard ==
  /\ rearm = "idle" /\ gpu = "flagged"
  /\ guardOff' = TRUE /\ gpu' = "runs"
  /\ UNCHANGED <<palette, palDirty, mode, thread, busy, rearm, events, history>>

(* gpu_rearm_palette_guard, from the scanline interrupt while the guard is  *)
(* down: the renderer must have taken the flag; the guard goes up, and the  *)
(* writes it missed are announced.                                          *)
RearmTest ==
  /\ rearm = "idle" /\ guardOff /\ ~palDirty
  /\ rearm' = "guard"
  /\ UNCHANGED <<palette, palDirty, mode, thread, busy, guardOff, gpu, events, history>>

RearmGuard ==
  /\ rearm = "guard"
  /\ guardOff' = FALSE /\ rearm' = "announce"
  /\ UNCHANGED <<palette, palDirty, mode, thread, busy, gpu, events, history>>

RearmSilently ==   \* mutant: the guard is back, what it missed is not announced
  /\ rearm = "announce"
  /\ rearm' = "idle"
  /\ UNCHANGED <<palette, palDirty, mode, thread, busy, guardOff, gpu, events, history>>

RearmAnnounce ==
  /\ rearm = "announce"
  /\ palDirty' = TRUE /\ rearm' = "idle"
  /\ UNCHANGED <<palette, mode, thread, busy, guardOff, gpu, events, history>>

Rearm == RearmTest \/ RearmGuard \/ RearmAnnounce

Gpu ==
  \/ GpuStart \/ GpuStop \/ RaiseFault \/ DropGuard
  \/ \E e \in Entries, c \in Colours : GpuWritesEntry(e, c)

(* A DMA job whose destination is palette RAM: the MPU is off while it runs *)
(* and only its port was guarded.                                           *)
GpuDmaToPalette(e, c) ==
  /\ rearm = "idle" /\ gpu = "runs" /\ Spend
  /\ pram' = [pram EXCEPT ![e] = c]
  /\ origin' = [origin EXCEPT ![e] = "gpu"]
  /\ UNCHANGED <<lut, shadow, shadowLayout, palDirty, mode, thread, core0, steady>>

-----------------------------------------------------------------------------
(* Without a console reset, with one, and with DMA into the palette. *)
Next      == Thread \/ Host \/ ConfigSeedsPalette \/ Gpu \/ Rearm
NextReset == Next \/ ConsoleReset
NextDma   == Next \/ \E e \in Entries, c \in Colours : GpuDmaToPalette(e, c)

(* Lines keep coming, a fault handler returns, and core 0's scanline        *)
(* interrupt recurs.                                                        *)
Fairness == WF_vars(Thread) /\ WF_vars(Rearm) /\ WF_vars(RaiseFault \/ DropGuard)

Spec      == Init /\ [][Next]_vars /\ Fairness
SpecReset == Init /\ [][NextReset]_vars /\ Fairness
SpecDma   == Init /\ [][NextDma]_vars /\ Fairness

-----------------------------------------------------------------------------
(* Properties *)

(* Type correctness, part by part *)
PaletteType ==
  /\ pram \in [Entries -> Colours] /\ shadow \in [Entries -> Colours]
  /\ lut \in [Entries -> [colour : Colours, layout : Layouts \cup {"none"}]]

FlagsType ==
  /\ palDirty \in BOOLEAN /\ busy \in BOOLEAN /\ guardOff \in BOOLEAN
  /\ text80 \in BOOLEAN /\ cachedText80 \in BOOLEAN /\ unlocked \in BOOLEAN
  /\ active \in BOOLEAN /\ steady \in BOOLEAN

PlacesType ==
  /\ shadowLayout \in Layouts \cup {"none"}
  /\ pc \in {"idle", "check", "suspect", "layout", "test", "compare", "clear",
             "copy", "convert", "scan", "expand"}
  /\ i \in Entries /\ want \in Layouts
  /\ gpu \in {"stopped", "runs", "faulted", "flagged"}
  /\ rearm \in {"idle", "guard", "announce"}
  /\ events \in 0..MaxEvents
  /\ origin \in [Entries -> {"before", "line", "gpu"}]

(* Type correctness: also, a rebuild stays within the entries.              *)
TypeOK == PaletteType /\ FlagsType /\ PlacesType

(* The running rebuild has yet to convert the entry. *)
Ahead(e) == pc \in {"clear", "copy"} \/ (pc = "convert" /\ i <= e)

(* An entry the table has wrong is one somebody still owes: the flag is up, *)
(* the guard is down, a fault or a re-arm is about to raise the flag, or    *)
(* the running rebuild has not reached it.  Nothing else may be stale, or   *)
(* it stays stale (gpu.h:33-36).                                            *)
StaleIsAnnounced ==
  \A e \in Entries :
    lut[e].colour # pram[e] =>
      palDirty \/ guardOff \/ gpu = "faulted" \/ rearm = "announce" \/ Ahead(e)

(* What the host wrote before a line began is on that line. *)
HostColoursOnTheLine ==
  pc \in {"scan", "expand"} =>
    \A e \in Entries : origin[e] = "before" => lut[e].colour = pram[e]

(* A line is drawn through a table of its own layout, unless its mode or    *)
(* its lock changed while it was drawn: no request to rebuild the table is  *)
(* swallowed (pico9918_palette.c:73-76, "Every explicit palDirty setter     *)
(* still forces the rebuild").                                              *)
LayoutFollows ==
  (pc = "expand" /\ steady) => \A e \in Entries : lut[e].layout = Layout

(* Once nobody changes the palette any more, the table comes to agree. *)
ColoursSettle == <>[](\A e \in Entries : lut[e].colour = pram[e])

(* A guard that went down comes back. *)
GuardRestored == guardOff ~> ~guardOff
-----------------------------------------------------------------------------
(* Inductive invariants *)

(* The running rebuild has converted the entry. *)
Behind(e) == pc = "convert" /\ e < i

(* What is not the GPU's is announced by its own flag or is being read; a   *)
(* line on its way to be drawn without a rebuild, or whose rebuild is past  *)
(* the entry, has what was written before it began.                        *)
ColoursInv ==
  \A e \in Entries :
    lut[e].colour # pram[e] =>
      /\ origin[e] = "gpu" \/ palDirty \/ Ahead(e)
      /\ pc \in {"suspect", "compare", "scan", "expand"} \/ Behind(e) => origin[e] # "before"

(* The same of the layout, which a rebuild fixed before it took the flag    *)
(* and which holds for as long as the line's mode is not sampled.          *)
LayoutInv ==
  /\ pc \in {"test", "compare", "clear", "copy", "convert"} => want = Layout
  /\ \A e \in Entries :
       lut[e].layout # Layout =>
         /\ palDirty \/ Ahead(e)
         /\ pc \notin {"suspect", "compare", "scan"} /\ ~Behind(e)
         /\ pc = "expand" => ~steady
=============================================================================
