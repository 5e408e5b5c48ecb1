---------------------------- MODULE ConfigBlock ----------------------------
(***************************************************************************)
(* The settings block: what a boot makes of the block a unit had stored,   *)
(* how a change reaches the VDP's registers, and what a save leaves for    *)
(* the next boot.                                                          *)
(*                                                                         *)
(* Three actors share the block without a lock.  The guest writes single   *)
(* bytes through R58 and R59 (an interrupt on core 1, so one action).  The *)
(* end of the frame (core 1, thread mode) consumes the two dirty flags.    *)
(* The host (core 0) changes settings, and saves when the GPU service      *)
(* hands it a save command.  Power can fail between any two steps.         *)
(***************************************************************************)
EXTENDS Integers, FiniteSets

CONSTANTS
  Fields,        (* the rows of pico9918_config_fields                     *)
  MaxOf,         (* a row's max                                            *)
  IntroducedIn,  (* a row's introducedIn                                   *)
  Versions,      (* versions a stored block can carry, 0 for none          *)
  Running,       (* CONFIG_RUNNING_VERSION                                 *)
  Shipped,       (* the blocks units in the field have stored              *)
  MaxWrites,     (* bound on the changes guest and host make               *)
  MaxBoots       (* bound on the power cycles                              *)

ASSUME TableAssumption ==
  /\ {"SCANLINES", "SPRITES", "BASE"} \subseteq Fields
  /\ MaxOf \in [Fields -> 0..2]
  /\ IntroducedIn \in [Fields -> Nat \ {0}]
ASSUME VersionsAssumption ==
  /\ Versions \subseteq Nat /\ {0, Running} \subseteq Versions
  /\ \A f \in Fields : IntroducedIn[f] <= Running
ASSUME BoundsAssumption == MaxWrites \in Nat /\ MaxBoots \in Nat

VARIABLES
  config,      (* the block in RAM                                         *)
  flash,       (* the block in the host's storage                          *)
  hasConfig,   (* the personality has PICO9918_FEAT_CONFIG                 *)
  configDirty, configVdpDirty,
  r30, scan50, (* R30 and R50's scanline bit: from where they have it      *)
  vdpBase,     (* the render base                                          *)
  pram,        (* the palette the display uses                             *)
  core1,       (* the end of the frame's next step                         *)
  core0,       (* the host's next step                                     *)
  fresh,       (* nothing was written to the block since the last save     *)
  writes, boots

flags  == <<configDirty, configVdpDirty>>
seeded == <<r30, scan50, pram>>
bounds == <<writes, boots>>
vars   == <<config, flash, hasConfig, flags, seeded, vdpBase, core1, core0, fresh, bounds>>

-----------------------------------------------------------------------------
(* The block.  Every byte of it can hold any value: one value past a       *)
(* row's max stands for them.  The default of every row is 0.              *)

Commands == {"SAVE_FORCED", "SAVE_TO_FLASH", "PENDING_CONFIRM", "PENDING_CANCEL"}
Values   == 0..2
Palettes == {"stock", "user"}
Settings == [Fields -> Values]
Block    == [set : Settings, palette : Palettes, marked : BOOLEAN,
             version : Versions, commands : SUBSET Commands]

ASSUME ShippedAssumption == Shipped \subseteq Block

(* Erased flash reads as ones: no marker, and no version of ours.          *)
Erased == [set |-> [f \in Fields |-> 0], palette |-> "stock", marked |-> FALSE,
           version |-> 0, commands |-> {}]

InRange(b)  == \A f \in Fields : b.set[f] <= MaxOf[f]
Sound(b)    == b.marked /\ InRange(b)
Defaults(b) == [b EXCEPT !.set = [f \in Fields |-> 0], !.palette = "stock", !.marked = TRUE]

(* The fields a block of this version already had.                         *)
Settled(version) == {f \in Fields : IntroducedIn[f] <= version}

MigrateNewFields(b, version) ==
  [b EXCEPT !.set = [f \in Fields |-> IF f \in Settled(version) THEN b.set[f] ELSE 0]]

(* What a load makes of a stored block: the library's answer and whether   *)
(* the block has to be saved.                                              *)
Validate(b) ==
  LET kept   == IF Sound(b) THEN b ELSE Defaults(b)
      stored == IF Sound(b) THEN b.version ELSE 0
  IN IF stored = Running
     THEN [kept EXCEPT !.commands = {}]
     ELSE [MigrateNewFields(kept, stored) EXCEPT !.version = Running, !.commands = {"SAVE_FORCED"}]

(* mutant: the marker is not put back                                      *)
TestPrepareSave(b) == [b EXCEPT !.version = Running, !.commands = {}]

PrepareSave(b) == [b EXCEPT !.version = Running, !.commands = {}, !.marked = TRUE]

(* Where R30 and R50's scanline bit have their values from.                *)
Seed(v)   == <<"block", v>>
From(who) == <<who, 0>>
Sources   == {Seed(v) : v \in Values} \cup {From(w) : w \in {"guest", "reset", "chip", "off"}}

(* The render base the block asks for: anything but V9938 is TMS9918.      *)
BaseOf(b) == IF b.set["BASE"] = 1 THEN "V9938" ELSE "TMS9918"

-----------------------------------------------------------------------------
(* A boot: load, validate, apply_now with the VDP effects.                 *)

Booted(b) ==
  /\ config' = Validate(b)
  /\ r30' = Seed(Validate(b).set["SPRITES"])
  /\ scan50' = Seed(Validate(b).set["SCANLINES"])
  /\ pram' = Validate(b).palette
  /\ vdpBase' = BaseOf(Validate(b))
  /\ hasConfig' = TRUE
  /\ configDirty' = FALSE /\ configVdpDirty' = FALSE
  /\ core1' = "gap" /\ core0' = "idle"
  /\ fresh' = FALSE

(* The unit is off; its storage holds the block an earlier release left,   *)
(* whole or not.                                                           *)
Init ==
  /\ flash \in Shipped
  /\ config = Erased
  /\ r30 = From("off") /\ scan50 = From("off") /\ pram = "stock"
  /\ vdpBase = "TMS9918" /\ hasConfig = TRUE
  /\ configDirty = FALSE /\ configVdpDirty = FALSE
  /\ core1 = "off" /\ core0 = "off"
  /\ fresh = FALSE
  /\ writes = 0 /\ boots = 0

(* Power comes on, or fails and comes back whatever the cores were doing.  *)
PowerUp ==
  /\ boots < MaxBoots
  /\ Booted(flash)
  /\ boots' = boots + 1
  /\ UNCHANGED <<flash, writes>>

-----------------------------------------------------------------------------
(* The guest, through the register port (interrupts on core 1).            *)

MayWrite == core1 # "off" /\ writes < MaxWrites /\ writes' = writes + 1

(* R59 with R58 on a setting, a palette byte or a command.                 *)
WriteOption ==
  /\ MayWrite
  /\ hasConfig
  /\ \/ \E f \in Fields, v \in Values : config' = [config EXCEPT !.set[f] = v]
     \/ \E mark \in BOOLEAN : config' = [config EXCEPT !.palette = "user", !.marked = mark]
     \/ \E k \in Commands : config' = [config EXCEPT !.commands = @ \cup {k}]
  /\ configDirty' = TRUE
  /\ fresh' = FALSE
  /\ UNCHANGED <<flash, hasConfig, configVdpDirty, seeded, vdpBase, core1, core0, boots>>

(* R30 written by the guest itself: later guest writes win.                *)
WriteR30 ==
  /\ MayWrite
  /\ r30' = From("guest")
  /\ UNCHANGED <<config, flash, hasConfig, flags, scan50, pram, vdpBase, core1, core0, fresh, boots>>

(* R50 with its reset bit: the registers, and with bit 6 the block again.  *)
WriteRegisterReset ==
  /\ MayWrite
  /\ r30' = From("reset") /\ scan50' = From("reset")
  /\ \/ configDirty' = TRUE /\ configVdpDirty' = TRUE
     \/ UNCHANGED flags
  /\ UNCHANGED <<config, flash, hasConfig, pram, vdpBase, core1, core0, fresh, boots>>

-----------------------------------------------------------------------------
(* The end of the frame (thread mode on core 1).                           *)

FrameTest ==
  /\ core1 = "gap"
  /\ configDirty
  /\ core1' = "clear"
  /\ UNCHANGED <<config, flash, hasConfig, flags, seeded, vdpBase, core0, fresh, bounds>>

FrameClear ==
  /\ core1 = "clear"
  /\ configDirty' = FALSE
  /\ core1' = "apply"
  /\ UNCHANGED <<config, flash, hasConfig, configVdpDirty, seeded, vdpBase, core0, fresh, bounds>>

(* A personality without a block lets go of what the block owned.          *)
ApplyNothing ==
  /\ core1 = "apply"
  /\ ~hasConfig
  /\ configVdpDirty' = FALSE
  /\ vdpBase' = "TMS9918"
  /\ core1' = "applied"
  /\ UNCHANGED <<config, flash, hasConfig, configDirty, seeded, core0, fresh, bounds>>

ApplyTest ==
  /\ core1 = "apply"
  /\ hasConfig
  /\ core1' = IF configVdpDirty THEN "seed" ELSE "base"
  /\ configVdpDirty' = FALSE
  /\ UNCHANGED <<config, flash, hasConfig, configDirty, seeded, vdpBase, core0, fresh, bounds>>

(* mutant: R30 is left out of what the block seeds                         *)
TestApplySeed ==
  /\ core1 = "seed"
  /\ scan50' = Seed(config.set["SCANLINES"])
  /\ pram' = config.palette
  /\ core1' = "base"
  /\ UNCHANGED <<config, flash, hasConfig, flags, r30, vdpBase, core0, fresh, bounds>>

ApplySeed ==
  /\ core1 = "seed"
  /\ scan50' = Seed(config.set["SCANLINES"])
  /\ r30' = Seed(config.set["SPRITES"])
  /\ pram' = config.palette
  /\ core1' = "base"
  /\ UNCHANGED <<config, flash, hasConfig, flags, vdpBase, core0, fresh, bounds>>

ApplyBase ==
  /\ core1 = "base"
  /\ vdpBase' = BaseOf(config)
  /\ core1' = "applied"
  /\ UNCHANGED <<config, flash, hasConfig, flags, seeded, core0, fresh, bounds>>

(* mutant: the flag is cleared once the block is applied                    *)
TestConfigApplied ==
  /\ core1 = "applied"
  /\ configDirty' = FALSE
  /\ core1' = "gap"
  /\ UNCHANGED <<config, flash, hasConfig, configVdpDirty, seeded, vdpBase, core0, fresh, bounds>>

(* The host is told, while guest and host may already change the block.    *)
ConfigApplied ==
  /\ core1 = "applied"
  /\ core1' = "gap"
  /\ UNCHANGED <<config, flash, hasConfig, flags, seeded, vdpBase, core0, fresh, bounds>>

-----------------------------------------------------------------------------
(* The host (core 0).                                                      *)

(* A settings page changes a field and schedules the apply: two stores.    *)
HostChanges ==
  /\ core0 = "idle"
  /\ MayWrite
  /\ \E f \in Fields : \E v \in 0..MaxOf[f] : config' = [config EXCEPT !.set[f] = v]
  /\ core0' = "schedule"
  /\ fresh' = FALSE
  /\ UNCHANGED <<flash, hasConfig, flags, seeded, vdpBase, core1, boots>>

ScheduleApply ==
  /\ core0 = "schedule"
  /\ configDirty' = TRUE
  /\ core0' = "vdpEffects"
  /\ UNCHANGED <<config, flash, hasConfig, configVdpDirty, seeded, vdpBase, core1, fresh, bounds>>

ScheduleVdpEffects ==
  /\ core0 = "vdpEffects"
  /\ configVdpDirty' = TRUE
  /\ core0' = "idle"
  /\ UNCHANGED <<config, flash, hasConfig, configDirty, seeded, vdpBase, core1, fresh, bounds>>

(* set_chip, by a host that steps the library itself, between two frames.  *)
SetChip ==
  /\ core0 = "idle" /\ core1 = "gap"
  /\ MayWrite
  /\ \E has \in BOOLEAN :
       /\ hasConfig' = has
       /\ r30' = IF has THEN r30 ELSE From("chip")
  /\ configDirty' = TRUE /\ configVdpDirty' = TRUE
  /\ UNCHANGED <<config, flash, scan50, pram, vdpBase, core1, core0, fresh, boots>>

(* mutant: the forced save is left out of the keys                         *)
TestTakeCommand ==
  /\ core0 = "idle"
  /\ \E k \in config.commands \ {"SAVE_FORCED"} :
       /\ config' = [config EXCEPT !.commands = @ \ {k}]
       /\ core0' = IF k = "SAVE_TO_FLASH" THEN "prepare" ELSE "idle"
  /\ UNCHANGED <<flash, hasConfig, flags, seeded, vdpBase, core1, fresh, bounds>>

(* The GPU service takes a command and hands it to the host, which answers *)
(* a save with prepare_save and a write of the block, and whose confirm    *)
(* and cancel act on a record of its own.                                  *)
TakeCommand ==
  /\ core0 = "idle"
  /\ \E k \in config.commands :
       /\ config' = [config EXCEPT !.commands = @ \ {k}]
       /\ core0' = IF k \in {"SAVE_FORCED", "SAVE_TO_FLASH"} THEN "prepare" ELSE "idle"
  /\ UNCHANGED <<flash, hasConfig, flags, seeded, vdpBase, core1, fresh, bounds>>

SavePrepares ==
  /\ core0 = "prepare"
  /\ config' = PrepareSave(config)
  /\ core0' = "erase"
  /\ fresh' = TRUE
  /\ UNCHANGED <<flash, hasConfig, flags, seeded, vdpBase, core1, bounds>>

SaveErases ==
  /\ core0 = "erase"
  /\ flash' = Erased
  /\ core0' = "program"
  /\ UNCHANGED <<config, hasConfig, flags, seeded, vdpBase, core1, fresh, bounds>>

SaveWrites ==
  /\ core0 = "program"
  /\ flash' = config
  /\ core0' = "idle"
  /\ UNCHANGED <<config, hasConfig, flags, seeded, vdpBase, core1, fresh, bounds>>

-----------------------------------------------------------------------------
Guest == WriteOption \/ WriteR30 \/ WriteRegisterReset
Frame == FrameTest \/ FrameClear \/ ApplyNothing \/ ApplyTest \/ ApplySeed \/ ApplyBase
           \/ ConfigApplied
Host  == HostChanges \/ ScheduleApply \/ ScheduleVdpEffects \/ SetChip
           \/ TakeCommand \/ SavePrepares \/ SaveErases \/ SaveWrites
Next  == Guest \/ Frame \/ Host \/ PowerUp

(* Frames keep coming, the GPU service keeps running, and a host call that *)
(* was begun is finished.                                                  *)
Fairness ==
  /\ WF_vars(Frame)
  /\ WF_vars(ScheduleApply \/ ScheduleVdpEffects \/ TakeCommand
               \/ SavePrepares \/ SaveErases \/ SaveWrites)

Spec == Init /\ [][Next]_vars /\ Fairness

-----------------------------------------------------------------------------
(* Properties *)

(* Every variable has its type.                                            *)
TypeOK ==
  /\ config \in Block /\ flash \in Block
  /\ {hasConfig, configDirty, configVdpDirty, fresh} \subseteq BOOLEAN
  /\ r30 \in Sources /\ scan50 \in Sources
  /\ pram \in Palettes /\ vdpBase \in {"TMS9918", "V9938"}
  /\ core1 \in {"off", "gap", "clear", "apply", "seed", "base", "applied"}
  /\ core0 \in {"off", "idle", "schedule", "vdpEffects", "prepare", "erase", "program"}
  /\ writes \in 0..MaxWrites /\ boots \in 0..MaxBoots

(* A block this build saved, with nothing written to it since and its rows *)
(* in range, comes back from a power cycle as it was, with nothing to save *)
(* (config_validate after config_prepare_save).                            *)
SavedBlockReturns ==
  [][PowerUp /\ fresh /\ core0 = "idle" /\ InRange(config)
       => /\ config'.set = config.set /\ config'.palette = config.palette
          /\ config'.commands = {}]_vars

(* A block that had to be changed at a boot is stored in the end: either   *)
(* the forced save reaches the flash or power fails first, and a unit does *)
(* not migrate the same block at every boot.                               *)
MigrationSettles == ("SAVE_FORCED" \in config.commands) ~> (flash.version = Running)

(* From its prepare_save on a block is this release's, with its marker, and *)
(* once the save is through the storage has it as it is.                   *)
SaveInv ==
  fresh => /\ config.marked /\ config.version = Running /\ config.commands = {}
           /\ core0 \in {"idle", "erase", "program"}
           /\ core0 = "idle" => flash = config

(* The render base follows the block: a guest's write of the row, a host's *)
(* and a change of personality all reach it, whatever the end of the frame *)
(* was doing (configDirty is cleared before the block is read).            *)
BaseFollows ==
  /\ (hasConfig /\ config.set["BASE"] = 1) ~>
       (vdpBase = "V9938" \/ ~hasConfig \/ config.set["BASE"] # 1)
  /\ (hasConfig /\ config.set["BASE"] # 1) ~>
       (vdpBase = "TMS9918" \/ ~hasConfig \/ config.set["BASE"] = 1)
  /\ ~hasConfig ~> (vdpBase = "TMS9918" \/ hasConfig)

(* A register reset that asks for the block again gets the sprite limit of *)
(* the block, or the guest's own if it wrote one meanwhile.                *)
ResetReseeds ==
  (hasConfig /\ r30 = From("reset") /\ configDirty /\ configVdpDirty) ~>
    (r30 # From("reset") \/ ~hasConfig)

(* What the comment on configDirty says (pico9918_frame.c:163-166): at the *)
(* worst, an apply is deferred by a frame.  The VDP effects a host asked   *)
(* for are not owed for ever.                                              *)
EffectsNotOwedForEver == configVdpDirty ~> ~configVdpDirty

(* What the test says of an upgrade (config_test.c:84): it defaults the    *)
(* fields introduced since, and leaves the others alone.                   *)
UpgradeKeepsTheOthers ==
  boots = 1 /\ writes = 0 /\ ~fresh /\ core0 = "idle"
    /\ flash.marked /\ flash.version # 0
    /\ (\A f \in Settled(flash.version) : flash.set[f] <= MaxOf[f])
    => \A f \in Settled(flash.version) : config.set[f] = flash.set[f]
=============================================================================
