------------------------- MODULE ConfigBlock_proofs -------------------------
(***************************************************************************)
(* What TLAPS proves of ConfigBlock: its types, and that a block saved by  *)
(* this release comes back from a power cycle as it was, for every table   *)
(* of rows, every set of blocks units shipped with and any number of       *)
(* writes and power failures.                                              *)
(***************************************************************************)
EXTENDS ConfigBlock, TLAPS

(* A change of one row, or of the commands, leaves a block a block.         *)
LEMMA RowType ==
  ASSUME NEW b \in Block, NEW f \in Fields, NEW v \in Values
  PROVE  [b EXCEPT !.set[f] = v] \in Block
BY DEF Block, Settings

LEMMA CommandsType ==
  ASSUME NEW b \in Block, NEW ks \in SUBSET Commands
  PROVE  [b EXCEPT !.commands = ks] \in Block
BY DEF Block

LEMMA DefaultsType ==
  ASSUME NEW b \in Block
  PROVE  Defaults(b) \in Block
<1>1. [f \in Fields |-> 0] \in Settings
  BY DEF Settings, Values
<1>2. \A s \in Settings : [b EXCEPT !.set = s, !.palette = "stock", !.marked = TRUE] \in Block
  BY DEF Block, Palettes
<1> QED
  BY <1>1, <1>2 DEF Defaults

LEMMA MigrateType ==
  ASSUME NEW b \in Block, NEW version
  PROVE  MigrateNewFields(b, version) \in Block
BY DEF MigrateNewFields, Block, Settings, Values

(* A load makes a block of a block, whatever the storage held.              *)
LEMMA ValidateType ==
  ASSUME NEW b \in Block
  PROVE  Validate(b) \in Block
<1> DEFINE kept   == IF Sound(b) THEN b ELSE Defaults(b)
           stored == IF Sound(b) THEN b.version ELSE 0
<1>1. kept \in Block
  BY DefaultsType
<1>2. MigrateNewFields(kept, stored) \in Block
  BY <1>1, MigrateType
<1>3. [kept EXCEPT !.commands = {}] \in Block
  BY <1>1, CommandsType
<1>4. \A k \in Block : [k EXCEPT !.version = Running, !.commands = {"SAVE_FORCED"}] \in Block
  BY VersionsAssumption DEF Block, Commands
<1>5. [MigrateNewFields(kept, stored) EXCEPT !.version = Running, !.commands = {"SAVE_FORCED"}] \in Block
  BY <1>2, <1>4
<1> HIDE DEF kept, stored
<1>6. Validate(b) = IF stored = Running THEN [kept EXCEPT !.commands = {}]
                    ELSE [MigrateNewFields(kept, stored) EXCEPT !.version = Running, !.commands = {"SAVE_FORCED"}]
  BY DEF Validate, kept, stored
<1> QED
  BY <1>3, <1>5, <1>6

LEMMA PrepareType ==
  ASSUME NEW b \in Block
  PROVE  PrepareSave(b) \in Block
BY VersionsAssumption DEF PrepareSave, Block

LEMMA ErasedType == Erased \in Block
BY VersionsAssumption DEF Erased, Block, Settings, Values, Palettes

(* A sound block of this release is loaded as it is.                        *)
LEMMA ValidateKeeps ==
  ASSUME NEW b \in Block, b.marked, InRange(b), b.version = Running
  PROVE  /\ Validate(b).set = b.set /\ Validate(b).palette = b.palette
         /\ Validate(b).commands = {}
BY DEF Validate, Sound, Block

-----------------------------------------------------------------------------
(* The types, action by action: a step that leaves both blocks alone only   *)
(* stores members of small sets.                                           *)

LEMMA SeedType ==
  ASSUME NEW b \in Block, NEW f \in Fields
  PROVE  Seed(b.set[f]) \in Sources
BY DEF Block, Settings, Sources

LEMMA FromType == \A w \in {"guest", "reset", "chip", "off"} : From(w) \in Sources
BY DEF Sources

LEMMA InitType == Init => TypeOK
<1> SUFFICES ASSUME Init PROVE TypeOK
  OBVIOUS
<1>1. config \in Block /\ flash \in Block
  BY ErasedType, ShippedAssumption DEF Init
<1>2. writes \in 0..MaxWrites /\ boots \in 0..MaxBoots
  BY BoundsAssumption DEF Init
<1> QED
  BY <1>1, <1>2, FromType DEF Init, TypeOK, Palettes

(* What the bounded callers share. *)
LEMMA MayWriteType ==
  ASSUME TypeOK, MayWrite
  PROVE  writes' \in 0..MaxWrites
BY BoundsAssumption DEF TypeOK, MayWrite

LEMMA GuestType ==
  ASSUME TypeOK, Guest
  PROVE  TypeOK'
<1>1. CASE WriteOption
  <2>1. config' \in Block
    <3>1. CASE \E f \in Fields, v \in Values : config' = [config EXCEPT !.set[f] = v]
      BY <3>1, RowType DEF TypeOK
    <3>2. CASE \E mark \in BOOLEAN : config' = [config EXCEPT !.palette = "user", !.marked = mark]
      BY <3>2 DEF TypeOK, Block, Palettes
    <3>3. CASE \E k \in Commands : config' = [config EXCEPT !.commands = @ \cup {k}]
      BY <3>3 DEF TypeOK, Block
    <3> QED
      BY <1>1, <3>1, <3>2, <3>3 DEF WriteOption
  <2> QED
    BY <1>1, <2>1, MayWriteType DEF TypeOK, WriteOption, seeded
<1>2. CASE WriteR30
  BY <1>2, FromType, MayWriteType DEF TypeOK, WriteR30, flags
<1>3. CASE WriteRegisterReset
  BY <1>3, FromType, MayWriteType DEF TypeOK, WriteRegisterReset, flags
<1> QED
  BY <1>1, <1>2, <1>3 DEF Guest

LEMMA FrameType ==
  ASSUME TypeOK, Frame
  PROVE  TypeOK'
<1> USE DEF TypeOK
<1>1. CASE FrameTest
  BY <1>1 DEF FrameTest, flags, seeded, bounds
<1>2. CASE FrameClear
  BY <1>2 DEF FrameClear, seeded, bounds
<1>3. CASE ApplyNothing
  BY <1>3 DEF ApplyNothing, seeded, bounds
<1>4. CASE ApplyTest
  BY <1>4 DEF ApplyTest, seeded, bounds
<1>5. CASE ApplySeed
  <2>1. config.palette \in Palettes
    BY DEF Block
  <2> QED
    BY <1>5, <2>1, SeedType, TableAssumption DEF ApplySeed, flags, bounds
<1>6. CASE ApplyBase
  BY <1>6 DEF ApplyBase, BaseOf, flags, seeded, bounds
<1>7. CASE ConfigApplied
  BY <1>7 DEF ConfigApplied, flags, seeded, bounds
<1> QED
  BY <1>1, <1>2, <1>3, <1>4, <1>5, <1>6, <1>7 DEF Frame

LEMMA HostType ==
  ASSUME TypeOK, Host
  PROVE  TypeOK'
<1> USE DEF TypeOK
<1>1. CASE HostChanges
  <2>1. PICK f \in Fields : \E v \in 0..MaxOf[f] : config' = [config EXCEPT !.set[f] = v]
    BY <1>1 DEF HostChanges
  <2>2. MaxOf[f] \in 0..2
    BY TableAssumption
  <2>3. \A v \in 0..MaxOf[f] : v \in Values
    BY <2>2 DEF Values
  <2>4. config' \in Block
    BY <2>1, <2>3, RowType
  <2> QED
    BY <1>1, <2>4, MayWriteType DEF HostChanges, flags, seeded
<1>2. CASE ScheduleApply
  BY <1>2 DEF ScheduleApply, seeded, bounds
<1>3. CASE ScheduleVdpEffects
  BY <1>3 DEF ScheduleVdpEffects, seeded, bounds
<1>4. CASE SetChip
  BY <1>4, FromType, MayWriteType DEF SetChip
<1>5. CASE TakeCommand
  <2>1. config' \in Block
    BY <1>5, CommandsType DEF TakeCommand, Block
  <2> QED
    BY <1>5, <2>1 DEF TakeCommand, flags, seeded, bounds
<1>6. CASE SavePrepares
  BY <1>6, PrepareType DEF SavePrepares, flags, seeded, bounds
<1>7. CASE SaveErases
  BY <1>7, ErasedType DEF SaveErases, flags, seeded, bounds
<1>8. CASE SaveWrites
  BY <1>8 DEF SaveWrites, flags, seeded, bounds
<1> QED
  BY <1>1, <1>2, <1>3, <1>4, <1>5, <1>6, <1>7, <1>8 DEF Host

LEMMA PowerUpType ==
  ASSUME TypeOK, PowerUp
  PROVE  TypeOK'
<1>1. Validate(flash) \in Block
  BY ValidateType DEF TypeOK
<1>2. Validate(flash).palette \in Palettes
  BY <1>1 DEF Block
<1>3. BaseOf(Validate(flash)) \in {"TMS9918", "V9938"}
  BY DEF BaseOf
<1>4. /\ Seed(Validate(flash).set["SPRITES"]) \in Sources
      /\ Seed(Validate(flash).set["SCANLINES"]) \in Sources
  BY <1>1, SeedType, TableAssumption
<1>5. boots' \in 0..MaxBoots
  BY BoundsAssumption DEF TypeOK, PowerUp
<1> QED
  BY <1>1, <1>2, <1>3, <1>4, <1>5 DEF TypeOK, PowerUp, Booted

(* Every variable has its type, through any number of power failures, as    *)
(* every step of guest, end of frame and host does (pico9918_config.c).    *)
THEOREM Typing == Spec => []TypeOK
<1>1. TypeOK /\ [Next]_vars => TypeOK'
  <2> SUFFICES ASSUME TypeOK, [Next]_vars PROVE TypeOK'
    OBVIOUS
  <2>1. CASE UNCHANGED vars
    BY <2>1 DEF TypeOK, vars, flags, seeded, bounds
  <2> QED
    BY <2>1, GuestType, FrameType, HostType, PowerUpType DEF Next
<1> QED
  BY InitType, <1>1, PTL DEF Spec

-----------------------------------------------------------------------------
(* The save: the guest's and the host's writes take the claim back, and a   *)
(* prepared block has no command left that could begin another save.       *)

LEMMA SaveStep ==
  ASSUME TypeOK, SaveInv, [Next]_vars
  PROVE  SaveInv'
<1> USE DEF SaveInv
<1>1. CASE Guest
  BY <1>1 DEF Guest, WriteOption, WriteR30, WriteRegisterReset
<1>2. CASE Frame
  BY <1>2 DEF Frame, FrameTest, FrameClear, ApplyNothing, ApplyTest, ApplySeed, ApplyBase,
               ConfigApplied
<1>3. CASE HostChanges \/ ScheduleApply \/ ScheduleVdpEffects \/ SetChip
  BY <1>3 DEF HostChanges, ScheduleApply, ScheduleVdpEffects, SetChip
<1>4. CASE TakeCommand
  BY <1>4 DEF TakeCommand
<1>5. CASE SavePrepares
  <2>1. /\ PrepareSave(config).marked /\ PrepareSave(config).version = Running
        /\ PrepareSave(config).commands = {}
    BY DEF PrepareSave, TypeOK, Block
  <2> QED
    BY <1>5, <2>1 DEF SavePrepares
<1>6. CASE SaveErases
  BY <1>6 DEF SaveErases
<1>7. CASE SaveWrites
  BY <1>7 DEF SaveWrites
<1>8. CASE PowerUp
  BY <1>8 DEF PowerUp, Booted
<1>9. CASE UNCHANGED vars
  BY <1>9 DEF vars
<1> QED
  BY <1>1, <1>2, <1>3, <1>4, <1>5, <1>6, <1>7, <1>8, <1>9 DEF Next, Host

(* From prepare_save on a block is whole and this release's, and after the  *)
(* write of the host's callback the storage has it, until somebody writes  *)
(* to it again (pico9918_config_prepare_save).                             *)
THEOREM Invariance == Spec => [](TypeOK /\ SaveInv)
<1>1. Init => SaveInv
  BY DEF Init, SaveInv
<1> QED
  BY <1>1, SaveStep, Typing, PTL DEF Spec

(* A block this build saved, with nothing written to it since and its rows  *)
(* in range, comes back from a power cycle as it was, with nothing to save *)
(* (pico9918_config_validate after pico9918_config_prepare_save).          *)
THEOREM SavedBlockReturnsHolds == Spec => SavedBlockReturns
<1>1. TypeOK /\ SaveInv /\ [Next]_vars =>
        [PowerUp /\ fresh /\ core0 = "idle" /\ InRange(config)
         => /\ config'.set = config.set /\ config'.palette = config.palette
            /\ config'.commands = {}]_vars
  <2> SUFFICES ASSUME TypeOK, SaveInv, PowerUp, fresh, core0 = "idle", InRange(config)
               PROVE  /\ config'.set = config.set /\ config'.palette = config.palette
                      /\ config'.commands = {}
    OBVIOUS
  <2>1. flash = config /\ config.marked /\ config.version = Running
    BY DEF SaveInv
  <2>2. config' = Validate(config)
    BY <2>1 DEF PowerUp, Booted
  <2> QED
    BY <2>1, <2>2, ValidateKeeps DEF TypeOK
<1> QED
  BY <1>1, Invariance, PTL DEF Spec, SavedBlockReturns
=============================================================================
