# pico9918-core in TLA+

A verification project for `pico9918-core`, the C library that emulates a TMS9918A, its successor
the F18A and the PICO9918 itself: the video chip of an MSX, a TI-99/4A or a ColecoVision, run on a
Raspberry Pi Pico in the chip's socket or inside an emulator. Paths are relative to the repository.

The difficulty of this library is not in its pixels. It shares a handful of bytes between a renderer,
interrupt handlers that must answer a CPU's bus cycle in time, and a second core that runs guest
programs, and it does so almost without locks. The source argues in long comments why each order of
stores is right. These modules put those arguments to a model checker and, for the ones that matter
most, to a prover.

## 1. The system

### Who runs

| actor | on a board | in an emulator |
|---|---|---|
| frame path: `pico9918_frame_scanline`, `_end_of_scanline`, `_end`, `_porch` | core 1, thread mode | the emulator's thread |
| host port handlers: register, data, address, status | interrupts on core 1, over the frame path | calls between two lines |
| bus hardware (PIO) | answers a status read from the word published last | none: the read is the call |
| GPU service: `pico9918_gpu_loop` | core 0 for itself | a slice inside the register write that arms a program and on every scanline |
| core 0's scanline interrupt | over the GPU: re-arms the palette guard | none |
| console reset | an interrupt nothing masks | a call |

### Components

| component | state | operations | what makes it correct | here |
|---|---|---|---|---|
| interrupt and status latch (`pico9918_frame.c`, `impl/pico9918_priv.h`) | SR0, its shadow `frameStatus`, SR1's flags, /INT and its shadow `frameInt`, `frameDoneInt`, the word the host preloads | update of a line, end of frame, status reads, writes of R0, R1, R15, R19, R50, R57, console reset | no status flag lost or resurrected; /INT is its predicate; published before raised; a frame interrupts once, trigger or not | `FrameInt`, `StatusLatch` |
| palette table (`pico9918_palette.c`, palette guard in `gpu/gpu.c`) | palette RAM, the converted table, its shadow, `palDirty`, the guard | rebuild, compare, palette port writes, settings, GPU stores, fault and re-arm | a stale entry is always owed to somebody; the table's layout is the line's | `PaletteLut` |
| GPU service pass (`gpu/gpu.c`, `impl/pico9918_gpu_priv.h`) | `restart`, `gpuAddress`, R56, SR2, `flash`, action keys, `gpuWp` | arming, running, slicing, halting, flash, action keys, raster triggers | armed programs begin, paused ones go on; the busy bit settles; a request is dispatched once | `GpuService` |
| register file, unlock, host port (`pico9918.c`, `impl/pico9918_priv.h`) | 64 registers, `isUnlocked`, `unlockCount`, `lockedMask`, the two-stage latches, read-ahead, palette port | `write_addr`, `write_data`, `read_data`, `write_reg_value`, reset | the two-write unlock; the locked mask; auto-increments | `HostPort`, with `FrameInt` and `GpuService` for what a write sets off |
| frame driver (`pico9918_frame.c`) | geometry, frame counters, dropped frames, `configDirty` | lines, trigger, end of frame | one end per frame, no counter drift | partly: order of calls in `FrameInt`, raster trigger in `GpuService`, apply at the end of the frame in `ConfigBlock` |
| chip personality (`pico9918.c`) | `chip`, `features` | `pico9918_set_chip` | a step down takes the lock with it | `HostPort`, `GpuService`, `ConfigBlock` |
| renderer (`pico9918.c`) | line buffers, sprite tables | tile, text, bitmap and sprite lines | sprite limits, fifth sprite, collision | partly: `Sprites`, `ScanLine`, `TextLine` |
| TMS9900 core (`gpu/tms9900.c`) | registers in VRAM, status bits | one instruction | arithmetic and its flags | `Tms9900`; its loop also in `GpuService` |
| GPU DMA (`gpu/gpu.c`) | a job block at 0x8000 | `triggerGpuDma` | walks, wrap, fill | `GpuDma`, `Tms9900`; its effect on the guard in `PaletteLut` |
| configuration block (`pico9918_config.c`) | 256 bytes, pending record | apply, validate, save | a bad record is never applied | `ConfigBlock` |
| debug API (`pico9918_debug.c`) | none of its own | pokes at registers, VRAM and palette, suppression masks | | partly: the register write in `HostPort`, the masks in the renderer's modules |
| platform headers | pixel formats, critical section, publish, pin | | | partly, in `FrameInt` |
| overlays, utilities, bindings, examples, tools, tests | | | | not modelled, see section 6 |

Components meet in shared bytes, not in messages: R0/R1 decide /INT, SR2 is written by programs,
flash operations and refusals, `palDirty` is raised by five writers and taken by one, `restart` has
six writers. The hard behaviours follow from that: unmasked read-modify-writes, values tested before
a lock and used inside it, flags cleared before or after the work they ask for, a reset in the middle
of all of it. `PROJECT.json` lists each such place under "hazards" with the properties that cover it.

## 2. The modules

### `FrameInt` and `StatusLatch`: the latch and the pin

One action per memory access of the frame path that another actor can see; one action per handler,
which runs to its end: the order of the stores inside a handler, which nothing but a console reset can
see, is not looked at. `pc` is the frame path's next access, `at` its place in the frame; `raised` and
`wasReset` are history variables, the interrupts this frame has stored in the latch and whether a console
reset fell in it.

| code | actions |
|---|---|
| `pico9918_frame_scanline` | `FirstScanline`, `RenderLine`, `ClearBlankLoad`/`Store`, `LineCompare`, `LineMatchStore` |
| `pico9918_frame_end_of_scanline`, `_end`, `_raise_end_of_frame_int` | `EndOfScanline` or `TriggerMissed`, `FrameEnd`, `SetBlankLoad`/`Store` |
| `pico9918_frame_update_interrupts` | `TestStatus` ... `TestPin` unmasked, `EnterCritical` ... `ExitCritical` masked |
| a CPU's status read | `CpuReadsStatus` (hardware, with the published word), later `StatusReadReconcile` |
| `pico9918_write_reg_value_impl` | `WriteR0`, `WriteR1`, `WriteR15`, `WriteR19`, `WriteUnlock`, `WriteRegisterReset` |
| `pico9918_reset` | `ConsoleReset`, which the critical section does not hold off |

Abstractions: a status byte is a set of flags and a sprite number; of SR1 only HF and BLANK are kept
(its identity bits, 0xE0, are what a read by an SR0 handler would take for flags: `Word`); a
source's enable and its flag are read in one action, which no interleaving can tell from two because
every handler that changes either of them also reconciles the pin, or (R50) drops both enables; the
unlock sequence is one step. `StatusLatch` is what SR0 promises its reader: a
flag rises, stays until a read showed it, and a read clears what it showed and nothing else.
`StatusPromises` is `INSTANCE StatusLatch` under a refinement mapping.

### `PaletteLut`: the converted palette

The board build with a single instance. The frame path tests `palDirty` or a suspicion (SR2 busy) per
line and rebuilds entry by entry; the host's handlers fall between any two steps; the GPU writes
palette RAM behind an MPU region whose first fault raises the flag and drops the region, and core 0's
scanline interrupt puts it back. The 64 entries (16 when two pixels are packed in a byte) are `N`,
colours are a set, and a table cell is a colour and the layout it was built for. `RearmGuard` merges
the store of `guard_off` and the region's enable, which run in an interrupt the GPU cannot see
into. `origin` and `steady` are history variables for the properties.

### `GpuService`: the service pass

`sliced` is chosen initially and covers both shapes of host. On a board each access of core 0 and of
core 1 that the other sees is an action. In a sliced host a handler is never interrupted and the pass
runs on its thread, so `Enters` waits for the pass. `restart` is "off", "armed" (1) or "resuming"
(`PICO9918_GPU_RESUMING`). A program is abstract: it makes steps, may move its workspace (only where
`gpuWp` exists, in slices), hits the guard (`Fault`, boards only), and ends by IDLE or by clearing
R56. SR2 is its busy bit; the result field is left out. R56 loads the PC from R54 and R55, which may
hold any program. `armed`, `loaded`, `paused` and `owed` are history variables.

`Next` leaves out R50's register reset while a sliced program is half way (`HalfWay`): it drops the
program and leaves SR2 busy with nothing left to clear it, so `BusySettles` would fail for that known
reason only (section 4). `NextReset` has it, and the safety theorems hold with it.

### `HostPort`: the two ports

| code | actions |
|---|---|
| `pico9918_write_addr_impl` | `WriteAddrFirst`; `WriteAddrRegister` with the branches of `write_reg_value` (`WriteUnlock`, R50's reset, a kept register); `WriteAddrAddress` with its read-ahead |
| `pico9918_write_data_impl` | `WriteDataVram`, `WriteDataPaletteFirst`, `WriteDataPaletteSecond` |
| `pico9918_read_data_impl` | `ReadData` |
| `pico9918_read_status_impl`, `pico9918_status_read_reconcile` | `ReadStatus`, `StatusReadReconcile`: the first also ends the palette mode, the second does not |
| `pico9918_reset`, `pico9918_set_chip`, `pico9918_debug_reg_write` | `Reset`, `SetChip`, `DebugRegWrite` |

Bytes are numbers, so the code's own masks and carries apply: the alias of a locked device's register
number, `0x1C` under its two low bits, R47's carry out of its index, the 4K address rotation. Of 64
registers four are kept: R0, R1, R30 and R47; writes of the others only matter as effective writes, the
address step R48 adds to is 1, and R57's own byte, which even a locked device stores (`pico9918.c` 3441),
is not kept. VRAM holds the cells written. `lastWrite`, `inRun` and `wrote` are history
variables; `wrote` is kept by the host's own address and forgotten where the code changes what an
address means.

### `ConfigBlock`: the settings

Guest (R58/R59, R30, R50's reset: an interrupt, one action), end of frame on core 1 (`FrameTest`,
`FrameClear`, `ApplyNothing`, `ApplyTest`, `ApplySeed`, `ApplyBase`, `ConfigApplied`: one action per
access another actor may fall behind), host on core 0 (`HostChanges`, `ScheduleApply`,
`ScheduleVdpEffects`, `SetChip`, `TakeCommand`, `SavePrepares`, `SaveErases`, `SaveWrites`) and
`PowerUp`, which may come at any moment and runs load, `Validate`, migration and apply. A row of the
table is its limit and the release that introduced it; a value is 0 to 2 where the limit is 1, so one
value past the limit stands for all of them. The palette is "stock" or "user". The storage starts as
one of seven kinds of unit in the field: erased, this release's, the previous one's with nothing, a
value or a bad value in the byte it did not know, a damaged block and a later release's.

### `Sprites`, `ScanLine`, `TextLine`: one scanline

A behaviour is one scanline of one scene: registers, attribute table, scrolls and modes are chosen at
its start and do not change (the renderer reads them within one call). The steps are the code's
passes, in its order:

| code | actions |
|---|---|
| sprite collection and drawing | `Collect`, `NotThisLine`, `Limit`; `DrawSprite`, `Finish` |
| bitmap layer, a locked device's row | `Bitmap`, `LockedRow` |
| tile layer 2, then 1, cell by cell through the row emitter | `StartTiles`, `Cell2`, `EndTile2`, `Cell1`, `EndTile1`, `NoTiles` |
| merge | `Composite` |
| text written to the line itself | `TextRow`, `TextSprites`, `TextShown` |

A mask of 32-bit words is a set of positions, a pattern byte a set of offsets. Across, everything is
scaled: a pattern byte is `Unit` = 4 pixels where the code has 8, the line two mask words where it has
8, a text row `TextCols` = 10 cells where it has 40 and `WideCols` = 10 where it has 80; the arithmetic is
written in these constants. An 80-column cell is `CellBytes` = 3 bytes of two pixels, as in the code. Down,
only a page of names is scaled: `PageRows` = 4 rows, of which 3 are shown, where the code has 32 and shows
24 or 30. Text is written to the line itself (`Packed`) in 80 columns and, on a locked device, in 40;
otherwise it goes through the tile layers. `ShiftWraps` is what a shift of a word by its whole width does, which C leaves undefined
(`pico9918.c` 1117): the runs take the board's shifter, which clears the word. Against the passes
stand definitions that know positions only: `Owner`, `Visible`, `Colour`, `Expected`, `ExpectedLocked`
and `ExpectedText` say for a pixel, without words, masks, shifts, memos or buffers, which sprite or
cell covers it and what wins.

`SceneAssumption` says what a scene is: a name finds its bytes in the pattern table, and without 30 rows
a line is one of the first 192. The frame driver asks for no other, except when a guest drops ROW30 (or
the lock goes) in the middle of a 240-line frame: the lines at its end are then asked for with 24 rows,
and a sprite's row arithmetic meets positions it was not written for. Those lines are left out.
`TextAssumption` says that a text row leaves the same border at both sides, `LayerAssumption` that registers
hold what their bits can, that the names are four pages and that a line is on a row that is shown,
`ReciprocalAssumption` that the code's multiplication by 342 and shift by 11 is the division by six it
stands for, for all a doubled scroll register can hold: TLC evaluates it, the proof uses it.

### `GpuDma` and `Tms9900`: the processor

One operator per handler makes the interpreter: decoding of operands with their side effects, every instruction with its
status bits, X, the F18A's CALL, RET, PUSH, POP and PIX, the memory map of either part, the DMA port.
There is one action per group of the code's dispatcher, which fetches and calls the group's handler; an X is
followed through its operands to the instruction it executes in the end (`Reached`: the chain is in the
instruction's `x`), which keeps the module free of recursive operators. The status register is its six flags; the two
low bits, which no instruction tests, are left out. Widths follow `ByteBits`: the run has bytes of
6 bits and words of 12, so that a product fits TLC's integers; windows, registers and flags keep their
size. A program is a stream: step k executes any instruction of a set, and words the counter moves over
are not fetched. `SliceEnds` and `SliceStarts` cut a program between any two instructions as
`run9900Budget` does; `twin` is the same program never cut; `frames` is what calls in progress have to
come back to. `ScenesAssumption` says what a program is: a machine in its widths (`IsMachine`) and a stream
of what the decoder can make of an opcode (`IsInstruction`). `GpuDma` has the four ways the code walks a transfer and `EngineWalk`, the engine they
stand for, byte by byte. `GpuService` runs these programs as abstract steps: it has the pass around the
interpreter, `Tms9900` the interpreter.

## 3. What the runs check

Every passing run, its bounds and its properties:

| run | bounds | properties and what they show |
|---|---|---|
| `int` | 2 lines, three sprite numbers, four kinds of report | `TypeOK`; `Lockstep`: the copies of SR0 agree; `PinExact`: /INT is its predicate wherever the frame path owes nothing; `PublishedBeforePin`; `StatusPromises`: SR0 refines `StatusLatch`; `FrameInterruptDelivered` |
| `int_reset` | 2 lines, one console reset at any access | `EveryFrameRaises`: one interrupt in a frame without a reset, at most one in a frame with; `ShadowRecovers`, `LockstepRecovers`: what a reset tears apart in the library's own state, the pin's shadow and the copies of SR0, comes together |
| `pal` | 2 entries, 2 colours, 3 changes | `StaleIsAnnounced`, `HostColoursOnTheLine`, `LayoutFollows`; `ColoursSettle`, `GuardRestored` |
| `gpu_service` | 1 program, 1 key, both hosts | `StartsInTheWrite`, `FreshWorkspace`, `FiresOnce`; `BusySettles`, `FlashAnswered`, `KeysDispatched`, `PausedContinues` |
| `port` | three first bytes, up to seven second bytes, 2 data bytes, 3 costly steps, both chips | `LatchAgrees`: lock, mask and count say one thing; `UnlockTakesTwo`; `LockedStaysInEight`; `HostReadsBack`; `RunRises` |
| `config` | 3 rows, 7 units, 2 changes, 2 power-ups | `SavedBlockReturns`, `MigrationSettles`, `BaseFollows`, `ResetReseeds` |
| `line` | five thousand scenes | `SpriteLine`, `SpriteStatus`, `LineIsArbitrated` |
| `cpu` | 6-bit bytes, about three thousand machines, streams of up to five steps | `SlicedEqualsWhole`, `ArithmeticExact`, `JumpsFollowTheCompare`, `CallsReturn`, `PixPaintsWhatIsShown`, `DmaWalks`, `PartKeepsItsMemory` |

Type invariants of the other modules are proved (section 5) instead of run, except for the renderer
and the processor, whose properties read every variable.

Why the bounds are enough.

* `int`, `int_reset`. Two lines are a line 0, which R19 cannot match, and a line it can. The sprite
  numbers are none, a latched one and the reset value 31, which are the ones the merge treats apart.
  One reset falls between any two accesses, and afterwards the system is in states without one.
* `pal`. Two entries let a write fall before and behind a rebuild in progress. Three changes reach a
  write, a fault and a second write inside one rebuild. The safety properties are proved for any number.
* `gpu_service`. One program is enough for a program inheriting its predecessor's workspace, because
  `at` tells a fresh start from a continuation; one key, for a key set again while its callback runs.
* `port`. The bytes are the ones whose decodings differ: nothing, 80 columns and unlock value at once,
  an auto-increment run two entries before the end; registers inside and past the eight, a locked
  device's alias, an address. Three costly steps reach two unlock writes with a step down between them,
  or a run over the palette's last entry.
* `config`. Two changes are one before and one behind a step of the apply or the save, two power-ups a
  migration and the boot after it. One value past the limit, and a release before, this and after.
* `line`. Each family of scenes varies what one stage looks at: sprites at positions around word and
  line edges, both sizes, magnified, flipped, early, at every enhanced level; rows around every wrap;
  limits and the end marker; scrolls that are zero, a part of a cell, of a word and more than one; scrolls
  down that stay, cross the rows once and go past them; pages and wraps; bitmap positions, widths and hollow
  words over different backdrops; packed text at every split of the scroll, and a locked device's in
  both widths. Two words have an inner edge, a first and a last; a page of 4 rows with 3 shown has a row past
  them. All three properties are proved for any scene.
* `cpu`. Operands are the edges of byte and word (0, 1, the largest, the sign and its neighbours), in
  registers and through memory, with all status bits clear and set; calls go five deep through a stack,
  which in half of the scenes grows past address 0 to the top, BL and BLWP; DMA blocks overlap either way and leave the map on both ends; a counter of zero, a
  whole byte of 64, is too long a copy to follow here and is left to the theorem; F18A addresses touch every
  window on either side of its fold, and F18A programs start transfers, through the port and its repeat,
  into VRAM, absent memory and over SR2, and then write around what these left.

Deadlock is checked except in `line`, `config` and `cpu`, which end: a line is finished, the counted
changes and power-ups are spent, a program stops.

### Fairness

* Frame path (`SF_vars(Thread)` in `FrameInt`, `WF` in `PaletteLut`): it is preempted again and again
  but a CPU's accesses are slower than the handler, so it advances; in `PaletteLut` the number of
  changes is bounded and no preemption disables it for ever.
* `StatusReadReconcile`: a pending interrupt runs when it is unmasked.
* `Rearm`, `RaiseFault`, `DropGuard`: core 0's scanline interrupt recurs and a fault handler returns.
* `GpuService`: core 0 and a handler under way go on (`WF`); lines keep coming (`SF` on `Scanline`
  and `LineTrigger`: other calls disable them, but not for ever); `SF_vars(Ends)` is an assumption
  on guests, not on the code: a program that gets to run again and again ends. Without it no promise
  about SR2 could hold, since a program that never idles is legal and keeps the bit set.
* `ConfigBlock`: frames keep coming (`WF_vars(Frame)`), the GPU service keeps taking commands and a
  host call or a save that was begun goes on (`WF`). Power failures are bounded, guest writes too.
* A sliced host that relocks stops serving the GPU by design (`gpu.c`, `pico9918_gpu_run_slice`), so
  the liveness properties of `GpuService` speak of `Served` hosts: they end in `\/ ~Served`.
* `HostPort`, the renderer and the processor state no liveness and have no fairness.

## 4. What the runs refute

Four runs expect a violation, each an entry under "findings"; the library's own words are the property.

* `int_line_viol`: SR1's BLANK and HF are changed by an unmasked load and store. A read of SR1 handled
  between the two has its clear undone: one line interrupt is reported twice.
* `gpu_arm_viol`: on two cores, a program armed while core 0 retires its predecessor, after R56 was
  tested and before `gpuAddress` and `restart` are stored, never starts.
* `line_memo_viol`: the emitter skips a cell whose name is the last it found empty. Where attributes
  come by position, an opaque cell behind an empty transparent one of its name is not drawn.
* `config_upgrade_viol`: validation tests the range of every row before it looks at the stored version,
  so a value left in a byte the older release did not use resets all settings at the upgrade.

Stated in the modules, refuted by TLC, and not among the runs:

* `PinExact` with R50's reset (`Spec` of `FrameInt`): R0 and R1 are zeroed without the reconciliation
  writing them does, and /INT stays asserted through the vertical border. That no interrupt is *lost*
  this way is proved.
* `PinRecovers`: a console reset between `pico9918_frame_sync_int_impl`'s store of the shadow and its
  drive of the pin (`pico9918_priv.h` 970, 971) releases both, and the drive then asserts /INT again over
  a released shadow. The test knows the shadow alone, so /INT stays until a source comes and goes.
  `ShadowRecovers` is what does hold.
* `TransfersKeepPart`: a DMA started by an F18A program (`gpu.c` 246 to 320) writes the 64K map as it
  stands. It reaches the absent halves and windows a write of the core is folded into or dropped from
  (`tms9900.c` 129 to 147) and bit 7 of SR2, which the core keeps from programs (183). The run's
  `PartKeepsItsMemory` is about the steps that start no transfer (`MayTransfer`).
* `StaleIsAnnounced` under `SpecDma`: a DMA job into palette RAM runs with the MPU off, so nothing is
  announced; when the GPU has stopped nothing looks again.
* `LayoutFollows` with the wide tier or a console reset (`pico9918_palette.c` 67 to 91): an unlock or
  a reset between fixing the layout and clearing the flag has its request taken by a rebuild of the old
  layout.
* `LoadDoesNotStart`: in slices, R56 = 0 on a paused program loads the PC (`pico9918.c` 3474) but leaves
  the resumption pending; the next scanline runs from the loaded address.
* `BusyMeansBusy`: R50's reset drops a paused program (`pico9918.c` 394) and leaves SR2 busy.
* `ColumnsKept`: an enhanced, magnified sprite the left edge cuts at an odd pixel is clipped before it
  is doubled (`pico9918.c` 1111), so its columns are half a pixel off.
* `BitmapAboveTiles` (`pico9918.h` 345): after a mask word that drew nothing, the mask of a priority
  bitmap layer is begun at the wrong column (`pico9918.c` 2802).
* `EffectsNotOwedForEver`: `pico9918_config_schedule_apply` raises `configDirty` before
  `configVdpDirty` (`pico9918_config.c` 263); an end of frame between the two applies without the VDP
  effects, which then wait for the next change and not, as `pico9918_frame.c` 163 says, for one frame.

`LineIsArbitrated` excepts pixels by name where the code is known to differ or the layers leave the
order open: `ByMemo` and `ByMask` are the two above; `ByLift`, a lifting cell of layer 1 under layer 2;
`ByBorder`, a lifting cell of scrolled text that reaches into the side border; `ByReadingOn`, packed text
whose scroll starts past the row's last cell, which reads on into the next row or wraps as its fine scroll
has it (`pico9918.c` 1502); `ByPaging`, a layer whose row, with doubled rows or a scroll that takes it past
the rows twice, lies behind the end of its page of names (of text: behind all four), where the code's
additions and exclusive-ors of address bits no longer agree on a page.

Smaller observations made while reading, with no property: `impl/pico9918_priv.h` 493 says the pin is
reconciled on "R0, R1 and the unlock latch", the code does it for R0 and R1 only; the comment there at
548 argues from "a locked device cannot have had R#15 written", but R15 survives a relock (the lock is
tested at each read, so nothing goes wrong); `pico9918_set_chip` leaves a paused program's `restart`, so
a later unlock resumes it; a fault during a GPU program puts R56 back to 1 and so overrides a stop the
host wrote meanwhile; a program started by R56 or by the raster inherits the `gpuStatus` of the last
one, only R55 clears it (`pico9918.c` 3480); a raster trigger that finds a program paused sets `restart`
to 1 and so moves its workspace (`pico9918_frame.c` 417); `pico9918_config_prepare_save` clears a command
byte raised meanwhile (`pico9918_config.c` 170) and the apply's read-modify-write of R50 (236) may lose a
guest's write; a guest that stores an out-of-range value through R59 and saves gets factory defaults at
the next boot; SR2's result field is shared without a lock, so a refusal may be overwritten; an opaque
full-width priority bitmap hides layer 2 as well.

## 5. What is proved

TLAPS proves the following for every value of the constants and all interleavings. The assumptions are
the named ASSUMEs of the modules and nothing else. Every invariant the runs check is among the theorems.

`FrameInt_proofs`: any number of lines, every set of reports.

* `Typing`: `TypeOK` with R50 resets and console resets.
* `Invariance`: `FrameIntInv(FALSE)` is inductive for `Next`; `InvarianceQuiet`: `FrameIntInv(TRUE)`
  for hosts that do not use R50's reset. The invariant is a conjunction of named parts: `LatchInv`
  follows the merged value through the critical section; `HandOverInv` says that what the bus hands out
  is latched, so a later clear never hits a flag nobody raised, and that the published word is current
  from the publish to the pin; `PinInv` ties the shadow to the pin; `ShadowInv` follows the predicate
  through the unmasked test. The last is the heart: the three loads of `update_interrupts` may each see
  a different moment, and the invariant says what may still be wrong after each one, and that the test
  then notices. The parameter says whether a pin may be stuck.
* From it: `LockstepHolds`, `PinShadowHolds`, `PinNotLostHolds`, `PinExactHolds`,
  `PublishedBeforePinHolds`.
* `StatusPromisesKept`: every step of `Spec` is a step of `StatusLatch` or a stutter, so the library's
  latch implements the abstract one.
* `EveryFrameRaisesHolds`, any number of console resets included. The property counts what is merged into
  the latch, not `frameDoneInt`, which a reset sets without an interrupt. `AccountInv` ties the two: the
  frame's one interrupt is on its way into the latch, or counted, or given up by a reset; `frameDoneInt` is
  set in all three cases, and in a frame without a reset it is set in the first two only.

`PaletteLut_proofs`: any number of entries and colours.

* `Typing`, with console resets.
* `StaleIsAnnouncedHolds`: inductive with the types. A step makes an entry stale only by raising the
  flag, by faulting or with the guard down; the flag falls only into a rebuild that has every entry
  ahead; the guard rises only into an announcement.
* `HostColoursOnTheLineHolds`, with console resets: `ColoursInv` says a stale entry that is not the
  GPU's is flagged or ahead of the rebuild, and was not written before the line if the rebuild is past it.
* `LayoutFollowsHolds`, without the wide tier: `LayoutInv` says the same of the layout, which a rebuild
  fixes before it takes the flag.

`GpuService_proofs`: any programs and keys. `Typing` and `PlaceInv` (a program that runs has a PC inside
the machine) hold on both hosts, the rest is about slices: `OneThread`, no handler falls into a pass;
`ArmingInv` and `ArmedInv`, an armed program is on its way, through its handler and the pass it serves, up
to its first instruction; `SliceInv`, a slice that ran out of budget keeps its PC up to the resumption;
`WorkspaceInv`, what is about to begin has a fresh workspace or is a continuation; `FlashInv`, a request
pending is one that is owed. From them `StartsInTheWriteHolds`, `FreshWorkspaceHolds`, `FiresOnceHolds`;
`InvarianceReset` shows that R50's reset on a paused program keeps them.

`HostPort_proofs`: any bytes. `PortInv` is the types with `LatchInv` (an unlocked device whose last
write was an unlock write counts one), `RunInv` (in a run R47 names the entry after the last stored, or
has carried out of the palette mode) and `MemoryInv`, which rests on the lemma that the 4K rotation is one
to one. From it all five properties of run `port`.

`ConfigBlock_proofs`: any rows, limits, releases and number of power failures. `SaveInv` says that a block
from its `prepare_save` on carries the marker and this release's version with no command left that could
begin another save, and that the storage has it when the save is through; `SavedBlockReturnsHolds` follows.

`Sprites_proofs`: any registers, attribute table, pattern, line, width of word and line. The theorems are
about the specification of the whole line, `TextLine`'s, whose other passes leave the sprites alone.
`MaskIsArea` is the arithmetic: the mask the code puts together from pattern bytes, doubling, clipping at
both edges and 32-bit words covers exactly the pixels the sprite covers by position. The inductive invariant
`SpriteInv` then says that the collected rows are the sprites on the line in list order (`RowsInv`), that
`spritesShown` is the rank the drawing pass has reached (`CountInv`, `FifthInv`), that the mask is the union
of the areas taken and a collision two of them on a pixel (`MaskInv`), and that a pixel has the colour of the
first taken sprite over it or is held transparent by it (`PixelInv`). The properties alone are not inductive:
they speak of a finished line. From it `SpriteStatusHolds` and `SpriteLineHolds`, both under the assumption
`~ShiftWraps`, the shifter of the board and of the runs; a shifter that wraps, which C allows, breaks them.

`TextLine_proofs`: any scene with any name, attribute, colour and pattern table, scrolls, pages, masks and
widths, under the same `~ShiftWraps` for the sprites. `LineIsArbitratedHolds` is the renderer's main result:
what the passes put together from walks, masks and buffers is the line that is stated by positions. The
property speaks of the last step only; the inductive invariant `SpriteInv /\ LineInv /\ TextInv /\
LineIsArbitrated` says what each pass leaves to the next, and was checked with TLC on the scenes of the run
and on randomly drawn ones before it was proved.

* `WalkInv`: the place of a walk is the place its cell's position gives, however often it has wrapped or
  turned a page (`StartPlace`, `AdvancePlace`), and the name it remembers is the name of an empty
  transparent cell it has passed. `MemoIs` follows: a skipped cell shows nothing, or the pixel is one of
  `ByMemo`'s.
* `TookAt`, `LiftAt`, `FrontAt`, `BorderAt`: of each pixel, whether layer 2 took it, whether a tile lifts over
  its sprite, what layer 1's buffer has and what the border is. The masks are in layer 2's coordinates, then
  in layer 1's, then in the line's; `EndTile2Step` and `EndTile1Step` carry them over, and show that nothing
  that matters is moved out of the buffer.
* `GroundInv` and `TileMasks`: what lies beneath, the bitmap layer in its place and its priority mask but for
  `ByMask`'s pixels. The mask is a recursion over words, so `GatheringExists` and `GatheredIs` first make it a
  function and `GatheredShows` then is an induction over the pixels gathered. `LockedCellsAre` is the same for
  a locked device's row.
* `PixelsInv`, from `SpriteLine`: what the sprite passes hand over.
* `CompositeShows`: from these the merge, whichever of its ways it takes, gives every pixel to the layer the
  priorities name.
* `TextInv` for packed text: `CellRowIs` and `TwoToneIs` show that the cells the emitters count, begun early
  and moved back, are the cells of the positions.

An induction over data, which the library's theorems cannot give here, is done by hand in `Induction`: a set
of naturals that is not all of them has a least one outside.

`Tms9900_proofs`: any program, machine, memory and port setting, bytes of 6, 7 or 8 bits - the code's width
among them, the run has 6.

* `EngineIsTheWalk`: for every memory, the four ways of `triggerGpuDma` leave what the engine's two counters
  leave. The pitch of a row is the last step's difference put in its place; a transfer that stays in the map
  never wraps; a fill writes the same bytes in any order, unless it writes its own source, and then with what
  is already there; a copy between ranges apart reads nothing it wrote.
* `MachineStaysOne`: every instruction with any operands leaves a machine in its widths. Its lemmas are about
  the operators themselves: bitwise operators stay in their width, `AddFacts` and `SubFacts` (value, carry,
  overflow and order flags are exact), `ShiftCountFacts`, `DecodeFacts`, `ProductFits`.
* `Invariance`: `ProcessorInv`. `SlicedInv` says that the machine is the one never cut, or between two slices
  that one with counter, workspace and status gone, and what the device kept equal to its own; `ComparedInv`
  that after a comparison the order flags still tell the two numbers apart as the operands read now, which
  needs that a compare writes no memory. From it `SlicedEqualsWholeHolds`, `JumpsFollowTheCompareHolds` and,
  with `EngineIsTheWalk`, `DmaWalksHolds`, on either part: an F18A's write into the port's window is followed to
  the address it is folded to (`PortPlace`), and the transfer walks the map from there.

Its last part is about arithmetic: the same programs and widths, on a PICO9918. `ArithmeticExactHolds` needs no invariant
but that the machine is one; it is a statement about the handlers. `StoredIsRead` says that what an
instruction stores outside the DMA port is what its operand reads afterwards, `DecodedAlike` that the fetch
does not move the operand. On these rest `TwoOperandSums`, `ImmediateSum`, `CountingSums` and `OppositeSums`,
one per group of handlers, with the word that has no opposite as a case of its own. `QuotientFits`: DIV's
test of the high word refuses exactly the quotients that do not fit. A shift is compared with its shifts by
one: `EachIsOneMore` proves for each of the five that a shift by k is one shift more than a shift by k - 1
and that the bit the code picks for the carry is the one that falls out, and `StepwiseIsShifted` is the
induction on the count, SLA's overflow a sign that changed on the way included.

Only model-checked. Liveness under fairness is out of the prover's reach: every property with `~>` or
`<>`, the recovery from a console reset (`ShadowRecovers`, `LockstepRecovers`), `MigrationSettles`,
`BaseFollows`, `ResetReseeds`, the settling of palette and SR2. Of the
processor `CallsReturn`, `PixPaintsWhatIsShown` and `PartKeepsItsMemory`, which
do not hold of every program: one that overwrites its own stack or saved context does not come back, a PIX
whose register lies in the bitmap paints over itself, and a workspace may be moved over any window. The
scenes of the run keep these apart; that a transfer goes where it likes the property itself leaves out.

## 6. Not modelled, and why

* The wide tier's 512-byte line, a build option that repeats the 80-column emitters at one byte a pixel.
* The address arithmetic of Graphics II and multicolour: it picks a byte by masks and has no state; cells
  here take their bytes from tables. The tables of expanded bit masks are data.
* Display geometry, output-line duplication and the dimmed scanline: copies of pixels with a line counter.
* The diagnostics' frame counters: the temperature average, and the window of sixteen dropped-frame marks
  (`pico9918_frame.c` 194 to 196), whose sum and marks a console reset between the two stores would set
  apart. They are shown on a panel and read by nothing else. The start-up reload (287 to 299) is a callback.
* Instruction fetch: a stream replaces the words the program counter moves over, so self-modifying
  programs are not covered; nor are programs that mix CALL or PUSH into a BLWP context, which have no
  nesting to come back to, and in the F18A's windows the exactness of arithmetic, where an operand
  written is not the one read back.
* SR2's result field, an answer only a guest's polling reads.
* The pending record behind a two-stage confirm, which is the host's and read by it alone.
* Overlays draw text over a finished line; utilities are straight-line start-up sequences; bindings,
  examples, tools and tests are clients; platform pixel formats are conversions of a colour.
