------------------------------ MODULE HostPort ------------------------------
(***************************************************************************)
(* The CPU side of the VDP: the control port that takes a register or an   *)
(* address in two bytes, the data port that is VRAM's or the palette's,    *)
(* the register file behind its lock, and the two status reads, which      *)
(* resynchronise different parts of it.  Every handler is one action: the  *)
(* host's handlers do not interrupt each other.                            *)
(*                                                                         *)
(* Bytes are numbers, so that the masks, the aliases of a locked device    *)
(* and the carries of the code are the code's own.                         *)
(***************************************************************************)
EXTENDS Integers, FiniteSets

CONSTANTS
  Chips,        (* the personalities a host selects between                *)
  FirstBytes,   (* first bytes the host writes to the control port         *)
  SecondBytes,  (* and second bytes, by personality                        *)
  DataBytes,    (* bytes it writes to the data port                        *)
  MaxCosts      (* bound on the addresses, bytes, entries and resets       *)

Byte == 0..255

ASSUME ChipsAssumption == Chips \subseteq {"F18A", "TMS9918A"} /\ Chips # {}
ASSUME BytesAssumption ==
  /\ FirstBytes \subseteq Byte /\ DataBytes \subseteq Byte
  /\ SecondBytes \in [Chips -> SUBSET Byte]
ASSUME CostsAssumption == MaxCosts \in Nat

VARIABLES
  chip,
  regs,                       (* the registers the port's handlers read    *)
  isUnlocked, unlockCount, lockedMask,
  regWriteStage, stage0,      (* the control port's first byte, if any     *)
  currentAddress, readAhead,  (* the latch and the prefetched byte         *)
  vram,                       (* the cells the host wrote                  *)
  palWriteStage,              (* half a palette entry is staged            *)
  pram,                       (* the entry stored into the palette last    *)
  lastWrite,                  (* the last register write that took effect  *)
  inRun,                      (* the last entry stored left the run going  *)
  wrote,                      (* what the host wrote, by its own addresses *)
  costs

latch  == <<isUnlocked, unlockCount, lockedMask>>
stage  == <<regWriteStage, stage0>>
addr   == <<currentAddress, readAhead, vram, wrote>>
pal    == <<palWriteStage, pram, inRun>>
vars   == <<chip, regs, latch, stage, addr, pal, lastWrite, costs>>

-----------------------------------------------------------------------------
(* Bytes *)

Bit(v, mask)      == (v \div mask) % 2 = 1
ClearBit(v, mask) == IF Bit(v, mask) THEN v - mask ELSE v

(* R0, R1, R30 and R47; the other registers are no concern of the port.    *)
Kept     == {0, 1, 30, 47}
Mode80(r)    == Bit(r[0], 4)
Ram16K(r)    == Bit(r[1], 128)
DataPort(r)  == Bit(r[47], 128)
AutoInc(r)   == Bit(r[47], 64)
Index(r)     == r[47] % 64
Unlocks(v)   == v \div 4 = 7                (* 0x1C under its two low bits *)

CanUnlock(c) == c = "F18A"
Vram4K(c)    == c = "TMS9918A"
M4           == CanUnlock(chip) /\ Mode80(regs)

(* vdpRegisterReset's values.                                              *)
ResetRegs(c) == [r \in Kept |-> CASE r = 1 -> 64 [] r = 30 -> (IF CanUnlock(c) THEN 31 ELSE 4)
                                  [] OTHER -> 0]
Locked == isUnlocked' = FALSE /\ unlockCount' = FALSE /\ lockedMask' = 7

(* A host address within the 16K.                                          *)
HostAddress == 0..16383
InRange(a)  == a % 16384

(* mutant: the row's top bit is dropped instead of rotated                 *)
TestRotated(m) == 8192 * (m \div 8192) + 128 * ((m \div 64) % 64) + (m % 64)

(* cpu_vram_addr: 4K DRAMs on a 16K board take the address in two halves   *)
(* of another split, so bits 6 to 12 are rotated by one.                   *)
Rotated(m) == 8192 * (m \div 8192) + 128 * ((m \div 64) % 64) + 64 * ((m \div 4096) % 2) + (m % 64)

CpuVramAddr(c, r, a) ==
  IF Vram4K(c) /\ ~Ram16K(r) THEN Rotated(InRange(a)) ELSE InRange(a)

Cell(a)   == CpuVramAddr(chip, regs, a)
Cells(c)  == IF c \in DOMAIN vram THEN vram[c] ELSE 0
With(f, x, y) == [z \in DOMAIN f \cup {x} |-> IF z = x THEN y ELSE f[z]]
None      == [x \in {} |-> 0]

(* The map of the host's addresses is another after a change of R1 or of   *)
(* the personality: what it wrote is found elsewhere.                      *)
Remapped(c, r) == Vram4K(c) # Vram4K(chip) \/ (Vram4K(c) /\ Ram16K(r) # Ram16K(regs))
KeepWrote(c, r) == wrote' = IF Remapped(c, r) THEN None ELSE wrote

Costs     == costs < MaxCosts /\ costs' = costs + 1

-----------------------------------------------------------------------------
Init ==
  /\ chip \in Chips
  /\ regs = [ResetRegs(chip) EXCEPT ![1] = 0]
  /\ isUnlocked = FALSE /\ unlockCount = FALSE /\ lockedMask = 7
  /\ regWriteStage = 0 /\ stage0 = 0
  /\ currentAddress = 0 /\ readAhead = 0
  /\ vram = None /\ wrote = None
  /\ palWriteStage = 0
  /\ pram = 0 /\ inRun = FALSE
  /\ lastWrite = "none"
  /\ costs = 0

-----------------------------------------------------------------------------
(* write_reg_value, given the second byte of the pair and the first.       *)

(* mutant: any second unlock write unlocks, whatever came between          *)
TestWriteUnlock(reg, value) ==
  LET unlocked == Unlocks(value) /\ lastWrite # "none" IN
  /\ CanUnlock(chip) /\ reg = 128 + 57
  /\ unlockCount' = Unlocks(value)
  /\ isUnlocked' = unlocked
  /\ lockedMask' = IF unlocked THEN 63 ELSE 7
  /\ regs' = IF unlocked /\ ~isUnlocked THEN [regs EXCEPT ![30] = 31] ELSE regs
  /\ lastWrite' = IF Unlocks(value) THEN "unlock" ELSE "other"
  /\ UNCHANGED wrote

WriteUnlock(reg, value) ==
  LET unlocked == Unlocks(value) /\ unlockCount IN
  /\ CanUnlock(chip) /\ reg = 128 + 57
  /\ unlockCount' = Unlocks(value)
  /\ isUnlocked' = unlocked
  /\ lockedMask' = IF unlocked THEN 63 ELSE 7
  /\ regs' = IF unlocked /\ ~isUnlocked THEN [regs EXCEPT ![30] = 31] ELSE regs
  /\ lastWrite' = IF Unlocks(value) THEN "unlock" ELSE "other"
  /\ UNCHANGED wrote

(* In 80 columns a locked device takes no register past the eighth, and a  *)
(* write it does not take leaves the unlock counter as it was.             *)
Ignored(reg) == reg - 128 > lockedMask /\ M4

WriteIgnored(reg) ==
  /\ ~(CanUnlock(chip) /\ reg = 128 + 57)
  /\ Ignored(reg)
  /\ UNCHANGED <<regs, latch, lastWrite, wrote>>

(* mutant: the number is not masked                                        *)
TestMasked(reg) == reg % 64

(* The register's number goes through the mask: a locked device answers    *)
(* for its eight under every number.                                       *)
Masked(reg) == IF lockedMask = 63 THEN reg % 64 ELSE reg % 8

WriteRegister(reg, value) ==
  LET index == Masked(reg) IN
  /\ ~(CanUnlock(chip) /\ reg = 128 + 57)
  /\ ~Ignored(reg)
  /\ lastWrite' = "other"
  /\ IF index = 50 /\ Bit(value, 128)
     THEN /\ regs' = ResetRegs(chip)
          /\ Locked
          /\ KeepWrote(chip, ResetRegs(chip))
     ELSE /\ regs' = [r \in Kept |-> IF r # index THEN regs[r]
                                     ELSE IF r = 30 /\ value = 0 THEN 31 ELSE value]
          /\ unlockCount' = FALSE
          /\ UNCHANGED <<isUnlocked, lockedMask>>
          /\ KeepWrote(chip, [r \in Kept |-> IF r = index THEN value ELSE regs[r]])

-----------------------------------------------------------------------------
(* The control port *)

WriteAddrFirst ==
  /\ regWriteStage = 0
  /\ stage0' \in FirstBytes
  /\ regWriteStage' = 1
  /\ UNCHANGED <<chip, regs, latch, addr, pal, lastWrite, costs>>

(* The second byte is a register: one of 64, so bit 6 is reserved.         *)
WriteAddrRegister ==
  /\ regWriteStage = 1
  /\ \E data \in SecondBytes[chip] :
       /\ Bit(data, 128)
       /\ \/ Bit(data, 64) /\ UNCHANGED <<regs, latch, lastWrite, wrote>>
          \/ /\ ~Bit(data, 64)
             /\ \/ WriteUnlock(data, stage0)
                \/ WriteIgnored(data)
                \/ WriteRegister(data, stage0)
  /\ regWriteStage' = 0
  /\ inRun' = (inRun /\ regs'[47] = regs[47])
  /\ UNCHANGED <<chip, stage0, currentAddress, readAhead, vram, palWriteStage, pram, costs>>

(* Or an address, prefetched unless it is for writing.  R48 stays 1.       *)
WriteAddrAddress ==
  /\ regWriteStage = 1
  /\ Costs
  /\ \E data \in SecondBytes[chip] :
       /\ ~Bit(data, 128)
       /\ LET a == stage0 + 256 * (data % 64) IN
          IF Bit(data, 64)
          THEN currentAddress' = a /\ UNCHANGED readAhead
          ELSE currentAddress' = a + 1 /\ readAhead' = Cells(Cell(a))
  /\ regWriteStage' = 0
  /\ UNCHANGED <<chip, regs, latch, stage0, vram, wrote, pal, lastWrite>>

-----------------------------------------------------------------------------
(* The data port *)

WriteDataVram ==
  /\ ~DataPort(regs)
  /\ Costs
  /\ \E data \in DataBytes :
       /\ readAhead' = data
       /\ vram' = With(vram, Cell(currentAddress), data)
       /\ wrote' = With(wrote, InRange(currentAddress), data)
  /\ currentAddress' = currentAddress + 1
  /\ regWriteStage' = 0
  /\ UNCHANGED <<chip, regs, latch, stage0, pal, lastWrite>>

(* In palette mode the byte is half an entry, and the control port's stage *)
(* is left alone.                                                          *)
WriteDataPaletteFirst ==
  /\ DataPort(regs) /\ palWriteStage = 0
  /\ palWriteStage' = 1
  /\ UNCHANGED <<chip, regs, latch, stage, addr, pram, inRun, lastWrite, costs>>

(* mutant: the increment stays within the index                            *)
TestStepIndex(v) == (v - (v % 64)) + ((v + 1) % 64)

(* R47 after an entry: the increment is of the whole byte.                 *)
StepIndex(v) == (v + 1) % 256

WriteDataPaletteSecond ==
  /\ DataPort(regs) /\ palWriteStage = 1
  /\ Costs
  /\ pram' = Index(regs)
  /\ palWriteStage' = 0
  /\ regs' = [regs EXCEPT ![47] = IF AutoInc(regs) THEN StepIndex(@) ELSE ClearBit(@, 128)]
  /\ inRun' = AutoInc(regs)
  /\ UNCHANGED <<chip, latch, stage, addr, lastWrite>>

ReadData ==
  /\ Costs
  /\ readAhead' = Cells(Cell(currentAddress))
  /\ currentAddress' = currentAddress + 1
  /\ regWriteStage' = 0
  /\ UNCHANGED <<chip, regs, latch, stage0, vram, wrote, pal, lastWrite>>

-----------------------------------------------------------------------------
(* The status reads: the emulator's entry also ends the palette mode, the  *)
(* bus interface's does not.                                               *)

ReadStatus ==
  /\ regWriteStage' = 0
  /\ palWriteStage' = 0
  /\ regs' = [regs EXCEPT ![47] = ClearBit(@, 128)]
  /\ inRun' = FALSE
  /\ UNCHANGED <<chip, latch, stage0, addr, pram, lastWrite, costs>>

StatusReadReconcile ==
  /\ regWriteStage' = 0
  /\ UNCHANGED <<chip, regs, latch, stage0, addr, pal, lastWrite, costs>>

-----------------------------------------------------------------------------
(* What a host does to the device rather than through its ports.           *)

Reset ==
  /\ Costs
  /\ regs' = [ResetRegs(chip) EXCEPT ![1] = 0]
  /\ Locked
  /\ regWriteStage' = 0 /\ stage0' = 0
  /\ currentAddress' = 0 /\ readAhead' = 0
  /\ palWriteStage' = 0 /\ inRun' = FALSE
  /\ lastWrite' = "none"
  /\ KeepWrote(chip, ResetRegs(chip))
  /\ UNCHANGED <<chip, vram, pram>>

(* mutant: a step down leaves the latch                                    *)
TestSetChip ==
  /\ Costs
  /\ chip' \in Chips
  /\ regs' = [regs EXCEPT ![30] = ResetRegs(chip')[30]]
  /\ KeepWrote(chip', regs)
  /\ UNCHANGED <<latch, stage, currentAddress, readAhead, vram, pal, lastWrite>>

SetChip ==
  /\ Costs
  /\ chip' \in Chips
  /\ regs' = [regs EXCEPT ![30] = ResetRegs(chip')[30]]
  /\ IF CanUnlock(chip') THEN UNCHANGED latch ELSE Locked
  /\ KeepWrote(chip', regs)
  /\ UNCHANGED <<stage, currentAddress, readAhead, vram, pal, lastWrite>>

(* A debugger's store goes to the register it names, past lock and latch.  *)
DebugRegWrite ==
  /\ Costs
  /\ \E r \in Kept, value \in FirstBytes : 
       /\ regs' = [regs EXCEPT ![r] = value]
       /\ KeepWrote(chip, [regs EXCEPT ![r] = value])
  /\ inRun' = FALSE
  /\ UNCHANGED <<chip, latch, stage, currentAddress, readAhead, vram, palWriteStage, pram, lastWrite>>

-----------------------------------------------------------------------------
ControlPort == WriteAddrFirst \/ WriteAddrRegister \/ WriteAddrAddress
DataAccess  == WriteDataVram \/ WriteDataPaletteFirst \/ WriteDataPaletteSecond \/ ReadData
StatusRead  == ReadStatus \/ StatusReadReconcile
Device      == Reset \/ SetChip \/ DebugRegWrite
Next == ControlPort \/ DataAccess \/ StatusRead \/ Device

Spec == Init /\ [][Next]_vars

-----------------------------------------------------------------------------
(* Properties *)

(* Every variable has its type.                                            *)
TypeOK ==
  /\ chip \in Chips
  /\ regs \in [Kept -> Byte]
  /\ isUnlocked \in BOOLEAN /\ unlockCount \in BOOLEAN /\ lockedMask \in {7, 63}
  /\ regWriteStage \in {0, 1} /\ stage0 \in Byte
  /\ currentAddress \in Nat /\ readAhead \in Byte
  /\ palWriteStage \in {0, 1}
  /\ pram \in 0..63
  /\ inRun \in BOOLEAN
  /\ lastWrite \in {"none", "unlock", "other"}
  /\ costs \in 0..MaxCosts

(* The three variables of the lock say one thing, through every sequence   *)
(* of unlock writes, register resets, resets and steps down the ladder:    *)
(* the mask admits 64 registers only on an unlocked device, only a         *)
(* personality that can unlock is unlocked, and the counter stands only    *)
(* for an unlock write that was the last to take effect.                   *)
LatchAgrees ==
  /\ isUnlocked <=> lockedMask = 63
  /\ isUnlocked => CanUnlock(chip)
  /\ unlockCount => lastWrite = "unlock" /\ CanUnlock(chip)

(* A device unlocks at the second of two unlock writes with no effective   *)
(* register write between them, at no other step, and a third in a row     *)
(* changes nothing (write_reg_value's unlock branch).                      *)
UnlockTakesTwo ==
  [][/\ ~isUnlocked /\ isUnlocked' => lastWrite = "unlock" /\ lastWrite' = "unlock"
     /\ isUnlocked /\ lastWrite = "unlock" /\ lastWrite' = "unlock" /\ chip' = chip /\ costs' = costs
          => isUnlocked']_vars

(* While the device is locked no port write reaches a register past the    *)
(* eighth: the palette's, R30 and the rest stay as the reset left them.    *)
LockedStaysInEight ==
  [][~isUnlocked /\ ~isUnlocked' /\ ControlPort
       => \A r \in Kept : r > 7 => regs'[r] = regs[r]]_vars

(* A run of auto-incremented entries rises: it stores no entry twice, so   *)
(* after the palette's last one the data port is VRAM's again and does not *)
(* start over at entry 0 (the increment carries out of R47's index).       *)
RunRises == [][inRun /\ WriteDataPaletteSecond => pram' > pram]_vars

(* What the host wrote to VRAM it finds where it wrote it, until the map   *)
(* of its addresses changes: the 4K permutation makes no two addresses one *)
(* cell.                                                                   *)
HostReadsBack == \A a \in DOMAIN wrote : Cells(Cell(a)) = wrote[a]
-----------------------------------------------------------------------------
(* Inductive invariants *)

(* An unlocked device whose last register write was an unlock write counts *)
(* one, so that the next one finds it.                                     *)
LatchInv ==
  /\ LatchAgrees
  /\ isUnlocked /\ lastWrite = "unlock" => unlockCount

(* In a run R47 names the entry after the one stored last, or has carried  *)
(* out of the palette mode.                                                *)
RunInv == inRun => regs[47] = 0 \/ regs[47] = 193 + pram

(* The cells hold bytes, and what the host wrote is in them.               *)
MemoryInv ==
  /\ vram = [c \in DOMAIN vram |-> vram[c]] /\ \A c \in DOMAIN vram : vram[c] \in Byte
  /\ DOMAIN wrote \subseteq HostAddress
  /\ HostReadsBack

PortInv == TypeOK /\ LatchInv /\ RunInv /\ MemoryInv
=============================================================================
