-------------------------- MODULE HostPort_proofs ---------------------------
(***************************************************************************)
(* Proofs about HostPort, for every personality, every byte the host may    *)
(* write and every number of operations: the lock's three variables agree,  *)
(* the unlock takes two writes, a locked device is eight registers, a run   *)
(* of palette entries rises and VRAM gives back what it was given.          *)
(***************************************************************************)
EXTENDS HostPort, TLAPS

-----------------------------------------------------------------------------
(* Bytes and addresses *)

LEMMA ClearedByte ==
  ASSUME NEW v \in Byte
  PROVE  ClearBit(v, 128) \in Byte /\ ClearBit(v, 128) < 128
BY DEF ClearBit, Bit, Byte

LEMMA SteppedByte ==
  ASSUME NEW v \in Byte, Bit(v, 128), Bit(v, 64)
  PROVE  v = 192 + (v % 64) /\ StepIndex(v) \in Byte
         /\ (StepIndex(v) = 0 \/ StepIndex(v) = 193 + (v % 64))
BY DEF StepIndex, Bit, Byte

LEMMA ResetIsBytes ==
  ASSUME NEW c
  PROVE  /\ ResetRegs(c) \in [Kept -> Byte] /\ ResetRegs(c)[47] = 0
         /\ [ResetRegs(c) EXCEPT ![1] = 0] \in [Kept -> Byte]
         /\ [ResetRegs(c) EXCEPT ![1] = 0][47] = 0
BY DEF ResetRegs, Kept, Byte

(* An address is its four parts: the bit no rotation moves, the one it     *)
(* moves down, the ones it moves up and the ones below.                     *)
Parts(m, h, t, f, l) ==
  /\ h = m \div 8192 /\ t = (m \div 4096) % 2 /\ f = (m \div 64) % 64 /\ l = m % 64
  /\ h \in {0, 1} /\ t \in {0, 1} /\ f \in 0..63 /\ l \in 0..63
  /\ m = 8192 * h + 4096 * t + 64 * f + l

LEMMA AddressParts ==
  ASSUME NEW m \in HostAddress
  PROVE  \E h, t, f, l : Parts(m, h, t, f, l)
<1>1. m \div 8192 \in {0, 1}
  BY DEF HostAddress
<1>2. (m \div 4096) % 2 \in {0, 1}
  BY DEF HostAddress
<1>3. (m \div 64) % 64 \in 0..63
  BY DEF HostAddress
<1>4. m % 64 \in 0..63
  BY DEF HostAddress
<1>5. m = 8192 * (m \div 8192) + 4096 * ((m \div 4096) % 2) + 64 * ((m \div 64) % 64) + (m % 64)
  BY DEF HostAddress
<1>6. Parts(m, m \div 8192, (m \div 4096) % 2, (m \div 64) % 64, m % 64)
  BY <1>1, <1>2, <1>3, <1>4, <1>5 DEF Parts
<1> QED
  BY <1>6

(* The rotated address has the parts in other places, none over another.   *)
LEMMA RotationIsInjective ==
  ASSUME NEW m \in HostAddress, NEW n \in HostAddress, Rotated(m) = Rotated(n)
  PROVE  m = n
<1>1. PICK h, t, f, l : Parts(m, h, t, f, l)
  BY AddressParts
<1>2. PICK h2, t2, f2, l2 : Parts(n, h2, t2, f2, l2)
  BY AddressParts
<1>3. /\ h \in {0, 1} /\ t \in {0, 1} /\ f \in 0..63 /\ l \in 0..63
      /\ h2 \in {0, 1} /\ t2 \in {0, 1} /\ f2 \in 0..63 /\ l2 \in 0..63
  BY <1>1, <1>2 DEF Parts
<1>4. 8192 * h + 128 * f + 64 * t + l = 8192 * h2 + 128 * f2 + 64 * t2 + l2
  BY <1>1, <1>2 DEF Parts, Rotated
<1>5. h = h2 /\ t = t2 /\ f = f2 /\ l = l2
  BY <1>3, <1>4
<1> QED
  BY <1>1, <1>2, <1>5 DEF Parts

LEMMA InRangeAlready == ASSUME NEW a \in HostAddress PROVE a \in Nat /\ InRange(a) = a
BY DEF HostAddress, InRange

(* Two addresses of the 16K are one cell only if they are one address: the  *)
(* 4K board's rotation loses nothing.                                       *)
LEMMA OneCellOneAddress ==
  ASSUME NEW c, NEW r, NEW a \in Nat, NEW b \in Nat,
         CpuVramAddr(c, r, a) = CpuVramAddr(c, r, b)
  PROVE  InRange(a) = InRange(b)
<1>1. InRange(a) \in HostAddress /\ InRange(b) \in HostAddress
  BY DEF InRange, HostAddress
<1> QED
  BY <1>1, RotationIsInjective DEF CpuVramAddr

-----------------------------------------------------------------------------
(* The inductive invariant *)

USE DEF Kept, None

LEMMA Initially == Init => PortInv
<1> SUFFICES ASSUME Init PROVE PortInv
  OBVIOUS
<1>1. TypeOK
  BY ResetIsBytes, CostsAssumption DEF Init, TypeOK, Byte
<1>2. LatchInv /\ RunInv
  BY DEF Init, LatchInv, LatchAgrees, RunInv
<1>3. MemoryInv
  BY DEF Init, MemoryInv, HostReadsBack
<1> QED
  BY <1>1, <1>2, <1>3 DEF PortInv

(* The second byte of a register write is one the host may write.          *)
LEMMA SecondByte ==
  ASSUME TypeOK, NEW data \in SecondBytes[chip]
  PROVE  data \in Byte /\ Masked(data) \in 0..63
<1>1. data \in Byte
  BY BytesAssumption DEF TypeOK
<1> QED
  BY <1>1 DEF Masked, Byte, TypeOK

(* A change of the map drops the record of what was written under it, and  *)
(* without one the record is found where it was.                           *)
LEMMA MemoryKept ==
  ASSUME MemoryInv, TypeOK, NEW c, NEW r, vram' = vram, chip' = c, KeepWrote(c, r),
         Ram16K(regs') = Ram16K(r)
  PROVE  MemoryInv'
<1>1. CASE Remapped(c, r)
  BY <1>1 DEF KeepWrote, MemoryInv, HostReadsBack
<1>2. CASE ~Remapped(c, r)
  <2>1. \A a \in DOMAIN wrote : CpuVramAddr(chip', regs', a) = CpuVramAddr(chip, regs, a)
    BY <1>2 DEF Remapped, CpuVramAddr
  <2> QED
    BY <1>2, <2>1 DEF KeepWrote, MemoryInv, HostReadsBack, Cells, Cell
<1> QED
  BY <1>1, <1>2

(* Nothing of the memory's part moves.                                     *)
LEMMA MemoryStays ==
  ASSUME MemoryInv, vram' = vram, wrote' = wrote, chip' = chip, Ram16K(regs') = Ram16K(regs)
  PROVE  MemoryInv'
<1>1. \A a \in DOMAIN wrote : CpuVramAddr(chip', regs', a) = CpuVramAddr(chip, regs, a)
  BY DEF CpuVramAddr
<1> QED
  BY <1>1 DEF MemoryInv, HostReadsBack, Cells, Cell

(* A prefetched byte is a byte.                                            *)
LEMMA CellsAreBytes ==
  ASSUME MemoryInv, NEW c
  PROVE  Cells(c) \in Byte
BY DEF MemoryInv, Cells, Byte

-----------------------------------------------------------------------------
(* One lemma per handler *)

LEMMA FirstStep == ASSUME PortInv, WriteAddrFirst PROVE PortInv'
<1> USE DEF PortInv, WriteAddrFirst, latch, addr, pal
<1>1. TypeOK'
  BY BytesAssumption DEF TypeOK
<1>2. LatchInv' /\ RunInv'
  BY DEF LatchInv, LatchAgrees, RunInv
<1>3. MemoryInv'
  BY MemoryStays
<1> QED
  BY <1>1, <1>2, <1>3

LEMMA UnlockStep ==
  ASSUME TypeOK, LatchInv, MemoryInv, NEW data \in Byte, WriteUnlock(data, stage0), chip' = chip, vram' = vram
  PROVE  /\ regs' \in [Kept -> Byte] /\ lockedMask' \in {7, 63}
         /\ isUnlocked' \in BOOLEAN /\ unlockCount' \in BOOLEAN
         /\ lastWrite' \in {"none", "unlock", "other"}
         /\ LatchInv' /\ MemoryInv'
<1> USE DEF WriteUnlock
<1>1. regs' \in [Kept -> Byte] /\ regs'[1] = regs[1]
  BY DEF TypeOK, Byte
<1>2. MemoryInv'
  BY <1>1, MemoryStays DEF Ram16K
<1>3. CASE Unlocks(stage0) /\ unlockCount
  <2>1. isUnlocked' = TRUE /\ unlockCount' = TRUE /\ lockedMask' = 63 /\ lastWrite' = "unlock"
    BY <1>3
  <2> QED
    BY <1>1, <1>2, <2>1 DEF LatchInv, LatchAgrees
<1>4. CASE Unlocks(stage0) /\ ~unlockCount
  <2>1. isUnlocked' = FALSE /\ unlockCount' = TRUE /\ lockedMask' = 7 /\ lastWrite' = "unlock"
    BY <1>4
  <2> QED
    BY <1>1, <1>2, <2>1 DEF LatchInv, LatchAgrees
<1>5. CASE ~Unlocks(stage0)
  <2>1. isUnlocked' = FALSE /\ unlockCount' = FALSE /\ lockedMask' = 7 /\ lastWrite' = "other"
    BY <1>5 DEF Unlocks
  <2> HIDE DEF WriteUnlock
  <2>2. LatchInv'
    BY <2>1 DEF LatchInv, LatchAgrees
  <2> QED
    BY <1>1, <1>2, <2>1, <2>2
<1> QED
  BY <1>3, <1>4, <1>5

LEMMA IgnoredStep ==
  ASSUME TypeOK, LatchInv, MemoryInv, UNCHANGED <<regs, latch, lastWrite, wrote>>, chip' = chip, vram' = vram
  PROVE  /\ regs' \in [Kept -> Byte] /\ lockedMask' \in {7, 63}
         /\ isUnlocked' \in BOOLEAN /\ unlockCount' \in BOOLEAN
         /\ lastWrite' \in {"none", "unlock", "other"}
         /\ LatchInv' /\ MemoryInv'
<1> USE DEF latch
<1>1. MemoryInv'
  BY MemoryStays
<1> QED
  BY <1>1 DEF LatchInv, LatchAgrees, TypeOK

LEMMA RegisterStep ==
  ASSUME TypeOK, LatchInv, MemoryInv, NEW data \in SecondBytes[chip], WriteRegister(data, stage0),
         chip' = chip, vram' = vram
  PROVE  /\ regs' \in [Kept -> Byte] /\ lockedMask' \in {7, 63}
         /\ isUnlocked' \in BOOLEAN /\ unlockCount' \in BOOLEAN
         /\ lastWrite' \in {"none", "unlock", "other"}
         /\ LatchInv' /\ MemoryInv'
<1>1. CASE Masked(data) = 50 /\ Bit(stage0, 128)
  <2>1. regs' = ResetRegs(chip) /\ Locked /\ KeepWrote(chip, ResetRegs(chip)) /\ lastWrite' = "other"
    BY <1>1 DEF WriteRegister
  <2>2. MemoryInv'
    BY <2>1, MemoryKept
  <2>3. regs' \in [Kept -> Byte]
    BY <2>1, ResetIsBytes
  <2>4. LatchInv'
    BY <2>1 DEF Locked, LatchInv, LatchAgrees
  <2> QED
    BY <2>1, <2>2, <2>3, <2>4 DEF Locked
<1>2. CASE ~(Masked(data) = 50 /\ Bit(stage0, 128))
  <2>1. /\ regs' = [r \in Kept |-> IF r # Masked(data) THEN regs[r]
                                   ELSE IF r = 30 /\ stage0 = 0 THEN 31 ELSE stage0]
        /\ unlockCount' = FALSE /\ UNCHANGED <<isUnlocked, lockedMask>> /\ lastWrite' = "other"
        /\ KeepWrote(chip, [r \in Kept |-> IF r = Masked(data) THEN stage0 ELSE regs[r]])
    BY <1>2 DEF WriteRegister
  <2>2. MemoryInv'
    BY <2>1, MemoryKept DEF Ram16K
  <2>3. regs' \in [Kept -> Byte]
    BY <2>1 DEF TypeOK, Byte
  <2> QED
    BY <2>1, <2>2, <2>3 DEF LatchInv, LatchAgrees, TypeOK
<1> QED
  BY <1>1, <1>2

LEMMA WriteAddrRegisterStep == ASSUME PortInv, WriteAddrRegister PROVE PortInv'
<1>1. PICK data \in SecondBytes[chip] :
        \/ UNCHANGED <<regs, latch, lastWrite, wrote>>
        \/ WriteUnlock(data, stage0)
        \/ WriteRegister(data, stage0)
  BY DEF WriteAddrRegister, WriteIgnored
<1>2. data \in Byte
  BY SecondByte DEF PortInv
<1>3. /\ regs' \in [Kept -> Byte] /\ lockedMask' \in {7, 63}
      /\ isUnlocked' \in BOOLEAN /\ unlockCount' \in BOOLEAN
      /\ lastWrite' \in {"none", "unlock", "other"}
      /\ LatchInv' /\ MemoryInv'
  BY <1>1, <1>2, UnlockStep, IgnoredStep, RegisterStep DEF PortInv, WriteAddrRegister
<1>4. TypeOK'
  BY <1>3 DEF PortInv, WriteAddrRegister, TypeOK
<1>5. RunInv'
  BY DEF PortInv, WriteAddrRegister, RunInv
<1> QED
  BY <1>3, <1>4, <1>5 DEF PortInv

LEMMA WriteAddrAddressStep == ASSUME PortInv, WriteAddrAddress PROVE PortInv'
<1> USE DEF PortInv, WriteAddrAddress, latch, pal
<1>1. PICK data \in SecondBytes[chip] :
        LET a == stage0 + 256 * (data % 64) IN
        \/ currentAddress' = a /\ UNCHANGED readAhead
        \/ currentAddress' = a + 1 /\ readAhead' = Cells(Cell(a))
  OBVIOUS
<1>2. data \in Byte
  BY SecondByte
<1>3. currentAddress' \in Nat /\ readAhead' \in Byte
  BY <1>1, <1>2, CellsAreBytes DEF TypeOK, Byte
<1>4. TypeOK'
  BY <1>3, CostsAssumption DEF TypeOK, Costs
<1>5. LatchInv' /\ RunInv'
  BY DEF LatchInv, LatchAgrees, RunInv
<1>6. MemoryInv'
  BY MemoryStays
<1> QED
  BY <1>4, <1>5, <1>6

(* The cell of a written address is no other address's.                    *)
LEMMA WriteDataVramStep == ASSUME PortInv, WriteDataVram PROVE PortInv'
<1> USE DEF PortInv
<1>1. PICK data \in DataBytes :
        /\ readAhead' = data
        /\ vram' = With(vram, Cell(currentAddress), data)
        /\ wrote' = With(wrote, InRange(currentAddress), data)
  BY DEF WriteDataVram
<1>2. data \in Byte
  BY BytesAssumption
<1>3. TypeOK'
  BY <1>1, <1>2, CostsAssumption DEF TypeOK, Costs, WriteDataVram, latch, pal, Byte
<1>4. LatchInv' /\ RunInv'
  BY DEF LatchInv, LatchAgrees, RunInv, WriteDataVram, latch, pal
<1>5. MemoryInv'
  <2> DEFINE home == InRange(currentAddress)
  <2>1. home \in HostAddress /\ currentAddress \in Nat
    BY DEF InRange, HostAddress, TypeOK
  <2>2. Cell(home) = Cell(currentAddress)
    BY <2>1 DEF Cell, CpuVramAddr, InRange, HostAddress
  <2>3. ASSUME NEW a \in DOMAIN wrote', Cell(a) = Cell(currentAddress)
        PROVE  a = home
    <3>1. a \in HostAddress
      BY <1>1, <2>1 DEF With, MemoryInv
    <3>2. a \in Nat /\ InRange(a) = a
      BY <3>1, InRangeAlready
    <3> QED
      BY <2>1, <2>3, <3>2, OneCellOneAddress DEF Cell
  <2>4. \A a : Cell(a)' = Cell(a)
    BY DEF Cell, WriteDataVram
  <2>5. ASSUME NEW a \in DOMAIN wrote'
        PROVE  Cells(Cell(a))' = wrote'[a]
    <3>1. CASE a = home
      BY <1>1, <2>2, <2>4, <3>1 DEF Cells, With
    <3>2. CASE a # home
      <4>1. Cell(a) # Cell(currentAddress) /\ a \in DOMAIN wrote
        BY <1>1, <2>3, <2>5, <3>2 DEF With
      <4>2. wrote'[a] = wrote[a] /\ Cells(Cell(a))' = Cells(Cell(a))
        BY <1>1, <2>4, <2>5, <3>2, <4>1 DEF Cells, With
      <4> QED
        BY <4>1, <4>2 DEF MemoryInv, HostReadsBack
    <3> QED
      BY <3>1, <3>2
  <2>6. /\ vram' = [c \in DOMAIN vram' |-> vram'[c]]
        /\ \A c \in DOMAIN vram' : vram'[c] \in Byte
        /\ DOMAIN wrote' \subseteq HostAddress
    BY <1>1, <1>2, <2>1 DEF With, MemoryInv
  <2> QED
    BY <2>5, <2>6 DEF MemoryInv, HostReadsBack
<1> QED
  BY <1>3, <1>4, <1>5

LEMMA PaletteFirstStep == ASSUME PortInv, WriteDataPaletteFirst PROVE PortInv'
<1> USE DEF PortInv, WriteDataPaletteFirst, latch, stage, addr
<1>1. TypeOK'
  BY DEF TypeOK
<1>2. LatchInv' /\ RunInv'
  BY DEF LatchInv, LatchAgrees, RunInv
<1>3. MemoryInv'
  BY MemoryStays
<1> QED
  BY <1>1, <1>2, <1>3

(* The entry just stored is the one R47 named; an increment passes it.     *)
LEMMA PaletteSecondStep == ASSUME PortInv, WriteDataPaletteSecond PROVE PortInv'
<1> USE DEF PortInv
<1>1. regs[47] \in Byte /\ pram' = regs[47] % 64 /\ pram' \in 0..63
  BY DEF WriteDataPaletteSecond, TypeOK, Index, Byte
<1>2. /\ regs' = [regs EXCEPT ![47] = regs'[47]]
      /\ regs'[47] = IF AutoInc(regs) THEN StepIndex(regs[47]) ELSE ClearBit(regs[47], 128)
  BY DEF WriteDataPaletteSecond, TypeOK
<1>3. regs'[47] \in Byte
  BY <1>1, <1>2, SteppedByte, ClearedByte DEF WriteDataPaletteSecond, DataPort, AutoInc
<1>4. regs' \in [Kept -> Byte] /\ regs'[1] = regs[1]
  BY <1>2, <1>3 DEF TypeOK
<1>5. TypeOK'
  BY <1>1, <1>4, CostsAssumption DEF WriteDataPaletteSecond, TypeOK, Costs, latch, stage, addr, AutoInc, Bit
<1>6. LatchInv'
  BY DEF WriteDataPaletteSecond, LatchInv, LatchAgrees, latch
<1>7. RunInv'
  BY <1>1, <1>2, SteppedByte DEF WriteDataPaletteSecond, RunInv, DataPort, AutoInc
<1>8. MemoryInv'
  BY <1>4, MemoryStays DEF WriteDataPaletteSecond, addr, Ram16K
<1> QED
  BY <1>5, <1>6, <1>7, <1>8

LEMMA ReadDataStep == ASSUME PortInv, ReadData PROVE PortInv'
<1> USE DEF PortInv, ReadData, latch, pal
<1>1. readAhead' \in Byte
  BY CellsAreBytes
<1>2. TypeOK'
  BY <1>1, CostsAssumption DEF TypeOK, Costs
<1>3. LatchInv' /\ RunInv'
  BY DEF LatchInv, LatchAgrees, RunInv
<1>4. MemoryInv'
  BY MemoryStays
<1> QED
  BY <1>2, <1>3, <1>4

LEMMA CostsStep == ASSUME TypeOK, Costs PROVE costs' \in 0..MaxCosts
BY CostsAssumption DEF TypeOK, Costs

(* The status reads, resets and a debugger's stores change registers only. *)
LEMMA StatusReadStep == ASSUME PortInv, StatusRead PROVE PortInv'
<1> USE DEF PortInv, latch, addr, pal
<1>1. CASE ReadStatus
  <2>1. regs' \in [Kept -> Byte] /\ regs'[1] = regs[1]
    BY <1>1, ClearedByte DEF ReadStatus, TypeOK
  <2>2. TypeOK' /\ LatchInv' /\ RunInv'
    BY <1>1, <2>1 DEF ReadStatus, TypeOK, LatchInv, LatchAgrees, RunInv
  <2>3. MemoryInv'
    BY <1>1, <2>1, MemoryStays DEF ReadStatus, Ram16K
  <2> QED
    BY <2>2, <2>3
<1>2. CASE StatusReadReconcile
  <2>1. TypeOK' /\ LatchInv' /\ RunInv'
    BY <1>2 DEF StatusReadReconcile, TypeOK, LatchInv, LatchAgrees, RunInv
  <2>2. MemoryInv'
    BY <1>2, MemoryStays DEF StatusReadReconcile
  <2> QED
    BY <2>1, <2>2
<1> QED
  BY <1>1, <1>2 DEF StatusRead

LEMMA ResetStep == ASSUME PortInv, Reset PROVE PortInv'
<1> USE DEF PortInv, Reset
<1>1. regs' \in [Kept -> Byte] /\ regs'[47] = 0
  BY ResetIsBytes
<1>2. TypeOK'
  <2>1. costs' \in 0..MaxCosts
    BY CostsStep
  <2>2. /\ isUnlocked' = FALSE /\ unlockCount' = FALSE /\ lockedMask' = 7
        /\ chip' = chip /\ pram' = pram
    BY DEF Locked
  <2>3. 0 \in Byte
    BY DEF Byte
  <2> QED
    BY <1>1, <2>1, <2>2, <2>3 DEF TypeOK
<1>3. LatchInv' /\ RunInv'
  BY <1>1 DEF LatchInv, LatchAgrees, RunInv, Locked
<1>4. MemoryInv'
  <2>1. Ram16K(regs') = Ram16K(ResetRegs(chip))
    BY DEF Ram16K, Bit, ResetRegs
  <2> QED
    BY <2>1, MemoryKept
<1> QED
  BY <1>2, <1>3, <1>4

LEMMA SetChipStep == ASSUME PortInv, SetChip PROVE PortInv'
<1> USE DEF PortInv, SetChip, stage, pal
<1>1. regs' \in [Kept -> Byte] /\ regs'[47] = regs[47] /\ regs'[1] = regs[1]
  BY ResetIsBytes DEF TypeOK, Kept
<1>2. TypeOK'
  <2>1. costs' \in 0..MaxCosts
    BY CostsStep
  <2>2. /\ isUnlocked' \in BOOLEAN /\ unlockCount' \in BOOLEAN /\ lockedMask' \in {7, 63}
    BY DEF Locked, latch, TypeOK
  <2> QED
    BY <1>1, <2>1, <2>2 DEF TypeOK
<1>3. LatchInv'
  BY DEF LatchInv, LatchAgrees, Locked, latch
<1>4. RunInv'
  BY <1>1 DEF RunInv
<1>5. MemoryInv'
  BY <1>1, MemoryKept DEF Ram16K
<1> QED
  BY <1>2, <1>3, <1>4, <1>5

LEMMA DebugStep == ASSUME PortInv, DebugRegWrite PROVE PortInv'
<1> USE DEF PortInv
<1>1. PICK r \in Kept, value \in FirstBytes :
        regs' = [regs EXCEPT ![r] = value] /\ KeepWrote(chip, regs')
  BY DEF DebugRegWrite
<1>2. regs' \in [Kept -> Byte]
  BY <1>1, BytesAssumption DEF TypeOK
<1>3. TypeOK'
  <2>1. costs' \in 0..MaxCosts
    BY CostsStep DEF DebugRegWrite
  <2>2. UNCHANGED <<chip, isUnlocked, unlockCount, lockedMask, regWriteStage, stage0, currentAddress,
                    readAhead, palWriteStage, pram, lastWrite>> /\ inRun' = FALSE
    BY DEF DebugRegWrite, latch, stage
  <2> QED
    BY <1>2, <2>1, <2>2 DEF TypeOK
<1>4. LatchInv' /\ RunInv'
  BY DEF DebugRegWrite, LatchInv, LatchAgrees, RunInv, latch
<1>5. MemoryInv'
  BY <1>1, MemoryKept DEF DebugRegWrite
<1> QED
  BY <1>3, <1>4, <1>5

LEMMA Inductive == PortInv /\ [Next]_vars => PortInv'
<1> SUFFICES ASSUME PortInv, [Next]_vars PROVE PortInv'
  OBVIOUS
<1>1. CASE ControlPort
  BY <1>1, FirstStep, WriteAddrRegisterStep, WriteAddrAddressStep DEF ControlPort
<1>2. CASE DataAccess
  BY <1>2, WriteDataVramStep, PaletteFirstStep, PaletteSecondStep, ReadDataStep DEF DataAccess
<1>3. CASE StatusRead
  BY <1>3, StatusReadStep
<1>4. CASE Device
  BY <1>4, ResetStep, SetChipStep, DebugStep DEF Device
<1>5. CASE UNCHANGED vars
  <2> USE <1>5 DEF vars, latch, stage, addr, pal, PortInv
  <2>1. TypeOK' /\ LatchInv' /\ RunInv'
    BY DEF TypeOK, LatchInv, LatchAgrees, RunInv
  <2>2. MemoryInv'
    BY MemoryStays
  <2> QED
    BY <2>1, <2>2
<1> QED
  BY <1>1, <1>2, <1>3, <1>4, <1>5 DEF Next

-----------------------------------------------------------------------------
(* Theorems *)

(* The invariant holds in every reachable state of write_addr, write_data, *)
(* read_data, the status reads, reset and set_chip.                        *)
THEOREM Invariance == Spec => []PortInv
BY Initially, Inductive, PTL DEF Spec

(* Every variable keeps its type.                                          *)
THEOREM Typing == Spec => []TypeOK
<1>1. PortInv => TypeOK
  BY DEF PortInv
<1> QED
  BY <1>1, Invariance, PTL

(* isUnlocked, unlockCount and lockedMask say one thing.                   *)
THEOREM LatchAgreesHolds == Spec => []LatchAgrees
<1>1. PortInv => LatchAgrees
  BY DEF PortInv, LatchInv
<1> QED
  BY <1>1, Invariance, PTL

(* VRAM gives back what the host wrote, under either map of its addresses. *)
THEOREM HostReadsBackHolds == Spec => []HostReadsBack
<1>1. PortInv => HostReadsBack
  BY DEF PortInv, MemoryInv
<1> QED
  BY <1>1, Invariance, PTL

(* The unlock takes two unlock writes in a row and a third keeps it.       *)
THEOREM UnlockTakesTwoHolds == Spec => UnlockTakesTwo
<1> DEFINE Two == /\ ~isUnlocked /\ isUnlocked' => lastWrite = "unlock" /\ lastWrite' = "unlock"
                  /\ isUnlocked /\ lastWrite = "unlock" /\ lastWrite' = "unlock" /\ chip' = chip /\ costs' = costs
                       => isUnlocked'
<1>1. ASSUME PortInv, [Next]_vars PROVE [Two]_vars
  <2> SUFFICES ASSUME isUnlocked' # isUnlocked PROVE Two
    BY <1>1 DEF PortInv, TypeOK
  <2> USE <1>1 DEF PortInv, LatchInv, LatchAgrees
  <2>1. CASE \E data \in SecondBytes[chip] : WriteUnlock(data, stage0)
    BY <2>1 DEF WriteUnlock, TypeOK
  <2>2. CASE \E data \in SecondBytes[chip] : WriteRegister(data, stage0)
    BY <2>2 DEF WriteRegister, Locked, TypeOK
  <2>3. CASE Reset \/ SetChip
    BY <2>3 DEF Reset, SetChip, Costs, Locked, latch, TypeOK
  <2> QED
    BY <2>1, <2>2, <2>3 DEF Next, ControlPort, DataAccess, StatusRead, Device, WriteAddrFirst,
       WriteAddrRegister, WriteIgnored, WriteAddrAddress, WriteDataVram, WriteDataPaletteFirst,
       WriteDataPaletteSecond, ReadData, ReadStatus, StatusReadReconcile, DebugRegWrite, vars, latch
<1> QED
  BY <1>1, Invariance, PTL DEF Spec, UnlockTakesTwo

(* A locked device's port writes stay in the first eight registers.        *)
THEOREM LockedStaysInEightHolds == Spec => LockedStaysInEight
<1> DEFINE Eight == ~isUnlocked /\ ~isUnlocked' /\ ControlPort => \A r \in Kept : r > 7 => regs'[r] = regs[r]
<1>1. ASSUME PortInv PROVE Eight
  <2> SUFFICES ASSUME ~isUnlocked, ~isUnlocked', ControlPort, NEW r \in Kept, r > 7
               PROVE  regs'[r] = regs[r]
    OBVIOUS
  <2> USE <1>1 DEF PortInv
  <2>1. CASE WriteAddrRegister
    <3>1. PICK data \in SecondBytes[chip] :
            \/ UNCHANGED <<regs, latch, lastWrite, wrote>>
            \/ WriteUnlock(data, stage0)
            \/ WriteRegister(data, stage0)
      BY <2>1 DEF WriteAddrRegister, WriteIgnored
    <3>2. Masked(data) \in 0..7
      BY SecondByte DEF Masked, LatchInv, LatchAgrees, Byte
    <3>3. CASE WriteRegister(data, stage0)
      BY <3>2, <3>3 DEF WriteRegister
    <3>4. CASE WriteUnlock(data, stage0)
      BY <3>4 DEF WriteUnlock
    <3> QED
      BY <3>1, <3>3, <3>4
  <2>2. CASE WriteAddrFirst \/ WriteAddrAddress
    BY <2>2 DEF WriteAddrFirst, WriteAddrAddress
  <2> QED
    BY <2>1, <2>2 DEF ControlPort
<1> QED
  BY <1>1, Invariance, PTL DEF Spec, LockedStaysInEight

(* The palette port's run rises.                                           *)
THEOREM RunRisesHolds == Spec => RunRises
<1> DEFINE Rises == inRun /\ WriteDataPaletteSecond => pram' > pram
<1>1. ASSUME PortInv PROVE Rises
  <2> SUFFICES ASSUME inRun, WriteDataPaletteSecond PROVE pram' > pram
    OBVIOUS
  <2>1. regs[47] = 193 + pram /\ pram \in 0..63
    BY <1>1 DEF PortInv, RunInv, TypeOK, WriteDataPaletteSecond, DataPort, Bit
  <2>2. regs[47] \in Byte /\ pram' = regs[47] % 64
    BY <1>1 DEF PortInv, TypeOK, WriteDataPaletteSecond, Index
  <2> QED
    BY <2>1, <2>2 DEF Byte
<1> QED
  BY <1>1, Invariance, PTL DEF Spec, RunRises
=============================================================================
