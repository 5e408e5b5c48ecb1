--------------------------- MODULE FrameInt_proofs ---------------------------
(* Theorems about FrameInt, for every number of lines, every set of sprite *)
(* reports and every interleaving of the frame path with the host.         *)
EXTENDS FrameInt, TLAPS

USE LinesAssumption

-----------------------------------------------------------------------------
(* The merge keeps what is latched: every flag stays, a fifth sprite keeps  *)
(* its number, and only a collision joins an unread frame flag.             *)
LEMMA MergeKeeps ==
  ASSUME NEW cur \in Status, NEW new \in Status
  PROVE  /\ Merge(cur, new) \in Status
         /\ cur.flags \subseteq Merge(cur, new).flags
         /\ "5S" \in cur.flags => Merge(cur, new).num = cur.num
         /\ "INT" \in cur.flags =>
              /\ Merge(cur, new).flags \subseteq cur.flags \cup {"COL"}
              /\ Merge(cur, new).num = cur.num
BY DEF Merge, Status, SR0Flags

(* Clearing what was seen yields a status again and adds no flag. *)
LEMMA ClearSeenType ==
  ASSUME NEW cur \in Status, NEW flags
  PROVE  /\ ClearSeen(cur, flags) \in Status
         /\ ClearSeen(cur, flags).flags = cur.flags \ flags
BY SpriteNumsAssumption DEF ClearSeen, Status, SR0Flags

(* A published word is a word. *)
LEMMA WordType ==
  ASSUME NEW reg \in {"SR0", "SR1"}, NEW s0 \in Status, NEW s1 \in SUBSET SR1Flags
  PROVE  Word(reg, s0, s1) \in Words
<1>1. s0.flags \subseteq SR0Flags
  BY DEF Status
<1> QED BY <1>1 DEF Word, Words

LEMMA Constants ==
  /\ NoStatus \in Status
  /\ EndOfFrame \in Status
  /\ Reports \subseteq Status
  /\ \A a \in 0..FrameEndAt : After(a) \in 0..FrameEndAt
<1>1. NoStatus \in Status /\ EndOfFrame \in Status
  BY SpriteNumsAssumption DEF NoStatus, EndOfFrame, Status, SR0Flags
<1>2. Reports \subseteq Status
  BY ReportsAssumption DEF Status, SR0Flags
<1>3. \A a \in 0..FrameEndAt : After(a) \in 0..FrameEndAt
  BY DEF After, FrameEndAt
<1> QED BY <1>1, <1>2, <1>3
-----------------------------------------------------------------------------
(* Type correctness, action by action; the console reset is included. *)
LEMMA TypingStep ==
  ASSUME TypeOK, [NextReset]_vars
  PROVE  TypeOK'
<1> USE MaxResetsAssumption
<1> USE DEF TypeOK, latch, regs, pins, io, locals, history, ThreadPC, CriticalPC
<1>1. CASE ScanlineStep
  <2>1. CASE FirstScanline
    <3>1. 1 \in 0..FrameEndAt
      BY DEF FrameEndAt
    <3>2. raised' \in 0..2
      BY <2>1 DEF FirstScanline
    <3> QED BY <2>1, <3>1, <3>2 DEF FirstScanline
  <2>2. CASE RenderLine
    BY <2>2, Constants DEF RenderLine, Goto
  <2>3. CASE ClearBlankLoad \/ ClearBlankStore
    BY <2>3 DEF ClearBlankLoad, ClearBlankStore, Goto
  <2>4. CASE LineCompare
    BY <2>4 DEF LineCompare, Goto
  <2>5. CASE LineMatchStore
    <3>1. sr1' \in SUBSET SR1Flags
      BY <2>5 DEF LineMatchStore, SR1Flags
    <3> QED BY <2>5, <3>1 DEF LineMatchStore, Goto
  <2> QED BY <1>1, <2>1, <2>2, <2>3, <2>4, <2>5 DEF ScanlineStep
<1>2. CASE EndOfFrameStep
  <2>1. CASE NothingOwed
    BY <2>1, Constants DEF NothingOwed, Return
  <2>2. CASE RaiseEndOfFrame
    BY <2>2, Constants DEF RaiseEndOfFrame, Goto
  <2>3. CASE SetBlankLoad
    BY <2>3 DEF SetBlankLoad, Goto
  <2>4. CASE SetBlankStore
    <3>1. sr1' \in SUBSET SR1Flags
      BY <2>4 DEF SetBlankStore, SR1Flags
    <3> QED BY <2>4, <3>1 DEF SetBlankStore, Goto
  <2> QED BY <1>2, <2>1, <2>2, <2>3, <2>4 DEF EndOfFrameStep, EndOfScanline, TriggerMissed, FrameEnd
<1>3. CASE UpdateStep
  <2>1. CASE TestStatus \/ EnterCritical
    BY <2>1 DEF TestStatus, EnterCritical, Goto
  <2>2. CASE TestFrameSource
    BY <2>2 DEF TestFrameSource, Goto, FrameSource
  <2>3. CASE TestLineSource
    BY <2>3 DEF TestLineSource, Goto, LineSource
  <2>4. CASE TestPin
    <3>1. raised' \in 0..2 /\ resets' = resets /\ wasReset' = wasReset
      BY <2>4 DEF TestPin, Raised
    <3> QED BY <2>4, <3>1, Constants DEF TestPin, Return
  <2>5. CASE ExitCritical
    BY <2>5, Constants DEF ExitCritical, Return
  <2>6. CASE MergeStatus
    BY <2>6, MergeKeeps DEF MergeStatus, Goto
  <2>7. CASE StoreShadow
    BY <2>7 DEF StoreShadow, Goto
  <2>12. CASE StoreSR0
    <3>1. raised' \in 0..2 /\ resets' = resets /\ wasReset' = wasReset
      BY <2>12 DEF StoreSR0, Raised
    <3> QED BY <2>12, <3>1 DEF StoreSR0, Goto
  <2>8. CASE StatusVisible
    BY <2>8, WordType DEF StatusVisible, Goto, Selected
  <2>9. CASE DeriveInt
    BY <2>9 DEF DeriveInt, Goto, InterruptStatus, FrameSource, LineSource
  <2>10. CASE SyncShadow
    BY <2>10 DEF SyncShadow, Goto
  <2>11. CASE DrivePin
    BY <2>11 DEF DrivePin, Goto
  <2> QED BY <1>3, <2>1, <2>2, <2>3, <2>4, <2>5, <2>6, <2>7, <2>8, <2>9, <2>10, <2>11, <2>12 DEF UpdateStep
<1>4. CASE CpuReadsStatus
  BY <1>4 DEF CpuReadsStatus
<1>5. CASE StatusReadReconcile
  <2>1. ASSUME SyncInt PROVE frameInt' \in BOOLEAN /\ pin' \in BOOLEAN
    BY <2>1 DEF SyncInt, InterruptStatus, FrameSource, LineSource
  <2>2. /\ frameStatus' \in Status /\ sr0' \in Status /\ sr1' \in SUBSET SR1Flags
        /\ frameInt' \in BOOLEAN /\ pin' \in BOOLEAN
    <3>1. CASE ReadSR0
      BY <2>1, <3>1, ClearSeenType DEF ReadSR0
    <3>2. CASE ReadSR1
      BY <2>1, <3>2 DEF ReadSR1
    <3> QED BY <1>5, <3>1, <3>2 DEF StatusReadReconcile
  <2>3. visible' \in Words
    BY <1>5, <2>2, WordType DEF StatusReadReconcile, Publish, Selected
  <2> QED BY <1>5, <2>2, <2>3 DEF StatusReadReconcile
<1>6. CASE RegisterWrites \/ WriteRegisterReset
  <2>1. RegisterWrite
    BY <1>6 DEF RegisterWrites, WriteR0, WriteR1, WriteR15, WriteR19, WriteUnlock, WriteRegisterReset
  <2>2. UNCHANGED pins \/ SyncInt
    BY <1>6 DEF RegisterWrites, WriteR0, WriteR1, WriteR15, WriteR19, WriteUnlock, WriteRegisterReset
  <2>3. frameInt' \in BOOLEAN /\ pin' \in BOOLEAN
    BY <2>2 DEF SyncInt, InterruptStatus, FrameSource, LineSource
  <2>4. /\ r0' \in BOOLEAN /\ r1' \in BOOLEAN /\ r15' \in {"SR0", "SR1"}
        /\ r19' \in 0..(Lines - 1) /\ unlocked' \in BOOLEAN
    <3>1. 0 \in 0..(Lines - 1)
      OBVIOUS
    <3>2. CASE WriteRegisterReset
      BY <3>1, <3>2 DEF WriteRegisterReset
    <3>3. CASE RegisterWrites
      BY <3>3 DEF RegisterWrites, WriteR0, WriteR1, WriteR15, WriteR19, WriteUnlock
    <3> QED BY <1>6, <3>2, <3>3
  <2>5. visible' \in Words
    BY <2>1, <2>4, WordType DEF RegisterWrite, Publish, Selected
  <2> QED BY <2>1, <2>3, <2>4, <2>5 DEF RegisterWrite
<1>8. CASE ConsoleReset
  <2>1. visible' \in Words
    BY <1>8, WordType, Constants DEF ConsoleReset, ResetAs, Publish, Selected
  <2>2. resets' \in 0..MaxResets /\ 0 \in 0..(Lines - 1)
    BY <1>8 DEF ConsoleReset, ResetAs
  <2> QED BY <1>8, <2>1, <2>2, Constants DEF ConsoleReset, ResetAs
<1>9. CASE UNCHANGED vars
  BY <1>9 DEF vars
<1> QED
  BY <1>1, <1>2, <1>3, <1>4, <1>5, <1>6, <1>8, <1>9
  DEF NextReset, Next, NextQuiet, Thread, Host
LEMMA TypingInit == Init => TypeOK
<1> SUFFICES ASSUME Init PROVE TypeOK
  OBVIOUS
<1>1. /\ 0 \in 0..FrameEndAt /\ 0 \in 0..(Lines - 1) /\ 0 \in 0..MaxResets
      /\ 0 \in 0..2
  BY MaxResetsAssumption DEF FrameEndAt
<1>2. visible \in Words
  BY WordType, Constants DEF Init
<1> QED BY <1>1, <1>2, Constants DEF Init, TypeOK, ThreadPC

(* Every variable keeps its type, with any host and any console reset. *)
THEOREM Typing == SpecReset => []TypeOK
<1>1. TypeOK /\ [NextReset]_vars => TypeOK'
  BY TypingStep
<1> QED BY TypingInit, <1>1, PTL DEF SpecReset

(* A behaviour without console resets is one of those. *)
LEMMA TypingNoReset == Spec => []TypeOK
<1>1. TypeOK /\ [Next]_vars => TypeOK'
  BY TypingStep DEF NextReset
<1> QED BY TypingInit, <1>1, PTL DEF Spec

-----------------------------------------------------------------------------
(* The two copies of SR0.  A handler writes both and never runs between the *)
(* masked stores, so only three thread steps can disturb the invariant.     *)
LEMMA LatchStep ==
  ASSUME TypeOK, LatchInv, [Next]_vars
  PROVE  LatchInv'
<1> USE DEF LatchInv, Lockstep, latch, locals
<1>1. CASE ScanlineStep
  BY <1>1 DEF ScanlineStep, FirstScanline, RenderLine, ClearBlankLoad, ClearBlankStore,
              LineCompare, LineMatchStore, Goto
<1>2. CASE EndOfFrameStep
  BY <1>2 DEF EndOfFrameStep, EndOfScanline, TriggerMissed, FrameEnd, NothingOwed,
              RaiseEndOfFrame, SetBlankLoad, SetBlankStore, Goto, Return
<1>3. CASE UpdateStep
  <2>1. CASE TestStatus \/ TestFrameSource \/ TestLineSource \/ TestPin \/ EnterCritical
    BY <2>1 DEF TestStatus, TestFrameSource, TestLineSource, TestPin, EnterCritical, Goto, Return
  <2>2. CASE MergeStatus
    BY <2>2 DEF MergeStatus, Goto
  <2>3. CASE StoreShadow \/ StoreSR0
    BY <2>3 DEF StoreShadow, StoreSR0, Goto
  <2>4. CASE StatusVisible \/ DeriveInt \/ SyncShadow \/ DrivePin \/ ExitCritical
    BY <2>4 DEF StatusVisible, DeriveInt, SyncShadow, DrivePin, ExitCritical, Goto, Return
  <2> QED BY <1>3, <2>1, <2>2, <2>3, <2>4 DEF UpdateStep
<1>4. CASE CpuReadsStatus
  BY <1>4 DEF CpuReadsStatus
<1>5. CASE StatusReadReconcile
  BY <1>5 DEF StatusReadReconcile, ReadSR0, ReadSR1, Masked, CriticalPC
<1>6. CASE RegisterWrites \/ WriteRegisterReset
  BY <1>6 DEF RegisterWrites, WriteR0, WriteR1, WriteR15, WriteR19, WriteUnlock,
              WriteRegisterReset, RegisterWrite
<1>7. CASE UNCHANGED vars
  BY <1>7 DEF vars
<1> QED
  BY <1>1, <1>2, <1>3, <1>4, <1>5, <1>6, <1>7 DEF Next, NextQuiet, Thread, Host

-----------------------------------------------------------------------------
(* The shadow of the pin and the pin: they part only at the masked store    *)
(* that is about to drive the pin.                                          *)
LEMMA PinStep ==
  ASSUME TypeOK, PinInv, [Next]_vars
  PROVE  PinInv'
<1> USE DEF PinInv, pins, locals
<1>1. CASE ScanlineStep
  BY <1>1 DEF ScanlineStep, FirstScanline, RenderLine, ClearBlankLoad, ClearBlankStore,
              LineCompare, LineMatchStore, Goto
<1>2. CASE EndOfFrameStep
  BY <1>2 DEF EndOfFrameStep, EndOfScanline, TriggerMissed, FrameEnd, NothingOwed,
              RaiseEndOfFrame, SetBlankLoad, SetBlankStore, Goto, Return
<1>3. CASE UpdateStep
  <2>1. CASE TestStatus \/ TestFrameSource \/ TestLineSource \/ TestPin \/ EnterCritical
    BY <2>1 DEF TestStatus, TestFrameSource, TestLineSource, TestPin, EnterCritical, Goto, Return
  <2>2. CASE MergeStatus \/ StoreShadow \/ StoreSR0 \/ StatusVisible \/ DeriveInt \/ ExitCritical
    BY <2>2 DEF MergeStatus, StoreShadow, StoreSR0, StatusVisible, DeriveInt, ExitCritical, Goto, Return
  <2>3. CASE SyncShadow
    BY <2>3 DEF SyncShadow, Goto
  <2>4. CASE DrivePin
    BY <2>4 DEF DrivePin, Goto
  <2> QED BY <1>3, <2>1, <2>2, <2>3, <2>4 DEF UpdateStep
<1>4. CASE CpuReadsStatus
  BY <1>4 DEF CpuReadsStatus
<1>5. CASE StatusReadReconcile
  <2>1. pc # "drive" /\ UNCHANGED pc /\ (UNCHANGED pins \/ SyncInt)
    BY <1>5 DEF StatusReadReconcile, ReadSR0, ReadSR1, Masked, CriticalPC
  <2> QED BY <2>1 DEF SyncInt
<1>6. CASE RegisterWrites \/ WriteRegisterReset
  <2>1. pc # "drive" /\ UNCHANGED pc /\ (UNCHANGED pins \/ SyncInt)
    BY <1>6 DEF RegisterWrites, WriteR0, WriteR1, WriteR15, WriteR19, WriteUnlock,
                WriteRegisterReset, RegisterWrite, Masked, CriticalPC
  <2> QED BY <2>1 DEF SyncInt
<1>7. CASE UNCHANGED vars
  BY <1>7 DEF vars
<1> QED
  BY <1>1, <1>2, <1>3, <1>4, <1>5, <1>6, <1>7 DEF Next, NextQuiet, Thread, Host
-----------------------------------------------------------------------------
(* The shadow of the pin and the two interrupt sources.  A handler either   *)
(* syncs the shadow or leaves both sources alone; R50's reset drops both    *)
(* sources, which is why the exact form excludes it.                        *)
LEMMA HandlerKeepsShadow ==
  ASSUME NEW exact \in BOOLEAN, TypeOK, ShadowInv(exact),
         pc \notin CriticalPC, UNCHANGED <<pc, newInt>>,
         \/ SyncInt
         \/ /\ UNCHANGED pins
            /\ \/ /\ FrameSource(r1, sr0)' = FrameSource(r1, sr0)
                  /\ InterruptStatus' = InterruptStatus
               \/ ~exact /\ ~InterruptStatus' /\ ~FrameSource(r1, sr0)'
  PROVE  ShadowInv(exact)'
<1>1. InterruptStatus \in BOOLEAN /\ frameInt \in BOOLEAN /\ pc \notin {"sync", "drive", "exit"}
  BY DEF TypeOK, InterruptStatus, FrameSource, LineSource, CriticalPC
<1>2. CASE SyncInt
  <2>1. frameInt' = InterruptStatus'
    BY <1>2 DEF SyncInt
  <2> QED BY <1>1, <2>1 DEF ShadowInv, ShadowGood, Settled
<1>3. CASE /\ UNCHANGED pins
           /\ FrameSource(r1, sr0)' = FrameSource(r1, sr0)
           /\ InterruptStatus' = InterruptStatus
  BY <1>1, <1>3 DEF ShadowInv, ShadowGood, Settled, pins
<1>4. CASE ~exact /\ ~InterruptStatus' /\ ~FrameSource(r1, sr0)'
  BY <1>1, <1>4 DEF ShadowInv, ShadowGood, Settled
<1> QED BY <1>2, <1>3, <1>4

LEMMA ShadowStep ==
  ASSUME NEW exact \in BOOLEAN, TypeOK, LatchInv, PinInv, ShadowInv(exact),
         [NextQuiet]_vars \/ (~exact /\ WriteRegisterReset)
  PROVE  ShadowInv(exact)'
<1> USE DEF ShadowInv, ShadowGood, Settled, InterruptStatus
<1> USE DEF latch, regs, pins, locals
<1>0. frameInt \in BOOLEAN /\ r0 \in BOOLEAN /\ r1 \in BOOLEAN /\ newInt \in BOOLEAN
  BY DEF TypeOK
<1>1. CASE ScanlineStep
  <2>1. CASE FirstScanline \/ RenderLine \/ ClearBlankLoad
    BY <2>1 DEF FirstScanline, RenderLine, ClearBlankLoad, Goto
  <2>2. CASE ClearBlankStore \/ LineCompare \/ LineMatchStore
    BY <2>2 DEF ClearBlankStore, LineCompare, LineMatchStore, Goto
  <2> QED BY <1>1, <2>1, <2>2 DEF ScanlineStep
<1>2. CASE EndOfFrameStep
  <2>1. CASE NothingOwed
    BY <2>1 DEF NothingOwed, Return
  <2>2. CASE RaiseEndOfFrame
    BY <2>2 DEF RaiseEndOfFrame, Goto
  <2>3. CASE SetBlankLoad \/ SetBlankStore
    BY <2>3 DEF SetBlankLoad, SetBlankStore, Goto
  <2> QED BY <1>2, <2>1, <2>2, <2>3 DEF EndOfFrameStep, EndOfScanline, TriggerMissed, FrameEnd
<1>3. CASE UpdateStep
  <2>1. CASE TestStatus \/ EnterCritical
    BY <2>1 DEF TestStatus, EnterCritical, Goto
  <2>2. CASE TestFrameSource
    BY <1>0, <2>2 DEF TestFrameSource, Goto, FrameSource, LineSource
  <2>3. CASE TestLineSource
    BY <1>0, <2>3 DEF TestLineSource, Goto, FrameSource, LineSource
  <2>4. CASE TestPin
    BY <2>4 DEF TestPin, Return
  <2>5. CASE MergeStatus \/ StoreShadow \/ StoreSR0 \/ StatusVisible
    BY <2>5 DEF MergeStatus, StoreShadow, StoreSR0, StatusVisible, Goto
  <2>6. CASE DeriveInt
    BY <2>6 DEF DeriveInt, Goto
  <2>7. CASE SyncShadow
    BY <2>7 DEF SyncShadow, Goto
  <2>8. CASE DrivePin
    BY <2>8 DEF DrivePin, Goto, PinInv
  <2>9. CASE ExitCritical
    BY <2>9 DEF ExitCritical, Return
  <2> QED BY <1>3, <2>1, <2>2, <2>3, <2>4, <2>5, <2>6, <2>7, <2>8, <2>9 DEF UpdateStep
<1>4. CASE CpuReadsStatus
  BY <1>4 DEF CpuReadsStatus
<1>5. CASE StatusReadReconcile
  <2>1. pc \notin CriticalPC /\ UNCHANGED <<pc, newInt, r0, r1>>
    BY <1>5 DEF StatusReadReconcile, Masked
  <2>2. CASE ReadSR0
    <3>1. frameStatus = sr0 /\ sr0' = ClearSeen(sr0, bus.flags \cap SR0Flags) /\ sr1' = sr1
      BY <2>1, <2>2 DEF ReadSR0, LatchInv, Lockstep, CriticalPC
    <3>2. CASE "INT" \in bus.flags \cap SR0Flags
      BY <2>1, <2>2, <3>2, HandlerKeepsShadow DEF ReadSR0
    <3>3. CASE "INT" \notin bus.flags \cap SR0Flags
      <4>1. "INT" \in sr0'.flags <=> "INT" \in sr0.flags
        BY <3>1, <3>3 DEF ClearSeen
      <4>2. UNCHANGED pins
        BY <2>2, <3>3 DEF ReadSR0
      <4> QED BY <2>1, <3>1, <4>1, <4>2, HandlerKeepsShadow DEF FrameSource, LineSource
    <3> QED BY <3>2, <3>3
  <2>3. CASE ReadSR1
    <3>1. SyncInt \/ UNCHANGED <<pins, sr1, sr0>>
      BY <2>3 DEF ReadSR1
    <3> QED BY <2>1, <2>3, <3>1, HandlerKeepsShadow DEF ReadSR1
  <2> QED BY <1>5, <2>2, <2>3 DEF StatusReadReconcile
<1>6. CASE RegisterWrites
  <2>1. pc \notin CriticalPC /\ UNCHANGED <<pc, newInt, sr0, sr1>>
    BY <1>6 DEF RegisterWrites, WriteR0, WriteR1, WriteR15, WriteR19, WriteUnlock,
                RegisterWrite, Masked
  <2>2. SyncInt \/ UNCHANGED <<pins, r0, r1>>
    BY <1>6 DEF RegisterWrites, WriteR0, WriteR1, WriteR15, WriteR19, WriteUnlock
  <2> QED BY <2>1, <2>2, HandlerKeepsShadow
<1>7. CASE ~exact /\ WriteRegisterReset
  <2>1. pc \notin CriticalPC /\ UNCHANGED <<pc, newInt, pins>> /\ ~r0' /\ ~r1'
    BY <1>7 DEF WriteRegisterReset, RegisterWrite, Masked
  <2> QED BY <1>7, <2>1, HandlerKeepsShadow DEF FrameSource, LineSource
<1>8. CASE UNCHANGED vars
  BY <1>8 DEF vars
<1> QED
  BY <1>1, <1>2, <1>3, <1>4, <1>5, <1>6, <1>7, <1>8 DEF NextQuiet, Thread, Host
-----------------------------------------------------------------------------
(* The words the bus hands out are latched, and the CPU that sees the pin   *)
(* rise finds the status it rose for already published.                     *)
LEMMA HandOverStep ==
  ASSUME TypeOK, LatchInv, HandOverInv, [Next]_vars
  PROVE  HandOverInv'
<1> USE DEF HandOverInv, Selected, latch, regs, io, locals
<1>1. CASE ScanlineStep
  <2>1. CASE FirstScanline \/ RenderLine \/ ClearBlankLoad
    BY <2>1 DEF FirstScanline, RenderLine, ClearBlankLoad, Goto
  <2>2. CASE ClearBlankStore \/ LineCompare \/ LineMatchStore
    BY <2>2 DEF ClearBlankStore, LineCompare, LineMatchStore, Goto
  <2> QED BY <1>1, <2>1, <2>2 DEF ScanlineStep
<1>2. CASE EndOfFrameStep
  <2>1. CASE NothingOwed \/ RaiseEndOfFrame
    BY <2>1 DEF NothingOwed, RaiseEndOfFrame, Goto, Return
  <2>2. CASE SetBlankLoad \/ SetBlankStore
    BY <2>2 DEF SetBlankLoad, SetBlankStore, Goto
  <2> QED BY <1>2, <2>1, <2>2 DEF EndOfFrameStep, EndOfScanline, TriggerMissed, FrameEnd
<1>3. CASE UpdateStep
  <2>1. CASE TestStatus \/ TestFrameSource \/ TestLineSource \/ EnterCritical
    BY <2>1 DEF TestStatus, TestFrameSource, TestLineSource, EnterCritical, Goto
  <2>6. CASE TestPin
    BY <2>6 DEF TestPin, Return
  <2>2. CASE MergeStatus \/ StoreSR0 \/ ExitCritical
    BY <2>2 DEF MergeStatus, StoreSR0, ExitCritical, Goto, Return
  <2>3. CASE StoreShadow
    <3>1. frameStatus.flags \subseteq frameStatus'.flags
      BY <2>3, MergeKeeps DEF StoreShadow, Goto, LatchInv, TypeOK
    <3> QED BY <2>3, <3>1 DEF StoreShadow, Goto
  <2>4. CASE StatusVisible
    <3>1. frameStatus = sr0
      BY <2>4 DEF StatusVisible, Goto, LatchInv, Lockstep
    <3> QED BY <2>4, <3>1 DEF StatusVisible, Goto, Word, TypeOK
  <2>5. CASE DeriveInt \/ SyncShadow \/ DrivePin
    BY <2>5 DEF DeriveInt, SyncShadow, DrivePin, Goto
  <2> QED BY <1>3, <2>1, <2>2, <2>3, <2>4, <2>5, <2>6 DEF UpdateStep
<1>4. CASE CpuReadsStatus
  BY <1>4 DEF CpuReadsStatus
<1>5. CASE StatusReadReconcile \/ RegisterWrites \/ WriteRegisterReset
  <2>1. pc \notin CriticalPC /\ UNCHANGED pc /\ Publish
    BY <1>5 DEF StatusReadReconcile, RegisterWrites, WriteR0, WriteR1, WriteR15, WriteR19,
                WriteUnlock, WriteRegisterReset, RegisterWrite, Masked
  <2>2. bus' = NoRead
    BY <1>5 DEF StatusReadReconcile, RegisterWrites, WriteR0, WriteR1, WriteR15, WriteR19,
                WriteUnlock, WriteRegisterReset, RegisterWrite, Runnable
  <2>3. frameStatus' = sr0'
    BY <1>5, <2>1 DEF StatusReadReconcile, ReadSR0, ReadSR1, RegisterWrites, WriteR0, WriteR1,
                WriteR15, WriteR19, WriteUnlock, WriteRegisterReset, RegisterWrite,
                LatchInv, Lockstep, CriticalPC
  <2>4. /\ visible'.reg = "SR0" => visible'.flags \subseteq frameStatus'.flags
        /\ visible'.reg = "SR1" => unlocked'
    BY <2>1, <2>3 DEF Publish, Word
  <2> QED BY <2>1, <2>2, <2>4 DEF CriticalPC, NoRead
<1>6. CASE UNCHANGED vars
  BY <1>6 DEF vars
<1> QED
  BY <1>1, <1>2, <1>3, <1>4, <1>5, <1>6 DEF Next, NextQuiet, Thread, Host
-----------------------------------------------------------------------------
(* The inductive invariants, together. *)
FrameIntInv(exact) == TypeOK /\ LatchInv /\ PinInv /\ HandOverInv /\ ShadowInv(exact)

LEMMA InvInit == ASSUME NEW exact \in BOOLEAN, Init PROVE FrameIntInv(exact)
<1>1. TypeOK
  BY TypingInit
<1>2. LatchInv /\ PinInv
  BY DEF Init, LatchInv, Lockstep, PinInv
<1>3. HandOverInv
  BY DEF Init, HandOverInv, Word, NoRead, NoStatus
<1>4. ShadowInv(exact)
  BY DEF Init, ShadowInv, ShadowGood, InterruptStatus, FrameSource, LineSource
<1> QED BY <1>1, <1>2, <1>3, <1>4 DEF FrameIntInv

LEMMA InvStep == FrameIntInv(FALSE) /\ [Next]_vars => FrameIntInv(FALSE)'
<1> SUFFICES ASSUME FrameIntInv(FALSE), [Next]_vars PROVE FrameIntInv(FALSE)'
  OBVIOUS
<1>1. TypeOK'
  BY TypingStep DEF FrameIntInv, NextReset
<1>2. LatchInv' /\ PinInv' /\ HandOverInv'
  BY LatchStep, PinStep, HandOverStep DEF FrameIntInv
<1>3. ShadowInv(FALSE)'
  <2>1. [NextQuiet]_vars \/ (~FALSE /\ WriteRegisterReset)
    BY DEF Next
  <2> QED BY <2>1, ShadowStep DEF FrameIntInv
<1> QED BY <1>1, <1>2, <1>3 DEF FrameIntInv

LEMMA InvStepQuiet == FrameIntInv(TRUE) /\ [NextQuiet]_vars => FrameIntInv(TRUE)'
<1> SUFFICES ASSUME FrameIntInv(TRUE), [NextQuiet]_vars PROVE FrameIntInv(TRUE)'
  OBVIOUS
<1>0. [Next]_vars
  BY DEF Next
<1>1. TypeOK'
  BY <1>0, TypingStep DEF FrameIntInv, NextReset
<1>2. LatchInv' /\ PinInv' /\ HandOverInv'
  BY <1>0, LatchStep, PinStep, HandOverStep DEF FrameIntInv
<1>3. ShadowInv(TRUE)'
  BY ShadowStep DEF FrameIntInv
<1> QED BY <1>1, <1>2, <1>3 DEF FrameIntInv

(* The inductive invariant, for a host that may use R50's reset bit ...     *)
THEOREM Invariance == Spec => []FrameIntInv(FALSE)
<1>1. Init => FrameIntInv(FALSE)
  BY InvInit
<1> QED BY <1>1, InvStep, PTL DEF Spec

(* ... and its exact form, for one that does not.                           *)
THEOREM InvarianceQuiet == SpecQuiet => []FrameIntInv(TRUE)
<1>1. Init => FrameIntInv(TRUE)
  BY InvInit
<1> QED BY <1>1, InvStepQuiet, PTL DEF SpecQuiet

-----------------------------------------------------------------------------
(* The frame path and the status-read handler leave the two copies of SR0   *)
(* equal wherever either of them, or the host, can look.                    *)
THEOREM LockstepHolds == Spec => []Lockstep
<1>1. FrameIntInv(FALSE) => Lockstep
  BY DEF FrameIntInv, LatchInv
<1> QED BY <1>1, Invariance, PTL

(* The library's shadow of the pin is the pin. *)
THEOREM PinShadowHolds == Spec => []PinShadow
<1>1. FrameIntInv(FALSE) => PinShadow
  BY DEF FrameIntInv, PinInv, PinShadow
<1> QED BY <1>1, Invariance, PTL

(* No interrupt is lost by the unmasked test, by a handler that raced it or *)
(* by a write that fell between its reads.                                  *)
THEOREM PinNotLostHolds == Spec => []PinNotLost
<1>1. FrameIntInv(FALSE) => PinNotLost
  BY DEF FrameIntInv, PinInv, ShadowInv, ShadowGood, PinNotLost, Settled
<1> QED BY <1>1, Invariance, PTL

(* Without R50's reset bit the pin is never stuck either. *)
THEOREM PinExactHolds == SpecQuiet => []PinExact
<1>1. FrameIntInv(TRUE) => PinExact
  BY DEF FrameIntInv, PinInv, ShadowInv, ShadowGood, PinExact, Settled, TypeOK,
         InterruptStatus, FrameSource, LineSource
<1> QED BY <1>1, InvarianceQuiet, PTL
-----------------------------------------------------------------------------
(* The status is in the published word before the pin rises: a handler does *)
(* both at once, the frame path drives the pin from inside the section the  *)
(* word was published in.                                                   *)
THEOREM PublishedBeforePinHolds == Spec => PublishedBeforePin
<1>1. FrameIntInv(FALSE) /\ [Next]_vars
        => [~pin /\ pin' => visible' = Word(Selected', sr0', sr1')]_vars
  <2> SUFFICES ASSUME FrameIntInv(FALSE), Next, ~pin, pin'
               PROVE  visible' = Word(Selected', sr0', sr1')
    OBVIOUS
  <2> USE DEF pins
  <2>1. CASE ScanlineStep
    BY <2>1 DEF ScanlineStep, FirstScanline, RenderLine, ClearBlankLoad, ClearBlankStore,
                LineCompare, LineMatchStore
  <2>2. CASE EndOfFrameStep
    BY <2>2 DEF EndOfFrameStep, EndOfScanline, TriggerMissed, FrameEnd, NothingOwed,
                RaiseEndOfFrame, SetBlankLoad, SetBlankStore
  <2>3. CASE UpdateStep
    <3>1. CASE DrivePin
      BY <3>1 DEF DrivePin, Goto, FrameIntInv, HandOverInv, Selected, latch, regs, io
    <3>2. CASE ~DrivePin
      BY <2>3, <3>2 DEF UpdateStep, TestStatus, TestFrameSource, TestLineSource, TestPin,
                        EnterCritical, MergeStatus, StoreShadow, StoreSR0, StatusVisible,
                        DeriveInt, SyncShadow, ExitCritical
    <3> QED BY <3>1, <3>2
  <2>4. CASE CpuReadsStatus
    BY <2>4 DEF CpuReadsStatus
  <2>5. CASE StatusReadReconcile \/ RegisterWrites \/ WriteRegisterReset
    BY <2>5 DEF StatusReadReconcile, RegisterWrites, WriteR0, WriteR1, WriteR15, WriteR19,
                WriteUnlock, WriteRegisterReset, RegisterWrite, Publish
  <2> QED BY <2>1, <2>2, <2>3, <2>4, <2>5 DEF Next, NextQuiet, Thread, Host
<1> QED BY <1>1, Invariance, PTL DEF Spec, PublishedBeforePin

-----------------------------------------------------------------------------
(* The frame path and the two-step status read implement StatusLatch: the   *)
(* store of the shadow raises, the bus's answer reads, its handler          *)
(* acknowledges, and every other step leaves the abstract latch alone.      *)
got == IF bus.reg = "SR0" THEN bus.flags ELSE {}

LEMMA LatchSimulation ==
  ASSUME FrameIntInv(FALSE), FrameIntInv(FALSE)', [Next]_vars
  PROVE  Latch!LatchNext \/ UNCHANGED <<frameStatus, got>>
<1> USE DEF got, latch, io, locals
<1>1. CASE ScanlineStep
  BY <1>1 DEF ScanlineStep, FirstScanline, RenderLine, ClearBlankLoad, ClearBlankStore,
              LineCompare, LineMatchStore
<1>2. CASE EndOfFrameStep
  BY <1>2 DEF EndOfFrameStep, EndOfScanline, TriggerMissed, FrameEnd, NothingOwed,
              RaiseEndOfFrame, SetBlankLoad, SetBlankStore
<1>3. CASE UpdateStep
  <2>1. CASE StoreShadow
    <3>1. frameStatus' = Merge(frameStatus, temp) /\ got' = got
      BY <2>1 DEF StoreShadow, Goto, FrameIntInv, LatchInv
    <3>2. Latch!Raise
      BY <3>1, MergeKeeps DEF Latch!Raise, Latch!LatchStatus, Latch!LatchFlags,
                              Status, SR0Flags, FrameIntInv, TypeOK
    <3> QED BY <3>2 DEF Latch!LatchNext
  <2>2. CASE ~StoreShadow
    BY <1>3, <2>2 DEF UpdateStep, TestStatus, TestFrameSource, TestLineSource, TestPin,
                      EnterCritical, MergeStatus, StoreSR0, StatusVisible,
                      DeriveInt, SyncShadow, DrivePin, ExitCritical
  <2> QED BY <2>1, <2>2
<1>4. CASE CpuReadsStatus
  <2>1. got = {} /\ got' \subseteq frameStatus.flags /\ UNCHANGED frameStatus
    BY <1>4 DEF CpuReadsStatus, Runnable, NoRead, FrameIntInv, HandOverInv
  <2> QED BY <2>1 DEF Latch!LatchNext, Latch!Read
<1>5. CASE StatusReadReconcile
  <2>1. got' = {}
    BY <1>5 DEF StatusReadReconcile, NoRead
  <2>2. CASE bus.reg = "SR1"
    BY <1>5, <2>1, <2>2 DEF StatusReadReconcile, ReadSR1, FrameIntInv, HandOverInv
  <2>3. CASE bus.reg # "SR1"
    <3>1. bus.reg = "SR0" /\ bus.flags \cap SR0Flags = got
      BY <1>5, <2>3 DEF StatusReadReconcile, FrameIntInv, TypeOK, HandOverInv, Words, Status
    <3>2. frameStatus' = ClearSeen(frameStatus, got)
      BY <1>5, <2>3, <3>1 DEF StatusReadReconcile, ReadSR0
    <3> QED BY <2>1, <3>2 DEF ClearSeen, Latch!LatchNext, Latch!Acknowledge
  <2> QED BY <2>2, <2>3
<1>6. CASE RegisterWrites \/ WriteRegisterReset
  BY <1>6 DEF RegisterWrites, WriteR0, WriteR1, WriteR15, WriteR19, WriteUnlock,
              WriteRegisterReset, RegisterWrite
<1>7. CASE UNCHANGED vars
  BY <1>7 DEF vars
<1> QED
  BY <1>1, <1>2, <1>3, <1>4, <1>5, <1>6, <1>7 DEF Next, NextQuiet, Thread, Host

(* SR0, written by a frame path and two kinds of handlers, refines the      *)
(* abstract latch: a flag stays until the CPU has seen it.                  *)
THEOREM StatusPromisesKept == Spec => StatusPromises
<1>1. Init => Latch!LatchInit
  BY DEF Init, Latch!LatchInit, NoStatus, NoRead
<1>2. FrameIntInv(FALSE) /\ FrameIntInv(FALSE)' /\ [Next]_vars
        => [Latch!LatchNext]_<<frameStatus, IF bus.reg = "SR0" THEN bus.flags ELSE {}>>
  BY LatchSimulation DEF got
<1> QED BY <1>1, <1>2, Invariance, PTL DEF Spec, StatusPromises, Latch!LatchSpec

-----------------------------------------------------------------------------
(* The account of the frame.  A handler leaves it alone; the trigger or the *)
(* end of the frame opens it, the store of SR0 or the test that finds INT   *)
(* latched closes it, and a console reset marks the frame.                  *)
LEMMA AccountSame ==
  ASSUME AccountInv,
         UNCHANGED <<pc, at, temp, seen, doneInt, raised, wasReset>>
  PROVE  AccountInv'
BY DEF AccountInv, Pending, BeforeStore, ThreadPC

(* A step of a call that neither stores SR0 nor returns. *)
LEMMA AccountGoto ==
  ASSUME AccountInv,
         UNCHANGED <<at, temp, doneInt, raised, wasReset>>,
         pc # "gap", pc' # "gap", pc \in BeforeStore <=> pc' \in BeforeStore,
         seen' = seen \/ "INT" \in seen'.flags \/ "INT" \notin temp.flags,
         pc' \in {"shadow", "publishSR0"} => pc = "shadow" \/ "INT" \in seen'.flags
                                               \/ "INT" \notin temp.flags
  PROVE  AccountInv'
BY DEF AccountInv, Pending

(* A call that returns with its INT accounted for, or without one. *)
LEMMA AccountReturn ==
  ASSUME TypeOK, AccountInv, Return, UNCHANGED <<doneInt, wasReset>>,
         raised' = IF Pending THEN 1 ELSE raised,
         at # FrameEndAt \/ doneInt
  PROVE  AccountInv'
<1>1. /\ pc' = "gap" /\ "INT" \notin temp'.flags
      /\ at' = 0 => at = FrameEndAt
  BY DEF Return, NoStatus, After, TypeOK, FrameEndAt
<1>2. at = FrameEndAt => doneInt
  OBVIOUS
<1>3. ~Pending' /\ pc' \notin {"shadow", "publishSR0"}
  BY <1>1 DEF Pending
<1> QED BY <1>1, <1>2, <1>3 DEF AccountInv

LEMMA AccountStep ==
  ASSUME TypeOK, AccountInv, [NextReset]_vars
  PROVE  AccountInv'
<1> USE DEF locals, history
<1>0. "INT" \notin NoStatus.flags /\ "INT" \in EndOfFrame.flags
  BY DEF NoStatus, EndOfFrame
<1>1. CASE FirstScanline
  <2>1. FrameEndAt # 1 /\ at' = 1
    BY <1>1 DEF FirstScanline, FrameEndAt
  <2> QED BY <1>1, <2>1 DEF FirstScanline, AccountInv, Pending, BeforeStore, ThreadPC
<1>2. CASE RenderLine
  <2>1. "INT" \notin temp'.flags /\ at' # 0 /\ at' # FrameEndAt
    BY <1>2, ReportsAssumption DEF RenderLine, FrameEndAt
  <2>2. "INT" \notin temp.flags
    BY <1>2 DEF RenderLine, Goto, AccountInv
  <2> QED BY <1>2, <2>1, <2>2 DEF RenderLine, Goto, AccountInv, Pending
<1>3. CASE ClearBlankLoad \/ ClearBlankStore \/ LineCompare \/ LineMatchStore
  <2>1. /\ UNCHANGED <<at, temp, seen, doneInt, raised, wasReset>>
        /\ pc \in {"blank", "blankSt", "match", "matchSt"}
        /\ pc' \in {"blankSt", "match", "matchSt", "check"}
    BY <1>3 DEF ClearBlankLoad, ClearBlankStore, LineCompare, LineMatchStore, Goto
  <2> QED BY <2>1, AccountGoto DEF BeforeStore, ThreadPC
<1>4. ASSUME RaiseEndOfFrame, ~doneInt
      PROVE  AccountInv'
  BY <1>0, <1>4 DEF RaiseEndOfFrame, Goto, AccountInv, Pending, BeforeStore, ThreadPC
<1>5. ASSUME NothingOwed, at # FrameEndAt \/ doneInt
      PROVE  AccountInv'
  <2>1. ~Pending /\ UNCHANGED <<doneInt, raised, wasReset>> /\ Return
    BY <1>5 DEF NothingOwed, Pending, BeforeStore, ThreadPC
  <2> QED BY <1>5, <2>1, AccountReturn
<1>6. CASE EndOfScanline \/ TriggerMissed \/ FrameEnd
  BY <1>6, <1>4, <1>5 DEF EndOfScanline, TriggerMissed, FrameEnd, Trigger, FrameEndAt
<1>7. CASE SetBlankLoad \/ SetBlankStore \/ TestStatus \/ TestFrameSource \/ TestLineSource
           \/ EnterCritical \/ StatusVisible \/ DeriveInt \/ SyncShadow \/ DrivePin \/ StoreShadow
  <2>1. UNCHANGED <<at, temp, seen, doneInt, raised, wasReset>>
    BY <1>7 DEF SetBlankLoad, SetBlankStore, TestStatus, TestFrameSource, TestLineSource,
                EnterCritical, StatusVisible, DeriveInt, SyncShadow, DrivePin, StoreShadow
  <2>2. /\ pc # "gap" /\ pc' # "gap" /\ (pc \in BeforeStore <=> pc' \in BeforeStore)
        /\ pc' \in {"shadow", "publishSR0"} => pc = "shadow"
    BY <1>7 DEF SetBlankLoad, SetBlankStore, TestStatus, TestFrameSource, TestLineSource,
                EnterCritical, StatusVisible, DeriveInt, SyncShadow, DrivePin, StoreShadow,
                Goto, BeforeStore, ThreadPC
  <2> QED BY <2>1, <2>2, AccountGoto
<1>8. CASE MergeStatus
  <2>1. "INT" \in temp.flags => "INT" \in seen'.flags
    BY <1>8 DEF MergeStatus, Merge
  <2>2. /\ UNCHANGED <<at, temp, doneInt, raised, wasReset>>
        /\ pc = "reread" /\ pc' = "shadow"
    BY <1>8 DEF MergeStatus, Goto
  <2> QED BY <2>1, <2>2, AccountGoto DEF BeforeStore, ThreadPC
<1>9. CASE StoreSR0
  <2>1. /\ pc = "publishSR0" /\ pc' = "publish" /\ UNCHANGED <<at, temp, seen, doneInt, wasReset>>
        /\ raised' = IF "INT" \in temp.flags /\ "INT" \in seen.flags /\ raised < 2
                     THEN raised + 1 ELSE raised
    BY <1>9 DEF StoreSR0, Goto, Raised
  <2>2. raised' = IF Pending THEN 1 ELSE raised
    BY <2>1 DEF AccountInv, Pending, BeforeStore, ThreadPC
  <2>3. ~Pending'
    BY <2>1 DEF Pending, BeforeStore, ThreadPC
  <2> QED BY <2>1, <2>2, <2>3 DEF AccountInv
<1>10. CASE TestPin
  <2>1. CASE newInt = frameInt
    <3>1. /\ pc = "checkPin" /\ Return /\ UNCHANGED <<doneInt, wasReset>>
          /\ raised' = IF "INT" \in temp.flags /\ raised < 2 THEN raised + 1 ELSE raised
      BY <1>10, <2>1 DEF TestPin, Raised
    <3>2. raised' = IF Pending THEN 1 ELSE raised
      BY <3>1 DEF AccountInv, Pending, BeforeStore, ThreadPC
    <3>3. at # FrameEndAt \/ doneInt
      BY <3>1 DEF AccountInv
    <3> QED BY <3>1, <3>2, <3>3, AccountReturn
  <2>2. CASE newInt # frameInt
    <3>1. /\ UNCHANGED <<at, temp, seen, doneInt, raised, wasReset>>
          /\ pc = "checkPin" /\ pc' = "enter"
      BY <1>10, <2>2 DEF TestPin
    <3> QED BY <3>1, AccountGoto DEF BeforeStore, ThreadPC
  <2> QED BY <2>1, <2>2
<1>11. CASE ExitCritical
  <2>1. ~Pending /\ pc = "exit" /\ Return /\ UNCHANGED <<doneInt, raised, wasReset>>
    BY <1>11 DEF ExitCritical, Pending, BeforeStore, ThreadPC
  <2>2. at # FrameEndAt \/ doneInt
    BY <2>1 DEF AccountInv
  <2> QED BY <2>1, <2>2, AccountReturn
<1>12. CASE Host \/ WriteRegisterReset
  <2>1. UNCHANGED <<pc, at, temp, seen, doneInt, raised, wasReset>>
    BY <1>12 DEF Host, CpuReadsStatus, StatusReadReconcile, RegisterWrites, WriteR0, WriteR1,
                 WriteR15, WriteR19, WriteUnlock, WriteRegisterReset, RegisterWrite
  <2> QED BY <2>1, AccountSame
<1>13. CASE ConsoleReset
  <2>1. UNCHANGED <<pc, at, temp, seen, raised>> /\ doneInt' /\ wasReset'
    BY <1>13 DEF ConsoleReset, ResetAs
  <2> QED BY <2>1 DEF AccountInv, Pending
<1>14. CASE UNCHANGED vars
  BY <1>14, AccountSame DEF vars
<1> QED
  BY <1>1, <1>2, <1>3, <1>6, <1>7, <1>8, <1>9, <1>10, <1>11, <1>12, <1>13, <1>14
     DEF NextReset, Next, NextQuiet, Thread, ScanlineStep, EndOfFrameStep, UpdateStep

(* Every frame raises its interrupt exactly once, at the trigger line or at *)
(* its end (pico9918_frame_end); one that a console reset falls into raises *)
(* it at most once, wherever among the accesses the reset fell.             *)
THEOREM EveryFrameRaisesHolds == SpecReset => []EveryFrameRaises
<1>1. Init => AccountInv
  BY DEF Init, AccountInv, FrameEndAt, Pending, BeforeStore, ThreadPC, NoStatus
<1>2. AccountInv => EveryFrameRaises
  BY DEF AccountInv, EveryFrameRaises, Pending, BeforeStore, ThreadPC
<1> QED
  BY <1>1, <1>2, AccountStep, Typing, PTL DEF SpecReset
=============================================================================
