-------------------------- MODULE GpuService_proofs --------------------------
(***************************************************************************)
(* GpuService for any number of programs and keys: its types, and for a    *)
(* host that serves the GPU in slices, register resets included, what an   *)
(* arming write and a fresh program may rely on.                           *)
(***************************************************************************)
EXTENDS GpuService, TLAPS

LEMMA StepsAreNextReset == Next => NextReset
  BY DEF NextReset

LEMMA AddressParts ==
  /\ Parked \in Addresses /\ Parked.at = "odd"
  /\ \A p \in Programs : /\ Entry(p) \in Addresses /\ Entry(p).at = "entry"
                         /\ Entry(p).prog = p /\ Entry(p) # Parked
  /\ \A a \in Addresses : a # Parked => Inside(a) \in Addresses /\ Inside(a) # Parked
  /\ \A a \in Addresses : Inside(a).at = "inside"
  BY DEF Parked, Entry, Inside, Addresses

-----------------------------------------------------------------------------
(* Types *)
(* Every access of the service pass keeps the types, and a program that    *)
(* runs has a place.                                                       *)
LEMMA TypesGpu ==
  ASSUME TypeOK, PlaceInv, Gpu
  PROVE  TypeOK' /\ PlaceInv'
<1> USE AddressParts DEF TypeOK, PlaceInv, Goto, engine, request, program, pass, history, device
<1>1. CASE LoopAgain
  BY <1>1 DEF LoopAgain
<1>2. CASE Poll
  BY <1>2 DEF Poll
<1>3. CASE TakeTrigger
  BY <1>3 DEF TakeTrigger
<1>4. CASE TestParity
  BY <1>4 DEF TestParity
<1>5. CASE SetControl
  BY <1>5 DEF SetControl
<1>6. CASE SetBusy
  BY <1>6 DEF SetBusy
<1>7. CASE Execute
  BY <1>7 DEF Execute
<1>8. CASE Idle
  BY <1>8 DEF Idle
<1>9. CASE ClearsControl
  BY <1>9 DEF ClearsControl
<1>10. CASE SeesStop
  BY <1>10 DEF SeesStop
<1>11. CASE OutOfBudget
  BY <1>11 DEF OutOfBudget
<1>12. CASE Fault
  BY <1>12 DEF Fault
<1>13. CASE TestControl
  BY <1>13 DEF TestControl, Onward
<1>14. CASE KeepAddress
  BY <1>14 DEF KeepAddress
<1>15. CASE Disarm
  BY <1>15 DEF Disarm, Onward
<1>16. CASE Resume
  BY <1>16 DEF Resume
<1>17. CASE ClearBusy
  BY <1>17 DEF ClearBusy
<1>18. CASE HaltControl
  BY <1>18 DEF HaltControl
<1>19. CASE TestFlash
  <2>1. 1 \in 1..Keys + 1
    BY KeysAssumption
  <2> QED
    BY <1>19, <2>1 DEF TestFlash
<1>20. CASE TakeFlash
  BY <1>20 DEF TakeFlash
<1>21. CASE FlashDone
  BY <1>21 DEF FlashDone
<1>22. CASE FlashDoneControl
  BY <1>22 DEF FlashDoneControl
<1>23. CASE TakeKey
  <2>1. look \in 1..Keys + 1 /\ look <= Keys => look + 1 \in 1..Keys + 1
    BY KeysAssumption
  <2> QED
    BY <1>23, <2>1 DEF TakeKey
<1>24. CASE EndPass
  <2>1. 1 \in 1..Keys + 1
    BY KeysAssumption
  <2> QED
    BY <1>24, <2>1 DEF EndPass
<1> QED
  BY <1>1, <1>2, <1>3, <1>4, <1>5, <1>6, <1>7, <1>8, <1>9, <1>10, <1>11, <1>12, <1>13, <1>14, <1>15, <1>16, <1>17, <1>18, <1>19, <1>20, <1>21, <1>22, <1>23, <1>24 DEF Gpu

(* And every access of a handler. *)
LEMMA TypesHost ==
  ASSUME TypeOK, PlaceInv, Host \/ RegisterReset
  PROVE  TypeOK' /\ PlaceInv'
<1> USE AddressParts DEF TypeOK, PlaceInv, HostAt, Enters, Writes, engine, request, program, pass, history, device
<1>1. CASE WriteR55
  BY <1>1 DEF WriteR55
<1>2. CASE ArmControl
  BY <1>2 DEF ArmControl
<1>3. CASE ArmRestart
  BY <1>3 DEF ArmRestart, Service
<1>4. CASE WriteR56Run
  BY <1>4 DEF WriteR56Run
<1>5. CASE RunRestart
  BY <1>5 DEF RunRestart, Service
<1>6. CASE WriteR56Load
  BY <1>6 DEF WriteR56Load
<1>7. CASE LoadAddress
  <2>1. addr' \in Addresses
    BY <1>7 DEF LoadAddress
  <2>2. loaded' \in BOOLEAN
    BY <1>7 DEF LoadAddress
  <2> QED
    BY <1>7, <2>1, <2>2 DEF LoadAddress
<1>8. CASE WriteR63
  BY <1>8 DEF WriteR63
<1>9. CASE RefuseFlash
  BY <1>9 DEF RefuseFlash
<1>10. CASE AcceptFlash
  BY <1>10 DEF AcceptFlash
<1>11. CASE RequestFlash
  BY <1>11 DEF RequestFlash
<1>12. CASE WriteR59
  BY <1>12 DEF WriteR59
<1>13. CASE SetLock
  BY <1>13 DEF SetLock
<1>14. CASE WriteR50
  BY <1>14 DEF WriteR50
<1>15. CASE StepDown
  BY <1>15 DEF StepDown
<1>16. CASE StepControl
  BY <1>16 DEF StepControl
<1>17. CASE LineTrigger
  BY <1>17 DEF LineTrigger, Triggers, Service
<1>18. CASE FrameTrigger
  BY <1>18 DEF FrameTrigger, Triggers
<1>19. CASE Scanline
  BY <1>19 DEF Scanline
<1>20. CASE Serve
  BY <1>20 DEF Serve
<1>21. CASE Reset
  BY <1>21 DEF Reset
<1>22. CASE ResetFlash
  BY <1>22 DEF ResetFlash
<1>23. CASE ResetStatus
  BY <1>23 DEF ResetStatus
<1>24. CASE ResetRestart
  BY <1>24 DEF ResetRestart
<1>25. CASE ResetControl
  BY <1>25 DEF ResetControl
<1>26. CASE RegisterReset
  BY <1>26 DEF RegisterReset
<1> QED
  BY <1>1, <1>2, <1>3, <1>4, <1>5, <1>6, <1>7, <1>8, <1>9, <1>10, <1>11, <1>12, <1>13, <1>14, <1>15, <1>16, <1>17, <1>18, <1>19, <1>20, <1>21, <1>22, <1>23, <1>24, <1>25, <1>26 DEF Host, Handler

-----------------------------------------------------------------------------
(* The sliced host *)

(* What the pass does with an armed, a resumed and a paused program.        *)
LEMMA SlicedGpu ==
  ASSUME TypeOK, SlicedInv, Gpu
  PROVE  SlicedInv'
<1> USE AddressParts DEF TypeOK, SlicedInv, OneThread, ArmingInv, ArmedInv, SliceInv, WorkspaceInv, Entered, Goto, engine, request, program, pass, history, device
<1>1. CASE LoopAgain
  BY <1>1 DEF LoopAgain
<1>2. CASE Poll
  BY <1>2 DEF Poll
<1>3. CASE TakeTrigger
  BY <1>3 DEF TakeTrigger
<1>4. CASE TestParity
  BY <1>4 DEF TestParity
<1>5. CASE SetControl
  BY <1>5 DEF SetControl
<1>6. CASE SetBusy
  BY <1>6 DEF SetBusy
<1>7. CASE Execute
  BY <1>7 DEF Execute
<1>8. CASE Idle
  BY <1>8 DEF Idle
<1>9. CASE ClearsControl
  BY <1>9 DEF ClearsControl
<1>10. CASE SeesStop
  BY <1>10 DEF SeesStop
<1>11. CASE OutOfBudget
  BY <1>11 DEF OutOfBudget
<1>12. CASE Fault
  BY <1>12 DEF Fault
<1>13. CASE TestControl
  BY <1>13 DEF TestControl, Onward
<1>14. CASE KeepAddress
  BY <1>14 DEF KeepAddress
<1>15. CASE Disarm
  BY <1>15 DEF Disarm, Onward
<1>16. CASE Resume
  BY <1>16 DEF Resume
<1>17. CASE ClearBusy
  BY <1>17 DEF ClearBusy
<1>18. CASE HaltControl
  BY <1>18 DEF HaltControl
<1>19. CASE TestFlash
  BY <1>19 DEF TestFlash
<1>20. CASE TakeFlash
  BY <1>20 DEF TakeFlash
<1>21. CASE FlashDone
  BY <1>21 DEF FlashDone
<1>22. CASE FlashDoneControl
  BY <1>22 DEF FlashDoneControl
<1>23. CASE TakeKey
  BY <1>23 DEF TakeKey
<1>24. CASE EndPass
  BY <1>24 DEF EndPass
<1> QED
  BY <1>1, <1>2, <1>3, <1>4, <1>5, <1>6, <1>7, <1>8, <1>9, <1>10, <1>11, <1>12, <1>13, <1>14, <1>15, <1>16, <1>17, <1>18, <1>19, <1>20, <1>21, <1>22, <1>23, <1>24 DEF Gpu

(* What the handlers arm, load, park and drop.                              *)
LEMMA SlicedHost ==
  ASSUME TypeOK, SlicedInv, Host \/ RegisterReset
  PROVE  SlicedInv'
<1> USE AddressParts DEF TypeOK, SlicedInv, OneThread, ArmingInv, ArmedInv, SliceInv, WorkspaceInv, Entered, HostAt, Enters, Writes, engine, request, program, pass, history, device
<1>1. CASE WriteR55
  BY <1>1 DEF WriteR55
<1>2. CASE ArmControl
  BY <1>2 DEF ArmControl
<1>3. CASE ArmRestart
  BY <1>3 DEF ArmRestart, Service
<1>4. CASE WriteR56Run
  BY <1>4 DEF WriteR56Run
<1>5. CASE RunRestart
  BY <1>5 DEF RunRestart, Service
<1>6. CASE WriteR56Load
  BY <1>6 DEF WriteR56Load
<1>7. CASE LoadAddress
  BY <1>7 DEF LoadAddress
<1>8. CASE WriteR63
  BY <1>8 DEF WriteR63
<1>9. CASE RefuseFlash
  BY <1>9 DEF RefuseFlash
<1>10. CASE AcceptFlash
  BY <1>10 DEF AcceptFlash
<1>11. CASE RequestFlash
  BY <1>11 DEF RequestFlash
<1>12. CASE WriteR59
  BY <1>12 DEF WriteR59
<1>13. CASE SetLock
  BY <1>13 DEF SetLock
<1>14. CASE WriteR50
  BY <1>14 DEF WriteR50
<1>15. CASE StepDown
  BY <1>15 DEF StepDown
<1>16. CASE StepControl
  BY <1>16 DEF StepControl
<1>17. CASE LineTrigger
  BY <1>17 DEF LineTrigger, Triggers, Service
<1>18. CASE FrameTrigger
  BY <1>18 DEF FrameTrigger, Triggers
<1>19. CASE Scanline
  BY <1>19 DEF Scanline
<1>20. CASE Serve
  BY <1>20 DEF Serve
<1>21. CASE Reset
  BY <1>21 DEF Reset
<1>22. CASE ResetFlash
  BY <1>22 DEF ResetFlash
<1>23. CASE ResetStatus
  BY <1>23 DEF ResetStatus
<1>24. CASE ResetRestart
  BY <1>24 DEF ResetRestart
<1>25. CASE ResetControl
  BY <1>25 DEF ResetControl
<1>26. CASE RegisterReset
  BY <1>26 DEF RegisterReset
<1> QED
  BY <1>1, <1>2, <1>3, <1>4, <1>5, <1>6, <1>7, <1>8, <1>9, <1>10, <1>11, <1>12, <1>13, <1>14, <1>15, <1>16, <1>17, <1>18, <1>19, <1>20, <1>21, <1>22, <1>23, <1>24, <1>25, <1>26 DEF Host, Handler

(* The request and its history rise and fall together, and the pass takes  *)
(* only what it found.                                                     *)
LEMMA FlashStep ==
  ASSUME TypeOK, OneThread, FlashInv, Gpu \/ Host \/ RegisterReset
  PROVE  FlashInv'
<1> USE DEF FlashInv, OneThread, Goto, HostAt, Enters, Writes, engine, request, program, pass, history, device
<1>1. CASE TestFlash
  <2>1. flash' = flash /\ owed' = owed
    BY <1>1 DEF TestFlash
  <2>2. gpc' = "take" => flash
    BY <1>1 DEF TestFlash
  <2> QED
    BY <2>1, <2>2
<1>2. CASE TakeFlash \/ RequestFlash \/ ResetFlash
  <2>1. flash' = owed'
    BY Zenon, <1>2 DEF TakeFlash, RequestFlash, ResetFlash
  <2>2. sliced' => gpc' # "take"
    BY <1>2 DEF TakeFlash, RequestFlash, ResetFlash
  <2> QED
    BY <2>1, <2>2
<1>3. CASE \/ LoopAgain \/ Poll \/ TakeTrigger \/ TestParity \/ SetControl \/ SetBusy \/ Execute
           \/ Idle \/ ClearsControl \/ SeesStop \/ OutOfBudget \/ Fault
  BY <1>3 DEF LoopAgain, Poll, TakeTrigger, TestParity, SetControl, SetBusy, Execute,
              Idle, ClearsControl, SeesStop, OutOfBudget, Fault
<1>4. CASE \/ TestControl \/ KeepAddress \/ Disarm \/ Resume \/ ClearBusy \/ HaltControl
           \/ FlashDone \/ FlashDoneControl \/ TakeKey \/ EndPass
  BY <1>4 DEF TestControl, Onward, KeepAddress, Disarm, Resume, ClearBusy, HaltControl,
              FlashDone, FlashDoneControl, TakeKey, EndPass
<1>5. CASE \/ WriteR55 \/ WriteR56Run \/ WriteR56Load \/ WriteR63 \/ WriteR59 \/ SetLock
           \/ WriteR50 \/ StepDown \/ LineTrigger \/ FrameTrigger \/ Scanline \/ Reset
           \/ RegisterReset
  BY <1>5 DEF WriteR55, WriteR56Run, WriteR56Load, WriteR63, WriteR59, SetLock, WriteR50,
              StepDown, LineTrigger, FrameTrigger, Triggers, Scanline, Reset, RegisterReset
<1>6. CASE \/ ArmControl \/ ArmRestart \/ RunRestart \/ LoadAddress \/ RefuseFlash
           \/ AcceptFlash \/ StepControl \/ Serve \/ ResetStatus \/ ResetRestart \/ ResetControl
  BY <1>6 DEF ArmControl, ArmRestart, RunRestart, LoadAddress, RefuseFlash, AcceptFlash,
              StepControl, Serve, ResetStatus, ResetRestart, ResetControl
<1> QED
  BY <1>1, <1>2, <1>3, <1>4, <1>5, <1>6 DEF Gpu, Host, Handler

-----------------------------------------------------------------------------
(* The theorems.  They are proved of NextReset, whose steps include those  *)
(* of Next and a register reset in the middle of a paused program.         *)

LEMMA Initially == Init => ServiceInv
<1> SUFFICES ASSUME Init PROVE ServiceInv
  OBVIOUS
<1>1. look \in 1..Keys + 1
  BY KeysAssumption DEF Init
<1>2. TypeOK
  BY <1>1, AddressParts DEF Init, TypeOK
<1> QED
  BY <1>2 DEF Init, ServiceInv, PlaceInv, SlicedInv, OneThread, ArmingInv, ArmedInv,
              SliceInv, WorkspaceInv, FlashInv

LEMMA Inductive == ServiceInv /\ [NextReset]_vars => ServiceInv'
<1> SUFFICES ASSUME ServiceInv, [NextReset]_vars PROVE ServiceInv'
  OBVIOUS
<1> USE DEF ServiceInv
<1>1. CASE Gpu
  BY <1>1, TypesGpu, SlicedGpu, FlashStep DEF SlicedInv
<1>2. CASE Host \/ RegisterReset
  BY <1>2, TypesHost, SlicedHost, FlashStep DEF SlicedInv
<1>3. CASE UNCHANGED vars
  BY <1>3 DEF vars, engine, request, program, pass, history, device, TypeOK, PlaceInv, SlicedInv,
              OneThread, ArmingInv, ArmedInv, SliceInv, WorkspaceInv, Entered, FlashInv
<1> QED
  BY <1>1, <1>2, <1>3 DEF NextReset, Next

(* The inductive invariant of the service pass, on boards and in slices,   *)
(* and in slices with R50's reset at any time as well (volatileHack,       *)
(* pico9918_gpu_step_n and every handler that writes their variables).     *)
THEOREM Invariance == Spec => []ServiceInv
<1>1. ServiceInv /\ [Next]_vars => ServiceInv'
  BY Inductive, StepsAreNextReset
<1> QED
  BY Initially, <1>1, PTL DEF Spec

THEOREM InvarianceReset == SpecSliced => []ServiceInv
<1>1. Init /\ sliced = TRUE => ServiceInv
  BY Initially
<1> QED
  BY <1>1, Inductive, PTL DEF SpecSliced

(* Every variable has its type (the state gpu.c and the handlers share).    *)
THEOREM Typing == Spec => []TypeOK
<1>1. ServiceInv => TypeOK
  BY DEF ServiceInv
<1> QED
  BY <1>1, Invariance, PTL

(* In slices an armed program has begun when the arming write returns:      *)
(* R55's write needed the unlock, so the service it ends with runs, and    *)
(* nothing moves the PC between the two (pico9918_gpu_service).            *)
THEOREM StartsInTheWriteHolds == Spec => []StartsInTheWrite
<1>1. ServiceInv => StartsInTheWrite
  BY DEF ServiceInv, SlicedInv, ArmedInv, StartsInTheWrite
<1> QED
  BY <1>1, Invariance, PTL

(* In slices a program never inherits its predecessor's workspace: only a   *)
(* resumption keeps it, and the PC a slice left is inside the program      *)
(* (volatileHack's test of PICO9918_GPU_RESUMING).                         *)
THEOREM FreshWorkspaceHolds == Spec => []FreshWorkspace
<1>1. ServiceInv => FreshWorkspace
  BY DEF ServiceInv, SlicedInv, WorkspaceInv, Entered, FreshWorkspace
<1> QED
  BY <1>1, Invariance, PTL

(* In slices a flash request is dispatched once: the pass takes it before   *)
(* its callback, so a dispatch is always one that is owed (gpuFlashFire).   *)
THEOREM FiresOnceHolds == Spec => FiresOnce
<1>1. ServiceInv /\ [Next]_vars => [sliced /\ gpc = "take" /\ gpc' = "done" => owed]_vars
  BY DEF ServiceInv, FlashInv
<1> QED
  BY <1>1, Invariance, PTL DEF Spec, FiresOnce
=============================================================================
