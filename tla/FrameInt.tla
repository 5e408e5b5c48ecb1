------------------------------ MODULE FrameInt ------------------------------
(***************************************************************************)
(* The interrupt and status latch of the VDP: SR0 and its shadow, the      *)
(* clear-on-read flag of SR1, the /INT pin and its shadow.                 *)
(*                                                                         *)
(* Two actors share it without a lock.  The frame path (one call per       *)
(* scanline, one trigger, one end of frame) runs in thread mode, one       *)
(* action per memory access that another actor can see.  The host's        *)
(* bus-interface handlers run in interrupts on the same core: a handler    *)
(* is one action, it may fall between any two thread actions, and it is    *)
(* held off only by the critical section of update_interrupts.  The bus    *)
(* hardware itself is never held off: it answers a CPU read from the word  *)
(* published last, even inside the critical section, and the handler that  *)
(* applies the read's side effects runs once the section is left.          *)
(*                                                                         *)
(* A console reset is one more interrupt, which the critical section does  *)
(* not mask (pico9918_frame.c:258-261).                                    *)
(***************************************************************************)
EXTENDS Integers

CONSTANTS
  Lines,        (* active display lines of a frame                         *)
  SpriteNums,   (* values of SR0's sprite-number field that can occur      *)
  Reports,      (* what a rendered line can raise                          *)
  MaxResets     (* bound on the console resets of a behaviour              *)

ASSUME LinesAssumption == Lines \in Nat \ {0}
ASSUME SpriteNumsAssumption == SpriteNums \subseteq 0..31 /\ {0, 31} \subseteq SpriteNums
ASSUME ReportsAssumption ==
  /\ Reports \subseteq [flags : SUBSET {"5S", "COL"}, num : SpriteNums]
  /\ \A s \in Reports : "5S" \notin s.flags => s.num = 0
ASSUME MaxResetsAssumption == MaxResets \in Nat

VARIABLES
  frameStatus,  (* the SR0 shadow the frame path merges into               *)
  sr0,          (* SR0 itself                                              *)
  sr1,          (* SR1's flags                                             *)
  r0,           (* R0 bit 4: scanline interrupt enable                     *)
  r1,           (* R1 bit 5: frame interrupt enable                        *)
  r15,          (* R15: the status register the host selected              *)
  r19,          (* R19: the line that raises HF, 0 for none; a line past   *)
                (* the display never matches and is left out               *)
  unlocked,     (* isUnlocked                                              *)
  frameInt,     (* the library's shadow of the pin                         *)
  pin,          (* /INT as the host CPU sees it, TRUE for asserted         *)
  doneInt,      (* frameDoneInt: this frame raised its interrupt           *)
  visible,      (* the word the bus hardware answers a status read with    *)
  bus,          (* the word a status read got whose handler is pending     *)
  pc,           (* the thread's next memory access                         *)
  at,           (* the thread's place in the frame                         *)
  temp,         (* tempStatus of the running update_interrupts             *)
  seen,         (* seenStatus, then mergedStatus                           *)
  ident,        (* the copy of SR1 between its load and its store          *)
  newInt,       (* the computed interrupt state                            *)
  resets,       (* console resets so far                                   *)
  raised,       (* history: interrupts this frame has raised, 2 for more   *)
  wasReset      (* history: a console reset fell in this frame             *)

regs    == <<r0, r1, r15, r19, unlocked>>
latch   == <<frameStatus, sr0>>
pins    == <<frameInt, pin>>
io      == <<visible, bus>>
locals  == <<temp, seen, ident, newInt>>
history == <<resets, raised, wasReset>>
vars    == <<latch, sr1, regs, pins, doneInt, io, pc, at, locals, history>>

-----------------------------------------------------------------------------
(* Values *)

SR0Flags == {"INT", "5S", "COL"}
SR1Flags == {"HF", "BLANK"}
Status   == [flags : SUBSET SR0Flags, num : SpriteNums]
NoStatus == [flags |-> {}, num |-> 0]

(* What the end of the frame raises. *)
EndOfFrame == [flags |-> {"INT"}, num |-> 0]

(* SR1's identity, 0xE0, has ones where SR0 has its three flags. *)
Word(reg, s0, s1) ==
  [reg |-> reg, flags |-> IF reg = "SR0" THEN s0.flags ELSE s1 \cup SR0Flags]
Words  == [reg : {"SR0", "SR1"}, flags : SUBSET (SR0Flags \cup SR1Flags)]
NoRead == [reg |-> "none", flags |-> {}]

ThreadPC == {"gap", "blank", "blankSt", "match", "matchSt", "vblank", "vblankSt",
             "check", "checkF", "checkL", "checkPin", "enter"}
CriticalPC == {"reread", "shadow", "publishSR0", "publish", "derive", "sync", "drive", "exit"}

AfterNoWrap(a) == a + 1                    \* mutant: the frame never starts over

(* The place in the frame: 0 before the first line, then one per active    *)
(* line, the trigger line and the end of the frame.                        *)
Trigger    == Lines + 1
FrameEndAt == Lines + 2
After(a)   == IF a = FrameEndAt THEN 0 ELSE a + 1

-----------------------------------------------------------------------------
(* The pieces the handlers share *)

(* frameMergeStatus: the three-way merge. *)
Merge(cur, new) ==
  [flags |-> cur.flags \cup (IF "INT" \in cur.flags THEN new.flags \cap {"COL"} ELSE new.flags),
   num   |-> IF {"INT", "5S"} \cap cur.flags = {} THEN new.num ELSE cur.num]

ClearAll(cur, flags) == [flags |-> {}, num |-> 31]   \* mutant: SR0 = 0x1F

(* What a read of SR0 leaves: the flags the reader saw are cleared, and the *)
(* fifth sprite's number goes with its flag.                                *)
ClearSeen(cur, flags) ==
  [flags |-> cur.flags \ flags, num |-> IF "5S" \in flags THEN 31 ELSE cur.num]

FrameSource(en, s0) == en /\ "INT" \in s0.flags
LineSource(en, s1)  == en /\ "HF" \in s1

(* interrupt_status: two independent sources. *)
InterruptStatus == FrameSource(r1, sr0) \/ LineSource(r0, sr1)

(* frame_sync_int in a handler: the pin is written only when it changes. *)
SyncInt ==
  /\ frameInt' = InterruptStatus'
  /\ pin' = IF InterruptStatus' # frameInt THEN InterruptStatus' ELSE pin

Selected == IF unlocked THEN r15 ELSE "SR0"

(* Every access the host's handlers complete is followed by a publish. *)
Publish == visible' = Word(Selected', sr0', sr1')

Masked   == pc \in CriticalPC
Runnable == bus = NoRead      \* a pended bus interrupt preempts the thread

-----------------------------------------------------------------------------
Init ==
  /\ frameStatus = NoStatus /\ sr0 = NoStatus /\ sr1 = {}
  /\ r0 = FALSE /\ r1 = FALSE /\ r15 = "SR0" /\ r19 = 0 /\ unlocked = FALSE
  /\ frameInt = FALSE /\ pin = FALSE /\ doneInt = TRUE
  /\ visible = Word("SR0", NoStatus, {}) /\ bus = NoRead
  /\ pc = "gap" /\ at = 0
  /\ temp = NoStatus /\ seen = NoStatus /\ ident = {} /\ newInt = FALSE
  /\ resets = 0 /\ raised = 0 /\ wasReset = TRUE   \* no frame has begun

-----------------------------------------------------------------------------
(* The frame path *)

Goto(from, to) == pc = from /\ pc' = to

(* The running call ends: its locals are dead and the frame moves on. *)
Return ==
  /\ pc' = "gap" /\ at' = After(at)
  /\ temp' = NoStatus /\ seen' = NoStatus /\ ident' = {} /\ newInt' = FALSE

(* frame_scanline(0) clears frameDoneInt before anything else. *)
FirstScanline ==
  /\ Runnable /\ pc = "gap" /\ at = 0
  /\ doneInt' = FALSE /\ at' = 1
  /\ raised' = 0 /\ wasReset' = FALSE
  /\ UNCHANGED <<latch, sr1, regs, pins, io, pc, locals, resets>>

(* An active line is rendered; what it raised is decided here. *)
RenderLine ==
  /\ Runnable /\ at \in 1..Lines /\ Goto("gap", "blank")
  /\ temp' \in Reports
  /\ UNCHANGED <<latch, sr1, regs, pins, doneInt, io, at, seen, ident, newInt, history>>

(* SR1 &= ~BLANK, a load and a store: a handler may fall between them. *)
ClearBlankLoad ==
  /\ Runnable /\ Goto("blank", "blankSt")
  /\ ident' = sr1
  /\ UNCHANGED <<latch, sr1, regs, pins, doneInt, io, at, temp, seen, newInt, history>>

ClearBlankStore ==
  /\ Runnable /\ Goto("blankSt", "match")
  /\ sr1' = ident \ {"BLANK"} /\ ident' = {}
  /\ UNCHANGED <<latch, regs, pins, doneInt, io, at, temp, seen, newInt, history>>

(* The R19 compare; line 0 never matches, 0 means off. *)
LineMatches == at - 1 # 0 /\ r19 = at - 1

LineCompare ==
  /\ Runnable
  /\ \/ LineMatches /\ Goto("match", "matchSt") /\ ident' = sr1
     \/ ~LineMatches /\ Goto("match", "check") /\ UNCHANGED ident
  /\ UNCHANGED <<latch, sr1, regs, pins, doneInt, io, at, temp, seen, newInt, history>>

LineMatchStore ==
  /\ Runnable /\ Goto("matchSt", "check")
  /\ sr1' = ident \cup {"HF"} /\ ident' = {}
  /\ UNCHANGED <<latch, regs, pins, doneInt, io, at, temp, seen, newInt, history>>

(* raise_end_of_frame_int up to its call of update_interrupts. *)
RaiseEndOfFrame ==
  /\ doneInt' = TRUE
  /\ temp' = EndOfFrame
  /\ Goto("gap", "vblank")
  /\ UNCHANGED <<latch, sr1, regs, pins, io, at, seen, ident, newInt, history>>

(* A call that finds the interrupt already raised returns at once. *)
NothingOwed ==
  /\ pc = "gap" /\ Return
  /\ UNCHANGED <<latch, sr1, regs, pins, doneInt, io, history>>

(* History: this call of update_interrupts stored its INT in the latch, or  *)
(* its test found INT there, unread since an earlier frame, and nothing to  *)
(* change.                                                                  *)
Raised(latched) ==
  /\ raised' = IF "INT" \in temp.flags /\ latched /\ raised < 2 THEN raised + 1 ELSE raised
  /\ UNCHANGED <<resets, wasReset>>

(* The trigger line: raise unless raised.  The host may not reach it. *)
EndOfScanline ==
  /\ Runnable /\ at = Trigger
  /\ IF doneInt THEN NothingOwed ELSE RaiseEndOfFrame

TriggerMissed ==
  /\ Runnable /\ at = Trigger /\ NothingOwed

(* The true end of the frame raises what the trigger did not. *)
FrameEnd ==
  /\ Runnable /\ at = FrameEndAt
  /\ IF doneInt THEN NothingOwed ELSE RaiseEndOfFrame

SetBlankLoad ==
  /\ Runnable /\ Goto("vblank", "vblankSt")
  /\ ident' = sr1
  /\ UNCHANGED <<latch, sr1, regs, pins, doneInt, io, at, temp, seen, newInt, history>>

SetBlankStore ==
  /\ Runnable /\ Goto("vblankSt", "check")
  /\ sr1' = ident \cup {"BLANK"} /\ ident' = {}
  /\ UNCHANGED <<latch, regs, pins, doneInt, io, at, temp, seen, newInt, history>>

-----------------------------------------------------------------------------
(* update_interrupts: the unmasked test first *)

TestStatusOnSR0 ==   \* mutant: the pre-test looks at SR0, not at its shadow
  /\ Runnable
  /\ \/ Merge(sr0, temp) = sr0 /\ Goto("check", "checkF")
     \/ Merge(sr0, temp) # sr0 /\ Goto("check", "enter")
  /\ UNCHANGED <<latch, sr1, regs, pins, doneInt, io, at, locals, history>>

TestStatus ==
  /\ Runnable
  /\ \/ Merge(frameStatus, temp) = frameStatus /\ Goto("check", "checkF")
     \/ Merge(frameStatus, temp) # frameStatus /\ Goto("check", "enter")
  /\ UNCHANGED <<latch, sr1, regs, pins, doneInt, io, at, locals, history>>

(* interrupt_status reads one source, then the other if the first is down. *)
TestFrameSource ==
  /\ Runnable
  /\ newInt' = FrameSource(r1, sr0)
  /\ Goto("checkF", IF newInt' THEN "checkPin" ELSE "checkL")
  /\ UNCHANGED <<latch, sr1, regs, pins, doneInt, io, at, temp, seen, ident, history>>

TestLineSource ==
  /\ Runnable
  /\ newInt' = LineSource(r0, sr1)
  /\ Goto("checkL", "checkPin")
  /\ UNCHANGED <<latch, sr1, regs, pins, doneInt, io, at, temp, seen, ident, history>>

TestPinDropped ==   \* mutant: an unchanged status is taken to mean an unchanged pin
  /\ Runnable /\ pc = "checkPin" /\ Return /\ Raised(TRUE)
  /\ UNCHANGED <<latch, sr1, regs, pins, doneInt, io>>

TestPin ==
  /\ Runnable /\ pc = "checkPin"
  /\ IF newInt = frameInt THEN Return /\ Raised(TRUE)
     ELSE pc' = "enter" /\ newInt' = FALSE /\ UNCHANGED <<at, temp, seen, ident, history>>
  /\ UNCHANGED <<latch, sr1, regs, pins, doneInt, io>>

(* ... then the same again with the bus interrupt held off. *)

EnterCritical ==
  /\ Runnable /\ Goto("enter", "reread")
  /\ UNCHANGED <<latch, sr1, regs, pins, doneInt, io, at, locals, history>>

MergeStatus ==
  /\ Goto("reread", "shadow")
  /\ seen' = Merge(frameStatus, temp)
  /\ UNCHANGED <<latch, sr1, regs, pins, doneInt, io, at, temp, ident, newInt, history>>

StoreShadow ==
  /\ Goto("shadow", "publishSR0")
  /\ frameStatus' = seen
  /\ UNCHANGED <<sr0, sr1, regs, pins, doneInt, io, at, locals, history>>

StoreSR0 ==
  /\ Goto("publishSR0", "publish")
  /\ sr0' = seen /\ Raised("INT" \in seen.flags)
  /\ UNCHANGED <<frameStatus, sr1, regs, pins, doneInt, io, at, locals>>

StatusNotPublished ==   \* mutant: the pin is driven over a stale word
  /\ Goto("publish", "derive")
  /\ UNCHANGED <<latch, sr1, regs, pins, doneInt, io, at, locals, history>>

StatusVisible ==
  /\ Goto("publish", "derive")
  /\ visible' = Word(Selected, sr0, sr1)
  /\ UNCHANGED <<latch, sr1, regs, pins, doneInt, bus, at, locals, history>>

DeriveInt ==
  /\ Goto("derive", "sync")
  /\ newInt' = InterruptStatus
  /\ UNCHANGED <<latch, sr1, regs, pins, doneInt, io, at, temp, seen, ident, history>>

SyncShadowOnly ==   \* mutant: the shadow moves, the pin is not written
  /\ Goto("sync", "exit")
  /\ frameInt' = newInt
  /\ UNCHANGED <<latch, sr1, regs, pin, doneInt, io, at, locals, history>>

SyncShadow ==
  /\ Goto("sync", IF newInt # frameInt THEN "drive" ELSE "exit")
  /\ frameInt' = newInt
  /\ UNCHANGED <<latch, sr1, regs, pin, doneInt, io, at, locals, history>>

DrivePin ==
  /\ Goto("drive", "exit")
  /\ pin' = newInt
  /\ UNCHANGED <<latch, sr1, regs, frameInt, doneInt, io, at, locals, history>>

ExitCritical ==
  /\ pc = "exit" /\ Return
  /\ UNCHANGED <<latch, sr1, regs, pins, doneInt, io, history>>

-----------------------------------------------------------------------------
(* The host *)

(* The bus hardware answers a status read; its handler is now pending. *)
CpuReadsStatus ==
  /\ Runnable
  /\ bus' = visible
  /\ UNCHANGED <<latch, sr1, regs, pins, doneInt, visible, pc, at, locals, history>>

ReadSR0Only ==   \* mutant: the read clears SR0 and leaves its shadow
  /\ sr0' = ClearSeen(sr0, bus.flags \cap SR0Flags)
  /\ UNCHANGED <<frameStatus, sr1>>
  /\ IF "INT" \in bus.flags THEN SyncInt ELSE UNCHANGED pins

(* status_read_reconcile: the side effects of the value the CPU got. *)
ReadSR0 ==
  LET got == bus.flags \cap SR0Flags IN
  /\ frameStatus' = ClearSeen(frameStatus, got)
  /\ sr0' = frameStatus'
  /\ UNCHANGED sr1
  /\ IF "INT" \in got THEN SyncInt ELSE UNCHANGED pins

ReadSR1 ==
  /\ UNCHANGED latch
  /\ IF "HF" \in bus.flags
     THEN sr1' = sr1 \ {"HF"} /\ SyncInt
     ELSE UNCHANGED <<sr1, pins>>

StatusReadReconcile ==
  /\ bus # NoRead /\ ~Masked
  /\ bus' = NoRead
  /\ UNCHANGED <<regs, doneInt, pc, at, locals, history>>
  /\ IF unlocked /\ bus.reg = "SR1" THEN ReadSR1 ELSE ReadSR0
  /\ Publish

(* A register write's handler: the registers change, then the publish. *)
RegisterWrite ==
  /\ Runnable /\ ~Masked
  /\ UNCHANGED <<latch, sr1, doneInt, bus, pc, at, locals, history>>
  /\ Publish

WriteR0(en) ==
  /\ r0' = en /\ UNCHANGED <<r1, r15, r19, unlocked>>
  /\ RegisterWrite /\ SyncInt

WriteR1NoSync(en) ==   \* mutant: the enable changes, the pin is not reconciled
  /\ r1' = en /\ UNCHANGED <<r0, r15, r19, unlocked, pins>>
  /\ RegisterWrite

WriteR1(en) ==
  /\ r1' = en /\ UNCHANGED <<r0, r15, r19, unlocked>>
  /\ RegisterWrite /\ SyncInt

WriteR15(reg) ==
  /\ unlocked /\ r15' = reg /\ UNCHANGED <<r0, r1, r19, unlocked, pins>>
  /\ RegisterWrite

WriteR19(line) ==
  /\ unlocked /\ r19' = line /\ UNCHANGED <<r0, r1, r15, unlocked, pins>>
  /\ RegisterWrite

(* The unlock register: what was armed while unlocked stays armed. *)
WriteUnlock(u) ==
  /\ unlocked' = u /\ UNCHANGED <<r0, r1, r15, r19, pins>>
  /\ RegisterWrite

(* R50 with its reset bit: the register file goes, the pin is not derived. *)
WriteRegisterReset ==
  /\ unlocked
  /\ r0' = FALSE /\ r1' = FALSE /\ r15' = "SR0" /\ r19' = 0 /\ unlocked' = FALSE
  /\ UNCHANGED pins
  /\ RegisterWrite

(* The console reset: pico9918_reset, then the handler's own publish and   *)
(* pin release.  The thread goes on from wherever it was; frameDoneInt is  *)
(* set, so the frame it fell into raises no fallback interrupt any more.   *)
ResetAs(done) ==
  /\ resets < MaxResets /\ resets' = resets + 1
  /\ wasReset' = TRUE /\ UNCHANGED raised
  /\ frameStatus' = NoStatus /\ sr0' = NoStatus /\ sr1' = {}
  /\ r0' = FALSE /\ r1' = FALSE /\ r15' = "SR0" /\ r19' = 0 /\ unlocked' = FALSE
  /\ frameInt' = FALSE /\ pin' = FALSE /\ doneInt' = done
  /\ UNCHANGED <<bus, pc, at, locals>>
  /\ Publish

ConsoleResetOwes == ResetAs(FALSE)   \* mutant: the frame's end is owed again

ConsoleReset == ResetAs(TRUE)

-----------------------------------------------------------------------------
ScanlineStep ==
  \/ FirstScanline \/ RenderLine \/ ClearBlankLoad \/ ClearBlankStore
  \/ LineCompare \/ LineMatchStore

EndOfFrameStep ==
  EndOfScanline \/ TriggerMissed \/ FrameEnd \/ SetBlankLoad \/ SetBlankStore

UpdateStep ==
  \/ TestStatus \/ TestFrameSource \/ TestLineSource \/ TestPin \/ EnterCritical
  \/ MergeStatus \/ StoreShadow \/ StoreSR0 \/ StatusVisible
  \/ DeriveInt \/ SyncShadow \/ DrivePin \/ ExitCritical

Thread == ScanlineStep \/ EndOfFrameStep \/ UpdateStep

RegisterWrites ==
  \/ \E en \in BOOLEAN : WriteR0(en) \/ WriteR1(en) \/ WriteUnlock(en)
  \/ \E reg \in {"SR0", "SR1"} : WriteR15(reg)
  \/ \E line \in 0..(Lines - 1) : WriteR19(line)

Host == CpuReadsStatus \/ StatusReadReconcile \/ RegisterWrites

(* Three hosts: one that never uses R50's reset bit, one that does, and    *)
(* one whose console is reset at any moment.                               *)
NextQuiet == Thread \/ Host
Next      == NextQuiet \/ WriteRegisterReset
NextReset == Next \/ ConsoleReset

(* The thread is preempted again and again but never starved: the host's   *)
(* accesses are slower than its handler.  A pended handler always runs.    *)
Fairness == SF_vars(Thread) /\ WF_vars(StatusReadReconcile)

SpecQuiet == Init /\ [][NextQuiet]_vars /\ Fairness
Spec      == Init /\ [][Next]_vars /\ Fairness
SpecReset == Init /\ [][NextReset]_vars /\ Fairness

-----------------------------------------------------------------------------
(* Properties *)

(* Type correctness: also, the frame's place stays within the frame and a   *)
(* selected status register is one of the two modelled.                     *)
TypeOK ==
  /\ frameStatus \in Status /\ sr0 \in Status /\ sr1 \in SUBSET SR1Flags
  /\ r0 \in BOOLEAN /\ r1 \in BOOLEAN /\ r15 \in {"SR0", "SR1"}
  /\ r19 \in 0..(Lines - 1) /\ unlocked \in BOOLEAN
  /\ frameInt \in BOOLEAN /\ pin \in BOOLEAN /\ doneInt \in BOOLEAN
  /\ visible \in Words /\ bus \in Words \cup {NoRead}
  /\ pc \in ThreadPC \cup CriticalPC /\ at \in 0..FrameEndAt
  /\ temp \in Status /\ seen \in Status
  /\ ident \in SUBSET SR1Flags /\ newInt \in BOOLEAN
  /\ resets \in 0..MaxResets /\ raised \in 0..2 /\ wasReset \in BOOLEAN

(* Every writer keeps the two copies of SR0 in lockstep: they differ only   *)
(* between the two stores of the critical section, where no handler looks.  *)
Lockstep == pc # "publishSR0" => frameStatus = sr0

(* Where the frame path has changed nothing it has not yet synced. *)
Settled == pc \in {"gap", "blank", "blankSt", "vblank", "vblankSt"}

(* An active interrupt source is on the pin: no interrupt is left masked by *)
(* the unguarded pre-test or by a write that raced it.                      *)
PinNotLost == Settled /\ InterruptStatus => pin

(* The pin is the predicate, neither lost nor stuck, for a host that does   *)
(* not use R50's reset bit.                                                 *)
PinExact == Settled => pin = InterruptStatus

(* The shadow the library compares against is the pin (pico9918_priv.h:368, *)
(* "current /INT pin state"); they differ only inside the masked write.     *)
PinShadow == pc # "drive" => frameInt = pin

(* The status is published before the pin is raised, so a CPU that takes    *)
(* the interrupt cannot read a stale status.                                *)
PublishedBeforePin ==
  [][~pin /\ pin' => visible' = Word(Selected', sr0', sr1')]_vars

(* A line interrupt is clear-on-read: the flag rises only in the store of a *)
(* line that matched, never again from a copy loaded before the read.       *)
LineFlagRisesOnMatch ==
  [][("HF" \notin sr1 /\ "HF" \in sr1') => pc = "matchSt"]_vars

(* SR0 keeps its promises to the CPU (StatusLatch) although the read and    *)
(* its side effects are two steps and a scanline's merge may fall between.  *)
Latch == INSTANCE StatusLatch WITH
           status <- frameStatus,
           got    <- IF bus.reg = "SR0" THEN bus.flags ELSE {}

StatusPromises == Latch!LatchSpec

(* A frame raises its interrupt once, at the trigger line or, when that was *)
(* missed, at its end; once even when INT is still latched and unread.  A   *)
(* console reset gives up the interrupt of the frame it falls into, if that *)
(* has not been raised (pico9918_priv.h:991-993), and never adds a second.  *)
EveryFrameRaises ==
  (pc = "gap" /\ at = 0) => IF wasReset THEN raised \in {0, 1} ELSE raised = 1

(* A latched frame flag reaches the pin unless the host reads or masks it. *)
FrameInterruptDelivered ==
  FrameSource(r1, sr0) ~> (pin \/ ~FrameSource(r1, sr0))

(* A console reset that falls inside update_interrupts can leave the        *)
(* library's shadow of the pin apart from the predicate: the second term of *)
(* the unmasked test brings the two back into agreement.                    *)
ShadowRecovers == (frameInt # InterruptStatus) ~> (frameInt = InterruptStatus)

(* Of the pin itself this is not true: a reset between the store of the     *)
(* shadow and the drive leaves /INT asserted with the shadow released, and  *)
(* the test, which only knows the shadow, has nothing to put right until an *)
(* interrupt source comes and goes.  Refuted by TLC, stated and not a run.  *)
PinRecovers == (pin # InterruptStatus) ~> (pin = InterruptStatus)

(* It can also fall between the two stores of set_status and leave the two  *)
(* copies of SR0 apart: a later read or merge makes them one again.         *)
LockstepRecovers == (frameStatus # sr0) ~> (frameStatus = sr0)
-----------------------------------------------------------------------------
(* Inductive invariants *)

(* The two copies of SR0 through the critical section. *)
LatchInv ==
  /\ Lockstep
  /\ pc = "shadow" => seen = Merge(frameStatus, temp)
  /\ pc = "publishSR0" => frameStatus = seen

(* What the bus hands to the CPU is latched, and an SR1 word means that the *)
(* device is unlocked.                                                      *)
HandOverInv ==
  /\ \A w \in {bus, visible} : /\ w.reg = "SR0" => w.flags \subseteq frameStatus.flags
                               /\ w.reg = "SR1" => unlocked
  /\ pc \in {"derive", "sync", "drive"} => visible = Word(Selected, sr0, sr1)

(* The shadow of the pin holds every active source, and nothing else when   *)
(* exact; along the unmasked test it may not, and the test then notices.    *)
ShadowGood(exact) ==
  /\ InterruptStatus => frameInt
  /\ exact => (frameInt => InterruptStatus)

ShadowInv(exact) ==
  /\ Settled => ShadowGood(exact)
  /\ pc = "checkL" => (~FrameSource(r1, sr0) \/ ShadowGood(exact))
  /\ pc = "checkPin" => (newInt = frameInt => ShadowGood(exact))
  /\ pc \in {"sync", "drive"} => newInt = InterruptStatus
  /\ pc = "exit" => frameInt = InterruptStatus

PinInv ==
  /\ pc # "drive" => frameInt = pin
  /\ pc = "drive" => frameInt = newInt

(* An end of frame still on its way into the latch: its INT is in the       *)
(* running call's status and not yet stored in SR0.                         *)
BeforeStore == (ThreadPC \ {"gap"}) \cup {"reread", "shadow", "publishSR0"}
Pending == "INT" \in temp.flags /\ pc \in BeforeStore

(* The frame's account: its one interrupt is on the way, or raised, or was  *)
(* given up by a reset, when frameDoneInt says so, and not before.          *)
AccountInv ==
  /\ raised \in {0, 1}
  /\ pc = "gap" => "INT" \notin temp.flags
  /\ pc \in {"shadow", "publishSR0"} /\ "INT" \in temp.flags => "INT" \in seen.flags
  /\ raised = 1 => doneInt
  /\ Pending => doneInt /\ raised = 0
  /\ doneInt /\ ~wasReset => (Pending <=> raised = 0)
  /\ at = 0 => pc = "gap" /\ doneInt
  /\ at = FrameEndAt /\ pc # "gap" => doneInt
=============================================================================
