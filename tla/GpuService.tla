----------------------------- MODULE GpuService -----------------------------
(***************************************************************************)
(* The GPU's service pass: who arms it, who runs it, and the status byte    *)
(* the guest polls, which a flash request shares with a running program.    *)
(*                                                                         *)
(* Two shapes of host.  On a board (~sliced) pico9918_gpu_loop has core 0   *)
(* to itself and the host's handlers run on core 1: nothing is guarded, so  *)
(* every access one side can see of the other is an action.  In an emulator *)
(* that set a clock (sliced) the library runs a slice from the arming write *)
(* and from each scanline, on the host's own thread: neither side moves     *)
(* while the other is under way.                                            *)
(***************************************************************************)
EXTENDS Integers

CONSTANTS
  Programs,   (* the addresses a program can be armed at                   *)
  Keys        (* the number of configuration action keys                   *)

ASSUME KeysAssumption == Keys \in Nat

VARIABLES
  sliced,     (* the library paces the GPU itself: gpuSlice is not 0       *)
  restart,    (* "off", "armed", or "resuming" after a slice               *)
  addr,       (* gpuAddress                                                *)
  ctl,        (* R56 bit 0                                                 *)
  busy,       (* SR2 bit 7                                                 *)
  flash,      (* a flash request is pending                                *)
  keys,       (* configuration actions requested                           *)
  unlocked,   (* isUnlocked                                                *)
  sync,       (* R50 triggers the GPU: lines or frames                     *)
  wp,         (* gpuWp: where a program found it or moved it               *)
  gpc,        (* the service pass's next access                            *)
  last,       (* lastAddress                                               *)
  spent,      (* outOfBudget                                               *)
  didFault,   (* the guard stopped the program for a DMA job or an entry   *)
  look,       (* the action key the pass is at                             *)
  hpc,        (* the host handler's next access                            *)
  armed,      (* history: the program R55 started that has not begun       *)
  loaded,     (* history: R56 loaded the PC with no start pending         *)
  paused,     (* history: a slice ended the program half way               *)
  owed        (* history: an accepted flash request awaits its callback    *)

engine  == <<restart, addr, ctl>>
request == <<flash, keys>>
program == <<last, spent, didFault>>
pass    == <<gpc, program, look>>
history == <<armed, loaded, paused, owed>>
device  == <<sliced, unlocked, sync>>
vars    == <<engine, busy, request, device, wp, pass, hpc, history>>

(* A reset parks the PC on an odd address, where nothing starts. *)
Parked    == [prog |-> "none", at |-> "odd"]
Entry(p)  == [prog |-> p, at |-> "entry"]
Inside(a) == [a EXCEPT !.at = "inside"]
Addresses == [prog : Programs, at : {"entry", "inside"}] \cup {Parked}

Init ==
  /\ sliced \in BOOLEAN
  /\ restart = "off" /\ addr = Parked /\ ctl = FALSE
  /\ busy = FALSE /\ flash = FALSE /\ keys = {} /\ unlocked = FALSE /\ sync = FALSE
  /\ wp = "fresh" /\ gpc = "idle" /\ last = Parked /\ spent = FALSE /\ look = 1
  /\ didFault = FALSE
  /\ hpc = "idle"
  /\ armed = {} /\ loaded = FALSE /\ paused = FALSE /\ owed = FALSE

-----------------------------------------------------------------------------
(* The service pass: pico9918_gpu_step, or _step_n in slices *)

Goto(from, to) == gpc = from /\ gpc' = to

(* The loop of a board comes round on its own. *)
LoopAgain ==
  /\ ~sliced /\ Goto("idle", "poll")
  /\ UNCHANGED <<engine, busy, request, device, wp, program, look, hpc, history>>

Poll ==
  /\ Goto("poll", IF restart # "off" THEN "enter" ELSE "flash")
  /\ UNCHANGED <<engine, busy, request, device, wp, program, look, hpc, history>>

WorkspaceKept ==   \* mutant: a new program keeps the last one's workspace
  /\ Goto("enter", "parity")
  /\ restart' = "off"
  /\ UNCHANGED <<addr, ctl, busy, request, device, wp, program, look, hpc, history>>

(* volatileHack: the workspace starts over unless a slice resumes. *)
TakeTrigger ==
  /\ Goto("enter", "parity")
  /\ wp' = IF restart = "armed" THEN "fresh" ELSE wp
  /\ restart' = "off"
  /\ UNCHANGED <<addr, ctl, busy, request, device, program, look, hpc, history>>

TestParity ==
  /\ Goto("parity", IF addr = Parked THEN "halt" ELSE "control")
  /\ last' = addr
  /\ UNCHANGED <<engine, busy, request, device, wp, spent, look, didFault, hpc, history>>

SetControl ==
  /\ Goto("control", "busy")
  /\ ctl' = TRUE
  /\ UNCHANGED <<restart, addr, busy, request, device, wp, program, look, hpc, history>>

SetBusy ==
  /\ Goto("busy", "run")
  /\ busy' = TRUE
  /\ armed' = IF last.at = "entry" THEN armed \ {last.prog} ELSE armed
  /\ UNCHANGED <<engine, request, device, wp, program, look, hpc, loaded, paused, owed>>

(* The program: it looks at R56 between instructions, may move its          *)
(* workspace (a board's core has it fixed), and ends on an IDLE or by       *)
(* clearing R56 itself.                                                     *)
Execute ==
  /\ gpc = "run" /\ ctl
  /\ last' = Inside(last) /\ wp' \in {wp} \cup (IF sliced THEN {"moved"} ELSE {})
  /\ UNCHANGED <<engine, busy, request, device, gpc, spent, look, didFault, hpc, history>>

Idle ==
  /\ ctl /\ Goto("run", "test")
  /\ last' = Inside(last)
  /\ UNCHANGED <<engine, busy, request, device, wp, spent, look, didFault, hpc, history>>

ClearsControl ==
  /\ ctl /\ Goto("run", "test")
  /\ ctl' = FALSE /\ last' = Inside(last)
  /\ UNCHANGED <<restart, addr, busy, request, device, wp, spent, look, didFault, hpc, history>>

SeesStop ==
  /\ ~ctl /\ Goto("run", "test")
  /\ UNCHANGED <<engine, busy, request, device, wp, program, look, hpc, history>>

OutOfBudget ==
  /\ sliced /\ ctl /\ last.at = "inside" /\ Goto("run", "test")
  /\ spent' = TRUE
  /\ UNCHANGED <<engine, busy, request, device, wp, last, look, didFault, hpc, history>>

(* isr_hardfault: the store that hit the guard ends the run, not the program. *)
Fault ==
  /\ ~sliced /\ ctl /\ Goto("run", "test")
  /\ ctl' = FALSE /\ didFault' = TRUE /\ last' = Inside(last)
  /\ UNCHANGED <<restart, addr, busy, request, device, wp, spent, look, hpc, history>>

(* The way on from a run: back into it after a fault, whatever R56 says now. *)
Onward == IF didFault THEN "control" ELSE "halt"

(* A run that ends with R56 still set keeps its place and drops whatever    *)
(* was armed while it ran.                                                  *)
TestControl ==
  /\ Goto("test", IF ctl THEN "keep" ELSE Onward)
  /\ didFault' = (ctl /\ didFault)
  /\ UNCHANGED <<engine, busy, request, device, wp, last, spent, look, hpc, history>>

KeepAddress ==
  /\ Goto("keep", "disarm")
  /\ addr' = last
  /\ UNCHANGED <<restart, ctl, busy, request, device, wp, program, look, hpc, history>>

Disarm ==
  /\ Goto("disarm", IF spent THEN "resume" ELSE Onward)
  /\ restart' = "off" /\ didFault' = FALSE
  /\ UNCHANGED <<addr, ctl, busy, request, device, wp, last, spent, look, hpc, history>>

SliceForgotten ==   \* mutant: what volatileHack cleared is not put back
  /\ Goto("resume", "flash")
  /\ spent' = FALSE /\ paused' = TRUE
  /\ UNCHANGED <<engine, busy, request, device, wp, last, look, didFault, hpc, armed, loaded, owed>>

(* step_n puts back what volatileHack cleared. *)
Resume ==
  /\ Goto("resume", "flash")
  /\ restart' = "resuming" /\ spent' = FALSE /\ paused' = TRUE
  /\ UNCHANGED <<addr, ctl, busy, request, device, wp, last, look, didFault, hpc, armed, loaded, owed>>

HaltSilently ==   \* mutant: the stop does not clear the busy bit
  /\ Goto("halt", "haltControl")
  /\ UNCHANGED <<engine, busy, request, device, wp, program, look, hpc, history>>

ClearBusy ==
  /\ Goto("halt", "haltControl")
  /\ busy' = FALSE
  /\ UNCHANGED <<engine, request, device, wp, program, look, hpc, history>>

HaltControl ==
  /\ Goto("haltControl", "flash")
  /\ ctl' = FALSE /\ last' = Parked /\ paused' = FALSE
  /\ UNCHANGED <<restart, addr, busy, request, device, wp, spent, look, didFault, hpc, armed, loaded, owed>>

-----------------------------------------------------------------------------
(* The rest of the pass: a flash request, then the action keys *)

TestFlash ==
  /\ Goto("flash", IF flash THEN "take" ELSE "keys") /\ look' = 1
  /\ UNCHANGED <<engine, busy, request, device, wp, program, hpc, history>>

LeaveFlash ==   \* mutant: the request is not taken before its callback
  /\ Goto("take", "done")
  /\ owed' = FALSE
  /\ UNCHANGED <<engine, busy, request, device, wp, program, look, hpc, armed, loaded, paused>>

(* gpuFlashFire takes the request before its callback runs. *)
TakeFlash ==
  /\ Goto("take", "done")
  /\ flash' = FALSE /\ owed' = FALSE
  /\ UNCHANGED <<engine, busy, keys, device, wp, program, look, hpc, armed, loaded, paused>>

(* The callback ends with pico9918_gpu_flash_complete. *)
FlashDone ==
  /\ Goto("done", "doneControl")
  /\ busy' = FALSE
  /\ UNCHANGED <<engine, request, device, wp, program, look, hpc, history>>

FlashDoneTakesAgain ==   \* mutant: the completion clears the request too
  /\ Goto("doneControl", "keys")
  /\ ctl' = FALSE /\ flash' = FALSE
  /\ UNCHANGED <<restart, addr, busy, keys, device, wp, program, look, hpc, history>>

FlashDoneControl ==
  /\ Goto("doneControl", "keys")
  /\ ctl' = FALSE
  /\ UNCHANGED <<restart, addr, busy, request, device, wp, program, look, hpc, history>>

(* A key is cleared, then its callback runs; one set meanwhile is not lost. *)
TakeKey ==
  /\ gpc = "keys" /\ look <= Keys
  /\ keys' = keys \ {look} /\ look' = look + 1
  /\ UNCHANGED <<engine, busy, flash, device, wp, gpc, program, hpc, history>>

EndPass ==
  /\ look > Keys /\ Goto("keys", "idle") /\ look' = 1
  /\ UNCHANGED <<engine, busy, request, device, wp, program, hpc, history>>

Gpu ==
  \/ LoopAgain \/ Poll \/ TakeTrigger \/ TestParity \/ SetControl \/ SetBusy
  \/ Execute \/ Idle \/ ClearsControl \/ SeesStop \/ OutOfBudget \/ Fault
  \/ TestControl \/ KeepAddress \/ Disarm \/ Resume \/ ClearBusy \/ HaltControl
  \/ TestFlash \/ TakeFlash \/ FlashDone \/ FlashDoneControl
  \/ TakeKey \/ EndPass

-----------------------------------------------------------------------------
(* The host's handlers.  In a sliced host each is atomic to the GPU.        *)

HostAt(from, to) == hpc = from /\ hpc' = to

(* A handler starts between handlers, and between passes if it shares the   *)
(* thread.  Every enhanced register needs the unlock.                       *)
Enters(to) == HostAt("idle", to) /\ (sliced => gpc = "idle")
Writes(to) == unlocked /\ Enters(to)

NoService == "idle"   \* mutant: the arming write leaves it to the scanline

(* pico9918_gpu_service, which only a sliced host compiles to anything *)
Service == IF sliced THEN "serve" ELSE "idle"

WriteR55 ==
  /\ Writes("armControl")
  /\ \E p \in Programs : addr' = Entry(p)
  /\ UNCHANGED <<restart, ctl, busy, request, device, wp, pass, history>>

ArmControl ==
  /\ HostAt("armControl", "armRestart")
  /\ ctl' = FALSE
  /\ UNCHANGED <<restart, addr, busy, request, device, wp, pass, history>>

ArmRestart ==
  /\ HostAt("armRestart", Service)
  /\ restart' = "armed" /\ armed' = {addr.prog} \cap Programs
  /\ loaded' = FALSE /\ paused' = FALSE
  /\ UNCHANGED <<addr, ctl, busy, request, device, wp, pass, owed>>

(* R56 starts the program the PC is at, or loads the PC from R54 and R55. *)
WriteR56Run ==
  /\ Writes("runRestart")
  /\ ctl' = TRUE
  /\ UNCHANGED <<restart, addr, busy, request, device, wp, pass, history>>

RunRestart ==
  /\ HostAt("runRestart", Service)
  /\ restart' = "armed" /\ loaded' = FALSE /\ paused' = FALSE
  /\ UNCHANGED <<addr, ctl, busy, request, device, wp, pass, armed, owed>>

WriteR56Load ==
  /\ Writes("loadAddress")
  /\ ctl' = FALSE
  /\ UNCHANGED <<restart, addr, busy, request, device, wp, pass, history>>

LoadAddress ==
  /\ HostAt("loadAddress", "idle")
  /\ \E p \in Programs : addr' = Entry(p)
  /\ loaded' = (restart # "armed") /\ armed' = {} /\ paused' = FALSE
  /\ UNCHANGED <<restart, ctl, busy, request, device, wp, pass, owed>>

(* R63 asks for a flash operation, refused while R56 says a program runs. *)
WriteR63 ==
  /\ Writes(IF ctl THEN "refuse" ELSE "accept")
  /\ UNCHANGED <<engine, busy, request, device, wp, pass, history>>

RefuseFlash ==
  /\ HostAt("refuse", "idle")
  /\ busy' = FALSE
  /\ UNCHANGED <<engine, request, device, wp, pass, history>>

AcceptFlash ==
  /\ HostAt("accept", "request")
  /\ busy' = TRUE
  /\ UNCHANGED <<engine, request, device, wp, pass, history>>

RequestFlash ==
  /\ HostAt("request", "idle")
  /\ flash' = TRUE /\ owed' = TRUE
  /\ UNCHANGED <<engine, busy, keys, device, wp, pass, armed, loaded, paused>>

(* An action key reaches the configuration block through R58 and R59. *)
WriteR59 ==
  /\ Writes("idle")
  /\ \E k \in 1..Keys : keys' = keys \cup {k}
  /\ UNCHANGED <<engine, busy, flash, device, wp, pass, history>>

(* R57 and R50; the raster triggers outlive the lock, not a reset. *)
SetLock ==
  /\ Enters("idle")
  /\ unlocked' = ~unlocked
  /\ UNCHANGED <<engine, busy, request, sliced, sync, wp, pass, history>>

WriteR50 ==
  /\ Writes("idle")
  /\ sync' = ~sync
  /\ UNCHANGED <<engine, busy, request, sliced, unlocked, wp, pass, history>>

(* pico9918_set_chip to a personality with no unlock *)
StepDown ==
  /\ Enters("stepControl")
  /\ unlocked' = FALSE
  /\ UNCHANGED <<engine, busy, request, sliced, sync, wp, pass, history>>

StepControl ==
  /\ HostAt("stepControl", "idle")
  /\ ctl' = FALSE
  /\ UNCHANGED <<restart, addr, busy, request, device, wp, pass, history>>

(* The raster: R50 may ask for a trigger on every line, before the line's   *)
(* service, and for one at the end of a frame, which nothing serves.        *)
Triggers(to) ==
  /\ sync /\ Enters(to)
  /\ restart' = "armed" /\ loaded' = FALSE /\ paused' = FALSE
  /\ UNCHANGED <<addr, ctl, busy, request, device, wp, pass, armed, owed>>

LineTrigger  == Triggers(Service)
FrameTrigger == Triggers("idle")

Scanline ==
  /\ sliced /\ Enters("serve")
  /\ UNCHANGED <<engine, busy, request, device, wp, pass, history>>

ServeOnlyArmed ==   \* mutant: a slice is run only for an armed program
  /\ HostAt("serve", "idle")
  /\ gpc' = IF unlocked /\ restart # "off" THEN "poll" ELSE gpc
  /\ UNCHANGED <<engine, busy, request, device, wp, program, look, history>>

(* pico9918_gpu_run_slice *)
Serve ==
  /\ HostAt("serve", "idle")
  /\ gpc' = IF unlocked THEN "poll" ELSE gpc
  /\ UNCHANGED <<engine, busy, request, device, wp, program, look, history>>

(* pico9918_reset, whose end is the register reset that R50 also asks for *)
Reset ==
  /\ Enters("resetFlash")
  /\ addr' = Parked
  /\ UNCHANGED <<restart, ctl, busy, request, device, wp, pass, history>>

ResetFlash ==
  /\ HostAt("resetFlash", "resetStatus")
  /\ flash' = FALSE /\ owed' = FALSE
  /\ UNCHANGED <<engine, busy, keys, device, wp, pass, armed, loaded, paused>>

ResetStatus ==
  /\ HostAt("resetStatus", "resetRestart")
  /\ busy' = FALSE
  /\ UNCHANGED <<engine, request, device, wp, pass, history>>

ResetRestart ==
  /\ HostAt("resetRestart", "resetControl")
  /\ unlocked' = FALSE /\ restart' = "off"
  /\ armed' = {} /\ loaded' = FALSE /\ paused' = FALSE
  /\ UNCHANGED <<addr, ctl, busy, request, sliced, sync, wp, pass, owed>>

ResetControl ==
  /\ HostAt("resetControl", "idle")
  /\ ctl' = FALSE /\ sync' = FALSE
  /\ UNCHANGED <<restart, addr, busy, request, sliced, unlocked, wp, pass, history>>

(* Between slices, a program that has not ended leaves SR2 busy. *)
HalfWay == sliced /\ restart # "off" /\ busy

RegisterReset ==
  /\ Writes("resetRestart")
  /\ UNCHANGED <<engine, busy, request, device, wp, pass, history>>

Handler ==
  \/ ArmControl \/ ArmRestart \/ RunRestart \/ LoadAddress \/ RefuseFlash \/ AcceptFlash
  \/ RequestFlash \/ StepControl \/ Serve
  \/ ResetFlash \/ ResetStatus \/ ResetRestart \/ ResetControl

Host ==
  \/ WriteR55 \/ WriteR56Run \/ WriteR56Load \/ WriteR63 \/ WriteR59 \/ SetLock \/ WriteR50
  \/ StepDown \/ LineTrigger \/ FrameTrigger \/ Scanline \/ Reset \/ Handler

Next      == Gpu \/ Host \/ (~HalfWay /\ RegisterReset)
NextReset == Next \/ RegisterReset

(* The cores and the raster keep moving; every program comes to an end.     *)
Ends     == Idle \/ ClearsControl \/ SeesStop
Fairness ==
  /\ WF_vars(Gpu) /\ WF_vars(Handler) /\ SF_vars(Ends)
  /\ SF_vars(Scanline \/ (sliced /\ LineTrigger))

Spec       == Init /\ [][Next]_vars /\ Fairness
SpecCores  == Init /\ sliced = FALSE /\ [][Next]_vars /\ Fairness
SpecSliced == Init /\ sliced = TRUE /\ [][NextReset]_vars

-----------------------------------------------------------------------------
(* Properties *)

(* Type correctness of every access the two sides make.                     *)
TypeOK ==
  /\ {sliced, ctl, flash, busy, unlocked, sync} \subseteq BOOLEAN
  /\ {spent, didFault, loaded, paused, owed} \subseteq BOOLEAN
  /\ restart \in {"off", "armed", "resuming"} /\ {addr, last} \subseteq Addresses
  /\ keys \subseteq 1..Keys /\ armed \subseteq Programs
  /\ wp \in {"fresh", "moved"} /\ look \in 1..(Keys + 1)
  /\ gpc \in {"idle", "poll", "enter", "parity", "control", "busy", "run",
               "test", "keep", "disarm", "resume", "halt", "haltControl",
               "flash", "take", "done", "doneControl", "keys"}
  /\ hpc \in {"idle", "armControl", "armRestart", "runRestart", "loadAddress", "refuse",
               "accept", "request", "stepControl", "serve", "resetFlash", "resetStatus",
               "resetRestart", "resetControl"}

(* A sliced host needs the unlock for the GPU to be served at all. *)
Served == sliced => unlocked

(* gpu.h: "software probing for an F18A reads its result back a few cycles  *)
(* later", so an armed program has begun when a sliced arming write returns. *)
StartsInTheWrite == sliced /\ hpc = "idle" /\ gpc = "idle" => armed = {}

(* volatileHack's TRAP: a program never inherits its predecessor's          *)
(* workspace, whatever it was that started it.                              *)
FreshWorkspace ==
  sliced /\ gpc = "run" /\ last.at = "entry" /\ ~loaded => wp = "fresh"

(* The guest that polls SR2 gets its answer: busy clears, whatever          *)
(* programs, flash requests, refusals and resets interleave.                *)
BusySettles == Served /\ busy ~> ~busy \/ ~Served

(* gpuFlashFire's TRAP: a request that arrives inside an earlier one's      *)
(* callback is dispatched in its turn, not cleared by the completion.       *)
FlashAnswered == Served /\ owed ~> ~owed \/ ~Served

(* A request is dispatched once: no pass dispatches one already taken.      *)
FiresOnce == [][sliced /\ gpc = "take" /\ gpc' = "done" => owed]_vars

(* Every action key requested is found, cleared and reported.               *)
KeysDispatched == \A k \in 1..Keys : Served /\ k \in keys ~> k \notin keys \/ ~Served

(* gpu.h: a capped slice returns with the PC kept, and the next carries on: *)
(* a program a slice ended half way ends by itself in a later one.          *)
PausedContinues == Served /\ paused ~> ~paused \/ ~Served

(* pico9918.h of R55: "writing it also starts the GPU".                     *)
ArmedProgramStarts == armed # {} ~> armed = {}

(* pico9918.h of R56: "0 loads the PC without starting".                    *)
LoadDoesNotStart == gpc = "run" /\ last.at = "entry" => ~loaded

(* gpu.c of SR2 bit 7: "busy", that is, a program or a flash operation is.  *)
BusyMeansBusy ==
  sliced /\ busy /\ hpc = "idle" /\ gpc = "idle" => restart # "off" \/ flash
-----------------------------------------------------------------------------
(* Inductive invariants *)

(* A program that is being run has a PC inside the machine.                 *)
PlaceInv == gpc \in {"control", "busy", "run", "test", "keep", "disarm"} => last # Parked

(* The rest is about the sliced host.                                       *)

(* One thread: a handler's steps and a pass's never overlap.                *)
OneThread == sliced => hpc = "idle" \/ gpc = "idle"

(* A program armed by R55 is on its way: through its handler's end, which   *)
(* serves it because the write needed the unlock, and through the pass up  *)
(* to the busy bit, with the PC untouched.                                 *)
ArmingInv ==
  sliced /\ hpc \in {"armControl", "armRestart"}
    => unlocked /\ addr.prog \in Programs /\ addr = Entry(addr.prog)
ArmedInv ==
  sliced /\ armed # {} =>
    /\ armed = {addr.prog} /\ addr = Entry(addr.prog)
    /\ \/ hpc = "serve" /\ restart = "armed" /\ unlocked
       \/ gpc \in {"poll", "enter"} /\ restart = "armed"
       \/ gpc = "parity"
       \/ gpc \in {"control", "busy"} /\ last = addr

(* A slice that ran out of budget keeps a PC inside the program all the way *)
(* to the resumption, so only a start or a load makes it an entry.         *)
Entered(a) == a.at = "entry" /\ ~loaded
SliceInv ==
  sliced =>
    /\ ~didFault
    /\ gpc \in {"parity", "control", "busy", "run", "test", "keep", "disarm", "resume"} => restart = "off"
    /\ gpc = "enter" => restart # "off"
    /\ spent => /\ gpc \in {"test", "keep", "disarm", "resume"} /\ last.at = "inside"
                /\ gpc = "test" => ctl
                /\ gpc \in {"disarm", "resume"} => addr = last
    /\ gpc = "resume" => spent
WorkspaceInv ==
  sliced =>
    /\ restart = "resuming" => ~Entered(addr) \/ hpc \in {"armControl", "armRestart"}
    /\ gpc = "parity" => wp = "fresh" \/ ~Entered(addr)
    /\ gpc \in {"control", "busy", "run"} => wp = "fresh" \/ ~Entered(last)

(* A pending request is one that is owed its callback.                      *)
FlashInv == flash = owed /\ (sliced /\ gpc = "take" => flash)

SlicedInv  == OneThread /\ ArmingInv /\ ArmedInv /\ SliceInv /\ WorkspaceInv
ServiceInv == TypeOK /\ PlaceInv /\ SlicedInv /\ FlashInv
=============================================================================
