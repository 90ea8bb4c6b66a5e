---------------------------- MODULE ScsiCommand ----------------------------
(***************************************************************************)
(* One call of DoRead, DoWrite or DoTestUnitReady on MacOS, down to the     *)
(* calls of the original SCSI Manager: OriginalSCSI runs the command, and   *)
(* runs a second time for Request Sense if the device asks for it.          *)
(*                                                                          *)
(* The SCSI Manager, the device and whoever else uses the bus may answer    *)
(* anything at any time; they are the nondeterminism of the actions.        *)
(***************************************************************************)
EXTENDS Integers

CONSTANTS
  BlockLength,    \* 512, in units of the transfer
  SenseLength,    \* sizeof (SCSI_Sense_Data), in the same units
  MaxRetries,     \* kMaxSCSIRetries
  MaxGets,        \* getTries
  WaitTicks,      \* for the bus to be free: 300
  PauseTicks,     \* after a busy device: 15
  Ticks           \* values of TickCount()

ASSUME ScsiAssumption ==
  /\ {BlockLength, SenseLength, MaxRetries, MaxGets, PauseTicks}
       \subseteq Nat \ {0}
  /\ WaitTicks \in Nat /\ Ticks \in Nat
  /\ PauseTicks <= WaitTicks /\ WaitTicks < Ticks

Operations == {"read", "write", "ready"}

\* The byte of the status phase; "none" is 0xFF, before there was one.
Bytes == {"none", "good", "check", "busy", "conflict"}

Statuses ==
  {"noErr", "scsiBusy", "scsiTIDInvalid", "scsiDeviceNotThere",
   "scsiRequestInvalid", "scsiCommandTimeout", "scsiSequenceFailed",
   "scsiProvideFail", "scsiNonZeroStatus", "scsiDataRunError",
   "scsiAutosenseFailed"}

VARIABLES
  op,       \* which of the three is called
  vm,       \* IsVirtualMemoryRunning()
  pc,       \* where the call is
  stage,    \* "command", or "sense" in the second OriginalSCSI
  call,     \* the locals of OriginalSCSI
  held,     \* whether the buffer is held in memory
  bus,      \* "other", "ours" after SCSIGet, "device" after SCSISelect
  tick,     \* TickCount()
  watchdog,
  sense,    \* what *sensePtr holds: "unset", "cleared" or "sense"
  answer,   \* the status byte of the command, kept for the properties
  moved,    \* units moved in this try, kept for the properties
  wasted    \* units moved in tries before, kept for the properties

vars == <<op, vm, pc, stage, call, held, bus, tick, watchdog, sense,
          answer, moved, wasted>>

Length == IF stage = "sense" THEN SenseLength
          ELSE IF op = "ready" THEN 0 ELSE BlockLength

NewCall == [status |-> "noErr", byte |-> "none", msg |-> "none",
            count |-> 0, tries |-> 0, gets |-> 0]

Init ==
  /\ op \in Operations
  /\ vm \in BOOLEAN
  /\ pc = "watch"
  /\ stage = "command"
  /\ call = NewCall
  /\ held = (vm /\ op # "ready")
  /\ bus = "other"
  /\ tick \in 0 .. Ticks - 1
  /\ watchdog = 0
  /\ sense = "unset"
  /\ answer = "none"
  /\ moved = 0
  /\ wasted = 0

Goto(from, to) == pc = from /\ pc' = to

Exit(from, status) ==
  /\ Goto(from, "exit")
  /\ call' = [call EXCEPT !.status = status]

-----------------------------------------------------------------------------
(* Arbitration.                                                             *)

Later(ticks) == (tick + ticks) % Ticks

StartWatch ==
  /\ Goto("watch", "wait")
  /\ watchdog' = Later(WaitTicks)
  /\ UNCHANGED <<op, vm, stage, call, held, bus, tick, sense, answer, moved,
                 wasted>>

(* The loop reads the clock many times in every tick.                       *)
BusBusy ==
  /\ pc = "wait"
  /\ tick <= watchdog
  /\ tick' = Later(1)
  /\ UNCHANGED <<op, vm, pc, stage, call, held, bus, watchdog, sense, answer,
                 moved, wasted>>

BusTimeout ==
  /\ tick > watchdog
  /\ Exit("wait", "scsiBusy")
  /\ UNCHANGED <<op, vm, stage, held, bus, tick, watchdog, sense, answer,
                 moved, wasted>>

BusFree ==
  /\ Goto("wait", "get")
  /\ UNCHANGED <<op, vm, stage, call, held, bus, tick, watchdog, sense,
                 answer, moved, wasted>>

Get ==
  /\ Goto("get", "select")
  /\ bus' = "ours"
  /\ UNCHANGED <<op, vm, stage, call, held, tick, watchdog, sense, answer,
                 moved, wasted>>

(* All four SCSIGets fail.                                                  *)
GetAgain ==
  /\ call.gets + 1 < MaxGets
  /\ Goto("get", "watch")
  /\ call' = [call EXCEPT !.gets = @ + 1]
  /\ UNCHANGED <<op, vm, stage, held, bus, tick, watchdog, sense, answer,
                 moved, wasted>>

GetFails ==
  /\ call.gets + 1 = MaxGets
  /\ Exit("get", "scsiBusy")
  /\ UNCHANGED <<op, vm, stage, held, bus, tick, watchdog, sense, answer,
                 moved, wasted>>

Select ==
  /\ Goto("select", "command")
  /\ bus' = "device"
  /\ UNCHANGED <<op, vm, stage, call, held, tick, watchdog, sense, answer,
                 moved, wasted>>

SelectFails ==
  /\ \E status \in {"scsiTIDInvalid", "scsiDeviceNotThere", "scsiBusy",
                    "scsiRequestInvalid"} : Exit("select", status)
  /\ bus' = "other"
  /\ UNCHANGED <<op, vm, stage, held, tick, watchdog, sense, answer, moved,
                 wasted>>

-----------------------------------------------------------------------------
(* The command, its data, and what the device says of it.                   *)

Command ==
  /\ pc = "command"
  /\ \E status \in {"noErr", "scsiCommandTimeout", "scsiSequenceFailed"} :
       /\ call' = [call EXCEPT !.status = status]
       /\ pc' = IF status = "noErr" /\ Length > 0 THEN "data" ELSE "complete"
  /\ moved' = 0
  /\ wasted' = wasted + moved
  /\ UNCHANGED <<op, vm, stage, held, bus, tick, watchdog, sense, answer>>

\* Fault: an error of the transfer ends the call at once.
TransferLeaves ==
  /\ pc = "data"
  /\ \E n \in 0 .. Length :
       /\ moved' = n
       /\ \/ /\ call' = [call EXCEPT !.count = @ + n]
             /\ pc' = "complete"
          \/ /\ call' = [call EXCEPT !.count = @ + n,
                                     !.status = "scsiCommandTimeout"]
             /\ pc' = "exit"
  /\ UNCHANGED <<op, vm, stage, held, bus, tick, watchdog, sense, answer,
                 wasted>>

(* The loop of the TIB counts on from the tries before.  A transfer that    *)
(* stops early is a phase error, and is not cared about.                    *)
Transfer ==
  /\ Goto("data", "complete")
  /\ \E n \in 0 .. Length, status \in {"noErr", "scsiCommandTimeout",
                                       "scsiRequestInvalid"} :
       /\ call' = [call EXCEPT !.count = @ + n, !.status = status]
       /\ moved' = n
  /\ UNCHANGED <<op, vm, stage, held, bus, tick, watchdog, sense, answer,
                 wasted>>

\* The device is busy: pause and try again.
Again(byte) == byte = "busy"

(* SCSIComplete is happy.                                                   *)
Complete ==
  /\ pc = "complete"
  /\ bus' = "other"
  /\ \E byte \in Bytes \ {"none"}, msg \in {"good", "check"} :
       /\ call' = [call EXCEPT !.byte = byte, !.msg = msg]
       /\ IF Again(byte)
          THEN pc' = "pause" /\ watchdog' = Later(PauseTicks)
          ELSE pc' = "exit" /\ UNCHANGED watchdog
  /\ UNCHANGED <<op, vm, stage, held, tick, sense, answer, moved, wasted>>

(* It is not, and may or may not have set the two bytes.                    *)
CompleteFails ==
  /\ Goto("complete", "exit")
  /\ bus' = "other"
  /\ \E failure \in {"scsiCommandTimeout", "scsiSequenceFailed"},
        byte \in (Bytes \ {"none"}) \cup {call.byte},
        msg \in {"good", "check", call.msg} :
       call' = [call EXCEPT !.byte = byte, !.msg = msg,
                  !.status = IF @ = "noErr" THEN failure ELSE @]
  /\ UNCHANGED <<op, vm, stage, held, tick, watchdog, sense, answer, moved,
                 wasted>>

Pause ==
  /\ pc = "pause"
  /\ tick < watchdog
  /\ tick' = Later(1)
  /\ UNCHANGED <<op, vm, pc, stage, call, held, bus, watchdog, sense, answer,
                 moved, wasted>>

\* Fault: tries are not counted.
RetryForEver ==
  /\ tick >= watchdog
  /\ Goto("pause", "watch")
  /\ call' = [call EXCEPT !.gets = 0]
  /\ UNCHANGED <<op, vm, stage, held, bus, tick, watchdog, sense, answer,
                 moved, wasted>>

Retry ==
  /\ tick >= watchdog
  /\ call.tries + 1 < MaxRetries
  /\ Goto("pause", "watch")
  /\ call' = [call EXCEPT !.tries = @ + 1, !.gets = 0]
  /\ UNCHANGED <<op, vm, stage, held, bus, tick, watchdog, sense, answer,
                 moved, wasted>>

GiveUp ==
  /\ tick >= watchdog
  /\ call.tries + 1 = MaxRetries
  /\ Goto("pause", "exit")
  /\ UNCHANGED <<op, vm, stage, call, held, bus, tick, watchdog, sense,
                 answer, moved, wasted>>

-----------------------------------------------------------------------------
(* The end of OriginalSCSI.                                                 *)

(* System 7.0.1 with a 53C96 may put the status into the message byte.      *)
FinalByte ==
  IF call.byte = "good" /\ call.msg = "check" THEN "check" ELSE call.byte

ByteStatus ==
  CASE call.status # "noErr" -> call.status
    [] FinalByte = "good" -> "noErr"
    [] FinalByte = "busy" -> "scsiBusy"
    [] FinalByte = "none" -> "scsiProvideFail"
    [] OTHER              -> "scsiNonZeroStatus"

\* Fault: a short transfer is a success.
ShortIsSuccess == ByteStatus

FinalStatus ==
  IF ByteStatus = "noErr" /\ call.count # Length
  THEN "scsiDataRunError" ELSE ByteStatus

\* Fault: the sense data is asked for whatever the status byte is.
SenseForAnyStatus == stage = "command" /\ FinalStatus = "scsiNonZeroStatus"

NeedsSense ==
  stage = "command" /\ FinalStatus = "scsiNonZeroStatus" /\ FinalByte = "check"

(* The first OriginalSCSI lets go of its buffer, and the second one holds   *)
(* the one of the sense data.                                               *)
RequestSense ==
  /\ NeedsSense
  /\ Goto("exit", "watch")
  /\ stage' = "sense"
  /\ call' = NewCall
  /\ held' = vm
  /\ sense' = "cleared"
  /\ answer' = FinalByte
  /\ moved' = 0
  /\ wasted' = 0
  /\ UNCHANGED <<op, vm, bus, tick, watchdog>>

Return ==
  /\ stage = "command" /\ ~ NeedsSense
  /\ Goto("exit", "done")
  /\ call' = [call EXCEPT !.status = FinalStatus]
  /\ held' = FALSE
  /\ answer' = FinalByte
  /\ UNCHANGED <<op, vm, stage, bus, tick, watchdog, sense, moved, wasted>>

(* Sense data may be shorter than its buffer.                               *)
ReturnSense ==
  /\ stage = "sense"
  /\ Goto("exit", "done")
  /\ call' = [call EXCEPT !.status =
                IF FinalStatus \in {"noErr", "scsiDataRunError"}
                THEN "scsiNonZeroStatus" ELSE "scsiAutosenseFailed"]
  /\ held' = FALSE
  /\ sense' = IF moved + wasted > 0 THEN "sense" ELSE sense
  /\ UNCHANGED <<op, vm, stage, bus, tick, watchdog, answer, moved, wasted>>

(* What DoRead, DoWrite and DoTestUnitReady return.                         *)
Result ==
  CASE call.status = "noErr" -> 1
    [] op = "ready" /\ call.status = "scsiNonZeroStatus" -> -1
    [] OTHER -> 0

Next ==
  \/ StartWatch \/ BusBusy \/ BusTimeout \/ BusFree
  \/ Get \/ GetAgain \/ GetFails \/ Select \/ SelectFails
  \/ Command \/ Transfer \/ Complete \/ CompleteFails
  \/ Pause \/ Retry \/ GiveUp
  \/ RequestSense \/ Return \/ ReturnSense

(* The call runs on as long as it has something to do: the program does     *)
(* nothing else meanwhile, and the clock goes on while a loop reads it.     *)
Spec == Init /\ [][Next]_vars /\ WF_vars(Next)

-----------------------------------------------------------------------------
(* Properties.                                                              *)

TypeOK ==
  /\ op \in Operations /\ vm \in BOOLEAN /\ held \in BOOLEAN
  /\ pc \in {"watch", "wait", "get", "select", "command", "data", "complete",
             "pause", "exit", "done"}
  /\ stage \in {"command", "sense"}
  /\ call.status \in Statuses
  /\ {call.byte, call.msg, answer} \subseteq Bytes
  /\ call.count = moved + wasted
  /\ call.count \in 0 .. MaxRetries * Length
  /\ call.tries \in 0 .. MaxRetries - 1
  /\ call.gets \in 0 .. MaxGets - 1
  /\ bus \in {"other", "ours", "device"}
  /\ {tick, watchdog} \subseteq 0 .. Ticks - 1
  /\ sense \in {"unset", "cleared", "sense"}

(* A block was read or written, or a unit was found ready, only if the      *)
(* device said so and one try moved the whole of it.  Tries that the device *)
(* cut short with a busy status break that, since the count of the TIB is   *)
(* not started anew: their pieces and the last one may add up to a block.   *)
SuccessIsWhole ==
  pc = "done" /\ Result = 1 =>
    answer = "good" /\ (moved = Length \/ wasted # 0)

(* "From this point on, we must exit through SCSIComplete() even if an      *)
(* error is detected": however a call ends, the bus is free again, and no   *)
(* buffer is held in memory.                                                *)
NothingLeftBehind == pc = "done" => bus = "other" /\ ~ held

(* The sense data that DoTestUnitReady looks at is that of its own command, *)
(* or was never set because the device did not offer any.                   *)
SenseIsOfCommand ==
  pc = "done" =>
    /\ sense # "unset" => answer = "check"
    /\ call.status = "scsiNonZeroStatus" =>
         (sense = "unset" <=> answer # "check")

(* Every call ends, whatever the device and the bus do, but for one tick: a *)
(* watchdog on the last value of the clock is never passed.                 *)
EveryCallEnds ==
  \/ <>(pc = "done")
  \/ <>[](pc = "wait" /\ watchdog = Ticks - 1)

=============================================================================
