------------------------- MODULE ScsiCommandProofs -------------------------
(***************************************************************************)
(* What a call of DoRead, DoWrite or DoTestUnitReady leaves behind and what *)
(* its result means, for every length of a block, every number of tries,    *)
(* every clock, and whatever the SCSI Manager and the device answer.        *)
(***************************************************************************)
EXTENDS ScsiCommand, TLAPS

(* Where the call is says who owns the bus.                                 *)
BusInv ==
  /\ pc \in {"watch", "wait", "get", "select", "command", "data", "complete",
             "pause", "exit", "done"}
  /\ pc = "select" => bus = "ours"
  /\ pc \in {"command", "data", "complete"} => bus = "device"
  /\ pc \notin {"select", "command", "data", "complete"} => bus = "other"
  /\ pc = "done" => ~ held

(* However a call ends, the bus is free again and no buffer is held.        *)
THEOREM BusAndBufferAreFree == Spec => []NothingLeftBehind
<1>1. Init => BusInv
  BY DEF Init, BusInv
<1>2. BusInv /\ [Next]_vars => BusInv'
  <2> SUFFICES ASSUME BusInv, [Next]_vars PROVE BusInv'
    OBVIOUS
  <2> USE DEF BusInv, Goto, Exit
  <2>1. CASE StartWatch \/ BusBusy \/ BusTimeout \/ BusFree
    BY <2>1 DEF StartWatch, BusBusy, BusTimeout, BusFree
  <2>2. CASE Get \/ GetAgain \/ GetFails
    BY <2>2 DEF Get, GetAgain, GetFails
  <2>3. CASE Select \/ SelectFails
    BY <2>3 DEF Select, SelectFails
  <2>4. CASE Command
    BY <2>4 DEF Command
  <2>5. CASE Transfer
    BY <2>5 DEF Transfer
  <2>6. CASE Complete
    BY <2>6 DEF Complete
  <2>7. CASE CompleteFails
    BY <2>7 DEF CompleteFails
  <2>8. CASE Pause \/ Retry \/ GiveUp
    BY <2>8 DEF Pause, Retry, GiveUp
  <2>9. CASE RequestSense
    BY <2>9 DEF RequestSense
  <2>10. CASE Return
    BY <2>10 DEF Return
  <2>11. CASE ReturnSense
    BY <2>11 DEF ReturnSense
  <2>12. CASE UNCHANGED vars
    BY <2>12 DEF vars
  <2> QED
    BY <2>1, <2>2, <2>3, <2>4, <2>5, <2>6, <2>7, <2>8, <2>9, <2>10, <2>11,
       <2>12 DEF Next
<1>3. BusInv => NothingLeftBehind
  BY DEF BusInv, NothingLeftBehind
<1> QED
  BY <1>1, <1>2, <1>3, PTL DEF Spec

-----------------------------------------------------------------------------
(* Sense data is asked for once, behind a command that ended in a check     *)
(* condition; before that it is unset.                                      *)
SenseInv ==
  /\ stage \in {"command", "sense"}
  /\ stage = "command" => sense = "unset"
  /\ stage = "sense" => sense \in {"cleared", "sense"} /\ answer = "check"
  /\ pc = "done" /\ stage = "command" /\ call.status = "scsiNonZeroStatus"
       => answer # "check"

(* The sense data a caller looks at is that of its own command, or was      *)
(* never set because the device did not offer any.                          *)
THEOREM SenseBelongsToCommand == Spec => []SenseIsOfCommand
<1>1. Init => SenseInv
  BY DEF Init, SenseInv
<1>2. SenseInv /\ [Next]_vars => SenseInv'
  <2> SUFFICES ASSUME SenseInv, [Next]_vars PROVE SenseInv'
    OBVIOUS
  <2> USE DEF SenseInv, Goto, Exit
  <2>1. CASE StartWatch \/ BusBusy \/ BusTimeout \/ BusFree
    BY <2>1 DEF StartWatch, BusBusy, BusTimeout, BusFree
  <2>2. CASE Get \/ GetAgain \/ GetFails \/ Select \/ SelectFails
    BY <2>2, SMTT(60) DEF Get, GetAgain, GetFails, Select, SelectFails
  <2>3. CASE Command \/ Transfer
    BY <2>3 DEF Command, Transfer
  <2>4. CASE Complete
    BY <2>4 DEF Complete
  <2>5. CASE CompleteFails
    BY <2>5 DEF CompleteFails
  <2>6. CASE Pause \/ Retry \/ GiveUp
    BY <2>6 DEF Pause, Retry, GiveUp
  <2>7. CASE RequestSense
    BY <2>7 DEF RequestSense, NeedsSense
  <2>8. CASE Return
    <3>1. ~ (FinalStatus = "scsiNonZeroStatus" /\ FinalByte = "check")
      BY <2>8 DEF Return, NeedsSense
    <3>2. answer' = FinalByte /\ stage' = "command" /\ sense' = "unset"
      BY <2>8 DEF Return
    <3> QED
      BY <2>8, <3>1, <3>2 DEF Return
  <2>9. CASE ReturnSense
    BY <2>9 DEF ReturnSense
  <2>10. CASE UNCHANGED vars
    BY <2>10 DEF vars
  <2> QED
    BY <2>1, <2>2, <2>3, <2>4, <2>5, <2>6, <2>7, <2>8, <2>9, <2>10 DEF Next
<1>3. SenseInv => SenseIsOfCommand
  BY DEF SenseInv, SenseIsOfCommand
<1> QED
  BY <1>1, <1>2, <1>3, PTL DEF Spec

-----------------------------------------------------------------------------
(* The count of the TIB is what was moved in this try and in those before.  *)
CountInv ==
  /\ call \in [status : Statuses, byte : Bytes, msg : Bytes, count : Nat,
               tries : Nat, gets : Nat]
  /\ moved \in Nat /\ wasted \in Nat
  /\ call.count = moved + wasted
  /\ pc = "data" => moved = 0
  /\ stage \in {"command", "sense"}
  /\ SuccessIsWhole

LEMMA LengthIsNat == Length \in Nat
  BY ScsiAssumption DEF Length

(* A command has no error only if the device said good and its count is     *)
(* that of the whole transfer.                                              *)
LEMMA NoErrorMeansWhole ==
  ASSUME FinalStatus = "noErr"
  PROVE  FinalByte = "good" /\ call.count = Length
<1>1. ByteStatus = "noErr" /\ call.count = Length
  BY DEF FinalStatus
<1> QED
  BY <1>1 DEF ByteStatus

(* A call that succeeds was told so by the device and moved the whole       *)
(* transfer in one try, unless a try that the device broke off moved some.  *)
THEOREM SuccessMeansWhole == Spec => []SuccessIsWhole
<1>1. Init => CountInv
  BY DEF Init, CountInv, NewCall, Statuses, Bytes, SuccessIsWhole
<1>2. CountInv /\ [Next]_vars => CountInv'
  <2> SUFFICES ASSUME CountInv, [Next]_vars PROVE CountInv'
    OBVIOUS
  <2> USE LengthIsNat DEF CountInv, Goto, Exit, Statuses, Bytes, SuccessIsWhole
  <2>1. CASE StartWatch \/ BusBusy \/ BusTimeout \/ BusFree
    BY <2>1 DEF StartWatch, BusBusy, BusTimeout, BusFree, Result, Length
  <2>2. CASE Get \/ GetAgain \/ GetFails \/ Select \/ SelectFails
    BY <2>2 DEF Get, GetAgain, GetFails, Select, SelectFails
  <2>3. CASE Command
    BY <2>3 DEF Command
  <2>4. CASE Transfer
    <3>1. PICK n \in 0 .. Length, status \in Statuses :
            /\ call' = [call EXCEPT !.count = @ + n, !.status = status]
            /\ moved' = n
      BY <2>4 DEF Transfer
    <3>2. n \in Nat /\ call.count + n \in Nat
      BY <3>1
    <3>3. call' \in [status : Statuses, byte : Bytes, msg : Bytes,
                     count : Nat, tries : Nat, gets : Nat]
          /\ call'.count = call.count + n
      BY <3>1, <3>2
    <3>4. call.count = wasted
      BY <2>4 DEF Transfer
    <3> QED
      BY <2>4, <3>1, <3>2, <3>3, <3>4 DEF Transfer
  <2>5. CASE Complete
    BY <2>5, ZenonT(60) DEF Complete
  <2>6. CASE CompleteFails
    BY <2>6, ZenonT(60) DEF CompleteFails
  <2>7. CASE Pause \/ Retry \/ GiveUp
    <3>1. CASE Pause
      BY <3>1 DEF Pause
    <3>2. CASE Retry
      <4>1. call.tries + 1 \in Nat
        OBVIOUS
      <4>2. call' \in [status : Statuses, byte : Bytes, msg : Bytes,
                       count : Nat, tries : Nat, gets : Nat]
            /\ call'.count = call.count
        BY <3>2, <4>1 DEF Retry
      <4> QED
        BY <3>2, <4>2 DEF Retry
    <3>3. CASE GiveUp
      BY <3>3 DEF GiveUp
    <3> QED
      BY <2>7, <3>1, <3>2, <3>3
  <2>8. CASE RequestSense
    BY <2>8 DEF RequestSense, NewCall
  <2>9. CASE Return
    <3>1. FinalStatus \in Statuses /\ FinalByte \in Bytes
      BY DEF FinalStatus, ByteStatus, FinalByte
    <3>2. CASE FinalStatus = "noErr"
      <4>1. FinalByte = "good" /\ moved + wasted = Length
        BY <3>2, NoErrorMeansWhole
      <4> QED
        BY <2>9, <3>1, <4>1 DEF Return, Length
    <3>3. CASE FinalStatus # "noErr"
      <4>1. Result' # 1
        BY <2>9, <3>1, <3>3 DEF Return, Result
      <4> QED
        BY <2>9, <3>1, <4>1 DEF Return
    <3> QED
      BY <3>2, <3>3
  <2>10. CASE ReturnSense
    <3>1. Result' # 1
      BY <2>10 DEF ReturnSense, Result
    <3> QED
      BY <2>10, <3>1 DEF ReturnSense
  <2>11. CASE UNCHANGED vars
    BY <2>11 DEF vars, Result, Length
  <2> QED
    BY <2>1, <2>2, <2>3, <2>4, <2>5, <2>6, <2>7, <2>8, <2>9, <2>10, <2>11
    DEF Next
<1>3. CountInv => SuccessIsWhole
  BY DEF CountInv
<1> QED
  BY <1>1, <1>2, <1>3, PTL DEF Spec

-----------------------------------------------------------------------------
(* The tries before this one moved at most their length, and this one is    *)
(* counted when its data has been moved.                                    *)
BeforeData == {"watch", "wait", "get", "select", "command", "data"}

CallType ==
  [status : Statuses, byte : Bytes, msg : Bytes, count : Nat,
   tries : 0 .. MaxRetries - 1, gets : 0 .. MaxGets - 1]

TryInv ==
  /\ op \in Operations /\ vm \in BOOLEAN /\ held \in BOOLEAN
  /\ pc \in BeforeData \cup {"complete", "pause", "exit", "done"}
  /\ stage \in {"command", "sense"}
  /\ call \in CallType
  /\ answer \in Bytes
  /\ moved \in Nat /\ wasted \in Nat
  /\ call.count = moved + wasted
  /\ pc = "data" => moved = 0
  /\ call.count <= call.tries * Length + (IF pc \in BeforeData THEN 0 ELSE Length)
  /\ bus \in {"other", "ours", "device"}
  /\ tick \in 0 .. Ticks - 1 /\ watchdog \in 0 .. Ticks - 1
  /\ sense \in {"unset", "cleared", "sense"}

LEMMA Multiples ==
  ASSUME NEW t \in Nat, NEW m \in Nat, t < m, NEW l \in Nat
  PROVE  /\ t * l \in Nat
         /\ (t + 1) * l = t * l + l
         /\ t * l + l <= m * l
<1>1. t * l \in Nat /\ (t + 1) * l = t * l + l
  OBVIOUS
<1>2. PICK d \in Nat : m = (t + 1) + d
  <2>1. m - (t + 1) \in Nat /\ m = (t + 1) + (m - (t + 1))
    OBVIOUS
  <2> QED BY <2>1
<1>3. d * l \in Nat /\ m * l = (t + 1) * l + d * l
  BY <1>2
<1> QED BY <1>1, <1>3

LEMMA LaterIsTick ==
  ASSUME tick \in 0 .. Ticks - 1, NEW n \in Nat
  PROVE  Later(n) \in 0 .. Ticks - 1
BY ScsiAssumption DEF Later

LEMMA TryInit == Init => TryInv
<1>1. MaxRetries \in Nat \ {0} /\ MaxGets \in Nat \ {0} /\ Ticks \in Nat \ {0}
  BY ScsiAssumption
<1> QED
  BY <1>1, LengthIsNat
  DEF Init, TryInv, CallType, NewCall, Statuses, Bytes, BeforeData

(* Steps that change neither the call nor the side of the data it is on.    *)
LEMMA TryArbitration ==
  ASSUME TryInv, StartWatch \/ BusBusy \/ BusFree \/ Get \/ Select
  PROVE  TryInv'
<1>1. Length' = Length /\ Length \in Nat
  BY LengthIsNat DEF Length, StartWatch, BusBusy, BusFree, Get, Select
<1>2. /\ call' = call /\ moved' = moved /\ wasted' = wasted
      /\ pc \in BeforeData /\ pc' \in BeforeData \ {"data"}
  BY DEF StartWatch, BusBusy, BusFree, Get, Select, Goto, BeforeData
<1>3. Later(WaitTicks) \in 0 .. Ticks - 1 /\ Later(1) \in 0 .. Ticks - 1
  BY ScsiAssumption, LaterIsTick DEF TryInv
<1> QED
  BY <1>1, <1>2, <1>3
  DEF TryInv, StartWatch, BusBusy, BusFree, Get, Select

LEMMA TryGivesUp ==
  ASSUME TryInv, BusTimeout \/ GetFails \/ SelectFails \/ GetAgain
  PROVE  TryInv'
<1>1. Length' = Length /\ Length \in Nat
  BY LengthIsNat DEF Length, BusTimeout, GetFails, SelectFails, GetAgain
<1>2. call.tries * Length \in Nat /\ call.tries \in Nat
  BY <1>1 DEF TryInv, CallType
<1>3. CASE GetAgain
  <2>1. call.gets + 1 \in 0 .. MaxGets - 1
    BY <1>3, ScsiAssumption DEF TryInv, CallType, GetAgain
  <2> QED
    BY <1>1, <1>3, <2>1 DEF TryInv, CallType, GetAgain, Goto, BeforeData
<1>4. CASE BusTimeout \/ GetFails \/ SelectFails
  <2>1. \E status \in Statuses : call' = [call EXCEPT !.status = status]
    BY <1>4 DEF BusTimeout, GetFails, SelectFails, Exit, Statuses
  <2>2. pc \in BeforeData /\ pc' = "exit"
    BY <1>4 DEF BusTimeout, GetFails, SelectFails, Exit, Goto, BeforeData
  <2> QED
    BY <1>1, <1>2, <1>4, <2>1, <2>2
    DEF TryInv, CallType, BusTimeout, GetFails, SelectFails, BeforeData
<1> QED BY <1>3, <1>4

LEMMA TryCommands ==
  ASSUME TryInv, Command
  PROVE  TryInv'
<1>1. Length' = Length /\ Length \in Nat
  BY LengthIsNat DEF Length, Command
<1>2. call \in CallType /\ pc = "command"
  BY DEF TryInv, Command
<1>3. PICK status \in Statuses :
        /\ call' = [call EXCEPT !.status = status]
        /\ pc' \in {"data", "complete"}
  BY DEF Command, Statuses
<1>4. call' \in CallType /\ call'.count = call.count /\ call'.tries = call.tries
  BY <1>2, <1>3 DEF CallType
<1>5. call.tries * Length \in Nat /\ call.count <= call.tries * Length
  BY <1>1, <1>2 DEF TryInv, BeforeData, CallType
<1>6. moved' = 0 /\ wasted' = wasted + moved /\ wasted + moved \in Nat
  BY DEF Command, TryInv
<1>7. call'.count = moved' + wasted'
  BY <1>4, <1>6 DEF TryInv
<1>8. call'.count <= call'.tries * Length' + (IF pc' \in BeforeData THEN 0 ELSE Length')
  <2>1. call.count \in Nat
    BY <1>2 DEF CallType
  <2> QED BY <1>1, <1>4, <1>5, <2>1
<1> QED
  BY <1>3, <1>4, <1>6, <1>7, <1>8 DEF TryInv, Command, BeforeData

LEMMA TryTransfers ==
  ASSUME TryInv, Transfer
  PROVE  TryInv'
<1>1. Length' = Length /\ Length \in Nat
  BY LengthIsNat DEF Length, Transfer
<1>2. PICK n \in 0 .. Length, status \in Statuses :
        /\ call' = [call EXCEPT !.count = @ + n, !.status = status]
        /\ moved' = n
  BY DEF Transfer, Statuses
<1>3. pc = "data" /\ pc' = "complete" /\ wasted' = wasted
  BY DEF Transfer, Goto
<1>4. /\ call \in CallType /\ call.count \in Nat /\ call.tries * Length \in Nat
      /\ n \in Nat /\ n <= Length
  BY <1>1 DEF TryInv, CallType
<1>5. call.count <= call.tries * Length /\ call.count = wasted
  BY <1>3, <1>4 DEF TryInv, BeforeData
<1>6. /\ call' \in CallType
      /\ call'.count = call.count + n /\ call'.tries = call.tries
  <2>1. call.count + n \in Nat
    BY <1>4
  <2> QED BY <1>2, <1>4, <2>1 DEF CallType
<1>7. call'.count = moved' + wasted'
  BY <1>2, <1>3, <1>4, <1>5, <1>6
<1>8. call'.count <= call'.tries * Length' + (IF pc' \in BeforeData THEN 0 ELSE Length')
  BY <1>1, <1>3, <1>4, <1>5, <1>6 DEF BeforeData
<1>9. moved' \in Nat /\ wasted' \in Nat
  BY <1>2, <1>3, <1>4, <1>5
<1> QED
  BY <1>3, <1>6, <1>7, <1>8, <1>9 DEF TryInv, Transfer, BeforeData

LEMMA TryCompletes ==
  ASSUME TryInv, Complete \/ CompleteFails
  PROVE  TryInv'
<1>1. Length' = Length /\ Length \in Nat
  BY LengthIsNat DEF Length, Complete, CompleteFails
<1>2. call \in CallType
  BY DEF TryInv
<1>3. call' \in CallType /\ call'.count = call.count /\ call'.tries = call.tries
  <2>1. CASE Complete
    <3>1. PICK byte \in Bytes \ {"none"}, msg \in {"good", "check"} :
            call' = [call EXCEPT !.byte = byte, !.msg = msg]
      BY <2>1 DEF Complete
    <3>2. msg \in Bytes
      BY DEF Bytes
    <3> QED BY <1>2, <3>1, <3>2 DEF CallType
  <2>2. CASE CompleteFails
    <3>1. PICK byte \in Bytes, msg \in Bytes, status \in Statuses :
            call' = [call EXCEPT !.byte = byte, !.msg = msg, !.status = status]
      <4>1. /\ call.status \in Statuses /\ call.byte \in Bytes /\ call.msg \in Bytes
            /\ "good" \in Bytes /\ "check" \in Bytes
            /\ "scsiCommandTimeout" \in Statuses /\ "scsiSequenceFailed" \in Statuses
        BY <1>2 DEF CallType, Bytes, Statuses
      <4>2. PICK failure \in {"scsiCommandTimeout", "scsiSequenceFailed"},
                 byte \in (Bytes \ {"none"}) \cup {call.byte},
                 msg \in {"good", "check", call.msg} :
              call' = [call EXCEPT !.byte = byte, !.msg = msg,
                         !.status = IF @ = "noErr" THEN failure ELSE @]
        BY <2>2 DEF CompleteFails
      <4>3. byte \in Bytes /\ msg \in Bytes
        BY <4>1
      <4>4. CASE call.status = "noErr"
        <5>1. call' = [call EXCEPT !.byte = byte, !.msg = msg, !.status = failure]
          BY <1>2, <4>2, <4>4 DEF CallType
        <5> QED BY <4>1, <4>3, <5>1
      <4>5. CASE call.status # "noErr"
        <5>1. call' = [call EXCEPT !.byte = byte, !.msg = msg, !.status = call.status]
          BY <1>2, <4>2, <4>5, SMTT(60) DEF CallType
        <5> QED BY <4>1, <4>3, <5>1
      <4> QED BY <4>4, <4>5
    <3> QED BY <1>2, <3>1 DEF CallType
  <2> QED BY <2>1, <2>2
<1>4. pc = "complete" /\ pc' \in {"pause", "exit"}
  BY ZenonT(60) DEF Complete, CompleteFails, Goto
<1>5. watchdog' \in 0 .. Ticks - 1
  BY ScsiAssumption, LaterIsTick DEF TryInv, Complete, CompleteFails
<1> QED
  BY <1>1, <1>3, <1>4, <1>5, ZenonT(60) DEF TryInv, Complete, CompleteFails, BeforeData

LEMMA TryPauses ==
  ASSUME TryInv, Pause \/ Retry \/ GiveUp
  PROVE  TryInv'
<1>1. Length' = Length /\ Length \in Nat
  BY LengthIsNat DEF Length, Pause, Retry, GiveUp
<1>2. pc = "pause"
  BY DEF Pause, Retry, GiveUp, Goto
<1>3. CASE Pause
  <2>1. Later(1) \in 0 .. Ticks - 1
    BY LaterIsTick DEF TryInv
  <2> QED BY <1>1, <1>3, <2>1 DEF TryInv, Pause
<1>4. CASE Retry
  <2>1. /\ call.tries \in Nat /\ MaxRetries \in Nat /\ call.tries + 1 < MaxRetries
        /\ MaxGets \in Nat \ {0}
    BY <1>4, ScsiAssumption DEF TryInv, CallType, Retry
  <2>2. (call.tries + 1) * Length = call.tries * Length + Length
    BY <1>1, <2>1, Multiples
  <2>3. call' = [call EXCEPT !.tries = call.tries + 1, !.gets = 0]
    BY <1>4 DEF Retry
  <2>4. call.count <= (call.tries + 1) * Length
    BY <1>2, <2>2 DEF TryInv, BeforeData
  <2>5. /\ call' \in CallType
        /\ call'.count = call.count /\ call'.tries = call.tries + 1
    <3>1. call.tries + 1 \in 0 .. MaxRetries - 1 /\ 0 \in 0 .. MaxGets - 1
      BY <2>1
    <3> QED BY <2>3, <3>1 DEF TryInv, CallType
  <2>6. pc' = "watch"
    BY <1>4 DEF Retry, Goto
  <2>7. call'.tries * Length' + 0 = (call.tries + 1) * Length
    BY <1>1, <2>1, <2>5
  <2> QED
    BY <1>1, <1>4, <2>4, <2>5, <2>6, <2>7 DEF TryInv, Retry, BeforeData
<1>5. CASE GiveUp
  BY <1>1, <1>2, <1>5 DEF TryInv, GiveUp, Goto, BeforeData
<1> QED BY <1>3, <1>4, <1>5

LEMMA TryReturns ==
  ASSUME TryInv, RequestSense \/ Return \/ ReturnSense
  PROVE  TryInv'
<1>1. Length \in Nat /\ Length' \in Nat
  BY ScsiAssumption, LengthIsNat DEF Length
<1>2. FinalByte \in Bytes /\ FinalStatus \in Statuses
  BY DEF FinalByte, FinalStatus, ByteStatus, TryInv, CallType, Bytes, Statuses
<1>3. CASE RequestSense
  <2>1. MaxRetries \in Nat \ {0} /\ MaxGets \in Nat \ {0}
    BY ScsiAssumption
  <2>2. /\ call' \in CallType /\ call'.count = 0 /\ call'.tries = 0
        /\ pc' = "watch" /\ moved' = 0 /\ wasted' = 0
    BY <1>3, <2>1 DEF RequestSense, NewCall, CallType, Statuses, Bytes, Goto
  <2>3. \A l \in Nat : 0 <= 0 * l + 0
    OBVIOUS
  <2>4. call'.count <= call'.tries * Length' + (IF pc' \in BeforeData THEN 0 ELSE Length')
    BY <1>1, <2>2, <2>3 DEF BeforeData
  <2> QED
    BY <1>2, <1>3, <2>2, <2>4 DEF TryInv, RequestSense, BeforeData
<1>4. CASE Return \/ ReturnSense
  <2>1. Length' = Length
    BY <1>4 DEF Length, Return, ReturnSense
  <2>2. \E status \in Statuses : call' = [call EXCEPT !.status = status]
    BY <1>2, <1>4 DEF Return, ReturnSense, Statuses
  <2>3. pc = "exit" /\ pc' = "done"
    BY <1>4 DEF Return, ReturnSense, Goto
  <2> QED
    BY <1>1, <1>2, <1>4, <2>1, <2>2, <2>3
    DEF TryInv, CallType, Return, ReturnSense, BeforeData
<1> QED BY <1>3, <1>4

(* A call stays within its tries: kMaxSCSIRetries times at most the length  *)
(* of the transfer are counted, and no counter of OriginalSCSI passes its   *)
(* bound, whatever the device does to it.                                   *)
THEOREM CallsStayInBounds == Spec => []TypeOK
<1>1. TryInv /\ [Next]_vars => TryInv'
  <2> SUFFICES ASSUME TryInv, [Next]_vars PROVE TryInv'
    OBVIOUS
  <2>1. CASE UNCHANGED vars
    BY <2>1 DEF vars, TryInv, Length
  <2> QED
    BY <2>1, TryArbitration, TryGivesUp, TryCommands, TryTransfers, TryCompletes,
       TryPauses, TryReturns DEF Next
<1>2. TryInv => TypeOK
  <2> SUFFICES ASSUME TryInv PROVE TypeOK
    OBVIOUS
  <2>1. /\ call.tries \in Nat /\ MaxRetries \in Nat /\ call.tries < MaxRetries
        /\ Length \in Nat /\ call.count \in Nat
    BY ScsiAssumption, LengthIsNat DEF TryInv, CallType
  <2>2. call.tries * Length \in Nat /\ call.tries * Length + Length <= MaxRetries * Length
    BY <2>1, Multiples
  <2>3. call.count <= call.tries * Length + Length
    BY <2>1, <2>2 DEF TryInv
  <2>4. MaxRetries * Length \in Nat /\ call.count <= MaxRetries * Length
    BY <2>1, <2>2, <2>3
  <2> QED BY <2>1, <2>4 DEF TryInv, CallType, TypeOK, BeforeData
<1> QED BY <1>1, <1>2, TryInit, PTL DEF Spec

=============================================================================
