------------------------------ MODULE MouseProofs ------------------------------
(***************************************************************************)
(* What is proved of the application of Lab 7, for any number of devices   *)
(* with any number of interfaces: that a read it waits for is under way,   *)
(* and that every report it processes is one the mouse has just sent.      *)
(* Each step of the main loop is one of the HID driver's, with the         *)
(* application as its caller, so that the lemmas of HidProofs apply.       *)
(***************************************************************************)
EXTENDS MouseProperties, HidProofs

\* The states are the pairs of numbers they are defined as.
USE DEF DETACHED, INITIALIZE_DEVICE, GET_REPORT_DSC, RUNNING, HID_RESET_RECOVERY, HOLDING,
        UNDEFINED, WAIT_FOR_ENUMERATION, DEVICE_ENUMERATED, SEND_GET_REPORT_DSC,
        WAIT_FOR_REPORT_DSC, GET_REPORT_DSC_COMPLETE, PARSE_REPORT_DSC, PARSING_COMPLETE,
        WAITING_FOR_REQ, READ_REQ_WAIT, READ_REQ_DONE, WRITE_REQ_WAIT, WRITE_REQ_DONE,
        WAIT_FOR_RESET

\* The turns of the main loop in which the driver and the stack are not called.
Decides == App_Detect_Device \/ NotConnected \/ Connect \/ Connected \/ Ready
           \/ ReadFailed \/ App_ProcessInputReport \/ Idle

LEMMA MouseSteps ==
  ASSUME [MouseNext]_mouseVars
  PROVE  /\ DriverStep
         /\ \/ CallUSBHostTasks \/ CallUSBHostHIDTasks
            \/ Decides \/ GetInputReport
            \/ (Bus \/ User \/ UNCHANGED vars) /\ UNCHANGED <<pc, App_State_Mouse>>
<1>1. Decides => UNCHANGED vars
  BY DEF Decides, App_Detect_Device, NotConnected, Connect, Connected, Ready, ReadFailed,
     App_ProcessInputReport, Idle
<1>2. GetInputReport => UNCHANGED vars \/ Transfer(TRUE, MouseInterface)
  BY DEF GetInputReport
<1>3. MouseInterface \in 1 .. MaxInterfaces
  BY MaxInterfacesAssumption DEF MouseInterface
<1>4. \/ hid.state[1] # UNDEFINED /\ main
      \/ (Bus \/ User \/ UNCHANGED vars) /\ UNCHANGED <<pc, App_State_Mouse>>
  BY DEF MouseNext, Outside, mouseVars
<1>5. CASE hid.state[1] # UNDEFINED /\ main
  <2>1. CASE CallUSBHostTasks \/ CallUSBHostHIDTasks
    BY <1>5, <2>1 DEF CallUSBHostTasks, CallUSBHostHIDTasks, DriverStep
  <2>2. CASE Decides
    BY <1>1, <2>2 DEF DriverStep
  <2>3. CASE GetInputReport
    BY <1>2, <1>3, <1>5, <2>3 DEF DriverStep, Call
  <2> QED BY <1>5, <2>1, <2>2, <2>3 DEF main, Decides
<1> QED BY <1>4, <1>5 DEF DriverStep

-------------------------------------------------------------------------------
(* A read that is waited for is under way *)

\* The states of a driver that is only asked to read.
ReadStates == {<<DETACHED, 0>>, WAIT_FOR_ENUMERATION, DEVICE_ENUMERATED, SEND_GET_REPORT_DSC,
               WAIT_FOR_REPORT_DSC, GET_REPORT_DSC_COMPLETE, PARSE_REPORT_DSC,
               PARSING_COMPLETE, WAITING_FOR_REQ, READ_REQ_WAIT, READ_REQ_DONE,
               WAIT_FOR_RESET, <<HOLDING, 0>>, <<HOLDING, 1>>, <<UNDEFINED, 0>>}

(* An endpoint is busy with a read only while the driver waits for it there. *)
NoReads == \A e \in Endpoints : ep[e].for \in {"read", "write"} => ep[e].status # "busy"
ReadsKnown ==
  \/ NoReads
  \/ /\ hid.state = READ_REQ_WAIT
     /\ \A e \in Endpoints :
          ep[e].status = "busy" /\ ep[e].for \in {"read", "write"} =>
            hid.endpoint = e /\ ep[e].for = "read"

(* The application has looked for the device before it looks at its own state. *)
LoopKnown ==
  /\ pc = [f \in {"at", "then"} |-> pc[f]]
  /\ pc.at \in {"host", "hid", "detect", "connect", "switch"}
  /\ pc.then \in {"detect", "connect", "loop"}
  /\ pc.at = "switch" /\ App_State_Mouse # "DEVICE_NOT_CONNECTED" => DeviceDetect

ReadsInv == /\ PipesTyped /\ HostKnown /\ LoopKnown /\ ReadsKnown
            /\ hid.state \in ReadStates

\* What the driver starts of its own is no read.
LEMMA NoReadStarts ==
  ASSUME PipesTyped, NoReads, NEW e0 \in Endpoints, NEW what \in {"descriptor", "reset"},
         ep' \in {ep, Cleared(e0), Started(EP0, what),
                  [Cleared(e0) EXCEPT ![EP0] = [status |-> "busy", for |-> what, bytes |-> 0]]}
  PROVE  NoReads'
<1>1. Cleared(e0) = [e \in Endpoints |-> Cleared(e0)[e]]
  BY DEF PipesTyped, Cleared
<1>2. ASSUME NEW e \in Endpoints
      PROVE  Cleared(e0)[e].for = ep[e].for
             /\ (Cleared(e0)[e].status = "busy" => ep[e].status = "busy")
  <2>1. ep[e] = [f \in PipeFields |-> ep[e][f]] /\ ep = [f \in Endpoints |-> ep[f]]
    BY DEF PipesTyped
  <2> QED BY <2>1 DEF Cleared, PipeFields
<1>3. SUFFICES ASSUME NEW e \in Endpoints, ep'[e].for \in {"read", "write"}
      PROVE ep'[e].status # "busy"
  BY DEF NoReads
<1>4. CASE ep' = ep
  BY <1>3, <1>4 DEF NoReads
<1>5. CASE ep' = Cleared(e0)
  BY <1>2, <1>3, <1>5 DEF NoReads
<1>6. CASE ep' = Started(EP0, what)
  BY <1>3, <1>6 DEF NoReads, Started, PipesTyped
<1>7. CASE ep' = [Cleared(e0) EXCEPT ![EP0] = [status |-> "busy", for |-> what, bytes |-> 0]]
  <2>1. ep'[e] = IF e = EP0 THEN [status |-> "busy", for |-> what, bytes |-> 0]
                 ELSE Cleared(e0)[e]
    BY <1>1, <1>7
  <2> QED BY <1>2, <1>3, <2>1 DEF NoReads
<1> QED BY <1>4, <1>5, <1>6, <1>7

LEMMA ResetIsNoRead ==
  ASSUME PipesTyped, NoReads, NEW e0 \in Endpoints, NEW h, StartReset(h, Cleared(e0)),
         h = [f \in DriverFields |-> h[f]]
  PROVE  NoReads' /\ hid'.state \in {WAIT_FOR_RESET, WAITING_FOR_REQ}
<1>1. ep' \in {Cleared(e0), [Cleared(e0) EXCEPT ![EP0] =
                               [status |-> "busy", for |-> "reset", bytes |-> 0]]}
  BY DEF StartReset
<1>2. hid'.state \in {WAIT_FOR_RESET, WAITING_FOR_REQ}
  BY DEF StartReset, DriverFields
<1> QED BY <1>1, <1>2, NoReadStarts

(* The driver's own turn. *)
LEMMA TasksRead ==
  ASSUME PipesTyped, HostKnown, ReadsKnown, hid.state \in ReadStates, USBHostHIDTasks
  PROVE  ReadsKnown' /\ hid'.state \in ReadStates
<1>0. hid = [f \in DriverFields |-> hid[f]] /\ hid.endpoint \in Endpoints
  BY DEF PipesTyped
<1>1. hid.state # READ_REQ_WAIT => NoReads
  BY DEF ReadsKnown
<1>2. ASSUME NEW e0 \in Endpoints, NEW what \in {"descriptor", "reset"},
             hid.state # READ_REQ_WAIT, ep' \in {ep, Cleared(e0), Started(EP0, what)}
      PROVE  ReadsKnown'
  BY <1>1, <1>2, NoReadStarts DEF ReadsKnown
<1>3. EP0 \in Endpoints
  BY DEF Endpoints
<1> USE DEF DriverFields, RunIn
<1>13. \A error : hid' = Lock(error) => hid'.state = <<HOLDING, 0>>
  BY <1>0 DEF Lock
<1>14. \A d : hid' = [hid EXCEPT !.state = NextSubState(@), !.descriptor = d]
              => hid'.state = NextSubState(hid.state)
  BY <1>0
<1>15. hid' = [hid EXCEPT !.state = NextSubState(@)] => hid'.state = NextSubState(hid.state)
  BY <1>0
<1>16. \A error : hid' = [Lock(error) EXCEPT !.state = NextSubState(@)]
                  => hid'.state = NextSubState(<<HOLDING, 0>>)
  BY <1>0 DEF Lock
<1>17. Undefined => hid'.state = <<UNDEFINED, 0>>
  BY <1>0 DEF Undefined
<1> USE DEF NextSubState
<1>4. CASE Waits
  BY <1>4 DEF Waits, ReadsKnown, NoReads, vars
<1>5. CASE ForgetState
  BY <1>0, <1>2, <1>3, <1>5 DEF ForgetState, HostKnown, ReadStates
<1>6. CASE WaitForEnumeration \/ DeviceEnumerated \/ GetReportDescriptorComplete
           \/ TransferDone
  <2>1. hid.state # READ_REQ_WAIT /\ ep' = ep
    BY <1>6 DEF WaitForEnumeration, DeviceEnumerated, GetReportDescriptorComplete,
       TransferDone
  <2>2. hid'.state \in ReadStates
    BY <1>0, <1>6 DEF WaitForEnumeration, DeviceEnumerated, GetReportDescriptorComplete,
       TransferDone, ReadStates
  <2> QED BY <1>2, <1>3, <2>1, <2>2
<1>7. CASE SendGetReportDescriptor
  <2>1. hid.state = SEND_GET_REPORT_DSC
    BY <1>7 DEF SendGetReportDescriptor
  <2>2. CASE /\ \/ hid' = Lock("INTERFACE_ERROR") \/ Undefined
                \/ hid' = Lock("MEMORY_ALLOCATION_ERROR")
             /\ ep' = ep
    <3>1. hid'.state \in {<<HOLDING, 0>>, <<UNDEFINED, 0>>}
      BY <1>13, <1>17, <2>2
    <3> QED BY <1>2, <1>3, <2>1, <2>2, <3>1 DEF ReadStates
  <2>3. CASE /\ \E d : hid' = [hid EXCEPT !.state = NextSubState(@), !.descriptor = d]
             /\ ep' = Started(EP0, "descriptor")
    <3>0. hid'.state = NextSubState(hid.state)
      BY <1>14, <2>3
    <3>1. hid'.state = WAIT_FOR_REPORT_DSC
      BY <2>1, <3>0
    <3> QED BY <1>2, <1>3, <2>1, <2>3, <3>1 DEF ReadStates
  <2> QED BY <1>7, <2>2, <2>3 DEF SendGetReportDescriptor
<1>8. CASE WaitForReportDescriptor
  <2>1. hid.state # READ_REQ_WAIT /\ ep' \in {ep, Cleared(EP0)}
    BY <1>8 DEF WaitForReportDescriptor
  <2>2. hid.state = WAIT_FOR_REPORT_DSC
    BY <1>8 DEF WaitForReportDescriptor
  <2>3. \/ hid' = [hid EXCEPT !.state = NextSubState(@)]
        \/ hid' = [Lock(ErrorOf(EP0)) EXCEPT !.state = NextSubState(@)]
    BY <1>8 DEF WaitForReportDescriptor
  <2>4. hid'.state \in {<<HOLDING, 1>>, GET_REPORT_DSC_COMPLETE}
    BY <1>15, <1>16, <2>2, <2>3
  <2>5. ReadsKnown'
    BY <1>2, <1>3, <2>1
  <2> QED BY <2>4, <2>5 DEF ReadStates
<1>9. CASE ParseReportDescriptor
  <2>1. hid.state # READ_REQ_WAIT /\ ep' = ep
    BY <1>9 DEF ParseReportDescriptor
  <2>2. hid.state = PARSE_REPORT_DSC
    BY <1>9 DEF ParseReportDescriptor
  <2>3. \/ hid' = [hid EXCEPT !.state = NextSubState(@)]
        \/ Undefined \/ hid' = Lock("REPORT_DESCRIPTOR_BAD")
    BY <1>9 DEF ParseReportDescriptor
  <2>4. hid'.state \in {<<HOLDING, 0>>, PARSING_COMPLETE, <<UNDEFINED, 0>>}
    BY <1>13, <1>15, <1>17, <2>2, <2>3
  <2>5. ReadsKnown'
    BY <1>2, <1>3, <2>1
  <2> QED BY <2>4, <2>5 DEF ReadStates
<1>10. CASE ParsingComplete
  <2>1. hid.state # READ_REQ_WAIT /\ ep' = ep
    BY <1>10 DEF ParsingComplete
  <2>2. \/ Undefined \/ \E error : hid' = Lock(error)
        \/ \E c : hid' = [hid EXCEPT !.collected = c, !.state = SEND_GET_REPORT_DSC]
        \/ \E c : hid' = [hid EXCEPT !.collected = c, !.state = WAITING_FOR_REQ]
    BY <1>10 DEF ParsingComplete
  <2>3. \A c, s : hid' = [hid EXCEPT !.collected = c, !.state = s] => hid'.state = s
    BY <1>0
  <2>4. hid'.state \in {<<HOLDING, 0>>, <<UNDEFINED, 0>>, SEND_GET_REPORT_DSC, WAITING_FOR_REQ}
    BY <1>13, <1>17, <2>2, <2>3
  <2>5. ReadsKnown'
    BY <1>2, <1>3, <2>1
  <2> QED BY <2>4, <2>5 DEF ReadStates
<1>11. CASE TransferWait
  <2>1. NoReads /\ hid.state = READ_REQ_WAIT
    BY <1>11 DEF TransferWait, Complete, ReadsKnown, NoReads, ReadStates
  <2>2. CASE StartReset(hid, Cleared(hid.endpoint))
    BY <1>0, <2>1, <2>2, ResetIsNoRead DEF ReadsKnown, ReadStates
  <2>3. CASE /\ ep' = Cleared(hid.endpoint)
             /\ \E b : hid' = [hid EXCEPT !.state = NextSubState(@), !.bytes = b]
    <3>1. NoReads'
      BY <1>0, <2>1, <2>3, NoReadStarts
    <3> QED BY <1>0, <2>1, <2>3, <3>1 DEF ReadsKnown, ReadStates
  <2>4. CASE /\ \E error : hid' = [hid EXCEPT !.error = error, !.state = WAITING_FOR_REQ]
             /\ UNCHANGED ep
    BY <1>0, <2>1, <2>4 DEF ReadsKnown, ReadStates, NoReads
  <2> QED BY <1>11, <2>2, <2>3, <2>4 DEF TransferWait
<1>12. CASE WaitForReset
  <2> DEFINE done == [hid EXCEPT !.error = ErrorOf(EP0)]
  <2>1. done = [f \in DriverFields |-> done[f]] /\ NoReads
    BY <1>0, <1>1, <1>12 DEF WaitForReset
  <2>2. \/ StartReset(done, Cleared(EP0))
        \/ /\ hid' = [done EXCEPT !.bfReset = FALSE, !.state = WAITING_FOR_REQ]
           /\ UNCHANGED ep
    BY <1>12 DEF WaitForReset
  <2> HIDE DEF done
  <2>3. NoReads' /\ hid'.state \in {WAIT_FOR_RESET, WAITING_FOR_REQ}
    <3>1. CASE StartReset(done, Cleared(EP0))
      BY <1>3, <2>1, <3>1, ResetIsNoRead
    <3>2. CASE /\ hid' = [done EXCEPT !.bfReset = FALSE, !.state = WAITING_FOR_REQ]
               /\ UNCHANGED ep
      BY <2>1, <3>2 DEF NoReads
    <3> QED BY <2>2, <3>1, <3>2
  <2> QED BY <2>3 DEF ReadsKnown, ReadStates
<1> QED BY <1>4, <1>5, <1>6, <1>7, <1>8, <1>9, <1>10, <1>11, <1>12 DEF USBHostHIDTasks

(* The read of the application. *)
LEMMA GetRead ==
  ASSUME PipesTyped, ReadsKnown, hid.state \in ReadStates, DeviceDetect,
         Transfer(TRUE, MouseInterface)
  PROVE  ReadsKnown' /\ hid'.state \in ReadStates
<1> DEFINE e == In(MouseInterface)
<1>1. hid = [f \in DriverFields |-> hid[f]] /\ e \in Endpoints /\ e # EP0
  BY EndpointsAre, MaxInterfacesAssumption DEF PipesTyped, MouseInterface
<1>2. hid.state \in {WAITING_FOR_REQ, READ_REQ_WAIT, READ_REQ_DONE}
  BY DEF DeviceDetect, ReadStates
<1>3. CASE UNCHANGED <<hid, ep>>
  BY <1>3 DEF ReadsKnown, NoReads
<1>4. CASE hid.state = WAITING_FOR_REQ /\ ~UNCHANGED <<hid, ep>>
  <2>1. NoReads
    BY <1>4 DEF ReadsKnown
  <2>2. \/ Undefined /\ UNCHANGED ep
        \/ /\ hid' = [TransferInit(hid, e) EXCEPT !.state = READ_REQ_WAIT]
           /\ ep' = Started(e, "read")
        \/ /\ hid' = [TransferInit(hid, e) EXCEPT !.error = "refused",
                                                  !.state = WAITING_FOR_REQ]
           /\ UNCHANGED ep
    BY <1>1, <1>4 DEF Transfer
  <2> HIDE DEF e
  <2>3. CASE Undefined /\ UNCHANGED ep
    BY <1>1, <2>1, <2>3 DEF ReadsKnown, NoReads, ReadStates, Undefined, DriverFields
  <2>4. CASE /\ hid' = [TransferInit(hid, e) EXCEPT !.state = READ_REQ_WAIT]
             /\ ep' = Started(e, "read")
    <3>1. hid'.state = READ_REQ_WAIT /\ hid'.endpoint = e
      BY <1>1, <2>4 DEF TransferInit, DriverFields
    <3>2. /\ \A f \in Endpoints : f # e => ep'[f] = ep[f]
          /\ ep'[e].for = "read"
      BY <1>1, <2>4 DEF Started, PipesTyped
    <3> QED BY <2>1, <3>1, <3>2 DEF ReadsKnown, NoReads, ReadStates
  <2>5. CASE /\ hid' = [TransferInit(hid, e) EXCEPT !.error = "refused",
                                                    !.state = WAITING_FOR_REQ]
             /\ UNCHANGED ep
    BY <1>1, <2>1, <2>5 DEF ReadsKnown, NoReads, ReadStates, TransferInit, DriverFields
  <2> QED BY <2>2, <2>3, <2>4, <2>5
<1> QED BY <1>2, <1>3, <1>4 DEF Transfer

(* The host stack's turn, the bus and the user. *)
LEMMA OthersRead ==
  ASSUME PipesTyped, HostKnown, ReadsKnown, hid.state \in ReadStates,
         USBHostTasks \/ Bus \/ User \/ UNCHANGED vars
  PROVE  ReadsKnown' /\ hid'.state \in ReadStates
<1>0. hid = [f \in DriverFields |-> hid[f]]
  BY DEF PipesTyped
<1>1. CASE UNCHANGED <<hid, ep>>
  BY <1>1 DEF ReadsKnown, NoReads
<1>2. CASE HostDetach
  <2>1. NoReads'
    BY <1>2 DEF HostDetach, NoReads, NoTransfer
  <2>2. hid'.state \in {hid.state, <<DETACHED, 0>>}
    BY <1>0, <1>2 DEF HostDetach, DetachEvent, DriverFields
  <2> QED BY <2>1, <2>2 DEF ReadsKnown, ReadStates
<1>3. CASE HostInitializeClient
  <2>1. hid.state = <<DETACHED, 0>> /\ UNCHANGED ep
    BY <1>3 DEF HostInitializeClient, HostKnown
  <2>2. hid'.state \in {hid.state, WAIT_FOR_ENUMERATION}
    BY <1>3, InitializeMoves
  <2> QED BY <2>1, <2>2 DEF ReadsKnown, NoReads, ReadStates
<1>4. CASE Bus
  <2>1. ASSUME NEW e \in Endpoints, NEW r, ep' = [ep EXCEPT ![e] = r], UNCHANGED hid,
               r.status # "busy"
        PROVE  ReadsKnown'
    <3>1. \A f \in Endpoints : ep'[f] = IF f = e THEN r ELSE ep[f]
      BY <2>1 DEF PipesTyped
    <3> QED BY <2>1, <3>1 DEF ReadsKnown, NoReads
  <2>2. ASSUME NEW e \in Endpoints, TransferSucceeds(e)
        PROVE  ReadsKnown' /\ UNCHANGED hid
    <3>1. PICK bytes : ep' = [ep EXCEPT ![e].status = "ok", ![e].bytes = bytes]
      BY <2>2 DEF TransferSucceeds
    <3> DEFINE r == [ep[e] EXCEPT !.status = "ok", !.bytes = bytes]
    <3>2. ep' = [ep EXCEPT ![e] = r] /\ r.status = "ok"
      BY <3>1 DEF PipesTyped, PipeFields
    <3>3. UNCHANGED hid
      BY <2>2 DEF TransferSucceeds
    <3> HIDE DEF r
    <3> QED BY <2>1, <3>2, <3>3
  <2>3. ASSUME NEW e \in Endpoints, NEW how \in {"stalled", "error"}, TransferFails(e, how)
        PROVE  ReadsKnown' /\ UNCHANGED hid
    <3> DEFINE r == [ep[e] EXCEPT !.status = how]
    <3>1. ep' = [ep EXCEPT ![e] = r] /\ r.status = how /\ UNCHANGED hid
      BY <2>3 DEF TransferFails, PipesTyped, PipeFields
    <3> HIDE DEF r
    <3> QED BY <2>1, <3>1
  <2> QED BY <1>4, <2>2, <2>3 DEF Bus
<1> QED BY <1>1, <1>2, <1>3, <1>4
        DEF USBHostTasks, HostEnumerate, HostWaits, User, PlugIn, Unplug, vars

(* Between the look for the device and the look at the application's state only the bus and
   the user move. *)
LEMMA LoopStep ==
  ASSUME PipesTyped, HostKnown, LoopKnown, [MouseNext]_mouseVars
  PROVE  LoopKnown'
<1>0. /\ pc = [f \in {"at", "then"} |-> pc[f]]
      /\ pc.at \in {"host", "hid", "detect", "connect", "switch"}
      /\ pc.then \in {"detect", "connect", "loop"}
      /\ pc.at = "switch" /\ App_State_Mouse # "DEVICE_NOT_CONNECTED" => DeviceDetect
  BY DEF LoopKnown
<1>1. CASE CallUSBHostTasks
  BY <1>0, <1>1 DEF CallUSBHostTasks, LoopKnown
<1>2. CASE CallUSBHostHIDTasks
  BY <1>0, <1>2 DEF CallUSBHostHIDTasks, USBTasksThen, LoopKnown
<1>3. CASE App_Detect_Device
  <2>1. /\ pc' = [pc EXCEPT !.at = "switch"] /\ (DeviceDetect' <=> DeviceDetect)
        /\ App_State_Mouse' # "DEVICE_NOT_CONNECTED" => DeviceDetect
    BY <1>3 DEF App_Detect_Device, DeviceDetect, Attached, vars
  <2> QED BY <1>0, <2>1 DEF LoopKnown
<1>4. ASSUME NEW next \in {"detect", "connect", "loop"}, USBTasksThen(next)
      PROVE  LoopKnown'
  BY <1>4 DEF USBTasksThen, LoopKnown
<1>5. CASE Decides \/ GetInputReport
  BY <1>3, <1>4, <1>5 DEF Decides, GetInputReport, NotConnected, Connect, Connected, Ready,
     ReadFailed, App_ProcessInputReport, Idle
<1>6. CASE (Bus \/ User \/ UNCHANGED vars) /\ UNCHANGED <<pc, App_State_Mouse>>
  <2>1. UNCHANGED hid /\ usb'.status = usb.status
    BY <1>6 DEF Bus, TransferSucceeds, TransferFails, User, PlugIn, Unplug, vars, HostKnown
  <2>2. DeviceDetect' <=> DeviceDetect
    BY <2>1 DEF DeviceDetect, Attached
  <2> QED BY <1>0, <1>6, <2>2 DEF LoopKnown
<1> QED BY <1>1, <1>2, <1>5, <1>6, MouseSteps

LEMMA ReadsInvStep ==
  ASSUME ReadsInv, [MouseNext]_mouseVars
  PROVE  ReadsInv'
<1>1. /\ PipesTyped /\ HostKnown /\ LoopKnown /\ ReadsKnown /\ hid.state \in ReadStates
      /\ DriverStep
  BY MouseSteps DEF ReadsInv
<1>2. PipesTyped' /\ HostKnown' /\ LoopKnown'
  BY <1>1, PipesTypedStep, HostStep, LoopStep
<1>3. ReadsKnown' /\ hid'.state \in ReadStates
  <2>1. CASE CallUSBHostTasks
    BY <1>1, <2>1, OthersRead DEF CallUSBHostTasks
  <2>2. CASE CallUSBHostHIDTasks
    BY <1>1, <2>2, TasksRead DEF CallUSBHostHIDTasks
  <2>3. CASE GetInputReport
    <3>1. CASE Transfer(TRUE, MouseInterface)
      BY <1>1, <2>3, <3>1, GetRead DEF GetInputReport, LoopKnown, Case
    <3>2. CASE UNCHANGED vars
      BY <1>1, <3>2, OthersRead
    <3> QED BY <2>3, <3>1, <3>2 DEF GetInputReport
  <2>4. CASE Decides
    <3>1. UNCHANGED vars
      BY <2>4 DEF Decides, App_Detect_Device, NotConnected, Connect, Connected, Ready,
         ReadFailed, App_ProcessInputReport, Idle
    <3> QED BY <1>1, <3>1, OthersRead
  <2>5. CASE Bus \/ User \/ UNCHANGED vars
    BY <1>1, <2>5, OthersRead
  <2> QED BY <2>1, <2>2, <2>3, <2>4, <2>5, MouseSteps
<1> QED BY <1>2, <1>3 DEF ReadsInv

LEMMA ReadsInvInit == MouseInit => ReadsInv
<1> SUFFICES ASSUME MouseInit PROVE ReadsInv
  OBVIOUS
<1>1. PipesTyped /\ HostKnown
  BY PipesTypedInit DEF MouseInit, Init, HostKnown, Attached
<1>2. LoopKnown
  BY DEF MouseInit, LoopKnown
<1>3. ReadsKnown /\ hid.state \in ReadStates
  BY DEF MouseInit, Init, ReadsKnown, NoReads, NoTransfer, ReadStates
<1> QED BY <1>1, <1>2, <1>3 DEF ReadsInv

(* Whatever is plugged in, unplugged or fails, the application waits for a report only while
   the driver reads it or is done, and no read goes on once the driver says it is over. *)
THEOREM ReadsAreUnderway == MouseSpec => []ReadsAreUnderwayOrOver
<1>1. ReadsInv => ReadsAreUnderwayOrOver
  <2> SUFFICES ASSUME ReadsInv PROVE PendingIsUnderway /\ CompletedTransfersAreOver
    BY DEF ReadsAreUnderwayOrOver
  <2>1. LoopKnown /\ ReadsKnown /\ hid.state \in ReadStates
    BY DEF ReadsInv
  <2>2. PendingIsUnderway
    BY <2>1 DEF PendingIsUnderway, LoopKnown, DeviceDetect, ReadStates
  <2>3. CompletedTransfersAreOver
    BY <2>1 DEF CompletedTransfersAreOver, TransferIsComplete, ReadsKnown, NoReads
  <2> QED BY <2>2, <2>3
<1> QED BY <1>1, ReadsInvInit, ReadsInvStep, PTL DEF MouseSpec
-------------------------------------------------------------------------------
(* Every report that is processed is fresh *)

(* A driver that runs has had a report collected, of a device there was. *)
ReportKnown ==
  /\ hid.state[1] \in {RUNNING, HID_RESET_RECOVERY} => hid.collected
  /\ hid.collected => report.device \in Devices /\ report.interface \in DOMAIN report.device

(* A device that is gone is noticed before the driver can have another. *)
DetachIsSeen ==
  /\ pc.at = "connect" => pc.then = "connect"
  /\ pc.then = "connect" => App_State_Mouse = "DEVICE_NOT_CONNECTED"
  /\ App_State_Mouse = "INPUT_REPORT_PENDING" /\ ~Attached =>
       /\ pc.at \in {"host", "hid", "detect"}
       /\ usb.status \in {"DETACHED", "ENUMERATING"}
       /\ pc.at = "host" => pc.then = "detect" /\ usb.status = "DETACHED"
       /\ pc.at = "hid" /\ pc.then = "loop" => usb.status = "DETACHED"

(* The driver reads for an application that waits. *)
ReadIsAwaited ==
  /\ Attached /\ usb.status # "ATTACHED" => hid.state = <<DETACHED, 0>>
  /\ hid.state \in {READ_REQ_WAIT, READ_REQ_DONE} => App_State_Mouse = "INPUT_REPORT_PENDING"
  /\ hid.state = READ_REQ_WAIT => hid.endpoint = In(MouseInterface)

(* What the driver or the endpoint counts of the read that is waited for is in the buffer,
   and of the device that is there. *)
ReportOfDevice == [device |-> usb.device, interface |-> MouseInterface]
CountIsFresh ==
  App_State_Mouse = "INPUT_REPORT_PENDING" /\ Attached =>
    /\ hid.bytes # 0 => buffer = ReportOfDevice
    /\ hid.state = READ_REQ_WAIT /\ ep[In(MouseInterface)].bytes # 0
         => buffer = ReportOfDevice

FreshInv == /\ ReadsInv /\ DriverInv
            /\ ReportKnown /\ DetachIsSeen /\ ReadIsAwaited /\ CountIsFresh

(* What the driver's turn does to a read: nothing, its end, or what follows its end. *)
LEMMA TaskMoves ==
  ASSUME PipesTyped, hid.state \in ReadStates, USBHostHIDTasks
  PROVE  /\ \/ UNCHANGED <<hid, ep>>
            \/ /\ hid.state = READ_REQ_WAIT
               /\ hid'.state \in {READ_REQ_DONE, WAITING_FOR_REQ, WAIT_FOR_RESET}
               /\ hid'.bytes \in {hid.bytes, ep[hid.endpoint].bytes}
            \/ /\ hid.state \in {READ_REQ_DONE, WAIT_FOR_RESET}
               /\ hid'.state \in {WAITING_FOR_REQ, WAIT_FOR_RESET}
               /\ hid'.bytes = hid.bytes
            \/ /\ ParsingComplete /\ hid'.bytes = hid.bytes
               /\ hid'.state \notin {READ_REQ_WAIT, READ_REQ_DONE}
            \/ hid'.state[1] \notin {RUNNING, HID_RESET_RECOVERY} /\ hid'.bytes = hid.bytes
         /\ Attached /\ hid.state = <<DETACHED, 0>> => UNCHANGED hid
         /\ ParsingComplete \/ (UNCHANGED report /\ hid'.collected = hid.collected)
<1>0. hid = [f \in DriverFields |-> hid[f]]
  BY DEF PipesTyped
<1> USE DEF DriverFields, RunIn
<1>1. ASSUME NEW h, NEW e, StartReset(h, e), h = [f \in DriverFields |-> h[f]],
             h.collected = hid.collected, h.bytes = hid.bytes
      PROVE  /\ hid'.state \in {WAITING_FOR_REQ, WAIT_FOR_RESET}
             /\ hid'.collected = hid.collected /\ hid'.bytes = hid.bytes
  BY <1>1 DEF StartReset
<1>2. ASSUME NEW s, hid' = [hid EXCEPT !.state = s]
      PROVE  hid'.state = s /\ hid'.collected = hid.collected /\ hid'.bytes = hid.bytes
  BY <1>0, <1>2
<1>3. CASE Waits
  BY <1>3 DEF Waits, vars
<1>4. CASE ForgetState
  BY <1>2, <1>4 DEF ForgetState
<1>5. CASE WaitForEnumeration \/ DeviceEnumerated \/ GetReportDescriptorComplete
  <2>1. hid.state \in {WAIT_FOR_ENUMERATION, DEVICE_ENUMERATED, GET_REPORT_DSC_COMPLETE}
    BY <1>5 DEF WaitForEnumeration, DeviceEnumerated, GetReportDescriptorComplete
  <2>2. /\ \/ hid' = [hid EXCEPT !.state = NextSubState(hid.state)]
           \/ hid' = [hid EXCEPT !.state = SEND_GET_REPORT_DSC]
        /\ UNCHANGED report
    BY <1>5 DEF WaitForEnumeration, DeviceEnumerated, GetReportDescriptorComplete
  <2> QED BY <1>2, <2>1, <2>2 DEF NextSubState
<1>6. CASE SendGetReportDescriptor
  <2>1. hid.state = SEND_GET_REPORT_DSC /\ UNCHANGED report
    BY <1>6 DEF SendGetReportDescriptor
  <2>2. CASE \/ hid' = Lock("INTERFACE_ERROR") \/ Undefined
             \/ hid' = Lock("MEMORY_ALLOCATION_ERROR")
    <3>1. /\ hid'.state \in {<<HOLDING, 0>>, <<UNDEFINED, 0>>}
          /\ hid'.collected = hid.collected /\ hid'.bytes = hid.bytes
      BY <1>0, <2>2 DEF Lock, Undefined
    <3> QED BY <2>1, <3>1
  <2>3. CASE \E d : hid' = [hid EXCEPT !.state = NextSubState(@), !.descriptor = d]
    <3>1. /\ hid'.state = NextSubState(hid.state)
          /\ hid'.collected = hid.collected /\ hid'.bytes = hid.bytes
      BY <1>0, <2>3
    <3>2. hid'.state = WAIT_FOR_REPORT_DSC
      BY <2>1, <3>1 DEF NextSubState
    <3> QED BY <2>1, <3>1, <3>2
  <2> QED BY <1>6, <2>2, <2>3 DEF SendGetReportDescriptor
<1>7. CASE WaitForReportDescriptor
  <2>1. hid.state = WAIT_FOR_REPORT_DSC /\ UNCHANGED report
    BY <1>7 DEF WaitForReportDescriptor
  <2>2. CASE hid' = [hid EXCEPT !.state = NextSubState(@)]
    <3>1. /\ hid'.state = NextSubState(hid.state)
          /\ hid'.collected = hid.collected /\ hid'.bytes = hid.bytes
      BY <1>0, <2>2
    <3> QED BY <2>1, <3>1 DEF NextSubState
  <2>3. CASE hid' = [Lock(ErrorOf(EP0)) EXCEPT !.state = NextSubState(@)]
    <3>1. /\ hid'.state = NextSubState(<<HOLDING, 0>>)
          /\ hid'.collected = hid.collected /\ hid'.bytes = hid.bytes
      BY <1>0, <2>3 DEF Lock
    <3> QED BY <2>1, <3>1 DEF NextSubState
  <2> QED BY <1>7, <2>2, <2>3 DEF WaitForReportDescriptor
<1>8. CASE ParseReportDescriptor
  <2>1. hid.state = PARSE_REPORT_DSC /\ UNCHANGED report
    BY <1>8 DEF ParseReportDescriptor
  <2>2. CASE hid' = [hid EXCEPT !.state = NextSubState(@)]
    <3>1. /\ hid'.state = NextSubState(hid.state)
          /\ hid'.collected = hid.collected /\ hid'.bytes = hid.bytes
      BY <1>0, <2>2
    <3> QED BY <2>1, <3>1 DEF NextSubState
  <2>3. CASE Undefined \/ hid' = Lock("REPORT_DESCRIPTOR_BAD")
    <3>1. /\ hid'.state \in {<<HOLDING, 0>>, <<UNDEFINED, 0>>}
          /\ hid'.collected = hid.collected /\ hid'.bytes = hid.bytes
      BY <1>0, <2>3 DEF Lock, Undefined
    <3> QED BY <2>1, <3>1
  <2> QED BY <1>8, <2>2, <2>3 DEF ParseReportDescriptor
<1>9. CASE ParsingComplete
  <2>1. \/ Undefined \/ \E error : hid' = Lock(error)
        \/ \E c : hid' = [hid EXCEPT !.collected = c, !.state = SEND_GET_REPORT_DSC]
        \/ \E c : hid' = [hid EXCEPT !.collected = c, !.state = WAITING_FOR_REQ]
    BY <1>9 DEF ParsingComplete
  <2>2. /\ hid'.state \in {<<HOLDING, 0>>, <<UNDEFINED, 0>>, SEND_GET_REPORT_DSC,
                           WAITING_FOR_REQ}
        /\ hid'.bytes = hid.bytes
    BY <1>0, <2>1 DEF Lock, Undefined
  <2>3. hid.state = PARSING_COMPLETE
    BY <1>9 DEF ParsingComplete
  <2> QED BY <1>9, <2>2, <2>3
<1>10. CASE TransferWait
  <2>1. hid.state = READ_REQ_WAIT /\ UNCHANGED report
    BY <1>10 DEF TransferWait, ReadStates
  <2>2. CASE StartReset(hid, Cleared(hid.endpoint))
    BY <1>0, <1>1, <2>1, <2>2
  <2>3. CASE hid' = [hid EXCEPT !.state = NextSubState(@),
               !.bytes = IF hid.state = READ_REQ_WAIT THEN ep[hid.endpoint].bytes ELSE @]
    <3>1. /\ hid'.state = NextSubState(hid.state) /\ hid'.collected = hid.collected
          /\ hid'.bytes = ep[hid.endpoint].bytes
      BY <1>0, <2>1, <2>3
    <3> QED BY <2>1, <3>1 DEF NextSubState
  <2>4. CASE \E error : hid' = [hid EXCEPT !.error = error, !.state = WAITING_FOR_REQ]
    <3>1. /\ hid'.state = WAITING_FOR_REQ /\ hid'.collected = hid.collected
          /\ hid'.bytes = hid.bytes
      BY <1>0, <2>4
    <3> QED BY <2>1, <3>1
  <2> QED BY <1>10, <2>2, <2>3, <2>4 DEF TransferWait
<1>11. CASE TransferDone
  BY <1>2, <1>11 DEF TransferDone, ReadStates
<1>12. CASE WaitForReset
  <2> DEFINE done == [hid EXCEPT !.error = ErrorOf(EP0)]
  <2>1. done = [f \in DriverFields |-> done[f]] /\ done.collected = hid.collected
        /\ done.bytes = hid.bytes
    BY <1>0
  <2>2. hid.state = WAIT_FOR_RESET /\ UNCHANGED report
    BY <1>12 DEF WaitForReset
  <2>3. \/ StartReset(done, Cleared(EP0))
        \/ hid' = [done EXCEPT !.bfReset = FALSE, !.state = WAITING_FOR_REQ]
    BY <1>12 DEF WaitForReset
  <2> HIDE DEF done
  <2>4. /\ hid'.state \in {WAITING_FOR_REQ, WAIT_FOR_RESET}
        /\ hid'.collected = hid.collected /\ hid'.bytes = hid.bytes
    <3>1. hid' = [done EXCEPT !.bfReset = FALSE, !.state = WAITING_FOR_REQ] =>
            /\ hid'.state = WAITING_FOR_REQ
            /\ hid'.collected = hid.collected /\ hid'.bytes = hid.bytes
      BY <2>1
    <3> QED BY <1>1, <2>1, <2>3, <3>1
  <2> QED BY <2>2, <2>4
<1> QED BY <1>3, <1>4, <1>5, <1>6, <1>7, <1>8, <1>9, <1>10, <1>11, <1>12
        DEF USBHostHIDTasks


\* What the call for a read does.
LEMMA GetMoves ==
  ASSUME PipesTyped, hid.state \in ReadStates, DeviceDetect, Transfer(TRUE, MouseInterface)
  PROVE  /\ UNCHANGED <<port, usb, report>> /\ hid'.address = hid.address
         /\ hid'.collected = hid.collected
         /\ \/ /\ UNCHANGED <<hid, ep, buffer>>
               /\ hid.state \in {READ_REQ_WAIT, READ_REQ_DONE}
            \/ /\ hid.state = WAITING_FOR_REQ /\ hid'.state = READ_REQ_WAIT
               /\ hid'.endpoint = In(MouseInterface) /\ hid'.bytes = 0
               /\ ep'[In(MouseInterface)].bytes = 0
            \/ /\ hid.state = WAITING_FOR_REQ
               /\ hid'.state \in {WAITING_FOR_REQ, <<UNDEFINED, 0>>}
<1> DEFINE e == In(MouseInterface)
<1>1. hid = [f \in DriverFields |-> hid[f]] /\ e \in Endpoints /\ e # EP0
  BY EndpointsAre, MaxInterfacesAssumption DEF PipesTyped, MouseInterface
<1>2. hid.state \in {WAITING_FOR_REQ, READ_REQ_WAIT, READ_REQ_DONE}
  BY DEF DeviceDetect, ReadStates
<1>3. \/ /\ UNCHANGED <<hid, ep, buffer>> /\ hid.state # WAITING_FOR_REQ
      \/ /\ Undefined /\ hid.state = WAITING_FOR_REQ
      \/ /\ hid' = [TransferInit(hid, e) EXCEPT !.state = READ_REQ_WAIT]
         /\ ep' = Started(e, "read") /\ hid.state = WAITING_FOR_REQ
      \/ /\ hid' = [TransferInit(hid, e) EXCEPT !.error = "refused",
                                                !.state = WAITING_FOR_REQ]
         /\ hid.state = WAITING_FOR_REQ
  BY <1>1, <1>2 DEF Transfer
<1>4. UNCHANGED <<port, usb, report>>
  BY DEF Transfer
<1> HIDE DEF e
<1>5. CASE UNCHANGED <<hid, ep, buffer>> /\ hid.state # WAITING_FOR_REQ
  BY <1>2, <1>4, <1>5
<1>6. CASE Undefined /\ hid.state = WAITING_FOR_REQ
  BY <1>1, <1>4, <1>6 DEF Undefined, DriverFields
<1>7. CASE /\ hid' = [TransferInit(hid, e) EXCEPT !.state = READ_REQ_WAIT]
           /\ ep' = Started(e, "read") /\ hid.state = WAITING_FOR_REQ
  <2>1. /\ hid'.state = READ_REQ_WAIT /\ hid'.endpoint = e /\ hid'.bytes = 0
        /\ hid'.collected = hid.collected /\ hid'.address = hid.address
    BY <1>1, <1>7 DEF TransferInit, DriverFields
  <2>2. ep'[e].bytes = 0
    BY <1>1, <1>7 DEF Started, PipesTyped
  <2> QED BY <1>4, <1>7, <2>1, <2>2 DEF e
<1>8. CASE /\ hid' = [TransferInit(hid, e) EXCEPT !.error = "refused",
                                                  !.state = WAITING_FOR_REQ]
           /\ hid.state = WAITING_FOR_REQ
  <2>1. /\ hid'.state = WAITING_FOR_REQ
        /\ hid'.collected = hid.collected /\ hid'.address = hid.address
    BY <1>1, <1>8 DEF TransferInit, DriverFields
  <2> QED BY <1>4, <1>8, <2>1
<1> QED BY <1>3, <1>5, <1>6, <1>7, <1>8

\* What the host stack does, as the application sees it.
LEMMA HostMoves ==
  ASSUME PipesTyped, HostKnown, USBHostTasks
  PROVE  /\ UNCHANGED <<port, report, buffer>>
         /\ hid'.bytes = hid.bytes /\ hid'.collected = hid.collected
         /\ hid'.endpoint = hid.endpoint
         /\ \/ UNCHANGED <<usb, hid, ep>>
            \/ /\ usb'.status = "DETACHED" /\ hid'.address = 0
               /\ hid'.state = <<DETACHED, 0>>
            \/ /\ usb.status = "DETACHED" /\ usb'.status = "ENUMERATING" /\ UNCHANGED hid
               /\ hid.address = 0 /\ hid.state = <<DETACHED, 0>>
            \/ /\ usb.status = "ENUMERATING" /\ hid.address = 0
               /\ hid.state = <<DETACHED, 0>>
               /\ hid'.state \in {<<DETACHED, 0>>, WAIT_FOR_ENUMERATION}
               /\ usb'.status # "ATTACHED" => hid'.state = <<DETACHED, 0>>
<1>0. hid = [f \in DriverFields |-> hid[f]]
  BY DEF PipesTyped
<1>1. CASE HostDetach
  <2>1. \/ UNCHANGED hid /\ ~Attached
        \/ hid' = [hid EXCEPT !.address = 0, !.state = <<DETACHED, 0>>]
    BY <1>1 DEF HostDetach, DetachEvent
  <2>2. /\ hid'.bytes = hid.bytes /\ hid'.collected = hid.collected
        /\ hid'.endpoint = hid.endpoint
        /\ hid'.address = 0 /\ hid'.state = <<DETACHED, 0>>
    BY <1>0, <2>1 DEF DriverFields, HostKnown, Attached
  <2>3. usb'.status = "DETACHED" /\ UNCHANGED <<port, report, buffer>>
    BY <1>1 DEF HostDetach
  <2> QED BY <2>2, <2>3
<1>2. CASE HostEnumerate
  <2>1. hid.address = 0 /\ hid.state = <<DETACHED, 0>> /\ UNCHANGED <<port, report, buffer, hid>>
    BY <1>2 DEF HostEnumerate, HostKnown, Attached
  <2>2. usb.status = "DETACHED" /\ usb'.status = "ENUMERATING"
    BY <1>2 DEF HostEnumerate, HostKnown
  <2> QED BY <2>1, <2>2
<1>3. CASE HostInitializeClient
  <2>1. /\ hid' = [hid EXCEPT !.address = hid'.address, !.state = hid'.state]
        /\ hid'.state \in {hid.state, WAIT_FOR_ENUMERATION}
        /\ usb'.status # "ATTACHED" => hid'.state = hid.state
    BY <1>3, InitializeMoves
  <2>2. /\ hid'.bytes = hid.bytes /\ hid'.collected = hid.collected
        /\ hid'.endpoint = hid.endpoint
    BY <1>0, <2>1 DEF DriverFields
  <2>3. /\ usb.status = "ENUMERATING" /\ hid.address = 0 /\ hid.state = <<DETACHED, 0>>
        /\ UNCHANGED <<port, report, buffer>>
    BY <1>3 DEF HostInitializeClient, HostKnown, Attached
  <2> QED BY <2>1, <2>2, <2>3
<1>4. CASE HostWaits
  BY <1>4 DEF HostWaits, vars
<1> QED BY <1>1, <1>2, <1>3, <1>4 DEF USBHostTasks

\* The bus and the user leave the driver alone, and the user what an endpoint has moved.
LEMMA OutsideMoves ==
  ASSUME HostKnown, Bus \/ User \/ UNCHANGED vars
  PROVE  UNCHANGED <<hid, report>> /\ usb'.status = usb.status /\ usb'.device = usb.device
BY DEF Bus, TransferSucceeds, TransferFails, User, PlugIn, Unplug, vars, HostKnown

LEMMA DecidesMoves == Decides => UNCHANGED vars
BY DEF Decides, App_Detect_Device, NotConnected, Connect, Connected, Ready, ReadFailed,
   App_ProcessInputReport, Idle

LEMMA ReportKnownStep ==
  ASSUME ReadsInv, DriverInv, ReportKnown, [MouseNext]_mouseVars
  PROVE  ReportKnown'
<1>0. /\ PipesTyped /\ HostKnown /\ LoopKnown /\ hid.state \in ReadStates /\ DescriptorKnown
      /\ hid.collected \in BOOLEAN
  BY DEF ReadsInv, DriverInv, CountsTyped
<1>1. CASE /\ UNCHANGED report /\ hid'.collected = hid.collected
           /\ \/ hid'.state[1] \notin {RUNNING, HID_RESET_RECOVERY}
              \/ hid.state[1] \in {RUNNING, HID_RESET_RECOVERY}
  BY <1>1 DEF ReportKnown
<1>2. CASE ParsingComplete
  <2>1. /\ hid.state = PARSING_COMPLETE /\ Attached /\ hid.descriptor \in DOMAIN usb.device
        /\ usb.device \in Devices
    BY <1>0, <1>2 DEF ParsingComplete, DescriptorKnown, DescriptorStates, HostKnown, RunIn
  <2> DEFINE collected == hid.collected \/ Described.collects
  <2>2. CASE Undefined /\ UNCHANGED report
    <3>1. hid'.state = <<UNDEFINED, 0>> /\ hid'.collected = hid.collected
      BY <1>0, <2>2 DEF Undefined, PipesTyped, DriverFields
    <3> QED BY <1>1, <2>2, <3>1
  <2>3. CASE /\ report' = IF Described.collects
                          THEN [device |-> usb.device, interface |-> hid.descriptor]
                          ELSE report
             /\ \/ hid' = [hid EXCEPT !.collected = collected,
                                      !.state = SEND_GET_REPORT_DSC]
                \/ ~collected /\ hid' = Lock("REPORT_DESCRIPTOR_BAD")
                \/ collected /\ hid' = [hid EXCEPT !.collected = TRUE,
                                                   !.state = WAITING_FOR_REQ]
    <3>1. collected =>
            report'.device \in Devices /\ report'.interface \in DOMAIN report'.device
      BY <2>1, <2>3 DEF ReportKnown
    <3> HIDE DEF collected
    <3>2. CASE hid' = [hid EXCEPT !.collected = collected, !.state = SEND_GET_REPORT_DSC]
      <4>1. hid'.collected = collected /\ hid'.state = SEND_GET_REPORT_DSC
        BY <1>0, <3>2 DEF PipesTyped, DriverFields
      <4> QED BY <3>1, <4>1 DEF ReportKnown
    <3>3. CASE ~collected /\ hid' = Lock("REPORT_DESCRIPTOR_BAD")
      <4>1. hid'.collected = hid.collected /\ hid'.state = <<HOLDING, 0>>
        BY <1>0, <3>3 DEF PipesTyped, DriverFields, Lock
      <4> QED BY <1>0, <3>3, <4>1 DEF ReportKnown, collected
    <3>4. CASE collected /\ hid' = [hid EXCEPT !.collected = TRUE, !.state = WAITING_FOR_REQ]
      <4>1. hid'.collected = TRUE
        BY <1>0, <3>4 DEF PipesTyped, DriverFields
      <4> QED BY <3>1, <3>4, <4>1 DEF ReportKnown
    <3> QED BY <2>3, <3>2, <3>3, <3>4
  <2> HIDE DEF collected
  <2> QED BY <1>2, <2>2, <2>3 DEF ParsingComplete, collected
<1>3. CASE CallUSBHostTasks
  <2>1. USBHostTasks
    BY <1>3 DEF CallUSBHostTasks
  <2> QED BY <1>0, <1>1, <2>1, HostMoves
<1>4. CASE CallUSBHostHIDTasks
  <2>1. USBHostHIDTasks
    BY <1>4 DEF CallUSBHostHIDTasks
  <2>2. CASE ~ParsingComplete
    <3>1. \/ hid'.state[1] \notin {RUNNING, HID_RESET_RECOVERY}
          \/ hid.state[1] \in {RUNNING, HID_RESET_RECOVERY}
      BY <1>0, <2>1, <2>2, TaskMoves
    <3>2. UNCHANGED report /\ hid'.collected = hid.collected
      BY <1>0, <2>1, <2>2, TaskMoves
    <3> QED BY <1>1, <3>1, <3>2
  <2> QED BY <1>2, <2>2
<1>5. CASE GetInputReport
  <2>1. DeviceDetect
    BY <1>0, <1>5 DEF GetInputReport, LoopKnown, Case
  <2>2. CASE Transfer(TRUE, MouseInterface)
    <3>1. UNCHANGED report /\ hid'.collected = hid.collected
      BY <1>0, <2>1, <2>2, GetMoves
    <3> QED BY <1>1, <2>1, <3>1 DEF DeviceDetect
  <2>3. CASE UNCHANGED vars
    BY <1>1, <2>3 DEF vars
  <2> QED BY <1>5, <2>2, <2>3 DEF GetInputReport
<1>6. CASE Decides
  BY <1>1, <1>6, DecidesMoves DEF vars
<1>7. CASE Bus \/ User \/ UNCHANGED vars
  BY <1>0, <1>1, <1>7, OutsideMoves
<1> QED BY <1>3, <1>4, <1>5, <1>6, <1>7, MouseSteps


LEMMA DetachIsSeenStep ==
  ASSUME ReadsInv, DetachIsSeen, [MouseNext]_mouseVars
  PROVE  DetachIsSeen'
<1>0. PipesTyped /\ HostKnown /\ LoopKnown /\ hid.state \in ReadStates
  BY DEF ReadsInv
<1>1. /\ pc = [f \in {"at", "then"} |-> pc[f]]
      /\ pc.then \in {"detect", "connect", "loop"}
  BY <1>0 DEF LoopKnown
<1> USE DEF DetachIsSeen, Attached
<1>2. CASE CallUSBHostTasks
  <2>1. USBHostTasks /\ pc.at = "host" /\ UNCHANGED App_State_Mouse
        /\ pc'.at = "hid" /\ pc'.then = pc.then
    BY <1>1, <1>2 DEF CallUSBHostTasks
  <2>2. hid'.address = 0 =>
          \/ usb'.status = "DETACHED"
          \/ hid.address = 0 /\ usb' = usb
          \/ hid.address = 0 /\ usb.status = "DETACHED" /\ usb'.status = "ENUMERATING"
          \/ hid.address = 0 /\ usb.status = "ENUMERATING"
    BY <1>0, <2>1, HostMoves
  <2> QED BY <2>1, <2>2
<1>3. CASE CallUSBHostHIDTasks
  <2>1. USBHostHIDTasks /\ pc.at = "hid" /\ UNCHANGED App_State_Mouse
    BY <1>3 DEF CallUSBHostHIDTasks
  <2>2. hid'.address = hid.address /\ UNCHANGED usb
    BY <1>0, <2>1, DriverMoves
  <2>3. CASE pc.then = "loop"
    <3>1. pc'.at = "host" /\ pc'.then = "detect"
      BY <1>3, <2>3 DEF CallUSBHostHIDTasks, USBTasksThen
    <3> QED BY <2>1, <2>2, <2>3, <3>1
  <2>4. CASE pc.then # "loop"
    <3>1. pc'.at = pc.then /\ pc'.then = pc.then
      BY <1>1, <1>3, <2>4 DEF CallUSBHostHIDTasks
    <3> QED BY <1>1, <2>1, <2>2, <2>4, <3>1
  <2> QED BY <2>3, <2>4
<1>4. CASE App_Detect_Device
  <2>1. /\ UNCHANGED <<usb, hid>> /\ pc'.at = "switch" /\ pc'.then = pc.then
        /\ App_State_Mouse' \in {App_State_Mouse, "DEVICE_NOT_CONNECTED"}
        /\ hid.address = 0 => App_State_Mouse' = "DEVICE_NOT_CONNECTED"
    BY <1>1, <1>4 DEF App_Detect_Device, DeviceDetect, vars
  <2> QED BY <2>1
<1>5. CASE Decides /\ ~App_Detect_Device
  <2>1. UNCHANGED <<usb, hid>> /\ pc.at \in {"connect", "switch"}
    BY <1>5, DecidesMoves DEF Decides, NotConnected, Connect, Connected, Ready,
       ReadFailed, App_ProcessInputReport, Idle, Case, vars
  <2>2. /\ pc'.at = "host" /\ pc'.then \in {"detect", "connect"}
        /\ pc'.then = "connect" => App_State_Mouse' = "DEVICE_NOT_CONNECTED"
        /\ App_State_Mouse' = "INPUT_REPORT_PENDING" =>
             App_State_Mouse = "INPUT_REPORT_PENDING"
    BY <1>5 DEF Decides, NotConnected, Connect, Connected, Ready,
       ReadFailed, App_ProcessInputReport, Idle, Case, USBTasksThen
  <2> QED BY <2>1, <2>2
<1>6. CASE GetInputReport
  <2>1. /\ pc'.at = "host" /\ pc'.then = "loop"
        /\ App_State_Mouse' = "INPUT_REPORT_PENDING" => hid.address # 0
    BY <1>6 DEF GetInputReport, USBTasksThen, Case
  <2>2. hid'.address = hid.address
    <3>1. DeviceDetect
      BY <1>0, <1>6 DEF GetInputReport, LoopKnown, Case
    <3>2. Transfer(TRUE, MouseInterface) => hid'.address = hid.address
      BY <1>0, <3>1, GetMoves
    <3> QED BY <1>6, <3>2 DEF GetInputReport, vars
  <2> QED BY <2>1, <2>2
<1>7. CASE (Bus \/ User \/ UNCHANGED vars) /\ UNCHANGED <<pc, App_State_Mouse>>
  BY <1>0, <1>7, OutsideMoves
<1> QED BY <1>2, <1>3, <1>4, <1>5, <1>6, <1>7, MouseSteps

LEMMA ReadIsAwaitedStep ==
  ASSUME ReadsInv, DetachIsSeen, ReadIsAwaited, [MouseNext]_mouseVars
  PROVE  ReadIsAwaited'
<1>0. /\ PipesTyped /\ HostKnown /\ LoopKnown /\ hid.state \in ReadStates
      /\ hid = [f \in DriverFields |-> hid[f]]
  BY DEF ReadsInv, PipesTyped
<1>1. ~Attached => hid.state = <<DETACHED, 0>>
  BY <1>0 DEF HostKnown
<1> USE DEF ReadIsAwaited, Attached
<1>2. CASE CallUSBHostTasks
  <2>1. USBHostTasks /\ UNCHANGED App_State_Mouse
    BY <1>2 DEF CallUSBHostTasks
  <2> QED BY <1>0, <2>1, HostMoves
<1>3. CASE CallUSBHostHIDTasks
  <2>1. USBHostHIDTasks /\ UNCHANGED App_State_Mouse
    BY <1>3 DEF CallUSBHostHIDTasks
  <2>2. hid'.address = hid.address /\ UNCHANGED usb
    BY <1>0, <2>1, DriverMoves
  <2>3. Attached /\ hid.state = <<DETACHED, 0>> => UNCHANGED hid
    BY <1>0, <2>1, TaskMoves
  <2>4. \/ UNCHANGED hid
        \/ hid.state = READ_REQ_WAIT /\ hid'.state # READ_REQ_WAIT
        \/ hid'.state \notin {READ_REQ_WAIT, READ_REQ_DONE}
    BY <1>0, <2>1, TaskMoves
  <2> QED BY <1>1, <2>1, <2>2, <2>3, <2>4
<1>4. CASE GetInputReport
  <2>1. /\ App_State_Mouse = "GET_INPUT_REPORT" /\ DeviceDetect
        /\ App_State_Mouse' = IF Attached /\ hid'.state = READ_REQ_WAIT
                              THEN "INPUT_REPORT_PENDING" ELSE App_State_Mouse
    BY <1>0, <1>4 DEF GetInputReport, LoopKnown, Case
  <2>2. Attached
    BY <2>1 DEF DeviceDetect
  <2>3. hid.state \notin {READ_REQ_WAIT, READ_REQ_DONE}
    BY <2>1
  <2>4. Transfer(TRUE, MouseInterface)
    BY <1>4, <2>2 DEF GetInputReport
  <2>5. /\ UNCHANGED usb /\ hid'.address = hid.address
        /\ \/ hid'.state = READ_REQ_WAIT /\ hid'.endpoint = In(MouseInterface)
           \/ hid'.state \in {WAITING_FOR_REQ, <<UNDEFINED, 0>>}
    BY <1>0, <2>1, <2>3, <2>4, GetMoves
  <2>6. usb'.status = "ATTACHED"
    BY <2>1, <2>5 DEF DeviceDetect
  <2> QED BY <2>1, <2>2, <2>5, <2>6
<1>5. CASE Decides
  <2>1. UNCHANGED <<usb, hid>>
    BY <1>5, DecidesMoves DEF vars
  <2>2. CASE hid.state \in {READ_REQ_WAIT, READ_REQ_DONE}
    <3>1. DeviceDetect /\ App_State_Mouse = "INPUT_REPORT_PENDING"
      BY <1>1, <2>2 DEF DeviceDetect
    <3>2. ~TransferIsComplete
      BY <1>1, <2>2 DEF TransferIsComplete
    <3>3. App_State_Mouse' = App_State_Mouse
      BY <1>5, <3>1, <3>2 DEF Decides, App_Detect_Device, NotConnected, Connect, Connected,
         Ready, ReadFailed, App_ProcessInputReport, Idle, Case, DetachIsSeen
    <3> QED BY <2>1, <3>3
  <2>3. CASE hid.state \notin {READ_REQ_WAIT, READ_REQ_DONE}
    BY <2>1, <2>3
  <2> QED BY <2>2, <2>3
<1>6. CASE (Bus \/ User \/ UNCHANGED vars) /\ UNCHANGED <<pc, App_State_Mouse>>
  BY <1>0, <1>6, OutsideMoves
<1> QED BY <1>2, <1>3, <1>4, <1>5, <1>6, MouseSteps

(* A count is one of the read that is waited for: only its endpoint fills the buffer. *)
LEMMA BusIsFresh ==
  ASSUME ReadsInv, DriverInv, ReadIsAwaited, CountIsFresh, Bus, UNCHANGED App_State_Mouse
  PROVE  CountIsFresh'
<1>0. PipesTyped /\ HostKnown /\ PipesBusy /\ ReadsKnown
  BY DEF ReadsInv, DriverInv
<1>1. UNCHANGED hid /\ usb'.device = usb.device
  BY <1>0, OutsideMoves
<1>2. In(MouseInterface) \in Endpoints
  BY EndpointsAre, MaxInterfacesAssumption DEF MouseInterface
<1>3. ASSUME NEW e \in Endpoints, NEW how \in {"stalled", "error"}, TransferFails(e, how)
      PROVE  CountIsFresh'
  <2>1. ep' = [ep EXCEPT ![e].status = how] /\ UNCHANGED buffer
    BY <1>3 DEF TransferFails
  <2>2. ep'[In(MouseInterface)].bytes = ep[In(MouseInterface)].bytes
    BY <1>0, <1>2, <2>1 DEF PipesTyped, PipeFields
  <2> QED BY <1>1, <2>1, <2>2 DEF CountIsFresh, Attached, ReportOfDevice
<1>4. ASSUME NEW e \in Endpoints, TransferSucceeds(e)
      PROVE  CountIsFresh'
  <2>1. PICK bytes \in IF ep[e].for = "read" THEN {0, port[e[2]].size} ELSE {0} :
          /\ ep' = [ep EXCEPT ![e].status = "ok", ![e].bytes = bytes]
          /\ buffer' = IF bytes # 0 THEN [device |-> port, interface |-> e[2]] ELSE buffer
    BY <1>4 DEF TransferSucceeds
  <2>2. ep'[In(MouseInterface)].bytes \in {bytes, ep[In(MouseInterface)].bytes}
    BY <1>0, <1>2, <2>1 DEF PipesTyped, PipeFields
  <2>3. CASE bytes # 0
    <3>1. ep[e].for = "read" /\ ep[e].status = "busy" /\ Answers
      BY <1>4, <2>1, <2>3 DEF TransferSucceeds
    <3>2. port = usb.device
      BY <1>0, <3>1, AnswerIsOfDevice
    <3>3. e = In(MouseInterface)
      BY <1>0, <3>1 DEF ReadsKnown, NoReads, ReadIsAwaited
    <3>4. e[2] = MouseInterface
      BY <3>3 DEF In
    <3> QED BY <1>1, <2>1, <2>3, <3>2, <3>4 DEF CountIsFresh, ReportOfDevice
  <2>4. CASE bytes = 0
    BY <1>1, <2>1, <2>2, <2>4 DEF CountIsFresh, Attached, ReportOfDevice
  <2> QED BY <2>3, <2>4
<1> QED BY <1>3, <1>4 DEF Bus

LEMMA CountIsFreshStep ==
  ASSUME ReadsInv, DriverInv, DetachIsSeen, ReadIsAwaited, CountIsFresh,
         [MouseNext]_mouseVars
  PROVE  CountIsFresh'
<1>0. PipesTyped /\ HostKnown /\ LoopKnown /\ hid.state \in ReadStates
  BY DEF ReadsInv
<1>1. CASE CallUSBHostTasks
  <2>1. USBHostTasks /\ UNCHANGED App_State_Mouse /\ pc.at = "host"
    BY <1>1 DEF CallUSBHostTasks
  <2>2. CASE App_State_Mouse = "INPUT_REPORT_PENDING" /\ hid'.address # 0
    <3>1. UNCHANGED <<usb, hid, ep, buffer>>
      BY <1>0, <2>1, <2>2, HostMoves DEF DetachIsSeen, Attached
    <3> QED BY <2>1, <3>1 DEF CountIsFresh, Attached, ReportOfDevice
  <2> QED BY <2>1, <2>2 DEF CountIsFresh, Attached
<1>2. CASE CallUSBHostHIDTasks
  <2>1. USBHostHIDTasks /\ UNCHANGED App_State_Mouse
    BY <1>2 DEF CallUSBHostHIDTasks
  <2>2. hid'.address = hid.address /\ UNCHANGED usb
    BY <1>0, <2>1, DriverMoves
  <2>3. UNCHANGED buffer
    BY <2>1 DEF USBHostHIDTasks, ForgetState, Waits,
      WaitForEnumeration, DeviceEnumerated, SendGetReportDescriptor, WaitForReportDescriptor,
      GetReportDescriptorComplete, ParseReportDescriptor, ParsingComplete, TransferWait,
      TransferDone, WaitForReset, vars
  <2>4. \/ UNCHANGED <<hid, ep>>
        \/ /\ hid'.state # READ_REQ_WAIT
           /\ \/ hid'.bytes = hid.bytes
              \/ hid.state = READ_REQ_WAIT /\ hid'.bytes = ep[hid.endpoint].bytes
    BY <1>0, <2>1, TaskMoves
  <2> QED BY <2>1, <2>2, <2>3, <2>4 DEF CountIsFresh, ReadIsAwaited, Attached, ReportOfDevice
<1>3. CASE GetInputReport
  <2>1. /\ App_State_Mouse = "GET_INPUT_REPORT" /\ DeviceDetect
        /\ App_State_Mouse' = IF Attached /\ hid'.state = READ_REQ_WAIT
                              THEN "INPUT_REPORT_PENDING" ELSE App_State_Mouse
    BY <1>0, <1>3 DEF GetInputReport, LoopKnown, Case
  <2>2. Transfer(TRUE, MouseInterface)
    BY <1>3, <2>1 DEF GetInputReport, DeviceDetect
  <2>3. hid.state \notin {READ_REQ_WAIT, READ_REQ_DONE}
    BY <2>1 DEF ReadIsAwaited
  <2>4. \/ hid'.bytes = 0 /\ ep'[In(MouseInterface)].bytes = 0
        \/ hid'.state # READ_REQ_WAIT
    BY <1>0, <2>1, <2>2, <2>3, GetMoves
  <2> QED BY <2>1, <2>4 DEF CountIsFresh
<1>4. CASE Decides
  <2>1. UNCHANGED vars
    BY <1>4, DecidesMoves
  <2>2. App_State_Mouse' = "INPUT_REPORT_PENDING" => App_State_Mouse = "INPUT_REPORT_PENDING"
    BY <1>4 DEF Decides, App_Detect_Device, NotConnected, Connect, Connected, Ready,
       ReadFailed, App_ProcessInputReport, Idle, Case
  <2> QED BY <2>1, <2>2 DEF CountIsFresh, Attached, ReportOfDevice, vars
<1>5. CASE Bus /\ UNCHANGED App_State_Mouse
  BY <1>5, BusIsFresh
<1>6. CASE (User \/ UNCHANGED vars) /\ UNCHANGED App_State_Mouse
  <2>1. UNCHANGED <<hid, ep, buffer>> /\ usb'.device = usb.device
    BY <1>0, <1>6, OutsideMoves DEF User, PlugIn, Unplug, vars
  <2> QED BY <1>6, <2>1 DEF CountIsFresh, Attached, ReportOfDevice
<1> QED BY <1>1, <1>2, <1>3, <1>4, <1>5, <1>6, MouseSteps

LEMMA FreshInvStep ==
  ASSUME InputsPresent, FreshInv, [MouseNext]_mouseVars
  PROVE  FreshInv'
BY ReadsInvStep, DriverInvStep, ReportKnownStep, DetachIsSeenStep, ReadIsAwaitedStep,
   CountIsFreshStep, MouseSteps DEF FreshInv

LEMMA FreshInvInit == MouseInit => FreshInv
<1> SUFFICES ASSUME MouseInit PROVE FreshInv
  OBVIOUS
<1>1. ReadsInv /\ DriverInv
  BY ReadsInvInit, DriverInit DEF MouseInit
<1>2. ReportKnown /\ DetachIsSeen /\ ReadIsAwaited /\ CountIsFresh
  BY DEF MouseInit, Init, ReportKnown, DetachIsSeen, ReadIsAwaited, CountIsFresh, Attached
<1> QED BY <1>1, <1>2 DEF FreshInv

(* Each report the application processes is one that the mouse that is there has sent since
   the read was started: not what an earlier read left, nor of a mouse that is gone, nor
   nothing at all after a stall and the reset it leads to. *)
THEOREM ReportsAreFresh == ASSUME InputsPresent PROVE MouseSpec => ProcessesFreshReport
<1>1. ASSUME FreshInv, App_ProcessInputReport
      PROVE  buffer = [device |-> usb.device, interface |-> MouseInterface]
  <2>1. /\ App_State_Mouse = "INPUT_REPORT_PENDING" /\ pc.at = "switch" /\ Attached
        /\ hid.bytes = ReportSize
    BY <1>1 DEF App_ProcessInputReport, Case
  <2>2. hid.state[1] = RUNNING
    BY <1>1, <2>1 DEF FreshInv, ReadsInv, LoopKnown, DeviceDetect
  <2>3. report.device \in Devices /\ report.interface \in DOMAIN report.device
    BY <1>1, <2>2 DEF FreshInv, ReportKnown
  <2>4. ReportSize \in 1 .. 255
    <3>1. report # NoReport
      BY <2>3, NoDeviceAssumption DEF NoReport
    <3>2. report.device[report.interface] \in Interfaces
      BY <2>3, DeviceAssumption
    <3> QED BY <3>1, <3>2 DEF ReportSize, Interfaces
  <2> QED BY <1>1, <2>1, <2>4 DEF FreshInv, CountIsFresh, ReportOfDevice
<1>2. ASSUME FreshInv
      PROVE  [App_ProcessInputReport =>
                buffer = [device |-> usb.device, interface |-> MouseInterface]]_mouseVars
  BY <1>1, <1>2
<1>3. FreshInv /\ [MouseNext]_mouseVars => FreshInv'
  BY FreshInvStep, InputsPresent
<1> QED BY <1>2, <1>3, FreshInvInit, PTL DEF MouseSpec, ProcessesFreshReport

===============================================================================
