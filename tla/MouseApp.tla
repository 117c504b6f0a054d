-------------------------------- MODULE MouseApp --------------------------------
(***************************************************************************)
(* The main loop of Lab 7 (Mouse_demo.c): it gives the USB host stack and  *)
(* the HID client driver their turns (USBTasks), notices that the mouse is *)
(* there or gone, and reads a report after a report from its interface 0.  *)
(* Composes with HidHost, whose actions are the driver's side of each      *)
(* step; between any two steps the bus and the user go on.                 *)
(***************************************************************************)
EXTENDS HidHost

VARIABLES
  pc,   \* [at: the call that comes next, then: what follows USBTasks]
  App_State_Mouse

mouseVars == <<vars, pc, App_State_Mouse>>

MouseInterface == 1   \* the application reads interface number 0

ReportSize == IF report = NoReport THEN 0 ELSE report.device[report.interface].size

\* USBTasks() comes next, and what follows it.
USBTasksThen(next) == pc' = [at |-> "host", then |-> next]

CallUSBHostTasks ==
  /\ pc.at = "host" /\ USBHostTasks
  /\ pc' = [pc EXCEPT !.at = "hid"]
  /\ UNCHANGED App_State_Mouse

CallUSBHostHIDTasks ==
  /\ pc.at = "hid" /\ USBHostHIDTasks
  /\ IF pc.then = "loop" THEN USBTasksThen("detect") ELSE pc' = [pc EXCEPT !.at = pc.then]
  /\ UNCHANGED App_State_Mouse

\* A bug: the application does not look for the device in every turn.
MutApp_Detect_Device ==
  /\ pc.at = "detect"
  /\ pc' = [pc EXCEPT !.at = "switch"]
  /\ UNCHANGED <<vars, App_State_Mouse>>

App_Detect_Device ==
  /\ pc.at = "detect"
  /\ App_State_Mouse' = IF DeviceDetect THEN App_State_Mouse ELSE "DEVICE_NOT_CONNECTED"
  /\ pc' = [pc EXCEPT !.at = "switch"]
  /\ UNCHANGED vars

Case(state) == pc.at = "switch" /\ App_State_Mouse = state

NotConnected ==
  /\ Case("DEVICE_NOT_CONNECTED")
  /\ USBTasksThen("connect")
  /\ UNCHANGED <<vars, App_State_Mouse>>

Connect ==
  /\ pc.at = "connect"
  /\ App_State_Mouse' = IF DeviceDetect THEN "DEVICE_CONNECTED" ELSE App_State_Mouse
  /\ USBTasksThen("detect")
  /\ UNCHANGED vars

Connected ==
  /\ Case("DEVICE_CONNECTED")
  /\ App_State_Mouse' = "READY_TO_TX_RX_REPORT"
  /\ USBTasksThen("detect")
  /\ UNCHANGED vars

Ready ==
  /\ Case("READY_TO_TX_RX_REPORT")
  /\ App_State_Mouse' = IF DeviceDetect THEN "GET_INPUT_REPORT" ELSE "DEVICE_NOT_CONNECTED"
  /\ USBTasksThen("detect")
  /\ UNCHANGED vars

\* A read that is refused is tried again in the next turn.
GetInputReport ==
  /\ Case("GET_INPUT_REPORT")
  /\ IF Attached THEN Transfer(TRUE, MouseInterface) ELSE UNCHANGED vars
  /\ App_State_Mouse' = IF Attached /\ hid'.state = READ_REQ_WAIT
                        THEN "INPUT_REPORT_PENDING" ELSE App_State_Mouse
  /\ USBTasksThen("loop")

\* Every error code is above MAX_ERROR_COUNTER, which it is compared with in place of
\* ErrorCounter: the first error is the last.
ReadFailed ==
  /\ Case("INPUT_REPORT_PENDING") /\ TransferIsComplete
  /\ (~Attached \/ hid.error # "none" \/ hid.bytes # ReportSize)
  /\ App_State_Mouse' = IF ~Attached \/ hid.error # "none" THEN "ERROR_REPORTED"
                        ELSE "READY_TO_TX_RX_REPORT"
  /\ USBTasksThen("detect")
  /\ UNCHANGED vars

App_ProcessInputReport ==
  /\ Case("INPUT_REPORT_PENDING") /\ TransferIsComplete
  /\ Attached /\ hid.error = "none" /\ hid.bytes = ReportSize
  /\ App_State_Mouse' = "READY_TO_TX_RX_REPORT"
  /\ USBTasksThen("detect")
  /\ UNCHANGED vars

Idle ==
  /\ \/ Case("INPUT_REPORT_PENDING") /\ ~TransferIsComplete
     \/ Case("ERROR_REPORTED")
  /\ USBTasksThen("detect")
  /\ UNCHANGED <<vars, App_State_Mouse>>

main ==
  \/ CallUSBHostTasks \/ CallUSBHostHIDTasks
  \/ App_Detect_Device \/ NotConnected \/ Connect \/ Connected \/ Ready
  \/ GetInputReport \/ ReadFailed \/ App_ProcessInputReport \/ Idle

Outside == (Bus \/ User) /\ UNCHANGED <<pc, App_State_Mouse>>

MouseInit ==
  /\ Init
  /\ pc = [at |-> "host", then |-> "detect"]
  /\ App_State_Mouse = "DEVICE_NOT_CONNECTED"

MouseNext == \/ hid.state[1] # UNDEFINED /\ main
             \/ Outside

MouseSpec == MouseInit /\ [][MouseNext]_mouseVars

\* The main loop never stops, and a transfer ends: an answer, a NAK or too many
\* errors.
MouseFairSpec ==
  /\ MouseSpec
  /\ WF_mouseVars(main)
  /\ \A e \in Endpoints :
       WF_mouseVars(/\ \/ TransferSucceeds(e)
                       \/ \E how \in {"stalled", "error"} : TransferFails(e, how)
                    /\ UNCHANGED <<pc, App_State_Mouse>>)

===============================================================================
