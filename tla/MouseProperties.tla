----------------------------- MODULE MouseProperties -----------------------------
(* What must hold of the application of Lab 7 above the HID client driver. *)
EXTENDS MouseApp, HidProperties

(* The application processes a report only when the mouse that is there has sent it,
   whole, since the read was started: not what an earlier read left, also when a stall
   and the reset it leads to come between the read and its result. *)
ProcessesFreshReport ==
  [][App_ProcessInputReport =>
       buffer = [device |-> usb.device, interface |-> MouseInterface]]_mouseVars

(* When the application looks for the report it waits for, the driver is reading one or
   is done with it: a reset, a detach or another device in between has been noticed, so
   that it never waits for a driver that is not reading. *)
PendingIsUnderway ==
  pc.at = "switch" /\ App_State_Mouse = "INPUT_REPORT_PENDING" =>
    Attached /\ hid.state \in {READ_REQ_WAIT, READ_REQ_DONE, WAITING_FOR_REQ}

(* The application and the driver below it agree on what is going on: a read that is waited
   for is under way, and one that is complete is over, after any reset or detach. *)
ReadsAreUnderwayOrOver == PendingIsUnderway /\ CompletedTransfersAreOver

(* A mouse that is unplugged is noticed to be gone, also when another is plugged in at
   once. *)
UnplugIsNoticed == usb.detach ~> App_State_Mouse = "DEVICE_NOT_CONNECTED"

(* A mouse that stays plugged in is read for ever, unless a transfer fails: then the
   application has given up, the driver or the host stack has, or resets go on. *)
MouseIsRead ==
  <>[](port # NoDevice) =>
    \/ []<>(App_State_Mouse = "GET_INPUT_REPORT")
    \/ <>[](App_State_Mouse = "ERROR_REPORTED")
    \/ <>[](hid.state[1] = HOLDING \/ usb.status = "HOLDING")
    \/ []<>(\E e \in Endpoints : ep[e].status = "stalled")

(* A mouse that stays plugged in and sends reports for ever has them processed for ever:
   no failure in between leaves the application deaf while the driver still reads. *)
ReportsAreProcessed ==
  (/\ <>[](port # NoDevice)
   /\ []<><<buffer = NoReport /\ buffer' # NoReport>>_mouseVars)
    => []<><<App_ProcessInputReport>>_mouseVars

===============================================================================
