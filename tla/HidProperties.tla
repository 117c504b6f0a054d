------------------------------ MODULE HidProperties ------------------------------
(* What must hold of the HID client driver. *)
EXTENDS HidHost

HidStates == ((0 .. 6) \X (0 .. 6)) \cup {<<UNDEFINED, 0>>}
Purposes == {"nothing", "descriptor", "reset", "read", "write"}
Reports == {NoReport} \cup [device : Devices, interface : 1 .. MaxInterfaces]

(* Every variable has the type its declaration gives it; an endpoint is busy with a
   transfer of the kind that goes through it. *)
TypeOK ==
  /\ port \in Devices \cup {NoDevice}
  /\ usb \in [status : {"DETACHED", "ENUMERATING", "ATTACHED", "HOLDING"},
              device : Devices \cup {NoDevice}, detach : BOOLEAN]
  /\ ep \in [Endpoints -> [status : {"busy", "ok", "stalled", "error", "unresolved"},
                           for : Purposes, bytes : 0 .. 255]]
  /\ hid.address \in {0, 1} /\ hid.state \in HidStates
  /\ hid.bfReset \in BOOLEAN /\ hid.collected \in BOOLEAN
  /\ hid.bytes \in 0 .. 255 /\ hid.endpoint \in Endpoints
  /\ hid.descriptor \in 0 .. MaxInterfaces
  /\ pCurrInterfaceDetails \in {None, Dangling} \cup DOMAIN interfaces
  /\ report \in Reports /\ buffer \in Reports

(* When the driver says that the transfer is complete no read or write is still going on:
   the application's buffer is its own again, whatever ended the transfer. *)
CompletedTransfersAreOver ==
  Attached /\ TransferIsComplete =>
    \A e \in Endpoints : ep[e].for \in {"read", "write"} => ep[e].status # "busy"

(* While the host stack runs a device the interface list of the driver is that of this
   device, or has been freed: the node an earlier device left would be asked for its
   report first. *)
InterfacesOfThisDevice ==
  Attached /\ usb.status = "ATTACHED" /\ interfaces # <<>> =>
    interfaces = Nodes(usb.device, Len(usb.device) + 1)

(* What the driver keeps of its device between the calls and events that may come at any
   time, the interface list above all. *)
DriverInvariant == TypeOK /\ InterfacesOfThisDevice

Pipe == INSTANCE UsbPipe WITH
  Pipes <- Endpoints, Control <- {EP0}, MayAbort <- TRUE,
  status <- [e \in Endpoints |-> ep[e].status]

(* The driver is checked against endpoints that behave as module UsbTransfer's do, but for
   transfers that are terminated and devices that are detached: it starts none on an
   endpoint whose error has not been cleared, and each result stays until it is dealt with
   (USBHostRead, USBHostWrite, USBHostTransferIsComplete). *)
UsesPipes == Pipe!Spec

(* "At least once report must be present.  If not, flag error.": the driver runs a device
   only after the application has collected a report of it (usb_host_hid.c, parsing
   complete). *)
RunsCollectedReport ==
  Attached /\ hid.state[1] = RUNNING => report.device = usb.device

(* "Make sure the device is in a state ready to read/write": a transfer is started only
   by a driver that is running and has no other transfer (USBHostHIDTransfer). *)
TransfersWhenReady ==
  [][\A e \in Endpoints :
       ep[e].status # "busy" /\ ep'[e].status = "busy" /\ ep'[e].for \in {"read", "write"}
       => hid.state = WAITING_FOR_REQ]_vars

===============================================================================
