-------------------------------- MODULE HidHost --------------------------------
(***************************************************************************)
(* The HID client driver of Lab 7 (usb_host_hid.c): it is given an         *)
(* enumerated device by the USB host stack, reads and parses the report    *)
(* descriptor of each of its interfaces, and then makes the transfers the  *)
(* application asks for.                                                   *)
(*                                                                         *)
(* Of the host stack below (module UsbHost) it sees the device's status,   *)
(* the calls of Initialize and of the event handler, and endpoints whose   *)
(* transfers end well, in a stall or in an error.  Every function here     *)
(* runs from the main loop, and only the endpoints change under interrupt, *)
(* so that each call is one step.  Specification Spec lets an application  *)
(* make any call at any time; module MouseApp is the one the lab has.      *)
(***************************************************************************)
EXTENDS Integers, Sequences, FiniteSets

CONSTANTS
  Devices,        \* what may be plugged in: see Interfaces
  NoDevice,
  MaxInterfaces,  \* how many interfaces a device may have
  MemoryAnswers,  \* TRUE: malloc may succeed; FALSE: it may fail
  Results,        \* how transfers may end: a subset of {"ok", "stalled", "error"}
  AppCalls        \* the API calls the application makes

(* A device is the sequence of its interfaces; interface n is the nth, and *)
(* hid: has the HID class; in, out: has an interrupt IN, OUT endpoint;     *)
(* described: has a report descriptor that is not empty; parses: the       *)
(* parser takes it; collects: the application finds the report it is       *)
(* looking for in it; size: the bytes of its input report.                 *)
Interfaces == [hid : BOOLEAN, in : BOOLEAN, out : BOOLEAN, described : BOOLEAN,
               parses : BOOLEAN, collects : BOOLEAN, size : 1 .. 255]
ASSUME DeviceAssumption ==
  \A d \in Devices : d \in Seq(Interfaces) /\ Len(d) <= MaxInterfaces
ASSUME MaxInterfacesAssumption == MaxInterfaces \in 1 .. 255
ASSUME NoDeviceAssumption == NoDevice \notin Devices
ASSUME ResultsAssumption ==
  Results \subseteq {"ok", "stalled", "error"} /\ MemoryAnswers \subseteq BOOLEAN

VARIABLES
  port,        \* the device that is plugged in
  usb,         \* the host stack: [status: what USBHostDeviceStatus returns, device: the
               \*  device it has enumerated, detach: the detach interrupt came]
  ep,          \* the endpoints: see NoTransfer
  hid,         \* deviceInfoHID[0]
  interfaces,  \* the list pInterfaceDetails
  pCurrInterfaceDetails,   \* an index of that list, None or Dangling
  report,      \* what the application collected last: [device, interface]
  buffer       \* what is in the application's report buffer (a history variable):
               \*  the device that filled it since the last read was started

vars == <<port, usb, ep, hid, interfaces, pCurrInterfaceDetails, report, buffer>>

None == 0        \* a null pointer
Dangling == -1   \* a pointer to memory that was freed

EP0 == <<"control", 0>>
In(n)  == <<"in", n>>
Out(n) == <<"out", n>>
Endpoints == {EP0} \cup ({"in", "out"} \X (1 .. MaxInterfaces))

Exists(e) ==
  /\ usb.device # NoDevice
  /\ \/ e = EP0
     \/ \E n \in DOMAIN usb.device : (e = In(n) /\ usb.device[n].in)
                                     \/ (e = Out(n) /\ usb.device[n].out)

\* status: "busy", or how the last transfer ended, "unresolved" when it is not known;
\* for: what it was started for; bytes: what it moved.
NoTransfer == [status |-> "unresolved", for |-> "nothing", bytes |-> 0]
NoReport == [device |-> NoDevice, interface |-> 0]

DETACHED           == 0
INITIALIZE_DEVICE  == 1
GET_REPORT_DSC     == 2
RUNNING            == 3
HID_RESET_RECOVERY == 4
HOLDING            == 6
UNDEFINED          == 15   \* after following a null or dangling pointer

WAIT_FOR_ENUMERATION    == <<INITIALIZE_DEVICE, 0>>
DEVICE_ENUMERATED       == <<INITIALIZE_DEVICE, 1>>
SEND_GET_REPORT_DSC     == <<GET_REPORT_DSC, 0>>
WAIT_FOR_REPORT_DSC     == <<GET_REPORT_DSC, 1>>
GET_REPORT_DSC_COMPLETE == <<GET_REPORT_DSC, 2>>
PARSE_REPORT_DSC        == <<GET_REPORT_DSC, 3>>
PARSING_COMPLETE        == <<GET_REPORT_DSC, 4>>
WAITING_FOR_REQ         == <<RUNNING, 0>>
READ_REQ_WAIT           == <<RUNNING, 2>>
READ_REQ_DONE           == <<RUNNING, 3>>
WRITE_REQ_WAIT          == <<RUNNING, 5>>
WRITE_REQ_DONE          == <<RUNNING, 6>>
WAIT_FOR_RESET          == <<HID_RESET_RECOVERY, 1>>
NextSubState(s) == <<s[1], s[2] + 1>>

\* deviceAddress 0 stands for no device: the driver then forgets its state.
Attached == hid.address # 0
RunIn(state) == Attached /\ hid.state = state

Lock(error) == [hid EXCEPT !.error = error, !.state = <<HOLDING, 0>>]
Undefined == hid' = [hid EXCEPT !.state = <<UNDEFINED, 0>>]

-------------------------------------------------------------------------------
(* What the driver calls of the host stack *)

\* USBHostIssueDeviceRequest refuses while endpoint 0 is in use.
AcceptsDeviceRequest == usb.status = "ATTACHED" /\ ep[EP0].status # "busy"

\* A bug: an error need not be cleared.
MutAcceptsTransfer(e) == usb.status = "ATTACHED" /\ Exists(e) /\ ep[e].status # "busy"

\* USBHostRead and USBHostWrite want the last error cleared first.
AcceptsTransfer(e) ==
  usb.status = "ATTACHED" /\ Exists(e) /\ ep[e].status \in {"ok", "unresolved"}

Started(e, what) == [ep EXCEPT ![e] = [status |-> "busy", for |-> what, bytes |-> 0]]

\* A bug: the flag is not looked at.
MutComplete(e) == TRUE

Complete(e) == ep[e].status # "busy"

\* USBHostClearEndpointErrors
Cleared(e) ==
  [ep EXCEPT ![e].status = IF @ \in {"stalled", "error"} THEN "unresolved" ELSE @]

\* The error code USBHostTransferIsComplete returns.
ErrorOf(e) == IF ep[e].status = "ok" THEN "none" ELSE ep[e].status

\* _USBHostHID_ResetStateJump with bfReset set: h is the driver's record, e the
\* endpoints; returnState is always WAITING_FOR_REQ.
StartReset(h, e) ==
  IF AcceptsDeviceRequest
  THEN /\ hid' = [h EXCEPT !.bfReset = TRUE, !.state = WAIT_FOR_RESET]
       /\ ep' = [e EXCEPT ![EP0] = [status |-> "busy", for |-> "reset", bytes |-> 0]]
  ELSE /\ hid' = [h EXCEPT !.bfReset = TRUE, !.error = "RESET_ERROR",
                           !.state = WAITING_FOR_REQ]
       /\ ep' = e

-------------------------------------------------------------------------------
(* What the host stack calls of the driver *)

Usable(d, n) == d[n].hid /\ d[n].in

\* The nodes Initialize makes of the interfaces of d, in their order; malloc fails
\* at the one with number fails.
Nodes(d, fails) ==
  LET made == {n \in DOMAIN d : d[n].hid /\ n < fails}
      number(i) == CHOOSE n \in made : Cardinality({m \in made : m <= n}) = i
  IN [i \in 1 .. Cardinality(made) |->
        [number |-> number(i), in |-> d[number(i)].in, out |-> d[number(i)].out,
         described |-> d[number(i)].described]]

\* USBHostHIDInitialize(d), when the host has selected d's configuration.  The device
\* counts as there as soon as one interface is usable, also when malloc then fails.
InitializeDevice(d) ==
  IF Attached
  THEN /\ UNCHANGED <<hid, interfaces, pCurrInterfaceDetails>>
       /\ usb' = [usb EXCEPT !.status = "ATTACHED"]
  ELSE \E memory \in MemoryAnswers :
       \E fails \in IF memory THEN {Len(d) + 1} ELSE {n \in DOMAIN d : d[n].hid} :
         LET nodes == Nodes(d, fails)
             found == \E i \in DOMAIN nodes : Usable(d, nodes[i].number)
         IN /\ interfaces' = SubSeq(interfaces, 1, pCurrInterfaceDetails) \o nodes
            /\ pCurrInterfaceDetails' = IF interfaces' = <<>> THEN pCurrInterfaceDetails
                                        ELSE Len(interfaces')
            /\ hid' = [hid EXCEPT !.address = IF found THEN 1 ELSE 0,
                                  !.state = IF memory /\ found THEN WAIT_FOR_ENUMERATION
                                            ELSE @]
            /\ usb' = [usb EXCEPT !.status = IF memory /\ found THEN "ATTACHED"
                                             ELSE "HOLDING"]

\* _USBHostHID_FreeRptDecriptorDataMem; pCurrInterfaceDetails keeps its value.
FreeInterfaces ==
  /\ interfaces' = <<>>
  /\ pCurrInterfaceDetails' = IF pCurrInterfaceDetails = None THEN None ELSE Dangling

\* A bug: the interface list is not freed.
MutDetachEvent ==
  IF Attached
  THEN /\ hid' = [hid EXCEPT !.address = 0, !.state = <<DETACHED, 0>>]
       /\ UNCHANGED <<interfaces, pCurrInterfaceDetails>>
  ELSE UNCHANGED <<hid, interfaces, pCurrInterfaceDetails>>

\* USBHostHIDEventHandler with EVENT_DETACH.
DetachEvent ==
  IF Attached
  THEN hid' = [hid EXCEPT !.address = 0, !.state = <<DETACHED, 0>>] /\ FreeInterfaces
  ELSE UNCHANGED <<hid, interfaces, pCurrInterfaceDetails>>

-------------------------------------------------------------------------------
(* USBHostTasks, as far as the driver can see it *)

HostDetach ==
  /\ usb.detach
  /\ DetachEvent
  /\ usb' = [status |-> "DETACHED", device |-> NoDevice, detach |-> FALSE]
  /\ ep' = [e \in Endpoints |-> NoTransfer]
  /\ UNCHANGED <<port, report, buffer>>

HostEnumerate ==
  /\ ~usb.detach /\ usb.status = "DETACHED" /\ port # NoDevice
  /\ usb' = [usb EXCEPT !.status = "ENUMERATING", !.device = port]
  /\ UNCHANGED <<port, ep, hid, interfaces, pCurrInterfaceDetails, report, buffer>>

HostInitializeClient ==
  /\ ~usb.detach /\ usb.status = "ENUMERATING"
  /\ InitializeDevice(usb.device)
  /\ UNCHANGED <<port, ep, report, buffer>>

HostWaits ==
  /\ ~usb.detach
  /\ usb.status \in {"ATTACHED", "HOLDING"} \/ (usb.status = "DETACHED" /\ port = NoDevice)
  /\ UNCHANGED vars

USBHostTasks == HostDetach \/ HostEnumerate \/ HostInitializeClient \/ HostWaits

-------------------------------------------------------------------------------
(* USBHostHIDTasks *)

\* No device: the state is forgotten.
ForgetState ==
  /\ ~Attached
  /\ hid' = [hid EXCEPT !.state = <<DETACHED, 0>>]
  /\ UNCHANGED <<port, usb, ep, interfaces, pCurrInterfaceDetails, report, buffer>>

\* A token may be being sent while some transfer goes on.  A request that is refused
\* is tried again later, and an interface without a report descriptor is never left.
CannotSend ==
  \/ \E e \in Endpoints : ~Complete(e)
  \/ pCurrInterfaceDetails > 0 /\ (\/ ~interfaces[pCurrInterfaceDetails].described
                                  \/ ~AcceptsDeviceRequest)

Waits ==
  /\ Attached
  /\ \/ hid.state[1] \in {DETACHED, HOLDING}
     \/ hid.state = WAITING_FOR_REQ
     \/ hid.state = WAIT_FOR_ENUMERATION /\ usb.status # "ATTACHED"
     \/ hid.state = SEND_GET_REPORT_DSC /\ CannotSend
     \/ hid.state \in {WAIT_FOR_REPORT_DSC, WAIT_FOR_RESET} /\ ~Complete(EP0)
     \/ hid.state \in {READ_REQ_WAIT, WRITE_REQ_WAIT} /\ ~Complete(hid.endpoint)
  /\ UNCHANGED vars

WaitForEnumeration ==
  /\ RunIn(WAIT_FOR_ENUMERATION) /\ usb.status = "ATTACHED"
  /\ hid' = [hid EXCEPT !.state = NextSubState(@)]
  /\ pCurrInterfaceDetails' = IF interfaces = <<>> THEN None ELSE 1
  /\ UNCHANGED <<port, usb, ep, interfaces, report, buffer>>

DeviceEnumerated ==
  /\ RunIn(DEVICE_ENUMERATED)
  /\ hid' = [hid EXCEPT !.state = SEND_GET_REPORT_DSC]
  /\ UNCHANGED <<port, usb, ep, interfaces, pCurrInterfaceDetails, report, buffer>>

SendGetReportDescriptor ==
  /\ RunIn(SEND_GET_REPORT_DSC)
  /\ \/ pCurrInterfaceDetails = None /\ hid' = Lock("INTERFACE_ERROR") /\ UNCHANGED ep
     \/ pCurrInterfaceDetails = Dangling /\ Undefined /\ UNCHANGED ep
     \/ /\ pCurrInterfaceDetails > 0 /\ interfaces[pCurrInterfaceDetails].described
        /\ \/ /\ FALSE \in MemoryAnswers
              /\ hid' = Lock("MEMORY_ALLOCATION_ERROR") /\ UNCHANGED ep
           \/ /\ AcceptsDeviceRequest
              /\ ep' = Started(EP0, "descriptor")
              /\ hid' = [hid EXCEPT
                   !.state = NextSubState(@),
                   !.descriptor = interfaces[pCurrInterfaceDetails].number]
  /\ UNCHANGED <<port, usb, interfaces, pCurrInterfaceDetails, report, buffer>>

\* The next substate is taken also after an error: of HOLDING, where it has no meaning.
WaitForReportDescriptor ==
  /\ RunIn(WAIT_FOR_REPORT_DSC) /\ Complete(EP0)
  /\ IF ErrorOf(EP0) # "none"
     THEN hid' = [Lock(ErrorOf(EP0)) EXCEPT !.state = NextSubState(@)] /\ UNCHANGED ep
     ELSE hid' = [hid EXCEPT !.state = NextSubState(@)] /\ ep' = Cleared(EP0)
  /\ UNCHANGED <<port, usb, interfaces, pCurrInterfaceDetails, report, buffer>>

GetReportDescriptorComplete ==
  /\ RunIn(GET_REPORT_DSC_COMPLETE)
  /\ hid' = [hid EXCEPT !.state = NextSubState(@)]
  /\ UNCHANGED <<port, usb, ep, interfaces, pCurrInterfaceDetails, report, buffer>>

\* The interface the report descriptor in memory is of.
Described == usb.device[hid.descriptor]

ParseReportDescriptor ==
  /\ RunIn(PARSE_REPORT_DSC)
  /\ IF pCurrInterfaceDetails \in {None, Dangling}
     THEN Undefined /\ UNCHANGED <<interfaces, pCurrInterfaceDetails>>
     ELSE IF Described.parses
     THEN /\ hid' = [hid EXCEPT !.state = NextSubState(@)]
          /\ UNCHANGED <<interfaces, pCurrInterfaceDetails>>
     ELSE hid' = Lock("REPORT_DESCRIPTOR_BAD") /\ FreeInterfaces
  /\ UNCHANGED <<port, usb, ep, report, buffer>>

\* The application collects what it needs of the report; then comes the next
\* interface.  With the last one refused and nothing collected before, the list is
\* freed and its last node read after that, which gives anything.
ParsingComplete ==
  /\ RunIn(PARSING_COMPLETE)
  /\ LET collected == hid.collected \/ Described.collects
         freed == /\ ~collected
                  /\ interfaces[pCurrInterfaceDetails].number = Len(usb.device)
         next == IF pCurrInterfaceDetails = Len(interfaces) THEN None
                 ELSE pCurrInterfaceDetails + 1
     IN IF pCurrInterfaceDetails \in {None, Dangling}
        THEN Undefined /\ UNCHANGED <<interfaces, pCurrInterfaceDetails, report>>
        ELSE /\ report' = IF Described.collects
                          THEN [device |-> usb.device, interface |-> hid.descriptor]
                          ELSE report
             /\ \E read \in IF freed THEN {None, Dangling} ELSE {next} :
                  /\ pCurrInterfaceDetails' = read
                  /\ interfaces' = IF freed \/ (read = None /\ ~collected) THEN <<>>
                                   ELSE interfaces
                  /\ hid' = IF read # None
                            THEN [hid EXCEPT !.collected = collected,
                                             !.state = SEND_GET_REPORT_DSC]
                            ELSE IF ~collected THEN Lock("REPORT_DESCRIPTOR_BAD")
                            ELSE [hid EXCEPT !.collected = TRUE,
                                             !.state = WAITING_FOR_REQ]
  /\ UNCHANGED <<port, usb, ep, buffer>>

\* A bug: the state does not change after an error.
MutTransferWaitStays ==
  /\ Attached /\ hid.state \in {READ_REQ_WAIT, WRITE_REQ_WAIT} /\ Complete(hid.endpoint)
  /\ LET error == ErrorOf(hid.endpoint)
     IN CASE error = "none" ->
               /\ ep' = Cleared(hid.endpoint)
               /\ hid' = [hid EXCEPT !.state = NextSubState(@),
                    !.bytes = IF hid.state = READ_REQ_WAIT THEN ep[hid.endpoint].bytes
                              ELSE @]
          [] error = "stalled" -> StartReset(hid, Cleared(hid.endpoint))
          [] OTHER ->
               hid' = [hid EXCEPT !.error = error] /\ UNCHANGED ep
  /\ UNCHANGED <<port, usb, interfaces, pCurrInterfaceDetails, report, buffer>>

\* A bug: the bytes are not counted.
MutTransferWaitNoCount ==
  /\ Attached /\ hid.state \in {READ_REQ_WAIT, WRITE_REQ_WAIT} /\ Complete(hid.endpoint)
  /\ LET error == ErrorOf(hid.endpoint)
     IN CASE error = "none" ->
               /\ ep' = Cleared(hid.endpoint)
               /\ hid' = [hid EXCEPT !.state = NextSubState(@)]
          [] error = "stalled" -> StartReset(hid, Cleared(hid.endpoint))
          [] OTHER ->
               hid' = [hid EXCEPT !.error = error, !.state = WAITING_FOR_REQ] /\ UNCHANGED ep
  /\ UNCHANGED <<port, usb, interfaces, pCurrInterfaceDetails, report, buffer>>

\* The end of a read or a write: a stall starts a reset of the device, any other
\* error is the result of the transfer and stays with the endpoint.
TransferWait ==
  /\ Attached /\ hid.state \in {READ_REQ_WAIT, WRITE_REQ_WAIT} /\ Complete(hid.endpoint)
  /\ LET error == ErrorOf(hid.endpoint)
     IN CASE error = "none" ->
               /\ ep' = Cleared(hid.endpoint)
               /\ hid' = [hid EXCEPT !.state = NextSubState(@),
                    !.bytes = IF hid.state = READ_REQ_WAIT THEN ep[hid.endpoint].bytes
                              ELSE @]
          [] error = "stalled" -> StartReset(hid, Cleared(hid.endpoint))
          [] OTHER ->
               hid' = [hid EXCEPT !.error = error, !.state = WAITING_FOR_REQ] /\ UNCHANGED ep
  /\ UNCHANGED <<port, usb, interfaces, pCurrInterfaceDetails, report, buffer>>

TransferDone ==
  /\ Attached /\ hid.state \in {READ_REQ_DONE, WRITE_REQ_DONE}
  /\ hid' = [hid EXCEPT !.state = WAITING_FOR_REQ]
  /\ UNCHANGED <<port, usb, ep, interfaces, pCurrInterfaceDetails, report, buffer>>

\* A reset that stalls is sent again, without a limit.
WaitForReset ==
  /\ RunIn(WAIT_FOR_RESET) /\ Complete(EP0)
  /\ LET done == [hid EXCEPT !.error = ErrorOf(EP0)]
     IN IF ErrorOf(EP0) = "stalled"
        THEN StartReset(done, Cleared(EP0))
        ELSE /\ hid' = [done EXCEPT !.bfReset = FALSE, !.state = WAITING_FOR_REQ]
             /\ UNCHANGED ep
  /\ UNCHANGED <<port, usb, interfaces, pCurrInterfaceDetails, report, buffer>>

USBHostHIDTasks ==
  \/ ForgetState \/ Waits \/ WaitForEnumeration \/ DeviceEnumerated
  \/ SendGetReportDescriptor \/ WaitForReportDescriptor \/ GetReportDescriptorComplete
  \/ ParseReportDescriptor \/ ParsingComplete
  \/ TransferWait \/ TransferDone \/ WaitForReset

-------------------------------------------------------------------------------
(* The calls of an application.  They find the device by the address it is given, *)
(* always 1, and an interface by its number.                                      *)

IndexOf(n) ==
  LET found == {i \in DOMAIN interfaces : interfaces[i].number = n}
  IN IF found = {} THEN None ELSE CHOOSE i \in found : \A j \in found : i <= j

\* What USBHostHIDDeviceDetect returns.
DeviceDetect == Attached /\ usb.status = "ATTACHED" /\ hid.state[1] = RUNNING

\* What USBHostHIDTransferIsComplete returns.
TransferIsComplete == ~Attached \/ hid.state \in {<<DETACHED, 0>>, WAITING_FOR_REQ}

\* A bug: the bytes of the last transfer are left.
MutTransferInit(h, endpoint) == [h EXCEPT !.error = "none", !.endpoint = endpoint]

TransferInit(h, endpoint) ==
  [h EXCEPT !.bytes = 0, !.error = "none", !.endpoint = endpoint]

\* USBHostHIDTransfer on interface n; read is its direction.  The state it refuses in
\* is neither WAITING_FOR_REQ nor the first substate of any other.
Transfer(read, n) ==
  /\ Attached
  /\ pCurrInterfaceDetails' = IndexOf(n)
  /\ IF hid.state # WAITING_FOR_REQ /\ hid.state[2] # 0
     THEN UNCHANGED <<hid, ep, buffer>>
     ELSE IF IndexOf(n) = None
     THEN Undefined /\ UNCHANGED <<ep, buffer>>
     ELSE LET endpoint == IF read THEN In(n)
                          ELSE IF interfaces[IndexOf(n)].out THEN Out(n) ELSE EP0
              started == IF endpoint = EP0 THEN AcceptsDeviceRequest
                         ELSE AcceptsTransfer(endpoint)
              h == TransferInit(hid, endpoint)
          IN IF started
             THEN /\ ep' = Started(endpoint, IF read THEN "read" ELSE "write")
                  /\ hid' = [h EXCEPT !.state = IF read THEN READ_REQ_WAIT
                                                ELSE WRITE_REQ_WAIT]
                  /\ buffer' = IF read THEN NoReport ELSE buffer
             ELSE /\ hid' = [h EXCEPT !.error = "refused", !.state = WAITING_FOR_REQ]
                  /\ UNCHANGED <<ep, buffer>>
  /\ UNCHANGED <<port, usb, interfaces, report>>

USBHostHIDResetDevice ==
  /\ Attached /\ hid.state[1] \notin {DETACHED, INITIALIZE_DEVICE}
  /\ StartReset(hid, ep)
  /\ UNCHANGED <<port, usb, interfaces, pCurrInterfaceDetails, report, buffer>>

\* The endpoint is left at once; endpoint 0 stands for an OUT endpoint that is not
\* there.
USBHostHIDTerminateTransfer(read, n) ==
  /\ Attached
  /\ pCurrInterfaceDetails' = IndexOf(n)
  /\ IF IndexOf(n) = None
     THEN Undefined /\ UNCHANGED ep
     ELSE LET endpoint == IF read THEN In(n)
                          ELSE IF interfaces[IndexOf(n)].out THEN Out(n) ELSE EP0
          IN /\ ep' = [ep EXCEPT ![endpoint].status =
                         IF @ = "busy" THEN "unresolved" ELSE @]
             /\ hid' = [hid EXCEPT !.state = WAITING_FOR_REQ]
  /\ UNCHANGED <<port, usb, interfaces, report, buffer>>

Application ==
  \/ "read" \in AppCalls /\ \E n \in 1 .. MaxInterfaces : Transfer(TRUE, n)
  \/ "write" \in AppCalls /\ \E n \in 1 .. MaxInterfaces : Transfer(FALSE, n)
  \/ "reset" \in AppCalls /\ USBHostHIDResetDevice
  \/ /\ "terminate" \in AppCalls
     /\ \E read \in BOOLEAN, n \in 1 .. MaxInterfaces : USBHostHIDTerminateTransfer(read, n)

-------------------------------------------------------------------------------
(* The bus and the user *)

Answers == port # NoDevice /\ ~usb.detach

\* A read ends with the whole report, or with nothing when the device has none: it
\* answers NAK, which is no error for an interrupt endpoint.
TransferSucceeds(e) ==
  /\ "ok" \in Results /\ ep[e].status = "busy" /\ Answers
  /\ ep[e].for = "descriptor" => hid.descriptor \in DOMAIN port
  /\ \E bytes \in IF ep[e].for = "read" THEN {0, port[e[2]].size} ELSE {0} :
       /\ ep' = [ep EXCEPT ![e].status = "ok", ![e].bytes = bytes]
       /\ buffer' = IF bytes # 0 THEN [device |-> port, interface |-> e[2]] ELSE buffer
  /\ UNCHANGED <<port, usb, hid, interfaces, pCurrInterfaceDetails, report>>

TransferFails(e, how) ==
  /\ how \in Results \ {"ok"} /\ ep[e].status = "busy"
  /\ how = "stalled" => Answers
  /\ ep' = [ep EXCEPT ![e].status = how]
  /\ UNCHANGED <<port, usb, hid, interfaces, pCurrInterfaceDetails, report, buffer>>

Bus == \E e \in Endpoints :
         TransferSucceeds(e) \/ \E how \in {"stalled", "error"} : TransferFails(e, how)

PlugIn(d) ==
  /\ port = NoDevice /\ port' = d
  /\ UNCHANGED <<usb, ep, hid, interfaces, pCurrInterfaceDetails, report, buffer>>

Unplug ==
  /\ port # NoDevice /\ port' = NoDevice
  /\ usb' = [usb EXCEPT !.detach = usb.status # "DETACHED"]
  /\ UNCHANGED <<ep, hid, interfaces, pCurrInterfaceDetails, report, buffer>>

User == Unplug \/ \E d \in Devices : PlugIn(d)

-------------------------------------------------------------------------------
Init ==
  /\ port = NoDevice
  /\ usb = [status |-> "DETACHED", device |-> NoDevice, detach |-> FALSE]
  /\ ep = [e \in Endpoints |-> NoTransfer]
  /\ hid = [address |-> 0, state |-> <<DETACHED, 0>>, bfReset |-> FALSE,
            collected |-> FALSE, error |-> "none", bytes |-> 0, endpoint |-> EP0,
            descriptor |-> 0]
  /\ interfaces = <<>> /\ pCurrInterfaceDetails = None
  /\ report = NoReport /\ buffer = NoReport

Next == \/ hid.state[1] # UNDEFINED /\ (USBHostTasks \/ USBHostHIDTasks \/ Application)
        \/ Bus \/ User

Spec == Init /\ [][Next]_vars

===============================================================================
