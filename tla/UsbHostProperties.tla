--------------------------- MODULE UsbHostProperties ---------------------------
(* What must hold of the USB host stack. *)
EXTENDS UsbHost

HoldErrors == {"OUT_OF_MEMORY", "UNSUPPORTED_DEVICE", "UNSUPPORTED_HUB",
               "CLIENT_INIT_ERROR", "CANNOT_ENUMERATE"}
Configurations == [from : Devices \cup {NoDevice}, number : 0 .. 255]

(* Every variable has the type its declaration in usb_host.c gives it. *)
TypeOK ==
  /\ port \in [device : Devices \cup {NoDevice}, listens : NotReset .. 1,
               DETACHIF : BOOLEAN]
  /\ module \in [powered : BOOLEAN, ATTACHIE : BOOLEAN, DETACHIE : BOOLEAN,
                 timer : 0 .. WaitTime]
  /\ pc \in {"idle", "clear", "run", "crashed"}
  /\ usbHostState \in (0 .. 5) \X (0 .. 4) \X (0 .. 5)
  /\ usbOverrideHostState \in {NoState, INITIALIZE, START_SETTLING_DELAY}
  /\ tries \in [command : 0 .. 255, enumeration : 0 .. 255]
  /\ ep0 \in [status : {"busy", "done", "failed"}, from : Devices \cup {NoDevice}]
  /\ info.deviceAddress \in 0 .. 1 /\ info.deviceAddressAndSpeed \in 0 .. 1
  /\ info.descriptor \in Devices \cup {NoDevice}
  /\ info.configurations \in Seq(Configurations)
  /\ info.countConfigurations \in Nat /\ info.currentConfiguration \in 0 .. 255
  /\ info.interfaces \in BOOLEAN /\ info.errorCode \in HoldErrors \cup {"none"}
  /\ client \in BOOLEAN /\ bPowerGoodPort0 \in BOOLEAN

(* A command that is waited for is within its budget of attempts, and so is the
   enumeration it belongs to: no counter is decremented past zero and wraps, which
   would retry for ever. *)
BudgetsLast ==
  usbHostState \in CommandWaits =>
    tries.command \in 1 .. CommandTries /\ tries.enumeration \in 1 .. EnumerationTries

(* Once the detached state is initialised the client driver has been told that its
   device is gone, whatever was going on when the detach came. *)
ClientReleased ==
  InState(DETACHED) /\ ~InSubState(INITIALIZE) => ~client

(* A running device is in a configuration its client driver supports, that client
   driver has been given it, and it has its own address. *)
RunsSupportedConfiguration ==
  InState(RUNNING) =>
    /\ client /\ info.interfaces
    /\ info.deviceAddress = USB_SINGLE_DEVICE_ADDRESS
    /\ info.deviceAddressAndSpeed = info.deviceAddress
    /\ \E i \in DOMAIN info.configurations :
         /\ info.configurations[i].number = info.currentConfiguration
         /\ info.currentConfiguration \in info.configurations[i].from.supported

(* The configurations a device is configured from are its own, also when devices are
   swapped in the middle of an enumeration. *)
EnumeratesOneDevice ==
  (InState(CONFIGURING) /\ ~InSubState(INIT_CONFIGURATION)) \/ InState(RUNNING) =>
    \A i \in DOMAIN info.configurations : info.configurations[i].from = info.descriptor

(* The configuration list has each configuration at most once, the lowest first, so
   that the first one that parses is the lowest supported one. *)
LowestConfigurationFirst ==
  \A i, j \in DOMAIN info.configurations :
    i < j => info.configurations[i].number < info.configurations[j].number

(* What a device is run with, whatever was refused, retried, swapped or configured again
   on the way: the lowest configuration of its own that a client driver supports. *)
HostInvariant == TypeOK /\ RunsSupportedConfiguration /\ LowestConfigurationFirst

(* The timer interrupt steps the state machine only out of the states that wait for
   it, or out of a detached state, where the step is ignored. *)
TimerOnlyInWaits ==
  module.timer > 0 /\ module.powered =>
    usbHostState \in TimerWaits \/ InState(DETACHED)

(* USBHostDeviceStatus *)
USBHostDeviceStatus ==
  IF InState(DETACHED) THEN "DETACHED"
  ELSE IF InState(RUNNING)
       THEN IF usbHostState[2] = SUSPEND[2] THEN "SUSPENDED" ELSE "ATTACHED"
       ELSE IF InState(HOLDING) THEN info.errorCode ELSE "ENUMERATING"

Lifecycle == INSTANCE UsbLifecycle WITH Errors <- HoldErrors, status <- USBHostDeviceStatus

(* The stack implements the life cycle its status function shows to the application. *)
ImplementsLifecycle == Lifecycle!Spec

-------------------------------------------------------------------------------
(* What the comments say of the stack, and it does not do *)

(* usb_common.h: after an overcurrent no power is applied to the port until the
   application says that power is available again. *)
OvercurrentUntilAvailable ==
  [][InSubState(INITIALIZE) /\ ~bPowerGoodPort0 => ~bPowerGoodPort0' \/ VbusPowerAvailable]_vars

(* usb_host.c: an enumeration that failed is tried again from a bus reset, so its first
   command goes to the address every device has after a reset. *)
RetryReachesDevice ==
  usbHostState = WaitFor(SEND_GET_DEVICE_DESCRIPTOR_SIZE) /\ port.listens = 0
    => info.deviceAddressAndSpeed = 0

(* usb_host.c: choosing an invalid configuration puts the device on hold; it never
   makes the state machine follow a null pointer. *)
InvalidConfigurationHolds == pc # "crashed"

(* usb_host.h: when the tries of an enumeration are used up the state is DETACHED. *)
GivesUpDetached == tries.enumeration = 0 => InState(DETACHED)

-------------------------------------------------------------------------------
(* Liveness *)

(* A device that stays plugged in ends up running or on hold, however often the
   application sets its configuration again, unless the timer of a resume is still
   running when it does and steps the enumeration (see TimerOnlyInWaits). *)
AttachedDeviceSettles ==
  []TimerOnlyInWaits =>
    (port.device # NoDevice ~>
       (port.device = NoDevice \/ InState(RUNNING) \/ InState(HOLDING)))

(* A device that is unplugged and stays away is noticed wherever the state machine is:
   the host ends up waiting for the next one. *)
DetachIsNoticed ==
  port.device = NoDevice ~> (port.device # NoDevice \/ InSubState(WAIT_FOR_DEVICE))
================================================================================
