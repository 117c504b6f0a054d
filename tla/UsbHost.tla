-------------------------------- MODULE UsbHost --------------------------------
(***************************************************************************)
(* The USB host stack of Lab 7 (usb_host.c): the state machine that        *)
(* USBHostTasks runs from the main loop to power the port, enumerate an    *)
(* attached device and hand it to the client driver, together with the     *)
(* interrupt handler that attaches, detaches and times it, and the calls   *)
(* an application may make.                                                *)
(*                                                                         *)
(* A call of USBHostTasks is three steps: it takes the state an interrupt  *)
(* asked for, clears that request, and runs the code of the state.  An     *)
(* interrupt may come between any two of them.  A control transfer is a    *)
(* command that is sent and later ends well or badly; module UsbTransfer   *)
(* has the tokens it is made of.                                           *)
(***************************************************************************)
EXTENDS Integers, Sequences

CONSTANTS
  CommandTries,      \* USB_NUM_COMMAND_TRIES
  EnumerationTries,  \* USB_NUM_ENUMERATION_TRIES
  WaitTime,          \* milliseconds of every timed wait (each has its own in the code)
  Devices,           \* the devices that may be plugged in: see DeviceAssumption
  DetachIsLevel,     \* does the detach flag come back while nothing is attached?
  PowerAnswers,      \* the answers the application may give to a power request
  ClientAnswers,     \* the answers the client driver's Initialize may give
  MemoryAnswers,     \* TRUE: malloc may succeed; FALSE: it may fail
  AppCalls,          \* the API calls the application makes
  ChosenConfigurations, \* what it may pass to USBHostSetDeviceConfiguration
  NoState, NoDevice

(* hub: the device is a hub; low: it is a low-speed one; configs: its      *)
(* bNumConfigurations; supported: the configurations with an interface of  *)
(* a class the client driver supports.                                     *)
ASSUME DeviceAssumption ==
  \A d \in Devices : /\ d.hub \in BOOLEAN /\ d.low \in BOOLEAN
                     /\ d.configs \in 0 .. 255 /\ d.supported \subseteq 1 .. d.configs
ASSUME BudgetAssumption ==
  /\ CommandTries \in 1 .. 255 /\ EnumerationTries \in 1 .. 255
  /\ WaitTime \in Nat \ {0}
ASSUME AnswersAssumption ==
  /\ PowerAnswers \subseteq BOOLEAN /\ ClientAnswers \subseteq BOOLEAN
  /\ MemoryAnswers \subseteq BOOLEAN /\ DetachIsLevel \in BOOLEAN
ASSUME NoDeviceAssumption == NoDevice \notin Devices
ASSUME ChosenAssumption == ChosenConfigurations \subseteq 0 .. 255

VARIABLES
  port,          \* [device: what is plugged in, listens: the address it answers to,
                 \*  DETACHIF: the detach interrupt flag]
  module,        \* [powered: U1PWRC, ATTACHIE and DETACHIE: interrupt enables,
                 \*  timer: numTimerInterrupts, 0 when T1MSECIE is off]
  pc,            \* where USBHostTasks is: "idle", "clear", "run", or "crashed" after
                 \* following a null pointer
  usbHostState,  \* <<state, substate, subsubstate>>
  usbOverrideHostState,
  tries,         \* [command: numCommandTries, enumeration: numEnumerationTries]
  ep0,           \* endpoint 0's last transfer: [status: "busy", "done" or "failed",
                 \*  from: the device that answered it]
  info,          \* the fields of usbDeviceInfo, and countConfigurations
  client,        \* the client driver has been given the device
  bPowerGoodPort0

vars == <<port, module, pc, usbHostState, usbOverrideHostState, tries, ep0, info,
          client, bPowerGoodPort0>>

NoTransfer == [status |-> "failed", from |-> NoDevice]   \* complete, without success
NotReset == -1   \* what a device listens to before its first bus reset: nothing
USB_SINGLE_DEVICE_ADDRESS == 1

-------------------------------------------------------------------------------
(* States: <<state, substate, subsubstate>>, the three digits of usbHostState. *)

DETACHED == 0
ATTACHED == 1
ADDRESSING == 2
CONFIGURING == 3
RUNNING == 4
HOLDING == 5

INITIALIZE      == <<DETACHED, 0, 0>>
WAIT_FOR_POWER  == <<DETACHED, 1, 0>>
TURN_ON_POWER   == <<DETACHED, 2, 0>>
WAIT_FOR_DEVICE == <<DETACHED, 3, 0>>
START_SETTLING_DELAY == <<ATTACHED, 0, 0>>
WAIT_FOR_SETTLING    == <<ATTACHED, 0, 1>>
SETTLING_DONE        == <<ATTACHED, 0, 2>>
SET_RESET            == <<ATTACHED, 1, 0>>
RESET_WAIT           == <<ATTACHED, 1, 1>>
RESET_RECOVERY       == <<ATTACHED, 1, 2>>
RECOVERY_WAIT        == <<ATTACHED, 1, 3>>
RESET_COMPLETE       == <<ATTACHED, 1, 4>>
SEND_GET_DEVICE_DESCRIPTOR_SIZE == <<ATTACHED, 2, 0>>
SEND_GET_DEVICE_DESCRIPTOR      == <<ATTACHED, 3, 0>>
VALIDATE_VID_PID                == <<ATTACHED, 4, 0>>
SEND_SET_DEVICE_ADDRESS         == <<ADDRESSING, 0, 0>>
INIT_CONFIGURATION              == <<CONFIGURING, 0, 0>>
SEND_GET_CONFIG_DESCRIPTOR_SIZE == <<CONFIGURING, 1, 0>>
SEND_GET_CONFIG_DESCRIPTOR      == <<CONFIGURING, 2, 0>>
SELECT_CONFIGURATION            == <<CONFIGURING, 3, 0>>
SEND_SET_OTG                    == <<CONFIGURING, 3, 1>>
SEND_SET_CONFIGURATION          == <<CONFIGURING, 4, 0>>
INIT_CLIENT_DRIVERS             == <<CONFIGURING, 4, 3>>
NORMAL_RUN           == <<RUNNING, 0, 0>>
SUSPEND              == <<RUNNING, 1, 0>>
RESUME               == <<RUNNING, 1, 1>>
RESUME_WAIT          == <<RUNNING, 1, 2>>
RESUME_RECOVERY      == <<RUNNING, 1, 3>>
RESUME_RECOVERY_WAIT == <<RUNNING, 1, 4>>
RESUME_COMPLETE      == <<RUNNING, 1, 5>>
HOLD_INIT            == <<HOLDING, 0, 0>>
HOLD                 == <<HOLDING, 1, 0>>

NextState(s)        == <<s[1] + 1, 0, 0>>
NextSubState(s)     == <<s[1], s[2] + 1, 0>>
NextSubSubState(s)  == <<s[1], s[2], s[3] + 1>>
FirstSubSubState(s) == <<s[1], s[2], 0>>

ASSUME NoStateAssumption == NoState \notin {INITIALIZE, START_SETTLING_DELAY}

\* The states that send a command; each is followed by one that waits for the
\* command's end and one that deals with its answer.
Sends == {SEND_GET_DEVICE_DESCRIPTOR_SIZE, SEND_GET_DEVICE_DESCRIPTOR,
          SEND_SET_DEVICE_ADDRESS, SEND_GET_CONFIG_DESCRIPTOR_SIZE,
          SEND_GET_CONFIG_DESCRIPTOR, SEND_SET_CONFIGURATION}
WaitFor(send) == NextSubSubState(send)
DoneWith(send) == NextSubSubState(WaitFor(send))
WAIT_FOR_SET_OTG_DONE == WaitFor(SEND_SET_OTG)
CommandWaits == {WaitFor(s) : s \in Sends} \cup {WAIT_FOR_SET_OTG_DONE}

\* The states that wait for the timer.
TimerWaits == {WAIT_FOR_SETTLING, RESET_WAIT, RECOVERY_WAIT, RESUME_WAIT,
               RESUME_RECOVERY_WAIT}

InState(digit) == usbHostState[1] = digit
InSubState(s)  == usbHostState[1] = s[1] /\ usbHostState[2] = s[2]

-------------------------------------------------------------------------------
(* Pieces of several states *)

\* Writing a 1 to the detach flag clears it; the module may raise it again at once.
FlagCleared == [port EXCEPT !.DETACHIF = DetachIsLevel /\ port.device = NoDevice]

InitErrorCounters == [tries EXCEPT !.command = CommandTries]

\* All descriptors and interface lists are freed, the addresses forgotten.
InfoAfterInit ==
  [info EXCEPT !.deviceAddress = 0, !.deviceAddressAndSpeed = 0,
               !.descriptor = NoDevice, !.configurations = <<>>, !.interfaces = FALSE]

\* A bug: the event is sent after the interfaces are freed.
MutDetachEventAfterFree == client /\ ~(info.deviceAddress # 0 /\ InfoAfterInit.interfaces)

\* EVENT_DETACH goes to the client driver of every interface in the list.
ClientAfterDetachEvent == client /\ ~(info.deviceAddress # 0 /\ info.interfaces)

Hold(error) ==
  /\ usbHostState' = HOLD_INIT
  /\ info' = [info EXCEPT !.errorCode = error]

\* The code of a state runs, as the last step of a call of USBHostTasks.
Run ==
  /\ pc = "run" /\ pc' = "idle"
RunIn(state) == Run /\ usbHostState = state

ArmTimer == module' = [module EXCEPT !.timer = WaitTime]

-------------------------------------------------------------------------------
(* USBHostTasks *)

TakeOverride ==
  /\ pc = "idle"
  /\ IF usbOverrideHostState # NoState
     THEN usbHostState' = usbOverrideHostState /\ pc' = "clear"
     ELSE UNCHANGED usbHostState /\ pc' = "run"
  /\ UNCHANGED <<port, module, usbOverrideHostState, tries, ep0, info, client,
                 bPowerGoodPort0>>

ClearOverride ==
  /\ pc = "clear" /\ pc' = "run"
  /\ usbOverrideHostState' = NoState
  /\ UNCHANGED <<port, module, usbHostState, tries, ep0, info, client,
                 bPowerGoodPort0>>

\* A bug: the timer interrupt is not turned off.
MutInitializeKeepsTimer ==
  /\ Run /\ InSubState(INITIALIZE)
  /\ client' = ClientAfterDetachEvent
  /\ info' = [InfoAfterInit EXCEPT !.currentConfiguration = 0]
  /\ usbOverrideHostState' = NoState
  /\ bPowerGoodPort0' = TRUE
  /\ ep0' = NoTransfer
  /\ tries' = [tries EXCEPT !.enumeration = EnumerationTries]
  /\ module' = [module EXCEPT !.powered = FALSE, !.ATTACHIE = FALSE, !.DETACHIE = FALSE]
  /\ port' = FlagCleared
  /\ usbHostState' = NextSubState(INITIALIZE)

\* USBHostShutdown, then everything about the port and endpoint 0 anew.
Initialize ==
  /\ Run /\ InSubState(INITIALIZE)
  /\ client' = ClientAfterDetachEvent
  /\ info' = [InfoAfterInit EXCEPT !.currentConfiguration = 0]
  /\ usbOverrideHostState' = NoState
  /\ bPowerGoodPort0' = TRUE
  /\ ep0' = NoTransfer
  /\ tries' = [tries EXCEPT !.enumeration = EnumerationTries]
  /\ module' = [powered |-> FALSE, ATTACHIE |-> FALSE, DETACHIE |-> FALSE, timer |-> 0]
  /\ port' = FlagCleared
  /\ usbHostState' = NextSubState(INITIALIZE)

WaitForPower ==
  /\ Run /\ InSubState(WAIT_FOR_POWER)
  /\ bPowerGoodPort0
  /\ usbHostState' = NextSubState(usbHostState)
  /\ UNCHANGED <<port, module, usbOverrideHostState, tries, ep0, info, client,
                 bPowerGoodPort0>>

TurnOnPower ==
  /\ Run /\ InSubState(TURN_ON_POWER)
  /\ \E granted \in PowerAnswers :
       IF granted
       THEN /\ module' = [module EXCEPT !.powered = TRUE, !.ATTACHIE = TRUE]
            /\ usbHostState' = NextSubState(usbHostState)
            /\ UNCHANGED bPowerGoodPort0
       ELSE /\ bPowerGoodPort0' = FALSE
            /\ usbHostState' = WAIT_FOR_POWER
            /\ UNCHANGED module
  /\ UNCHANGED <<port, usbOverrideHostState, tries, ep0, info, client>>

StartSettlingDelay ==
  /\ RunIn(START_SETTLING_DELAY)
  /\ port' = FlagCleared
  /\ module' = [module EXCEPT !.DETACHIE = TRUE, !.timer = WaitTime]
  /\ usbHostState' = NextSubSubState(usbHostState)
  /\ UNCHANGED <<usbOverrideHostState, tries, ep0, info, client, bPowerGoodPort0>>

SettlingDone ==
  /\ RunIn(SETTLING_DONE)
  /\ usbHostState' = NextSubState(usbHostState)
  /\ UNCHANGED <<port, module, usbOverrideHostState, tries, ep0, info, client,
                 bPowerGoodPort0>>

\* A bug: the command counter is not set again.
MutSetResetKeepsTries ==
  /\ RunIn(SET_RESET)
  /\ info' = [info EXCEPT !.currentConfiguration = 0, !.deviceAddressAndSpeed = 0]
  /\ port' = [port EXCEPT !.listens = IF port.device = NoDevice THEN @ ELSE 0]
  /\ ArmTimer
  /\ usbHostState' = NextSubSubState(usbHostState)
  /\ UNCHANGED <<usbOverrideHostState, tries, ep0, client, bPowerGoodPort0>>

\* Only a low-speed device has its token address set here, to address 0.
SetReset ==
  /\ RunIn(SET_RESET)
  /\ \E memory \in MemoryAnswers :
       IF ~memory
       THEN Hold("OUT_OF_MEMORY") /\ UNCHANGED <<port, module, tries>>
       ELSE /\ info' = [info EXCEPT
                 !.currentConfiguration = 0,
                 !.deviceAddressAndSpeed =
                   IF port.device # NoDevice /\ port.device.low THEN 0 ELSE @]
            /\ tries' = InitErrorCounters
            /\ port' = [port EXCEPT !.listens = IF port.device = NoDevice THEN @ ELSE 0]
            /\ ArmTimer
            /\ usbHostState' = NextSubSubState(usbHostState)
  /\ UNCHANGED <<usbOverrideHostState, ep0, client, bPowerGoodPort0>>

ResetRecovery ==
  /\ RunIn(RESET_RECOVERY)
  /\ ArmTimer
  /\ usbHostState' = NextSubSubState(usbHostState)
  /\ UNCHANGED <<port, usbOverrideHostState, tries, ep0, info, client, bPowerGoodPort0>>

ResetComplete ==
  /\ RunIn(RESET_COMPLETE)
  /\ module' = [module EXCEPT !.ATTACHIE = FALSE, !.DETACHIE = TRUE]
  /\ usbHostState' = NextSubState(usbHostState)
  /\ UNCHANGED <<port, usbOverrideHostState, tries, ep0, info, client, bPowerGoodPort0>>

\* Any state that sends a command.  While a token is still under way the state waits: the
\* pass that sends is this one.
Send ==
  /\ Run /\ usbHostState \in Sends
  /\ info' = IF usbHostState = SEND_SET_DEVICE_ADDRESS
             THEN [info EXCEPT !.deviceAddress = USB_SINGLE_DEVICE_ADDRESS] ELSE info
  /\ ep0' = [ep0 EXCEPT !.status = "busy"]
  /\ usbHostState' = NextSubSubState(usbHostState)
  /\ UNCHANGED <<port, module, usbOverrideHostState, tries, client, bPowerGoodPort0>>

\* A bug: enumerations are not counted.
MutRetryForever ==
  LET commands == (tries.command - 1) % 256
  IN /\ tries' = [tries EXCEPT !.command = commands]
     /\ usbHostState' = IF commands # 0 THEN FirstSubSubState(usbHostState) ELSE SET_RESET
     /\ UNCHANGED info

\* A command that failed is sent again, then the device is enumerated again, then
\* the host gives up.  Both counters are bytes.
CheckCommandAndEnumerationAttempts ==
  LET commands == (tries.command - 1) % 256
      enumerations == (tries.enumeration - 1) % 256
  IN IF commands # 0
     THEN /\ tries' = [tries EXCEPT !.command = commands]
          /\ usbHostState' = FirstSubSubState(usbHostState)
          /\ UNCHANGED info
     ELSE /\ tries' = [command |-> 0, enumeration |-> enumerations]
          /\ IF enumerations # 0
             THEN usbHostState' = SET_RESET /\ UNCHANGED info
             ELSE Hold("CANNOT_ENUMERATE")

\* Any state that waits for a command; what was read is in its buffer.
CommandEnded ==
  /\ Run /\ usbHostState \in CommandWaits
  /\ ep0.status # "busy"
  /\ IF ep0.status = "failed"
     THEN CheckCommandAndEnumerationAttempts
     ELSE /\ UNCHANGED tries
          /\ IF usbHostState = WaitFor(SEND_GET_DEVICE_DESCRIPTOR_SIZE) /\ ep0.from.hub
             THEN Hold("UNSUPPORTED_HUB")
             ELSE /\ usbHostState' = NextSubSubState(usbHostState)
                  /\ info' =
                       IF usbHostState = WaitFor(SEND_GET_DEVICE_DESCRIPTOR)
                       THEN [info EXCEPT !.descriptor = ep0.from]
                       ELSE IF usbHostState = WaitFor(SEND_GET_CONFIG_DESCRIPTOR)
                       THEN [info EXCEPT !.configurations[1].from = ep0.from]
                       ELSE info
  /\ UNCHANGED <<port, module, usbOverrideHostState, ep0, client, bPowerGoodPort0>>

DeviceDescriptorSizeComplete ==
  /\ RunIn(DoneWith(SEND_GET_DEVICE_DESCRIPTOR_SIZE))
  /\ \E memory \in MemoryAnswers :
       IF ~memory
       THEN Hold("OUT_OF_MEMORY") /\ UNCHANGED tries
       ELSE /\ tries' = InitErrorCounters
            /\ usbHostState' = NextSubState(usbHostState)
            /\ UNCHANGED info
  /\ UNCHANGED <<port, module, usbOverrideHostState, ep0, client, bPowerGoodPort0>>

DeviceDescriptorComplete ==
  /\ RunIn(DoneWith(SEND_GET_DEVICE_DESCRIPTOR))
  /\ tries' = InitErrorCounters
  /\ usbHostState' = NextSubState(usbHostState)
  /\ UNCHANGED <<port, module, usbOverrideHostState, ep0, info, client, bPowerGoodPort0>>

\* The TPL has no entry for a device or a vendor, only for a class of interfaces.
ValidateVidPid ==
  /\ Run /\ InSubState(VALIDATE_VID_PID)
  /\ usbHostState' = NextState(usbHostState)
  /\ UNCHANGED <<port, module, usbOverrideHostState, tries, ep0, info, client,
                 bPowerGoodPort0>>

SetDeviceAddressComplete ==
  /\ RunIn(DoneWith(SEND_SET_DEVICE_ADDRESS))
  /\ info' = [info EXCEPT !.deviceAddressAndSpeed = info.deviceAddress]
  /\ tries' = InitErrorCounters
  /\ usbHostState' = NextState(usbHostState)
  /\ UNCHANGED <<port, module, usbOverrideHostState, ep0, client, bPowerGoodPort0>>

\* A bug: the old list stays.
MutInitConfigurationKeepsList ==
  /\ Run /\ InSubState(INIT_CONFIGURATION)
  /\ info' = [info EXCEPT !.countConfigurations = info.descriptor.configs]
  /\ usbHostState' = NextSubState(usbHostState)
  /\ UNCHANGED <<port, module, usbOverrideHostState, tries, ep0, client, bPowerGoodPort0>>

InitConfiguration ==
  /\ Run /\ InSubState(INIT_CONFIGURATION)
  /\ info' = [info EXCEPT !.countConfigurations = info.descriptor.configs,
                         !.configurations = <<>>]
  /\ usbHostState' = NextSubState(usbHostState)
  /\ UNCHANGED <<port, module, usbOverrideHostState, tries, ep0, client, bPowerGoodPort0>>

\* Descriptors are requested from the highest to the lowest, each put in front.
ConfigDescriptorSizeComplete ==
  /\ RunIn(DoneWith(SEND_GET_CONFIG_DESCRIPTOR_SIZE))
  /\ \E memory \in MemoryAnswers :
       IF ~memory
       THEN Hold("OUT_OF_MEMORY") /\ UNCHANGED tries
       ELSE /\ info' = [info EXCEPT !.configurations =
                          <<[from |-> ep0.from, number |-> info.countConfigurations]>> \o @]
            /\ tries' = InitErrorCounters
            /\ usbHostState' = NextSubState(usbHostState)
  /\ UNCHANGED <<port, module, usbOverrideHostState, ep0, client, bPowerGoodPort0>>

ConfigDescriptorComplete ==
  /\ RunIn(DoneWith(SEND_GET_CONFIG_DESCRIPTOR))
  /\ tries' = InitErrorCounters
  /\ LET count == (info.countConfigurations - 1) % 256
     IN /\ info' = [info EXCEPT !.countConfigurations = count]
        /\ usbHostState' = IF count # 0 THEN SEND_GET_CONFIG_DESCRIPTOR_SIZE
                           ELSE NextSubState(usbHostState)
  /\ UNCHANGED <<port, module, usbOverrideHostState, ep0, client, bPowerGoodPort0>>

\* _USB_ParseConfigurationDescriptor succeeds for a supported configuration, unless
\* the application refuses its current or malloc fails.
Parseable ==
  LET read == {info.configurations[i] : i \in DOMAIN info.configurations}
      supported == {c \in read : c.number \in c.from.supported}
  IN IF FALSE \in PowerAnswers \cup MemoryAnswers THEN SUBSET supported ELSE {supported}

\* A bug: the first configuration is taken whatever parsing it returns.
MutSelectUnparsed ==
  /\ RunIn(SELECT_CONFIGURATION)
  /\ info.configurations # <<>>
  /\ usbHostState' = NextSubSubState(usbHostState)
  /\ info' = [info EXCEPT !.interfaces = TRUE,
                         !.currentConfiguration = info.configurations[1].number]
  /\ UNCHANGED <<port, module, usbOverrideHostState, tries, ep0, client, bPowerGoodPort0>>

SelectConfiguration ==
  /\ pc = "run" /\ usbHostState = SELECT_CONFIGURATION
  /\ \E parses \in Parseable :
       LET listed == info.configurations
           wanted == {i \in DOMAIN listed :
                        info.currentConfiguration \in {0, listed[i].number}}
           usable == {i \in wanted : listed[i] \in parses}
           first == CHOOSE i \in usable : \A j \in usable : i <= j
           freed == [info EXCEPT !.interfaces = FALSE]
       IN IF info.currentConfiguration # 0 /\ wanted = {}
          THEN pc' = "crashed" /\ info' = freed /\ UNCHANGED usbHostState
          ELSE /\ pc' = "idle"
               /\ IF usable = {}
                  THEN /\ usbHostState' = HOLD_INIT
                       /\ info' = [freed EXCEPT !.errorCode = "UNSUPPORTED_DEVICE"]
                  ELSE /\ usbHostState' = NextSubSubState(usbHostState)
                       /\ info' = [freed EXCEPT !.interfaces = TRUE,
                                     !.currentConfiguration = listed[first].number]
  /\ UNCHANGED <<port, module, usbOverrideHostState, tries, ep0, client, bPowerGoodPort0>>

\* Parsing has left bfConfiguredOTG set: there is nothing to send.
SetOtg ==
  /\ RunIn(SEND_SET_OTG)
  /\ usbHostState' = NextSubState(usbHostState)
  /\ UNCHANGED <<port, module, usbOverrideHostState, tries, ep0, info, client,
                 bPowerGoodPort0>>

\* Sending is skipped, but a late timer interrupt can step the state into the two
\* states that follow it.
SetOtgComplete ==
  /\ RunIn(NextSubSubState(WAIT_FOR_SET_OTG_DONE))
  /\ tries' = InitErrorCounters
  /\ IF info.interfaces
     THEN usbHostState' = NextSubState(usbHostState) /\ UNCHANGED info
     ELSE Hold("UNSUPPORTED_DEVICE")
  /\ UNCHANGED <<port, module, usbOverrideHostState, ep0, client, bPowerGoodPort0>>

SetConfigurationComplete ==
  /\ RunIn(DoneWith(SEND_SET_CONFIGURATION))
  /\ tries' = InitErrorCounters
  /\ usbHostState' = NextSubSubState(usbHostState)
  /\ UNCHANGED <<port, module, usbOverrideHostState, ep0, info, client, bPowerGoodPort0>>

\* A bug: the answer of the client driver is ignored.
MutInitClientUnchecked ==
  /\ RunIn(INIT_CLIENT_DRIVERS)
  /\ \E initialized \in ClientAnswers : client' = initialized
  /\ usbHostState' = NextState(usbHostState)
  /\ UNCHANGED <<port, module, usbOverrideHostState, tries, ep0, info, bPowerGoodPort0>>

\* The client driver is asked for each interface, also after it has refused one.
InitClientDrivers ==
  /\ RunIn(INIT_CLIENT_DRIVERS)
  /\ \E answers \in IF info.interfaces THEN (SUBSET ClientAnswers) \ {{}} ELSE {{}} :
       /\ client' = (client \/ TRUE \in answers)
       /\ IF FALSE \in answers
          THEN Hold("CLIENT_INIT_ERROR")
          ELSE usbHostState' = NextState(usbHostState) /\ UNCHANGED info
  /\ UNCHANGED <<port, module, usbOverrideHostState, tries, ep0, bPowerGoodPort0>>

\* The two timed steps of resuming.
ResumeSignalling ==
  /\ Run /\ usbHostState \in {RESUME, RESUME_RECOVERY}
  /\ ArmTimer
  /\ usbHostState' = NextSubSubState(usbHostState)
  /\ UNCHANGED <<port, usbOverrideHostState, tries, ep0, info, client, bPowerGoodPort0>>

ResumeComplete ==
  /\ RunIn(RESUME_COMPLETE)
  /\ usbHostState' = NORMAL_RUN
  /\ UNCHANGED <<port, module, usbOverrideHostState, tries, ep0, info, client,
                 bPowerGoodPort0>>

\* A bug: the detach interrupt goes off with the others.
MutHoldDeaf ==
  /\ Run /\ InSubState(HOLD_INIT)
  /\ module' = [module EXCEPT !.ATTACHIE = FALSE, !.DETACHIE = FALSE, !.timer = 0]
  /\ port' = FlagCleared
  /\ usbHostState' = NextSubState(usbHostState)
  /\ UNCHANGED <<usbOverrideHostState, tries, ep0, info, client, bPowerGoodPort0>>

\* Only the detach interrupt is left on.
HoldInit ==
  /\ Run /\ InSubState(HOLD_INIT)
  /\ module' = [module EXCEPT !.ATTACHIE = FALSE, !.DETACHIE = TRUE, !.timer = 0]
  /\ port' = FlagCleared
  /\ usbHostState' = NextSubState(usbHostState)
  /\ UNCHANGED <<usbOverrideHostState, tries, ep0, info, client, bPowerGoodPort0>>

\* The states in which there is nothing to do but wait.
StateWaits ==
  \/ InSubState(WAIT_FOR_POWER) /\ ~bPowerGoodPort0
  \/ InSubState(WAIT_FOR_DEVICE)
  \/ usbHostState \in TimerWaits \cup {SUSPEND}
  \/ usbHostState \in CommandWaits /\ ep0.status = "busy"
  \/ InSubState(NORMAL_RUN)
  \/ InSubState(HOLD)
  \/ usbHostState = NextSubSubState(INIT_CLIENT_DRIVERS)   \* a default: of the code

Wait ==
  /\ Run /\ StateWaits
  /\ UNCHANGED <<port, module, usbHostState, usbOverrideHostState, tries, ep0, info,
                 client, bPowerGoodPort0>>

USBHostTasks ==
  \/ TakeOverride \/ ClearOverride \/ Wait
  \/ Initialize \/ WaitForPower \/ TurnOnPower
  \/ StartSettlingDelay \/ SettlingDone \/ SetReset \/ ResetRecovery \/ ResetComplete
  \/ Send \/ CommandEnded \/ DeviceDescriptorSizeComplete \/ DeviceDescriptorComplete
  \/ ValidateVidPid \/ SetDeviceAddressComplete \/ InitConfiguration
  \/ ConfigDescriptorSizeComplete \/ ConfigDescriptorComplete \/ SelectConfiguration
  \/ SetOtg \/ SetOtgComplete \/ SetConfigurationComplete \/ InitClientDrivers
  \/ ResumeSignalling \/ ResumeComplete \/ HoldInit

-------------------------------------------------------------------------------
(* The interrupt handler, while the module is powered *)

TimerInterrupt ==
  /\ pc # "crashed" /\ module.powered /\ module.timer > 0
  /\ module' = [module EXCEPT !.timer = @ - 1]
  /\ usbHostState' = IF module.timer = 1 THEN NextSubSubState(usbHostState) ELSE usbHostState
  /\ UNCHANGED <<port, pc, usbOverrideHostState, tries, ep0, info, client, bPowerGoodPort0>>

\* The attach flag is up for as long as a device is there.
AttachInterrupt ==
  /\ pc # "crashed" /\ module.powered /\ module.ATTACHIE /\ port.device # NoDevice
  /\ module' = [module EXCEPT !.ATTACHIE = FALSE]
  /\ usbOverrideHostState' = IF usbHostState = WAIT_FOR_DEVICE THEN START_SETTLING_DELAY
                             ELSE usbOverrideHostState
  /\ UNCHANGED <<port, pc, usbHostState, tries, ep0, info, client, bPowerGoodPort0>>

DetachInterrupt ==
  /\ pc # "crashed" /\ module.powered /\ module.DETACHIE /\ port.DETACHIF
  /\ module' = [module EXCEPT !.DETACHIE = FALSE]
  /\ port' = FlagCleared
  /\ usbOverrideHostState' = INITIALIZE
  /\ UNCHANGED <<pc, usbHostState, tries, ep0, info, client, bPowerGoodPort0>>

USB1Interrupt == TimerInterrupt \/ AttachInterrupt \/ DetachInterrupt

-------------------------------------------------------------------------------
(* The application, between two calls of USBHostTasks *)

Calls(name) == pc = "idle" /\ name \in AppCalls

\* The caller passes the address it was given when the device was attached.
KnowsDevice == info.deviceAddress = USB_SINGLE_DEVICE_ADDRESS

USBHostResetDevice ==
  /\ Calls("reset") /\ KnowsDevice /\ ~InState(DETACHED)
  /\ usbHostState' = INITIALIZE
  /\ UNCHANGED <<port, module, pc, usbOverrideHostState, tries, ep0, info, client,
                 bPowerGoodPort0>>

USBHostSuspendDevice ==
  /\ Calls("suspend") /\ KnowsDevice /\ usbHostState = NORMAL_RUN
  /\ usbHostState' = SUSPEND
  /\ UNCHANGED <<port, module, pc, usbOverrideHostState, tries, ep0, info, client,
                 bPowerGoodPort0>>

USBHostResumeDevice ==
  /\ Calls("resume") /\ KnowsDevice /\ usbHostState = SUSPEND
  /\ usbHostState' = NextSubSubState(usbHostState)
  /\ UNCHANGED <<port, module, pc, usbOverrideHostState, tries, ep0, info, client,
                 bPowerGoodPort0>>

USBHostSetDeviceConfiguration(configuration) ==
  /\ Calls("setConfiguration") /\ KnowsDevice /\ InState(RUNNING)
  /\ ep0.status # "busy"
  /\ info' = [info EXCEPT !.currentConfiguration = configuration]
  /\ usbHostState' = SELECT_CONFIGURATION
  /\ UNCHANGED <<port, module, pc, usbOverrideHostState, tries, ep0, client,
                 bPowerGoodPort0>>

\* USBHostVbusEvent with EVENT_VBUS_OVERCURRENT: USBHostShutdown, and no power.
VbusOvercurrent ==
  /\ Calls("overcurrent")
  /\ module' = [module EXCEPT !.powered = FALSE]
  /\ client' = ClientAfterDetachEvent
  /\ info' = InfoAfterInit
  /\ usbHostState' = INITIALIZE
  /\ usbOverrideHostState' = NoState
  /\ bPowerGoodPort0' = FALSE
  /\ UNCHANGED <<port, pc, tries, ep0>>

VbusPowerAvailable ==
  /\ Calls("powerAvailable")
  /\ bPowerGoodPort0' = TRUE
  /\ UNCHANGED <<port, module, pc, usbHostState, usbOverrideHostState, tries, ep0, info,
                 client>>

Application ==
  \/ USBHostResetDevice \/ USBHostSuspendDevice \/ USBHostResumeDevice
  \/ \E c \in ChosenConfigurations : USBHostSetDeviceConfiguration(c)
  \/ VbusOvercurrent \/ VbusPowerAvailable

-------------------------------------------------------------------------------
(* The port: devices come and go, and answer commands or do not *)

PlugIn(d) ==
  /\ port.device = NoDevice
  /\ port' = [port EXCEPT !.device = d, !.listens = NotReset]
  /\ UNCHANGED <<module, pc, usbHostState, usbOverrideHostState, tries, ep0, info, client,
                 bPowerGoodPort0>>

Unplug ==
  /\ port.device # NoDevice
  /\ port' = [device |-> NoDevice, listens |-> NotReset,
              DETACHIF |-> port.DETACHIF \/ module.powered]
  /\ UNCHANGED <<module, pc, usbHostState, usbOverrideHostState, tries, ep0, info, client,
                 bPowerGoodPort0>>

\* A device answers at its address, and has no descriptor beyond its configurations.
Answers ==
  /\ port.device # NoDevice /\ port.listens = info.deviceAddressAndSpeed
  /\ usbHostState \in {WaitFor(SEND_GET_CONFIG_DESCRIPTOR_SIZE),
                        WaitFor(SEND_GET_CONFIG_DESCRIPTOR)}
     => info.countConfigurations \in 1 .. port.device.configs

CommandSucceeds ==
  /\ module.powered /\ ep0.status = "busy" /\ Answers
  /\ ep0' = [status |-> "done", from |-> port.device]
  /\ port' = IF usbHostState = WaitFor(SEND_SET_DEVICE_ADDRESS)
             THEN [port EXCEPT !.listens = info.deviceAddress] ELSE port
  /\ UNCHANGED <<module, pc, usbHostState, usbOverrideHostState, tries, info, client,
                 bPowerGoodPort0>>

\* A stall, too many NAKs or too many errors.
CommandFails ==
  /\ module.powered /\ ep0.status = "busy"
  /\ ep0' = [ep0 EXCEPT !.status = "failed"]
  /\ UNCHANGED <<port, module, pc, usbHostState, usbOverrideHostState, tries, info, client,
                 bPowerGoodPort0>>

Bus == CommandSucceeds \/ CommandFails
User == Unplug \/ \E d \in Devices : PlugIn(d)

-------------------------------------------------------------------------------
Init ==
  /\ port = [device |-> NoDevice, listens |-> NotReset, DETACHIF |-> FALSE]
  /\ module = [powered |-> FALSE, ATTACHIE |-> FALSE, DETACHIE |-> FALSE, timer |-> 0]
  /\ pc = "idle"
  /\ usbHostState = INITIALIZE /\ usbOverrideHostState = NoState
  /\ tries = [command |-> 0, enumeration |-> 0]
  /\ ep0 = NoTransfer
  /\ info = [deviceAddress |-> 0, deviceAddressAndSpeed |-> 0, descriptor |-> NoDevice,
             configurations |-> <<>>, countConfigurations |-> 0,
             currentConfiguration |-> 0, interfaces |-> FALSE, errorCode |-> "none"]
  /\ client = FALSE /\ bPowerGoodPort0 = TRUE 

Next == USBHostTasks \/ USB1Interrupt \/ Application \/ Bus \/ User

Spec == Init /\ [][Next]_vars

\* The main loop calls USBHostTasks forever; an interrupt that is enabled and whose
\* flag stays up is taken; a command ends, its tokens being counted (UsbTransfer).
Fairness ==
  /\ WF_vars(USBHostTasks)
  /\ WF_vars(TimerInterrupt)
  /\ WF_vars(AttachInterrupt) /\ WF_vars(DetachInterrupt)
  /\ WF_vars(Bus)
FairSpec == Spec /\ Fairness

===============================================================================
