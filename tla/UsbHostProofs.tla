------------------------------ MODULE UsbHostProofs ------------------------------
(***************************************************************************)
(* Proofs about the device state machine of the USB host stack, for any    *)
(* devices, any numbers of tries and any time of the waits.                *)
(***************************************************************************)
EXTENDS UsbHostProperties, WellFoundedInduction, TLAPS

-------------------------------------------------------------------------------
(* Who writes what: the steps a proof has to look at. *)

LEMMA PortWriters ==
  ASSUME [Next]_vars, port' # port
  PROVE  \/ Initialize \/ StartSettlingDelay \/ SetReset \/ HoldInit
         \/ DetachInterrupt \/ CommandSucceeds \/ Unplug
         \/ (\E d \in Devices : PlugIn(d))
BY DEF Next, USBHostTasks, USB1Interrupt, Application, Bus, User, vars,
   TakeOverride, ClearOverride, Wait, WaitForPower, TurnOnPower, SettlingDone,
   ResetRecovery, ResetComplete, Send, CommandEnded, DeviceDescriptorSizeComplete,
   DeviceDescriptorComplete, ValidateVidPid, SetDeviceAddressComplete,
   InitConfiguration, ConfigDescriptorSizeComplete, ConfigDescriptorComplete,
   SelectConfiguration, SetOtg, SetOtgComplete, SetConfigurationComplete,
   InitClientDrivers, ResumeSignalling, ResumeComplete, TimerInterrupt,
   AttachInterrupt, USBHostResetDevice, USBHostSuspendDevice, USBHostResumeDevice,
   USBHostSetDeviceConfiguration, VbusOvercurrent, VbusPowerAvailable, CommandFails

(* What the answers of the client driver lead to. *)
LEMMA InitClientCases ==
  ASSUME InitClientDrivers
  PROVE  /\ RunIn(INIT_CLIENT_DRIVERS)
         /\ UNCHANGED <<port, module, usbOverrideHostState, tries, ep0, bPowerGoodPort0>>
         /\ \/ Hold("CLIENT_INIT_ERROR")
            \/ usbHostState' = NextState(usbHostState) /\ UNCHANGED info
BY Zenon DEF InitClientDrivers

LEMMA ModuleWriters ==
  ASSUME [Next]_vars, module' # module
  PROVE  \/ TurnOnPower \/ Initialize \/ StartSettlingDelay \/ SetReset
         \/ ResetRecovery \/ ResetComplete \/ ResumeSignalling \/ HoldInit
         \/ TimerInterrupt \/ AttachInterrupt \/ DetachInterrupt \/ VbusOvercurrent
BY DEF Next, USBHostTasks, USB1Interrupt, Application, Bus, User, vars,
   TakeOverride, ClearOverride, Wait, WaitForPower, SettlingDone, Send, CommandEnded,
   DeviceDescriptorSizeComplete, DeviceDescriptorComplete, ValidateVidPid,
   SetDeviceAddressComplete, InitConfiguration, ConfigDescriptorSizeComplete,
   ConfigDescriptorComplete, SelectConfiguration, SetOtg, SetOtgComplete,
   SetConfigurationComplete, InitClientDrivers, ResumeComplete, USBHostResetDevice,
   USBHostSuspendDevice, USBHostResumeDevice, USBHostSetDeviceConfiguration,
   VbusPowerAvailable, CommandSucceeds, CommandFails, Unplug, PlugIn

LEMMA Endpoint0Writers ==
  ASSUME [Next]_vars, ep0' # ep0
  PROVE  \/ Initialize \/ Send \/ CommandSucceeds \/ CommandFails
BY DEF Next, USBHostTasks, USB1Interrupt, Application, Bus, User, vars,
   TakeOverride, ClearOverride, Wait, WaitForPower, TurnOnPower, StartSettlingDelay,
   SettlingDone, SetReset, ResetRecovery, ResetComplete, CommandEnded,
   DeviceDescriptorSizeComplete, DeviceDescriptorComplete, ValidateVidPid,
   SetDeviceAddressComplete, InitConfiguration, ConfigDescriptorSizeComplete,
   ConfigDescriptorComplete, SelectConfiguration, SetOtg, SetOtgComplete,
   SetConfigurationComplete, InitClientDrivers, ResumeSignalling, ResumeComplete,
   HoldInit, TimerInterrupt, AttachInterrupt, DetachInterrupt, USBHostResetDevice,
   USBHostSuspendDevice, USBHostResumeDevice, USBHostSetDeviceConfiguration,
   VbusOvercurrent, VbusPowerAvailable, Unplug, PlugIn

LEMMA InfoWriters ==
  ASSUME [Next]_vars, info' # info
  PROVE  \/ Initialize \/ SetReset \/ Send \/ CommandEnded
         \/ DeviceDescriptorSizeComplete \/ SetDeviceAddressComplete
         \/ InitConfiguration \/ ConfigDescriptorSizeComplete
         \/ ConfigDescriptorComplete \/ SelectConfiguration \/ SetOtgComplete
         \/ InitClientDrivers \/ VbusOvercurrent
         \/ (\E c \in ChosenConfigurations : USBHostSetDeviceConfiguration(c))
BY DEF Next, USBHostTasks, USB1Interrupt, Application, Bus, User, vars,
   TakeOverride, ClearOverride, Wait, WaitForPower, TurnOnPower, StartSettlingDelay,
   SettlingDone, ResetRecovery, ResetComplete, DeviceDescriptorComplete,
   ValidateVidPid, SetOtg, SetConfigurationComplete, ResumeSignalling, ResumeComplete,
   HoldInit, TimerInterrupt, AttachInterrupt, DetachInterrupt, USBHostResetDevice,
   USBHostSuspendDevice, USBHostResumeDevice, VbusPowerAvailable, CommandSucceeds,
   CommandFails, Unplug, PlugIn

LEMMA ClientWriters ==
  ASSUME [Next]_vars, client' # client
  PROVE  \/ Initialize \/ InitClientDrivers \/ VbusOvercurrent
BY DEF Next, USBHostTasks, USB1Interrupt, Application, Bus, User, vars,
   TakeOverride, ClearOverride, Wait, WaitForPower, TurnOnPower, StartSettlingDelay,
   SettlingDone, SetReset, ResetRecovery, ResetComplete, Send, CommandEnded,
   DeviceDescriptorSizeComplete, DeviceDescriptorComplete, ValidateVidPid,
   SetDeviceAddressComplete, InitConfiguration, ConfigDescriptorSizeComplete,
   ConfigDescriptorComplete, SelectConfiguration, SetOtg, SetOtgComplete,
   SetConfigurationComplete, ResumeSignalling, ResumeComplete, HoldInit,
   TimerInterrupt, AttachInterrupt, DetachInterrupt, USBHostResetDevice,
   USBHostSuspendDevice, USBHostResumeDevice, USBHostSetDeviceConfiguration,
   VbusPowerAvailable, CommandSucceeds, CommandFails, Unplug, PlugIn

LEMMA PowerWriters ==
  ASSUME [Next]_vars, bPowerGoodPort0' # bPowerGoodPort0
  PROVE  \/ Initialize \/ TurnOnPower \/ VbusOvercurrent \/ VbusPowerAvailable
BY DEF Next, USBHostTasks, USB1Interrupt, Application, Bus, User, vars,
   TakeOverride, ClearOverride, Wait, WaitForPower, StartSettlingDelay, SettlingDone,
   SetReset, ResetRecovery, ResetComplete, Send, CommandEnded,
   DeviceDescriptorSizeComplete, DeviceDescriptorComplete, ValidateVidPid,
   SetDeviceAddressComplete, InitConfiguration, ConfigDescriptorSizeComplete,
   ConfigDescriptorComplete, SelectConfiguration, SetOtg, SetOtgComplete,
   SetConfigurationComplete, InitClientDrivers, ResumeSignalling, ResumeComplete,
   HoldInit, TimerInterrupt, AttachInterrupt, DetachInterrupt, USBHostResetDevice,
   USBHostSuspendDevice, USBHostResumeDevice, USBHostSetDeviceConfiguration,
   CommandSucceeds, CommandFails, Unplug, PlugIn

(* Only the selection of a configuration follows a null pointer. *)
LEMMA OnlySelectionCrashes ==
  ASSUME [Next]_vars, pc' = "crashed", pc # "crashed"
  PROVE  SelectConfiguration
BY DEF Next, USBHostTasks, USB1Interrupt, Application, Bus, User, vars, Run, RunIn,
   Calls, TakeOverride, ClearOverride, Wait, Initialize, WaitForPower, TurnOnPower,
   StartSettlingDelay, SettlingDone, SetReset, ResetRecovery, ResetComplete, Send,
   CommandEnded, DeviceDescriptorSizeComplete, DeviceDescriptorComplete,
   ValidateVidPid, SetDeviceAddressComplete, InitConfiguration,
   ConfigDescriptorSizeComplete, ConfigDescriptorComplete, SetOtg, SetOtgComplete,
   SetConfigurationComplete, InitClientDrivers, ResumeSignalling, ResumeComplete,
   HoldInit, TimerInterrupt, AttachInterrupt, DetachInterrupt, USBHostResetDevice,
   USBHostSuspendDevice, USBHostResumeDevice, USBHostSetDeviceConfiguration,
   VbusOvercurrent, VbusPowerAvailable, CommandSucceeds, CommandFails, Unplug, PlugIn

-------------------------------------------------------------------------------
(* Digits of the state, which every definition below is made of. *)
State == usbHostState \in Nat \X Nat \X Nat
At(a, b, c) == usbHostState[1] = a /\ usbHostState[2] = b /\ usbHostState[3] = c

\* From here on the states are their digits.
USE DEF State, At, InState, InSubState,
  NextState, NextSubState, NextSubSubState, FirstSubSubState,
  DETACHED, ATTACHED, ADDRESSING, CONFIGURING, RUNNING, HOLDING,
  INITIALIZE, WAIT_FOR_POWER, TURN_ON_POWER, WAIT_FOR_DEVICE, START_SETTLING_DELAY,
  WAIT_FOR_SETTLING, SETTLING_DONE, SET_RESET, RESET_WAIT, RESET_RECOVERY, RECOVERY_WAIT,
  RESET_COMPLETE, SEND_GET_DEVICE_DESCRIPTOR_SIZE, SEND_GET_DEVICE_DESCRIPTOR,
  VALIDATE_VID_PID, SEND_SET_DEVICE_ADDRESS, INIT_CONFIGURATION,
  SEND_GET_CONFIG_DESCRIPTOR_SIZE, SEND_GET_CONFIG_DESCRIPTOR, SELECT_CONFIGURATION,
  SEND_SET_OTG, SEND_SET_CONFIGURATION, INIT_CLIENT_DRIVERS, NORMAL_RUN, SUSPEND, RESUME,
  RESUME_WAIT, RESUME_RECOVERY, RESUME_RECOVERY_WAIT, RESUME_COMPLETE, HOLD_INIT, HOLD,
  Sends, WaitFor, DoneWith, WAIT_FOR_SET_OTG_DONE, CommandWaits, TimerWaits

-------------------------------------------------------------------------------
(* The budgets, whatever the application calls. *)

ModuleRecord(m) ==
  m = [powered |-> m.powered, ATTACHIE |-> m.ATTACHIE, DETACHIE |-> m.DETACHIE,
       timer |-> m.timer]

(* A bus reset has been made, so that the tries of a command have been counted anew. *)
AfterReset ==
  \/ usbHostState[1] \in 2 .. 4
  \/ /\ usbHostState[1] = 1
     /\ (usbHostState[2] \in 2 .. 4 \/ (usbHostState[2] = 1 /\ usbHostState[3] # 0))

(***************************************************************************)
(* The tries of a command are within their budget after a reset, but for   *)
(* one case: a timer that was left running steps SET_RESET into the wait   *)
(* for the end of the reset, where nothing then ends the wait, as the      *)
(* timer is off.  An attach is asked for only while a device is waited     *)
(* for, when the tries of an enumeration are set.                          *)
(***************************************************************************)
BudgetInvariant ==
  /\ State
  /\ pc \in {"idle", "clear", "run", "crashed"}
  /\ ModuleRecord(module) /\ module.timer \in 0 .. WaitTime
  /\ tries \in [command : 0 .. 255, enumeration : 0 .. 255]
  /\ usbOverrideHostState \in {NoState, INITIALIZE, START_SETTLING_DELAY}
  /\ usbOverrideHostState = START_SETTLING_DELAY =>
       At(0, 3, 0) \/ (pc = "clear" /\ At(1, 0, 0))
  /\ InState(DETACHED) =>
       usbHostState[2] <= 3 /\ (usbHostState[2] # 0 => module.timer = 0 /\ usbHostState[3] = 0)
  /\ pc = "clear" /\ At(1, 0, 0) => module.timer = 0
  /\ ~InSubState(INITIALIZE) /\ ~InState(HOLDING) => tries.enumeration \in 1 .. EnumerationTries
  /\ AfterReset => \/ tries.command \in 1 .. CommandTries
                   \/ At(1, 1, 1) /\ module.timer = 0

LEMMA BudgetStep ==
  ASSUME BudgetInvariant, [Next]_vars
  PROVE  BudgetInvariant'
<1> USE BudgetAssumption, NoStateAssumption
<1> USE DEF BudgetInvariant, AfterReset, InitErrorCounters, Calls, Hold, Run, RunIn,
            StateWaits, CheckCommandAndEnumerationAttempts
<1>1. CASE TakeOverride
  BY <1>1 DEF TakeOverride
<1>2. CASE ClearOverride
  BY <1>2 DEF ClearOverride
<1>3. CASE Wait
  BY <1>3 DEF Wait
<1>4. CASE Initialize
  <2>1. ModuleRecord(module') /\ (module'.timer = 0)
    BY <1>4 DEF Initialize, ModuleRecord, ArmTimer
  <2> QED BY <1>4, <2>1 DEF Initialize
<1>5. CASE WaitForPower
  BY <1>5 DEF WaitForPower
<1>6. CASE TurnOnPower
  <2>1. ModuleRecord(module') /\ (module'.timer = module.timer)
    BY ZenonT(60), <1>6 DEF TurnOnPower, ModuleRecord, ArmTimer
  <2> QED BY <1>6, <2>1 DEF TurnOnPower
<1>7. CASE StartSettlingDelay
  <2>1. ModuleRecord(module') /\ (module'.timer = WaitTime)
    BY <1>7 DEF StartSettlingDelay, ModuleRecord, ArmTimer
  <2> QED BY <1>7, <2>1 DEF StartSettlingDelay
<1>8. CASE SettlingDone
  BY <1>8 DEF SettlingDone
<1>9. CASE SetReset
  <2>1. ModuleRecord(module') /\ (module' = module \/ module'.timer = WaitTime)
    BY <1>9 DEF SetReset, ModuleRecord, ArmTimer
  <2> QED BY <1>9, <2>1 DEF SetReset
<1>10. CASE ResetRecovery
  <2>1. ModuleRecord(module') /\ (module'.timer = WaitTime)
    BY <1>10 DEF ResetRecovery, ModuleRecord, ArmTimer
  <2> QED BY <1>10, <2>1 DEF ResetRecovery
<1>11. CASE ResetComplete
  <2>1. ModuleRecord(module') /\ (module'.timer = module.timer)
    BY <1>11 DEF ResetComplete, ModuleRecord, ArmTimer
  <2> QED BY <1>11, <2>1 DEF ResetComplete
<1>12. CASE Send
  BY <1>12 DEF Send
<1>13. CASE CommandEnded
  <2>1. /\ usbHostState \in CommandWaits
        /\ UNCHANGED <<module, usbOverrideHostState>> /\ pc' = "idle"
        /\ \/ CheckCommandAndEnumerationAttempts
           \/ UNCHANGED tries /\ usbHostState' = HOLD_INIT
           \/ UNCHANGED tries /\ usbHostState' = NextSubSubState(usbHostState)
    BY <1>13 DEF CommandEnded
  <2>2. CASE CheckCommandAndEnumerationAttempts
    <3>1. tries.command \in 1 .. CommandTries /\ tries.enumeration \in 1 .. EnumerationTries
      BY <2>1 
    <3>2. /\ (tries.command - 1) % 256 = tries.command - 1
          /\ (tries.enumeration - 1) % 256 = tries.enumeration - 1
      BY <3>1
    <3>3. CASE tries.command # 1
      <4>1. /\ tries' = [tries EXCEPT !.command = tries.command - 1]
            /\ usbHostState' = FirstSubSubState(usbHostState)
        BY <2>2, <3>1, <3>2, <3>3
      <4>2. usbHostState[1] = 1 => usbHostState[2] \in 2 .. 3
        BY <2>1
      <4> QED BY <2>1, <3>1, <3>3, <4>1, <4>2
    <3>4. CASE tries.command = 1
      <4>1. /\ tries' = [command |-> 0, enumeration |-> tries.enumeration - 1]
            /\ \/ tries.enumeration # 1 /\ usbHostState' = SET_RESET
               \/ usbHostState' = HOLD_INIT
        BY <2>2, <3>1, <3>2, <3>4
      <4>2. tries' \in [command : 0 .. 255, enumeration : 0 .. 255]
        BY <3>1, <4>1
      <4>3. usbOverrideHostState' # START_SETTLING_DELAY
        BY <2>1
      <4>4. CASE usbHostState' = HOLD_INIT
        <5>1. usbHostState' = <<5, 0, 0>>
          BY <4>4
        <5>2. UNCHANGED <<module, usbOverrideHostState>> /\ pc' = "idle"
          BY <2>1
        <5> QED BY <5>1, <5>2, <4>2, <4>3
      <4>5. CASE usbHostState' = SET_RESET /\ tries'.enumeration \in 1 .. EnumerationTries
        BY <2>1, <4>2, <4>3, <4>5
      <4> QED BY <3>1, <4>1, <4>4, <4>5
    <3> QED BY <3>3, <3>4
  <2>3. CASE ~CheckCommandAndEnumerationAttempts
    BY <2>1, <2>3
  <2> QED BY <2>2, <2>3
<1>14. CASE DeviceDescriptorSizeComplete
  BY <1>14 DEF DeviceDescriptorSizeComplete
<1>15. CASE DeviceDescriptorComplete
  BY <1>15 DEF DeviceDescriptorComplete
<1>16. CASE ValidateVidPid
  BY <1>16 DEF ValidateVidPid
<1>17. CASE SetDeviceAddressComplete
  BY <1>17 DEF SetDeviceAddressComplete
<1>18. CASE InitConfiguration
  BY <1>18 DEF InitConfiguration
<1>19. CASE ConfigDescriptorSizeComplete
  <2>1. /\ usbHostState = DoneWith(SEND_GET_CONFIG_DESCRIPTOR_SIZE)
        /\ UNCHANGED <<module, usbOverrideHostState>> /\ pc' = "idle"
        /\ \/ usbHostState' = HOLD_INIT /\ UNCHANGED tries
           \/ usbHostState' = NextSubState(usbHostState) /\ tries' = InitErrorCounters
    BY <1>19 DEF ConfigDescriptorSizeComplete
  <2> QED BY <2>1
<1>20. CASE ConfigDescriptorComplete
  BY <1>20 DEF ConfigDescriptorComplete
<1>21. CASE SelectConfiguration
  BY <1>21 DEF SelectConfiguration
<1>22. CASE SetOtg
  BY <1>22 DEF SetOtg
<1>23. CASE SetOtgComplete
  BY <1>23 DEF SetOtgComplete
<1>24. CASE SetConfigurationComplete
  BY <1>24 DEF SetConfigurationComplete
<1>25. CASE InitClientDrivers
  BY <1>25, InitClientCases
<1>26. CASE ResumeSignalling
  <2>1. ModuleRecord(module') /\ module'.timer = WaitTime
    BY <1>26 DEF ResumeSignalling, ModuleRecord, ArmTimer
  <2> QED BY <1>26, <2>1 DEF ResumeSignalling
<1>27. CASE ResumeComplete
  BY <1>27 DEF ResumeComplete
<1>28. CASE HoldInit
  <2>1. ModuleRecord(module') /\ (module'.timer = 0)
    BY <1>28 DEF HoldInit, ModuleRecord, ArmTimer
  <2> QED BY <1>28, <2>1 DEF HoldInit
<1>29. CASE TimerInterrupt
  <2>1. ModuleRecord(module') /\ (module'.timer = module.timer - 1)
    BY <1>29 DEF TimerInterrupt, ModuleRecord, ArmTimer
  <2> QED BY <1>29, <2>1 DEF TimerInterrupt
<1>30. CASE AttachInterrupt
  <2>1. ModuleRecord(module') /\ (module'.timer = module.timer)
    BY <1>30 DEF AttachInterrupt, ModuleRecord, ArmTimer
  <2> QED BY <1>30, <2>1 DEF AttachInterrupt
<1>31. CASE DetachInterrupt
  <2>1. ModuleRecord(module') /\ (module'.timer = module.timer)
    BY <1>31 DEF DetachInterrupt, ModuleRecord, ArmTimer
  <2> QED BY <1>31, <2>1 DEF DetachInterrupt
<1>32. CASE USBHostResetDevice
  BY <1>32 DEF USBHostResetDevice
<1>33. CASE USBHostSuspendDevice
  BY <1>33 DEF USBHostSuspendDevice
<1>34. CASE USBHostResumeDevice
  BY <1>34 DEF USBHostResumeDevice
<1>35. CASE VbusOvercurrent
  <2>1. ModuleRecord(module') /\ (module'.timer = module.timer)
    BY <1>35 DEF VbusOvercurrent, ModuleRecord, ArmTimer
  <2> QED BY <1>35, <2>1 DEF VbusOvercurrent
<1>36. CASE VbusPowerAvailable
  BY <1>36 DEF VbusPowerAvailable
<1>37. CASE CommandSucceeds
  BY <1>37 DEF CommandSucceeds
<1>38. CASE CommandFails
  BY <1>38 DEF CommandFails
<1>39. CASE Unplug
  BY <1>39 DEF Unplug
<1>40. CASE \E c \in ChosenConfigurations : USBHostSetDeviceConfiguration(c)
  BY <1>40 DEF USBHostSetDeviceConfiguration
<1>41. CASE \E d \in Devices : PlugIn(d)
  BY <1>41 DEF PlugIn
<1>42. CASE UNCHANGED vars
  BY <1>42 DEF vars, ModuleRecord
<1> QED BY <1>1, <1>2, <1>3, <1>4, <1>5, <1>6, <1>7, <1>8, <1>9, <1>10, <1>11, <1>12, <1>13,
  <1>14, <1>15, <1>16, <1>17, <1>18, <1>19, <1>20, <1>21, <1>22, <1>23, <1>24, <1>25, <1>26,
  <1>27, <1>28, <1>29, <1>30, <1>31, <1>32, <1>33, <1>34, <1>35, <1>36, <1>37, <1>38, <1>39,
  <1>40, <1>41, <1>42 DEF Next, USBHostTasks, USB1Interrupt, Application, Bus, User

LEMMA BudgetInit == Init => BudgetInvariant
BY BudgetAssumption, NoStateAssumption
DEF Init, BudgetInvariant, ModuleRecord, AfterReset

(* No counter of tries wraps round, whatever the application calls: a command that is
   waited for has tries left, and so has the enumeration it belongs to. *)
THEOREM BudgetsAreKept == Spec => []BudgetsLast
<1>1. BudgetInvariant => BudgetsLast
  BY DEF BudgetInvariant, BudgetsLast, AfterReset
<1> QED BY BudgetInit, BudgetStep, <1>1, PTL DEF Spec

-------------------------------------------------------------------------------
(* Enumeration, for an application that leaves the configuration to the host. *)

PortRecord(p) == p = [f \in {"device", "listens", "DETACHIF"} |-> p[f]]
InfoRecord(i) ==
  i = [f \in {"deviceAddress", "deviceAddressAndSpeed", "descriptor", "configurations",
              "countConfigurations", "currentConfiguration", "interfaces", "errorCode"}
         |-> i[f]]

(* How far an enumeration has come. *)
HasReset == ~InState(DETACHED) /\ ~InState(HOLDING) /\ AfterReset
HasDescriptor == \/ usbHostState[1] \in 2 .. 4
                 \/ usbHostState[1] = 1 /\ (usbHostState[2] = 4 \/ At(1, 3, 2))
AddressSent == usbHostState[1] \in 3 .. 4 \/ (usbHostState[1] = 2 /\ usbHostState[3] # 0)
HasAddress == usbHostState[1] \in 3 .. 4
Lists == usbHostState[1] = 4 \/ (usbHostState[1] = 3 /\ usbHostState[2] # 0)
HasSelected == \/ usbHostState[1] = 4
               \/ usbHostState[1] = 3 /\ (usbHostState[2] = 4 \/ At(3, 3, 1))
AsksConfiguration(sub) == usbHostState[1] = 3 /\ usbHostState[2] = sub

Typed ==
  /\ PortRecord(port) /\ port.device \in Devices \cup {NoDevice}
  /\ port.listens \in NotReset .. 1 /\ port.DETACHIF \in BOOLEAN
  /\ module.powered \in BOOLEAN /\ module.ATTACHIE \in BOOLEAN /\ module.DETACHIE \in BOOLEAN
  /\ usbHostState \in (0 .. 5) \X (0 .. 4) \X (0 .. 5)
  /\ AsksConfiguration(3) => usbHostState[3] <= 1
  /\ ep0 = [status |-> ep0.status, from |-> ep0.from]
  /\ ep0.status \in {"busy", "done", "failed"} /\ ep0.from \in Devices \cup {NoDevice}
  /\ InfoRecord(info)
  /\ info.deviceAddress \in 0 .. 1 /\ info.deviceAddressAndSpeed \in 0 .. 1
  /\ info.descriptor \in Devices \cup {NoDevice}
  /\ info.configurations \in Seq(Configurations)
  /\ info.countConfigurations \in 0 .. 255 /\ info.currentConfiguration \in 0 .. 255
  /\ info.interfaces \in BOOLEAN /\ info.errorCode \in HoldErrors \cup {"none"}
  /\ client \in BOOLEAN /\ bPowerGoodPort0 \in BOOLEAN

(* The timer runs, and a command is under way, only where they are waited for. *)
Waiting ==
  /\ module.timer > 0 => usbHostState \in TimerWaits \/ At(0, 0, 0)
  /\ ep0.status = "busy" => usbHostState \in CommandWaits \/ InSubState(INITIALIZE)

(* A device that answers has been reset since it was plugged in, so that it is the one
   whose descriptor is known. *)
OneDevice ==
  /\ port.listens # NotReset => port.device \in Devices
  /\ ep0.status = "done" => ep0.from \in Devices
  /\ At(1, 3, 1) /\ ep0.status = "done" /\ port.listens # NotReset => port.device = ep0.from
  /\ HasDescriptor => /\ info.descriptor \in Devices
                      /\ port.listens # NotReset => port.device = info.descriptor
  /\ AddressSent => info.deviceAddress = 1
  /\ HasAddress => info.deviceAddressAndSpeed = 1

(* The configurations read so far, the last of them in front. *)
ListOfDevice ==
  /\ AsksConfiguration(1) \/ AsksConfiguration(2) =>
       /\ usbHostState[3] \in 1 .. 2 /\ ep0.status = "done" => ep0.from = info.descriptor
       /\ usbHostState[3] = 2 => ep0.status = "done"
       /\ \/ AsksConfiguration(2)
          \/ usbHostState[3] \in 1 .. 2 /\ ep0.status = "done"
          => info.countConfigurations \in 1 .. 255
  /\ AsksConfiguration(1) =>
       \A i \in DOMAIN info.configurations :
         info.countConfigurations < info.configurations[i].number
  /\ AsksConfiguration(2) =>
       /\ info.configurations # <<>>
       /\ info.configurations[1].number = info.countConfigurations
  /\ Lists => \A i \in DOMAIN info.configurations :
                info.configurations[i].from = info.descriptor
  /\ LowestConfigurationFirst

Chosen ==
  /\ HasReset /\ ~HasSelected => info.currentConfiguration = 0
  /\ HasSelected =>
       /\ info.interfaces
       /\ \E i \in DOMAIN info.configurations :
            /\ info.configurations[i].number = info.currentConfiguration
            /\ info.currentConfiguration \in info.configurations[i].from.supported
  /\ InState(RUNNING) => client
  /\ client => /\ InState(RUNNING) \/ InState(HOLDING) \/ InSubState(INITIALIZE)
               /\ info.interfaces /\ info.deviceAddress = 1
  /\ pc # "crashed"

EnumerationInvariant == BudgetInvariant /\ Typed /\ Waiting /\ OneDevice /\ ListOfDevice /\ Chosen

NoReconfiguration == "setConfiguration" \notin AppCalls

(* What the steps that read the configurations do to the state. *)
LEMMA SizeCompleteMoves ==
  ASSUME ConfigDescriptorSizeComplete
  PROVE  /\ usbHostState = <<3, 1, 2>> /\ usbHostState' \in {<<3, 2, 0>>, <<5, 0, 0>>}
         /\ pc = "run" /\ pc' = "idle"
         /\ UNCHANGED <<port, module, usbOverrideHostState, ep0, client, bPowerGoodPort0>>
BY DEF ConfigDescriptorSizeComplete, RunIn, Run, Hold

LEMMA DescriptorCompleteMoves ==
  ASSUME ConfigDescriptorComplete
  PROVE  /\ usbHostState = <<3, 2, 2>> /\ usbHostState' \in {<<3, 1, 0>>, <<3, 3, 0>>}
         /\ pc = "run" /\ pc' = "idle"
         /\ UNCHANGED <<port, module, usbOverrideHostState, ep0, client, bPowerGoodPort0>>
BY DEF ConfigDescriptorComplete, RunIn, Run

LEMMA SelectMoves ==
  ASSUME SelectConfiguration
  PROVE  /\ usbHostState = <<3, 3, 0>>
         /\ usbHostState' \in {<<3, 3, 0>>, <<3, 3, 1>>, <<5, 0, 0>>}
         /\ pc = "run" /\ pc' \in {"idle", "crashed"}
         /\ UNCHANGED <<port, module, usbOverrideHostState, tries, ep0, client,
                        bPowerGoodPort0>>
BY DEF SelectConfiguration

LEMMA InitClientMoves ==
  ASSUME InitClientDrivers
  PROVE  usbHostState = <<3, 4, 3>> /\ usbHostState' \in {<<4, 0, 0>>, <<5, 0, 0>>}
BY InitClientCases DEF RunIn, Run, Hold

LEMMA WaitingStep ==
  ASSUME BudgetInvariant, Waiting, [Next]_vars, NoReconfiguration
  PROVE  Waiting'
<1> USE BudgetAssumption, NoStateAssumption
<1> USE DEF BudgetInvariant, Waiting, Calls, Hold, Run, RunIn, StateWaits,
            CheckCommandAndEnumerationAttempts, ArmTimer, NoTransfer, ModuleRecord
<1>1. CASE \/ TakeOverride \/ ClearOverride \/ Wait \/ WaitForPower \/ SettlingDone
           \/ ValidateVidPid \/ SetOtg \/ ResumeComplete \/ USBHostResetDevice
           \/ USBHostSuspendDevice \/ USBHostResumeDevice \/ VbusPowerAvailable
  BY <1>1 DEF TakeOverride, ClearOverride, Wait, WaitForPower, SettlingDone, ValidateVidPid,
     SetOtg, ResumeComplete, USBHostResetDevice, USBHostSuspendDevice, USBHostResumeDevice,
     VbusPowerAvailable
<1>2. CASE \/ DeviceDescriptorSizeComplete \/ DeviceDescriptorComplete
           \/ SetConfigurationComplete \/ SetDeviceAddressComplete \/ InitConfiguration
           \/ SetOtgComplete \/ InitClientDrivers
  <2>1. CASE \/ DeviceDescriptorSizeComplete \/ DeviceDescriptorComplete
             \/ SetConfigurationComplete
    BY <2>1 DEF DeviceDescriptorSizeComplete, DeviceDescriptorComplete,
       SetConfigurationComplete
  <2>2. CASE SetDeviceAddressComplete \/ InitConfiguration
    BY <2>2 DEF SetDeviceAddressComplete, InitConfiguration
  <2>3. CASE SetOtgComplete
    BY <2>3 DEF SetOtgComplete
  <2>4. CASE InitClientDrivers
    BY <2>4 DEF InitClientDrivers
  <2> QED BY <1>2, <2>1, <2>2, <2>3, <2>4
<1>10. CASE ConfigDescriptorSizeComplete \/ ConfigDescriptorComplete \/ SelectConfiguration
  BY <1>10, SizeCompleteMoves, DescriptorCompleteMoves, SelectMoves
<1>3. CASE \/ TurnOnPower \/ StartSettlingDelay \/ ResetRecovery \/ ResetComplete
           \/ ResumeSignalling \/ HoldInit
  <2>1. /\ usbHostState \notin TimerWaits \cup CommandWaits /\ ~InSubState(INITIALIZE)
        /\ UNCHANGED ep0
    BY <1>3 DEF TurnOnPower, StartSettlingDelay, ResetRecovery, ResetComplete,
       ResumeSignalling, HoldInit
  <2>2. \/ module'.timer = module.timer \/ module'.timer = 0
        \/ usbHostState' \in TimerWaits
    <3>1. CASE TurnOnPower \/ ResetComplete
      BY <3>1 DEF TurnOnPower, ResetComplete
    <3>2. CASE StartSettlingDelay \/ ResetRecovery \/ ResumeSignalling
      BY <3>2 DEF StartSettlingDelay, ResetRecovery, ResumeSignalling
    <3>3. CASE HoldInit
      BY <3>3 DEF HoldInit
    <3> QED BY <1>3, <3>1, <3>2, <3>3
  <2> QED BY <2>1, <2>2
<1>4. CASE \/ TimerInterrupt \/ AttachInterrupt \/ DetachInterrupt
  BY <1>4 DEF TimerInterrupt, AttachInterrupt, DetachInterrupt
<1>5. CASE \/ Initialize \/ SetReset \/ VbusOvercurrent
  BY <1>5 DEF Initialize, SetReset, VbusOvercurrent
<1>6. CASE Send \/ CommandEnded
  BY <1>6 DEF Send, CommandEnded
<1>7. CASE CommandSucceeds \/ CommandFails \/ Unplug \/ \E d \in Devices : PlugIn(d)
  BY <1>7 DEF CommandSucceeds, CommandFails, Unplug, PlugIn
<1>8. CASE UNCHANGED vars
  BY <1>8 DEF vars
<1>9. ASSUME NEW c, USBHostSetDeviceConfiguration(c) PROVE FALSE
  BY <1>9 DEF USBHostSetDeviceConfiguration, NoReconfiguration
<1> QED BY <1>1, <1>2, <1>10, <1>3, <1>4, <1>5, <1>6, <1>7, <1>8, <1>9
        DEF Next, USBHostTasks, USB1Interrupt, Application, Bus, User

(***************************************************************************)
(* The stages of an enumeration, and the one step that leads into each;    *)
(* the rest of what a step does to the state keeps the stage or leaves it. *)
(***************************************************************************)
Stages ==
  /\ usbHostState' \in (0 .. 5) \X (0 .. 4) \X (0 .. 5)
  /\ AsksConfiguration(3)' => usbHostState'[3] <= 1
  /\ HasReset' => HasReset \/ SetReset
  /\ HasDescriptor' => HasDescriptor \/ (CommandEnded /\ At(1, 3, 1) /\ ep0.status = "done")
  /\ At(1, 3, 1)' => At(1, 3, 1) \/ Send
  /\ AddressSent' => AddressSent \/ (Send /\ At(2, 0, 0))
  /\ HasAddress' => HasAddress \/ SetDeviceAddressComplete
  /\ Lists' => Lists \/ InitConfiguration
  /\ AsksConfiguration(1)' =>
       \/ AsksConfiguration(1) /\ usbHostState' = usbHostState
       \/ AsksConfiguration(1) /\ CommandEnded
            /\ (usbHostState'[3] = 0 \/ (At(3, 1, 1) /\ At(3, 1, 2)' /\ ep0.status = "done"))
       \/ Send /\ At(3, 1, 0) /\ At(3, 1, 1)'
       \/ At(3, 1, 0)' /\ (InitConfiguration \/ ConfigDescriptorComplete)
  /\ AsksConfiguration(2)' =>
       \/ AsksConfiguration(2) /\ usbHostState' = usbHostState
       \/ AsksConfiguration(2) /\ CommandEnded
            /\ (usbHostState'[3] = 0 \/ (At(3, 2, 1) /\ At(3, 2, 2)' /\ ep0.status = "done"))
       \/ Send /\ At(3, 2, 0) /\ At(3, 2, 1)'
       \/ At(3, 2, 0)' /\ ConfigDescriptorSizeComplete
  /\ HasSelected' => HasSelected \/ SelectConfiguration
  /\ HasSelected /\ HasReset' => HasSelected'
  /\ InState(RUNNING)' => InState(RUNNING) \/ InitClientDrivers
  /\ InState(RUNNING) => InState(RUNNING)' \/ InSubState(INITIALIZE)'
  /\ InState(HOLDING) => InState(HOLDING)' \/ InSubState(INITIALIZE)'
  /\ InSubState(INITIALIZE) => InSubState(INITIALIZE)' \/ Initialize
  /\ usbHostState'[1] \in 1 .. 3 => usbHostState[1] \in 1 .. 3 \/ At(0, 3, 0)
  /\ InState(HOLDING)' =>
       \/ InState(HOLDING)
       \/ /\ usbHostState[1] \in 1 .. 3
          /\ \/ SetReset \/ CommandEnded \/ DeviceDescriptorSizeComplete
             \/ ConfigDescriptorSizeComplete \/ SelectConfiguration \/ SetOtgComplete
             \/ InitClientDrivers

LEMMA StagesStep ==
  ASSUME BudgetInvariant, Typed, Waiting, [Next]_vars, NoReconfiguration
  PROVE  Stages
<1> USE BudgetAssumption, NoStateAssumption
<1> DEFINE S == usbHostState \in (0 .. 5) \X (0 .. 4) \X (0 .. 5)
               /\ (AsksConfiguration(3) => usbHostState[3] <= 1)
<1>a. S /\ State /\ usbOverrideHostState \in {NoState, INITIALIZE, START_SETTLING_DELAY}
      /\ (usbOverrideHostState = START_SETTLING_DELAY =>
           At(0, 3, 0) \/ (pc = "clear" /\ At(1, 0, 0)))
      /\ (module.timer > 0 => usbHostState \in TimerWaits \/ At(0, 0, 0))
      /\ (InState(DETACHED) =>
           usbHostState[2] <= 3 /\ (usbHostState[2] # 0 => usbHostState[3] = 0))
      /\ pc \in {"idle", "clear", "run", "crashed"}
  BY DEF BudgetInvariant, Typed, Waiting
<1> USE DEF HasReset, HasDescriptor, AddressSent, HasAddress, Lists, HasSelected,
            AsksConfiguration, AfterReset, Stages, Hold, Run, RunIn
<1>1. CASE usbHostState' = usbHostState
  BY <1>1, <1>a
<1>2. CASE TakeOverride
  BY <1>2, <1>a DEF TakeOverride
<1>3. CASE Initialize \/ WaitForPower \/ TurnOnPower
  BY <1>3, <1>a DEF Initialize, WaitForPower, TurnOnPower
<1>4. CASE StartSettlingDelay \/ SettlingDone \/ SetReset \/ ResetRecovery \/ ResetComplete
  BY <1>4, <1>a DEF StartSettlingDelay, SettlingDone, SetReset, ResetRecovery, ResetComplete
<1>5. CASE Send
  BY <1>5, <1>a DEF Send
<1>6. CASE CommandEnded
  <2>1. /\ usbHostState \in CommandWaits
        /\ \/ usbHostState' \in {SET_RESET, HOLD_INIT, FirstSubSubState(usbHostState)}
           \/ ep0.status # "failed" /\ ep0.status # "busy"
                /\ usbHostState' = NextSubSubState(usbHostState)
    BY <1>6 DEF CommandEnded, CheckCommandAndEnumerationAttempts
  <2>2. ep0.status \in {"busy", "done", "failed"}
    BY DEF Typed
  <2> QED BY <1>6, <2>1, <2>2, <1>a
<1>7. CASE DeviceDescriptorSizeComplete \/ DeviceDescriptorComplete \/ ValidateVidPid
           \/ SetDeviceAddressComplete \/ InitConfiguration
  BY <1>7, <1>a DEF DeviceDescriptorSizeComplete, DeviceDescriptorComplete, ValidateVidPid,
     SetDeviceAddressComplete, InitConfiguration
<1>8. CASE ConfigDescriptorSizeComplete \/ ConfigDescriptorComplete \/ SelectConfiguration
  BY <1>8, <1>a, SizeCompleteMoves, DescriptorCompleteMoves, SelectMoves
<1>9. CASE SetOtg \/ SetOtgComplete \/ SetConfigurationComplete \/ InitClientDrivers
  <2>1. CASE SetOtg \/ SetConfigurationComplete
    BY <2>1, <1>a DEF SetOtg, SetConfigurationComplete
  <2>2. CASE SetOtgComplete
    BY <2>2, <1>a DEF SetOtgComplete
  <2>3. CASE InitClientDrivers
    BY <2>3, <1>a, InitClientMoves
  <2> QED BY <1>9, <2>1, <2>2, <2>3
<1>10. CASE ResumeSignalling \/ ResumeComplete \/ HoldInit
  BY <1>10, <1>a DEF ResumeSignalling, ResumeComplete, HoldInit
<1>11. CASE TimerInterrupt
  BY <1>11, <1>a DEF TimerInterrupt
<1>12. CASE USBHostResetDevice \/ USBHostSuspendDevice \/ USBHostResumeDevice \/ VbusOvercurrent
  BY <1>12, <1>a DEF USBHostResetDevice, USBHostSuspendDevice, USBHostResumeDevice,
     VbusOvercurrent, Calls
<1>13. ASSUME NEW c, USBHostSetDeviceConfiguration(c) PROVE FALSE
  BY <1>13 DEF USBHostSetDeviceConfiguration, NoReconfiguration, Calls
<1>14. CASE \/ ClearOverride \/ Wait \/ AttachInterrupt \/ DetachInterrupt
            \/ VbusPowerAvailable \/ CommandSucceeds \/ CommandFails \/ Unplug
            \/ (\E d \in Devices : PlugIn(d)) \/ UNCHANGED vars
  <2>1. usbHostState' = usbHostState
    BY <1>14 DEF ClearOverride, Wait, AttachInterrupt, DetachInterrupt, VbusPowerAvailable,
       CommandSucceeds, CommandFails, Unplug, PlugIn, vars
  <2> QED BY <1>1, <2>1
<1> QED BY <1>2, <1>3, <1>4, <1>5, <1>6, <1>7, <1>8, <1>9, <1>10, <1>11, <1>12, <1>13, <1>14
        DEF Next, USBHostTasks, USB1Interrupt, Application, Bus, User

Less == {pair \in Nat \X Nat : pair[1] < pair[2]}
LEMMA LessIsWellFounded == IsWellFoundedOn(Less, Nat)
BY NatLessThanWellFounded DEF OpToRel, Less

(* A set of numbers has a smallest one. *)
LEMMA Smallest ==
  ASSUME NEW S, S \subseteq Nat, S # {}
  PROVE \E m \in S : \A k \in S : m <= k
<1>1. PICK m \in S : \A k \in S : <<k, m>> \notin Less
  BY LessIsWellFounded, WFMin
<1>2. \A k \in S : ~(k < m)
  BY <1>1 DEF Less
<1> QED BY <1>2

(***************************************************************************)
(* What is selected while no configuration has been asked for: one that    *)
(* the client driver supports, or the device is put on hold.               *)
(***************************************************************************)
LEMMA SelectChooses ==
  ASSUME SelectConfiguration, info.currentConfiguration = 0,
         info.configurations \in Seq(Configurations)
  PROVE  LET freed == [info EXCEPT !.interfaces = FALSE] IN
         /\ pc' = "idle"
         /\ \/ /\ usbHostState' = HOLD_INIT
               /\ info' = [freed EXCEPT !.errorCode = "UNSUPPORTED_DEVICE"]
            \/ \E i \in DOMAIN info.configurations :
                 /\ info.configurations[i].number \in info.configurations[i].from.supported
                 /\ usbHostState' = SEND_SET_OTG
                 /\ info' = [freed EXCEPT !.interfaces = TRUE,
                              !.currentConfiguration = info.configurations[i].number]
<1> DEFINE listed == info.configurations
           freed == [info EXCEPT !.interfaces = FALSE]
           read == {listed[i] : i \in DOMAIN listed}
           supported == {c \in read : c.number \in c.from.supported}
           wanted == {i \in DOMAIN listed : info.currentConfiguration \in {0, listed[i].number}}
           usable(parses) == {i \in wanted : listed[i] \in parses}
           first(parses) == CHOOSE i \in usable(parses) : \A j \in usable(parses) : i <= j
<1>1. \A parses \in Parseable : parses \subseteq supported
  BY DEF Parseable
<1>2. PICK parses \in Parseable :
        IF info.currentConfiguration # 0 /\ wanted = {}
        THEN pc' = "crashed" /\ info' = freed /\ UNCHANGED usbHostState
        ELSE /\ pc' = "idle"
             /\ IF usable(parses) = {}
                THEN /\ usbHostState' = HOLD_INIT
                     /\ info' = [freed EXCEPT !.errorCode = "UNSUPPORTED_DEVICE"]
                ELSE /\ usbHostState' = NextSubSubState(usbHostState)
                     /\ info' = [freed EXCEPT !.interfaces = TRUE,
                                   !.currentConfiguration = listed[first(parses)].number]
  BY DEF SelectConfiguration
<1>3. CASE usable(parses) = {}
  BY <1>2, <1>3
<1>4. CASE usable(parses) # {}
  <2>1. usable(parses) \subseteq Nat
    OBVIOUS
  <2>2. \E i \in usable(parses) : \A j \in usable(parses) : i <= j
    BY <2>1, <1>4, Smallest
  <2>3. first(parses) \in usable(parses)
    BY <2>2
  <2>4. /\ first(parses) \in DOMAIN listed
        /\ listed[first(parses)].number \in listed[first(parses)].from.supported
    BY <2>3, <1>1
  <2>5. /\ pc' = "idle" /\ usbHostState' = SEND_SET_OTG
        /\ info' = [freed EXCEPT !.interfaces = TRUE,
                      !.currentConfiguration = listed[first(parses)].number]
    BY <1>2, <1>4, SelectMoves
  <2> HIDE DEF first
  <2> QED BY <2>4, <2>5
<1> QED BY <1>3, <1>4

LEMMA PrependTyped ==
  ASSUME NEW S, NEW x \in S, NEW q \in Seq(S)
  PROVE  <<x>> \o q \in Seq(S)
OBVIOUS

LEMMA ListedTyped ==
  ASSUME NEW S, NEW q \in Seq(S), NEW i \in DOMAIN q
  PROVE  q[i] \in S
OBVIOUS

LEMMA NumberTyped ==
  ASSUME NEW q \in Seq(Configurations), NEW i \in DOMAIN q
  PROVE  q[i].number \in 0 .. 255 /\ q[i].from \in Devices \cup {NoDevice}
<1>1. q[i] \in [from : Devices \cup {NoDevice}, number : 0 .. 255]
  BY ListedTyped DEF Configurations
<1> QED BY <1>1

LEMMA Prepended ==
  ASSUME NEW S, NEW x \in S, NEW q \in Seq(S)
  PROVE  LET p == <<x>> \o q IN
         /\ DOMAIN p = 1 .. Len(q) + 1 /\ p[1] = x
         /\ \A i \in 2 .. Len(q) + 1 : i - 1 \in DOMAIN q /\ p[i] = q[i - 1]
OBVIOUS

LEMMA Relabelled ==
  ASSUME NEW A, NEW B, NEW q \in Seq([from : A, number : B]), q # <<>>, NEW d \in A
  PROVE  LET p == [q EXCEPT ![1].from = d] IN
         /\ DOMAIN p = DOMAIN q
         /\ \A i \in DOMAIN q : p[i].number = q[i].number /\ p[i].from \in {d, q[i].from}
<1> DEFINE C == [from : A, number : B]
           p == [q EXCEPT ![1].from = d]
<1>1. \A i \in DOMAIN q : q[i] \in C
  BY ListedTyped
<1>2. \A r \in C : [r EXCEPT !.from = d].number = r.number /\ [r EXCEPT !.from = d].from = d
  OBVIOUS
<1>3. \A i \in DOMAIN q : p[i] = IF i = 1 THEN [q[i] EXCEPT !.from = d] ELSE q[i]
  OBVIOUS
<1>4. DOMAIN p = DOMAIN q
  OBVIOUS
<1> HIDE DEF C, p
<1>5. \A i \in DOMAIN q : p[i].number = q[i].number /\ p[i].from \in {d, q[i].from}
  BY ZenonT(60), <1>1, <1>2, <1>3
<1> QED BY <1>4, <1>5 DEF p

LEMMA RelabelTyped ==
  ASSUME NEW A, NEW B, NEW q \in Seq([from : A, number : B]), q # <<>>, NEW d \in A
  PROVE  [q EXCEPT ![1].from = d] \in Seq([from : A, number : B])
<1> DEFINE C == [from : A, number : B]
           relabelled == [q[1] EXCEPT !.from = d]
<1>1. q \in Seq(C) /\ (\A r \in C : [r EXCEPT !.from = d] \in C)
  OBVIOUS
<1> HIDE DEF C
<1>2. q[1] \in C /\ relabelled \in C
  BY <1>1
<1> HIDE DEF relabelled
<1>3. ASSUME NEW p, p = [q EXCEPT ![1] = relabelled] PROVE p \in Seq(C)
  BY <1>1, <1>2, <1>3
<1>4. [q EXCEPT ![1].from = d] = [q EXCEPT ![1] = relabelled]
  BY DEF relabelled
<1> QED BY <1>3, <1>4 DEF C

InfoTyped(i) ==
  /\ InfoRecord(i)
  /\ i.deviceAddress \in 0 .. 1 /\ i.deviceAddressAndSpeed \in 0 .. 1
  /\ i.descriptor \in Devices \cup {NoDevice}
  /\ i.configurations \in Seq(Configurations)
  /\ i.countConfigurations \in 0 .. 255 /\ i.currentConfiguration \in 0 .. 255
  /\ i.interfaces \in BOOLEAN /\ i.errorCode \in HoldErrors \cup {"none"}

LEMMA InfoTypedStep ==
  ASSUME Typed, OneDevice, ListOfDevice, Chosen, [Next]_vars, NoReconfiguration
  PROVE  InfoTyped(info')
<1>1. InfoTyped(info) /\ ep0.from \in Devices \cup {NoDevice}
  BY DEF Typed, InfoTyped
<1>2. CASE info' = info
  BY <1>1, <1>2
<1>3. CASE Initialize \/ VbusOvercurrent
  <2>1. InfoRecord(info') /\ info'.descriptor = NoDevice /\ info'.configurations = <<>>
    BY <1>1, <1>3 DEF InfoTyped, InfoRecord, Initialize, VbusOvercurrent, InfoAfterInit
  <2>2. info'.interfaces \in BOOLEAN
    BY <1>1, <1>3 DEF InfoTyped, InfoRecord, Initialize, VbusOvercurrent, InfoAfterInit
  <2>3. info'.deviceAddress \in 0 .. 1 /\ info'.deviceAddressAndSpeed \in 0 .. 1
    <3>1. info'.deviceAddress = 0 /\ info'.deviceAddressAndSpeed = 0
      BY <1>1, <1>3 DEF InfoTyped, InfoRecord, Initialize, VbusOvercurrent, InfoAfterInit
    <3> QED BY <3>1
  <2>4. info'.countConfigurations \in 0 .. 255 /\ info'.currentConfiguration \in 0 .. 255
    <3>1. info'.countConfigurations = info.countConfigurations
      BY <1>1, <1>3 DEF InfoTyped, InfoRecord, Initialize, VbusOvercurrent, InfoAfterInit
    <3>2. info'.currentConfiguration \in {0, info.currentConfiguration}
      BY <1>1, <1>3 DEF InfoTyped, InfoRecord, Initialize, VbusOvercurrent, InfoAfterInit
    <3>3. info.countConfigurations \in 0 .. 255 /\ info.currentConfiguration \in 0 .. 255
      BY <1>1 DEF InfoTyped
    <3> QED BY <3>1, <3>2, <3>3
  <2>5. info'.errorCode \in HoldErrors \cup {"none"}
    BY <1>1, <1>3 DEF InfoTyped, InfoRecord, Initialize, VbusOvercurrent, InfoAfterInit
  <2>6. <<>> \in Seq(Configurations)
    OBVIOUS
  <2> QED BY <2>1, <2>2, <2>3, <2>4, <2>5, <2>6 DEF InfoTyped
<1>4. CASE \/ SetReset \/ Send \/ DeviceDescriptorSizeComplete \/ SetDeviceAddressComplete
           \/ SetOtgComplete \/ InitClientDrivers
  <2>1. /\ InfoRecord(info')
        /\ info'.deviceAddress \in {1, info.deviceAddress}
        /\ info'.deviceAddressAndSpeed \in
             {0, info.deviceAddress, info.deviceAddressAndSpeed}
        /\ UNCHANGED <<info.descriptor, info.configurations, info.countConfigurations>>
        /\ info'.currentConfiguration \in {0, info.currentConfiguration}
    BY ZenonT(60), <1>1, <1>4 DEF InfoTyped, InfoRecord, SetReset, Send, DeviceDescriptorSizeComplete,
       SetDeviceAddressComplete, SetOtgComplete, InitClientDrivers, Hold,
       USB_SINGLE_DEVICE_ADDRESS
  <2>2. info'.interfaces \in BOOLEAN
    BY <1>1, <1>4 DEF InfoTyped, InfoRecord, SetReset, Send, DeviceDescriptorSizeComplete,
       SetDeviceAddressComplete, SetOtgComplete, InitClientDrivers, Hold
  <2>3. \/ info'.errorCode = info.errorCode
        \/ info'.errorCode \in {"OUT_OF_MEMORY", "UNSUPPORTED_DEVICE", "CLIENT_INIT_ERROR"}
    BY <1>1, <1>4 DEF InfoTyped, InfoRecord, SetReset, Send, DeviceDescriptorSizeComplete,
       SetDeviceAddressComplete, SetOtgComplete, InitClientDrivers, Hold
  <2>4. info'.errorCode \in HoldErrors \cup {"none"}
    BY <1>1, <2>3 DEF InfoTyped, HoldErrors
  <2>5. info.deviceAddress \in 0 .. 1
    BY <1>1 DEF InfoTyped
  <2> QED BY <1>1, <2>1, <2>2, <2>4, <2>5 DEF InfoTyped
<1>5. CASE CommandEnded
  <2>1. \/ info' = info
        \/ \E e \in HoldErrors : info' = [info EXCEPT !.errorCode = e]
        \/ info' = [info EXCEPT !.descriptor = ep0.from]
        \/ info' = [info EXCEPT !.configurations =
                      [info.configurations EXCEPT ![1].from = ep0.from]] /\ At(3, 2, 1)
    BY <1>1, <1>5 DEF CommandEnded, CheckCommandAndEnumerationAttempts, Hold, HoldErrors
  <2>2. CASE \E e \in HoldErrors : info' = [info EXCEPT !.errorCode = e]
    BY <1>1, <2>2 DEF InfoTyped, InfoRecord
  <2>3. CASE info' = [info EXCEPT !.descriptor = ep0.from]
    BY <1>1, <2>3 DEF InfoTyped, InfoRecord
  <2>4. CASE info' = [info EXCEPT !.configurations =
                       [info.configurations EXCEPT ![1].from = ep0.from]] /\ At(3, 2, 1)
    <3>1. info.configurations # <<>>
      BY <2>4 DEF ListOfDevice, AsksConfiguration
    <3>2. [info.configurations EXCEPT ![1].from = ep0.from] \in Seq(Configurations)
      BY ZenonT(60), <1>1, <3>1, RelabelTyped DEF InfoTyped, Configurations
    <3> QED BY <1>1, <2>4, <3>2 DEF InfoTyped, InfoRecord
  <2> QED BY <1>2, <2>1, <2>2, <2>3, <2>4
<1>7. CASE InitConfiguration
  <2>1. info.descriptor.configs \in 0 .. 255
    BY <1>7, DeviceAssumption DEF InitConfiguration, OneDevice, HasDescriptor, Run
  <2>2. <<>> \in Seq(Configurations)
    OBVIOUS
  <2> QED BY <1>1, <1>7, <2>1, <2>2 DEF InitConfiguration, InfoTyped, InfoRecord
<1>8. CASE ConfigDescriptorSizeComplete
  <2> DEFINE new == [from |-> ep0.from, number |-> info.countConfigurations]
             list == <<new>> \o info.configurations
  <2>1. list \in Seq(Configurations)
    BY <1>1, PrependTyped DEF InfoTyped, Configurations
  <2>2. \/ \E e \in HoldErrors : info' = [info EXCEPT !.errorCode = e]
        \/ info' = [info EXCEPT !.configurations = list]
    BY <1>8 DEF ConfigDescriptorSizeComplete, Hold, HoldErrors
  <2> HIDE DEF list
  <2> QED BY ZenonT(60), <1>1, <2>1, <2>2 DEF InfoTyped, InfoRecord
<1>9. CASE ConfigDescriptorComplete
  <2>1. (info.countConfigurations - 1) % 256 \in 0 .. 255
    <3>1. info.countConfigurations \in 0 .. 255
      BY <1>1 DEF InfoTyped
    <3> QED BY <3>1
  <2> QED BY ZenonT(60), <1>1, <1>9, <2>1 DEF ConfigDescriptorComplete, InfoTyped, InfoRecord
<1>10. CASE SelectConfiguration
  <2> DEFINE freed == [info EXCEPT !.interfaces = FALSE]
  <2>1. info.currentConfiguration = 0
    BY <1>10, SelectMoves DEF Chosen, HasReset, HasSelected, AfterReset
  <2>2. InfoTyped(freed) /\ freed.currentConfiguration = info.currentConfiguration
    BY <1>1 DEF InfoTyped, InfoRecord
  <2>3. ASSUME info' = [freed EXCEPT !.errorCode = "UNSUPPORTED_DEVICE"] PROVE InfoTyped(info')
    <3> HIDE DEF freed
    <3> QED BY <2>2, <2>3 DEF InfoTyped, InfoRecord, HoldErrors
  <2>4. ASSUME NEW i \in DOMAIN info.configurations,
               info' = [freed EXCEPT !.interfaces = TRUE,
                          !.currentConfiguration = info.configurations[i].number]
        PROVE  InfoTyped(info')
    <3>2. info.configurations[i].number \in 0 .. 255
      BY <1>1, NumberTyped DEF InfoTyped
    <3> HIDE DEF freed
    <3> QED BY <2>2, <2>4, <3>2 DEF InfoTyped, InfoRecord
  <2> QED BY <1>1, <1>10, <2>1, <2>3, <2>4, SelectChooses DEF InfoTyped
<1>11. ASSUME NEW c, USBHostSetDeviceConfiguration(c) PROVE FALSE
  BY <1>11 DEF USBHostSetDeviceConfiguration, NoReconfiguration, Calls
<1> QED BY InfoWriters, <1>2, <1>3, <1>4, <1>5, <1>7, <1>8, <1>9, <1>10, <1>11

PortTyped(p) ==
  /\ PortRecord(p) /\ p.device \in Devices \cup {NoDevice}
  /\ p.listens \in NotReset .. 1 /\ p.DETACHIF \in BOOLEAN

LEMMA PortTypedStep ==
  ASSUME Typed, [Next]_vars
  PROVE  PortTyped(port')
<1>1. PortTyped(port) /\ info.deviceAddress \in 0 .. 1 /\ module.powered \in BOOLEAN
  BY DEF Typed, PortTyped
<1> USE DEF PortTyped, PortRecord, NotReset
<1>2. CASE port' = port
  BY <1>1, <1>2
<1>3. CASE Initialize \/ StartSettlingDelay \/ HoldInit \/ DetachInterrupt
  BY <1>1, <1>3, AnswersAssumption
     DEF Initialize, StartSettlingDelay, HoldInit, DetachInterrupt, FlagCleared
<1>4. CASE SetReset
  BY <1>1, <1>4 DEF SetReset
<1>5. CASE CommandSucceeds
  BY <1>1, <1>5 DEF CommandSucceeds
<1>6. CASE Unplug
  BY <1>1, <1>6 DEF Unplug
<1>7. ASSUME NEW d \in Devices, PlugIn(d) PROVE PortTyped(port')
  <2>1. /\ PortRecord(port') /\ port'.device = d /\ port'.listens = -1
        /\ port'.DETACHIF = port.DETACHIF
    BY <1>1, <1>7 DEF PlugIn
  <2> QED BY <1>1, <2>1
<1> QED BY PortWriters, <1>2, <1>3, <1>4, <1>5, <1>6, <1>7

LEMMA ModuleTypedStep ==
  ASSUME Typed, ModuleRecord(module), [Next]_vars
  PROVE  module'.powered \in BOOLEAN /\ module'.ATTACHIE \in BOOLEAN /\ module'.DETACHIE \in BOOLEAN
<1>1. module.powered \in BOOLEAN /\ module.ATTACHIE \in BOOLEAN /\ module.DETACHIE \in BOOLEAN
  BY DEF Typed
<1> USE DEF ModuleRecord
<1>2. CASE module' = module
  BY <1>1, <1>2
<1>3. CASE Initialize
  BY <1>1, <1>3 DEF Initialize
<1>8. CASE StartSettlingDelay
  BY <1>1, <1>8 DEF StartSettlingDelay
<1>6. CASE TurnOnPower
  BY <1>1, <1>6 DEF TurnOnPower
<1>7. CASE SetReset
  <2>1. module' = module \/ ArmTimer
    BY <1>7 DEF SetReset
  <2> QED BY <1>1, <1>2, <2>1 DEF ArmTimer
<1>4. CASE ResetRecovery \/ ResetComplete \/ ResumeSignalling \/ HoldInit
  BY <1>1, <1>4 DEF ResetRecovery, ResetComplete, ResumeSignalling, HoldInit, ArmTimer
<1>5. CASE TimerInterrupt \/ AttachInterrupt \/ DetachInterrupt \/ VbusOvercurrent
  BY <1>1, <1>5 DEF TimerInterrupt, AttachInterrupt, DetachInterrupt, VbusOvercurrent
<1> QED BY ModuleWriters, <1>2, <1>3, <1>4, <1>5, <1>6, <1>7, <1>8

LEMMA Endpoint0TypedStep ==
  ASSUME Typed, [Next]_vars
  PROVE  /\ ep0' = [status |-> ep0'.status, from |-> ep0'.from]
         /\ ep0'.status \in {"busy", "done", "failed"} /\ ep0'.from \in Devices \cup {NoDevice}
<1>1. /\ ep0 = [status |-> ep0.status, from |-> ep0.from]
      /\ ep0.status \in {"busy", "done", "failed"} /\ ep0.from \in Devices \cup {NoDevice}
      /\ port.device \in Devices \cup {NoDevice}
  BY DEF Typed
<1>2. CASE ep0' = ep0
  BY <1>1, <1>2
<1>3. CASE Initialize \/ Send \/ CommandSucceeds \/ CommandFails
  BY <1>1, <1>3 DEF Initialize, Send, CommandSucceeds, CommandFails, NoTransfer
<1> QED BY Endpoint0Writers, <1>2, <1>3

LEMMA ClientTypedStep ==
  ASSUME Typed, [Next]_vars
  PROVE  client' \in BOOLEAN /\ bPowerGoodPort0' \in BOOLEAN
<1>1. client \in BOOLEAN /\ bPowerGoodPort0 \in BOOLEAN /\ info.interfaces \in BOOLEAN
  BY DEF Typed
<1>2. client' \in BOOLEAN
  BY <1>1, ClientWriters, AnswersAssumption
     DEF Initialize, InitClientDrivers, VbusOvercurrent, ClientAfterDetachEvent
<1>3. bPowerGoodPort0' \in BOOLEAN
  BY <1>1, PowerWriters DEF Initialize, TurnOnPower, VbusOvercurrent, VbusPowerAvailable
<1> QED BY <1>2, <1>3

LEMMA TypedStep ==
  ASSUME EnumerationInvariant, [Next]_vars, NoReconfiguration
  PROVE  Typed'
<1>1. InfoTyped(info') /\ PortTyped(port')
  BY InfoTypedStep, PortTypedStep DEF EnumerationInvariant
<1>2. Stages
  BY StagesStep DEF EnumerationInvariant
<1>3. ModuleRecord(module)
  BY DEF EnumerationInvariant, BudgetInvariant
<1> QED BY <1>1, <1>2, <1>3, ModuleTypedStep, Endpoint0TypedStep, ClientTypedStep
        DEF Typed, Stages, EnumerationInvariant, InfoTyped, PortTyped

-------------------------------------------------------------------------------
(* Which step writes which field of usbDeviceInfo. *)

InfoSteps ==
  /\ \/ info'.descriptor = info.descriptor
     \/ InState(DETACHED)'
     \/ CommandEnded /\ At(1, 3, 1) /\ info'.descriptor = ep0.from
  /\ \/ info'.deviceAddress = info.deviceAddress
     \/ InState(DETACHED)' /\ (Initialize \/ VbusOvercurrent)
     \/ Send /\ At(2, 0, 0) /\ info'.deviceAddress = 1
  /\ \/ info'.deviceAddressAndSpeed = info.deviceAddressAndSpeed
     \/ InState(DETACHED)' \/ SetReset
     \/ SetDeviceAddressComplete /\ info'.deviceAddressAndSpeed = info.deviceAddress
  /\ \/ info'.configurations = info.configurations
     \/ info'.configurations = <<>> /\ (InState(DETACHED)' \/ InitConfiguration)
     \/ /\ ConfigDescriptorSizeComplete
        /\ info'.configurations =
             <<[from |-> ep0.from, number |-> info.countConfigurations]>> \o info.configurations
     \/ /\ CommandEnded /\ At(3, 2, 1) /\ ep0.status = "done"
        /\ info'.configurations = [info.configurations EXCEPT ![1].from = ep0.from]
  /\ \/ info'.countConfigurations = info.countConfigurations
     \/ InitConfiguration
     \/ ConfigDescriptorComplete
  /\ \/ info'.currentConfiguration = info.currentConfiguration
     \/ InState(DETACHED)'
     \/ SetReset /\ info'.currentConfiguration = 0
     \/ SelectConfiguration

LEMMA InfoStepsHold ==
  ASSUME InfoTyped(info), Typed, Chosen, [Next]_vars, NoReconfiguration
  PROVE  InfoSteps
<1> USE DEF InfoSteps, InfoTyped, InfoRecord
<1>1. CASE info' = info
  BY <1>1
<1>2. CASE Initialize
  BY <1>2 DEF Initialize, InfoAfterInit
<1>3. CASE VbusOvercurrent
  BY <1>3 DEF VbusOvercurrent, InfoAfterInit
<1>4. CASE SetReset
  BY <1>4 DEF SetReset, Hold
<1>5. CASE Send
  BY <1>5 DEF Send, USB_SINGLE_DEVICE_ADDRESS
<1>6. CASE CommandEnded
  <2>1. ep0.status \in {"busy", "done", "failed"}
    BY DEF Typed
  <2>2. \/ info' = info
        \/ \E e : info' = [info EXCEPT !.errorCode = e]
        \/ info' = [info EXCEPT !.descriptor = ep0.from] /\ At(1, 3, 1)
        \/ /\ info' = [info EXCEPT !.configurations =
                         [info.configurations EXCEPT ![1].from = ep0.from]]
           /\ At(3, 2, 1) /\ ep0.status = "done"
    BY <1>6, <2>1 DEF CommandEnded, CheckCommandAndEnumerationAttempts, Hold
  <2> QED BY <1>1, <1>6, <2>2
<1>7. CASE DeviceDescriptorSizeComplete \/ SetOtgComplete \/ InitClientDrivers
  BY <1>7 DEF DeviceDescriptorSizeComplete, SetOtgComplete, InitClientDrivers, Hold
<1>8. CASE SetDeviceAddressComplete
  BY <1>8 DEF SetDeviceAddressComplete
<1>9. CASE InitConfiguration
  BY <1>9 DEF InitConfiguration
<1>10. CASE ConfigDescriptorSizeComplete
  <2> DEFINE list ==
        <<[from |-> ep0.from, number |-> info.countConfigurations]>> \o info.configurations
  <2>1. \/ \E e : info' = [info EXCEPT !.errorCode = e]
        \/ info' = [info EXCEPT !.configurations = list]
    BY <1>10 DEF ConfigDescriptorSizeComplete, Hold
  <2>2. CASE info' = [info EXCEPT !.configurations = list]
    <3>1. info'.configurations = list
      BY <2>2
    <3> HIDE DEF list
    <3>2. /\ UNCHANGED <<info.descriptor, info.deviceAddress, info.deviceAddressAndSpeed>>
          /\ UNCHANGED <<info.countConfigurations, info.currentConfiguration>>
      BY <2>2
    <3> QED BY <1>10, <3>1, <3>2 DEF list
  <2>3. CASE \E e : info' = [info EXCEPT !.errorCode = e]
    BY <2>3
  <2> QED BY <2>1, <2>2, <2>3
<1>11. CASE ConfigDescriptorComplete
  BY <1>11 DEF ConfigDescriptorComplete
<1>12. CASE SelectConfiguration
  <2>1. info.currentConfiguration = 0
    BY <1>12, SelectMoves DEF Chosen, HasReset, HasSelected, AfterReset
  <2>2. \/ \E e : info' = [info EXCEPT !.interfaces = FALSE, !.errorCode = e]
        \/ \E n : info' = [info EXCEPT !.interfaces = TRUE, !.currentConfiguration = n]
    BY <1>12, <2>1, SelectChooses
  <2> QED BY <1>12, <2>2
<1>13. ASSUME NEW c, USBHostSetDeviceConfiguration(c) PROVE FALSE
  BY <1>13 DEF USBHostSetDeviceConfiguration, NoReconfiguration, Calls
<1> QED BY InfoWriters, <1>1, <1>2, <1>3, <1>4, <1>5, <1>6, <1>7, <1>8, <1>9, <1>10, <1>11,
           <1>12, <1>13

(* What the steps that write them do write. *)
LEMMA InfoWrites ==
  ASSUME InfoTyped(info)
  PROVE  /\ CommandEnded /\ At(1, 3, 1) /\ HasDescriptor' => info'.descriptor = ep0.from
         /\ Send /\ At(2, 0, 0) => info'.deviceAddress = 1
         /\ SetDeviceAddressComplete => info'.deviceAddressAndSpeed = info.deviceAddress
         /\ SetReset /\ HasReset' => info'.currentConfiguration = 0
         /\ InitConfiguration =>
              /\ info'.configurations = <<>>
              /\ info'.countConfigurations = info.descriptor.configs
         /\ ConfigDescriptorSizeComplete /\ AsksConfiguration(2)' =>
              info'.configurations =
                <<[from |-> ep0.from, number |-> info.countConfigurations]>> \o info.configurations
         /\ ConfigDescriptorComplete =>
              info'.countConfigurations = (info.countConfigurations - 1) % 256
<1> USE DEF InfoTyped, InfoRecord
<1>1. ASSUME CommandEnded, At(1, 3, 1), HasDescriptor' PROVE info'.descriptor = ep0.from
  <2>1. info' = [info EXCEPT !.descriptor = ep0.from]
    BY <1>1 DEF CommandEnded, CheckCommandAndEnumerationAttempts, Hold, HasDescriptor
  <2> QED BY <2>1
<1>2. ASSUME Send, At(2, 0, 0) PROVE info'.deviceAddress = 1
  BY <1>2 DEF Send, USB_SINGLE_DEVICE_ADDRESS
<1>3. ASSUME SetDeviceAddressComplete PROVE info'.deviceAddressAndSpeed = info.deviceAddress
  BY <1>3 DEF SetDeviceAddressComplete
<1>4. ASSUME SetReset, HasReset' PROVE info'.currentConfiguration = 0
  <2>1. \/ usbHostState' = HOLD_INIT
        \/ info' = [info EXCEPT !.currentConfiguration = 0, !.deviceAddressAndSpeed = 0]
        \/ info' = [info EXCEPT !.currentConfiguration = 0]
    BY <1>4 DEF SetReset, Hold
  <2>2. usbHostState' # HOLD_INIT
    BY <1>4 DEF HasReset
  <2> QED BY <2>1, <2>2
<1>5. ASSUME InitConfiguration
      PROVE  /\ info'.configurations = <<>>
             /\ info'.countConfigurations = info.descriptor.configs
  BY <1>5 DEF InitConfiguration
<1>6. ASSUME ConfigDescriptorSizeComplete, AsksConfiguration(2)'
      PROVE  info'.configurations =
               <<[from |-> ep0.from, number |-> info.countConfigurations]>> \o info.configurations
  BY <1>6 DEF ConfigDescriptorSizeComplete, Hold, AsksConfiguration
<1>7. ASSUME ConfigDescriptorComplete
      PROVE  info'.countConfigurations = (info.countConfigurations - 1) % 256
  BY <1>7 DEF ConfigDescriptorComplete
<1> QED BY <1>1, <1>2, <1>3, <1>4, <1>5, <1>6, <1>7

(* A device that listens has been there since the reset it listens after. *)
LEMMA PortSteps ==
  ASSUME Typed, OneDevice, [Next]_vars
  PROVE  port'.listens # NotReset =>
           /\ port'.device \in Devices /\ port'.device = port.device
           /\ port.listens # NotReset \/ SetReset
<1>1. /\ PortRecord(port) /\ port.listens \in NotReset .. 1
      /\ port.device \in Devices \cup {NoDevice}
      /\ port.listens # NotReset => port.device \in Devices
      /\ info.deviceAddressAndSpeed \in 0 .. 1
  BY DEF Typed, OneDevice
<1> USE DEF PortRecord, NotReset
<1>2. CASE port' = port
  BY <1>1, <1>2
<1>3. CASE Initialize \/ StartSettlingDelay \/ HoldInit \/ DetachInterrupt
  BY <1>1, <1>3 DEF Initialize, StartSettlingDelay, HoldInit, DetachInterrupt, FlagCleared
<1>4. CASE SetReset
  BY <1>1, <1>4 DEF SetReset
<1>5. CASE CommandSucceeds
  BY <1>1, <1>5 DEF CommandSucceeds, Answers
<1>6. CASE Unplug
  BY <1>6 DEF Unplug
<1>7. ASSUME NEW d \in Devices, PlugIn(d) PROVE port'.listens = NotReset
  BY <1>1, <1>7 DEF PlugIn
<1> QED BY PortWriters, <1>2, <1>3, <1>4, <1>5, <1>6, <1>7

(* A command that has just succeeded was answered by the device that is there. *)
LEMMA AnswerSteps ==
  ASSUME Typed, OneDevice, [Next]_vars, ep0'.status = "done"
  PROVE  \/ ep0' = ep0
         \/ /\ CommandSucceeds /\ ep0'.from = port.device /\ port.device \in Devices
            /\ usbHostState' = usbHostState /\ ep0.status = "busy" /\ UNCHANGED info
            /\ port.listens = info.deviceAddressAndSpeed
<1>1. /\ ep0 = [status |-> ep0.status, from |-> ep0.from]
      /\ port.device \in Devices \cup {NoDevice}
  BY DEF Typed
<1>2. Initialize \/ Send \/ CommandFails => ep0'.status # "done"
  BY <1>1 DEF Initialize, Send, CommandFails, NoTransfer
<1>3. CASE CommandSucceeds
  BY <1>1, <1>3 DEF CommandSucceeds, Answers
<1> QED BY <1>2, <1>3, Endpoint0Writers

LEMMA OneDeviceStep ==
  ASSUME EnumerationInvariant, [Next]_vars, NoReconfiguration
  PROVE  OneDevice'
<1>1. Stages /\ InfoSteps
  BY StagesStep, InfoStepsHold DEF EnumerationInvariant, Typed, InfoTyped
<1>2. port'.listens # NotReset =>
        /\ port'.device \in Devices /\ port'.device = port.device
        /\ port.listens # NotReset \/ SetReset
  BY PortSteps DEF EnumerationInvariant
<1>3. ep0'.status = "done" =>
        \/ ep0' = ep0
        \/ /\ ep0'.from = port.device /\ port.device \in Devices
           /\ usbHostState' = usbHostState
  BY AnswerSteps DEF EnumerationInvariant
<1>4. OneDevice /\ State /\ InfoTyped(info)
  BY DEF EnumerationInvariant, BudgetInvariant, Typed, InfoTyped
<1>5. SetReset => ~At(1, 3, 1)' /\ ~HasDescriptor' /\ ~AddressSent' /\ ~HasAddress'
  BY DEF SetReset, RunIn, Hold, HasDescriptor, AddressSent, HasAddress
<1>6. Send => ep0'.status = "busy"
  BY DEF Send, EnumerationInvariant, Typed
<1>7. CommandEnded => UNCHANGED <<port, ep0>>
  BY DEF CommandEnded
<1>8. ep0'.status = "done" => ep0'.from \in Devices
  BY <1>3, <1>4 DEF OneDevice
<1>9. At(1, 3, 1)' /\ ep0'.status = "done" /\ port'.listens # NotReset => port'.device = ep0'.from
  BY <1>1, <1>2, <1>3, <1>4, <1>5, <1>6 DEF OneDevice, Stages
<1>10. ASSUME HasDescriptor'
       PROVE  /\ info'.descriptor \in Devices
              /\ port'.listens # NotReset => port'.device = info'.descriptor
  <2>1. HasDescriptor \/ (CommandEnded /\ At(1, 3, 1) /\ ep0.status = "done")
    BY <1>1, <1>10 DEF Stages
  <2>2. \/ info'.descriptor = info.descriptor
        \/ CommandEnded /\ At(1, 3, 1) /\ info'.descriptor = ep0.from
    BY <1>1, <1>10 DEF InfoSteps, HasDescriptor
  <2>3. At(1, 3, 1) => ~HasDescriptor
    BY DEF HasDescriptor
  <2>4. CASE HasDescriptor
    BY <1>2, <1>4, <1>5, <1>10, <2>2, <2>3, <2>4 DEF OneDevice
  <2>5. CASE CommandEnded /\ At(1, 3, 1) /\ ep0.status = "done"
    <3>1. info'.descriptor = ep0.from
      BY <1>4, <1>10, <2>5, InfoWrites
    <3> QED BY <1>2, <1>4, <1>7, <2>5, <3>1 DEF OneDevice
  <2> QED BY <2>1, <2>4, <2>5
<1>11. ASSUME AddressSent' PROVE info'.deviceAddress = 1
  <2>1. AddressSent \/ (Send /\ At(2, 0, 0))
    BY <1>1, <1>11 DEF Stages
  <2>2. info'.deviceAddress \in {1, info.deviceAddress}
    BY <1>1, <1>11 DEF InfoSteps, AddressSent
  <2>3. CASE AddressSent
    BY <1>4, <2>2, <2>3 DEF OneDevice
  <2>4. CASE Send /\ At(2, 0, 0)
    BY <1>4, <2>4, InfoWrites
  <2> QED BY <2>1, <2>3, <2>4
<1>12. ASSUME HasAddress' PROVE info'.deviceAddressAndSpeed = 1
  <2>1. SetDeviceAddressComplete => AddressSent
    BY DEF SetDeviceAddressComplete, RunIn, AddressSent
  <2>2. HasAddress \/ SetDeviceAddressComplete
    BY <1>1, <1>12 DEF Stages
  <2>3. \/ info'.deviceAddressAndSpeed = info.deviceAddressAndSpeed
        \/ SetDeviceAddressComplete /\ info'.deviceAddressAndSpeed = info.deviceAddress
    BY <1>1, <1>5, <1>12 DEF InfoSteps, HasAddress
  <2>4. CASE SetDeviceAddressComplete
    BY <1>4, <2>1, <2>4, InfoWrites DEF OneDevice
  <2> QED BY <1>4, <2>2, <2>3, <2>4, <2>1 DEF OneDevice
<1>13. port'.listens # NotReset => port'.device \in Devices
  BY <1>2
<1> QED BY <1>13, <1>8, <1>9, <1>10, <1>11, <1>12 DEF OneDevice

(***************************************************************************)
(* What a step does to the configurations: they stay, they are emptied,    *)
(* the one that is read next is put in front, or the device that answered  *)
(* is noted in the front one.                                              *)
(***************************************************************************)
Prepends == info'.configurations =
  <<[from |-> ep0.from, number |-> info.countConfigurations]>> \o info.configurations

LEMMA ListSteps ==
  ASSUME EnumerationInvariant, [Next]_vars, NoReconfiguration
  PROVE  /\ Lists' => info'.descriptor = info.descriptor
         /\ \/ info'.configurations = info.configurations
            \/ info'.configurations = <<>> /\ (InState(DETACHED)' \/ InitConfiguration)
            \/ Prepends /\ ConfigDescriptorSizeComplete
            \/ /\ DOMAIN info'.configurations = DOMAIN info.configurations
               /\ \A i \in DOMAIN info.configurations :
                    /\ info'.configurations[i].number = info.configurations[i].number
                    /\ info'.configurations[i].from \in
                         {info.descriptor, info.configurations[i].from}
<1>1. InfoSteps
  BY InfoStepsHold DEF EnumerationInvariant, Typed, InfoTyped
<1>2. Lists' => info'.descriptor = info.descriptor
  <2>1. CommandEnded /\ At(1, 3, 1) => ~Lists'
    BY DEF CommandEnded, CheckCommandAndEnumerationAttempts, Hold, Lists
  <2> QED BY <1>1, <2>1 DEF InfoSteps, Lists
<1>3. CASE info'.configurations = info.configurations
  BY <1>2, <1>3
<1>4. CASE info'.configurations = <<>> /\ (InState(DETACHED)' \/ InitConfiguration)
  BY <1>2, <1>4
<1>5. CASE Prepends /\ ConfigDescriptorSizeComplete
  BY <1>2, <1>5
<1>6. CASE /\ CommandEnded /\ At(3, 2, 1) /\ ep0.status = "done"
           /\ info'.configurations = [info.configurations EXCEPT ![1].from = ep0.from]
  <2>1. /\ info.configurations # <<>> /\ ep0.from = info.descriptor
        /\ info.configurations \in Seq(Configurations)
        /\ ep0.from \in Devices \cup {NoDevice}
    BY <1>6 DEF EnumerationInvariant, ListOfDevice, AsksConfiguration, Typed
  <2> QED BY <1>2, <1>6, <2>1, Relabelled DEF Configurations
<1> QED BY <1>1, <1>3, <1>4, <1>5, <1>6 DEF InfoSteps, Prepends

LEMMA AnswerInTime ==
  ASSUME EnumerationInvariant, [Next]_vars, NoReconfiguration,
         AsksConfiguration(1) \/ AsksConfiguration(2), usbHostState' = usbHostState
  PROVE  /\ ep0.status = "done" => ep0' = ep0
         /\ ep0.status # "done" /\ ep0'.status = "done" =>
              ep0'.from = info.descriptor /\ info.countConfigurations \in 1 .. 255
<1>1. State /\ ep0 = [status |-> ep0.status, from |-> ep0.from]
  BY DEF EnumerationInvariant, BudgetInvariant, Typed
<1>2. ~Initialize /\ ~Send
  BY <1>1 DEF Initialize, Send, AsksConfiguration
<1>3. ep0' = ep0 \/ CommandSucceeds \/ CommandFails
  BY <1>2, Endpoint0Writers
<1>4. CommandSucceeds \/ CommandFails => ep0.status = "busy"
  BY DEF CommandSucceeds, CommandFails
<1>5. ASSUME CommandSucceeds
      PROVE  ep0'.from = info.descriptor /\ info.countConfigurations \in 1 .. 255
  <2>1. /\ ep0'.from = port.device /\ port.device # NoDevice /\ ep0.status = "busy"
        /\ port.listens = info.deviceAddressAndSpeed
        /\ usbHostState \in {WaitFor(SEND_GET_CONFIG_DESCRIPTOR_SIZE),
                              WaitFor(SEND_GET_CONFIG_DESCRIPTOR)}
             => info.countConfigurations \in 1 .. port.device.configs
    BY <1>1, <1>5 DEF CommandSucceeds, Answers
  <2>2. info.deviceAddressAndSpeed = 1 /\ (port.listens # NotReset => port.device = info.descriptor)
    BY DEF EnumerationInvariant, OneDevice, HasAddress, HasDescriptor, AsksConfiguration
  <2>3. usbHostState \in {WaitFor(SEND_GET_CONFIG_DESCRIPTOR_SIZE),
                          WaitFor(SEND_GET_CONFIG_DESCRIPTOR)}
    BY <1>1, <2>1 DEF EnumerationInvariant, Waiting, AsksConfiguration
  <2>4. port.device.configs \in 0 .. 255
    BY <2>1, DeviceAssumption DEF EnumerationInvariant, Typed
  <2> QED BY <2>1, <2>2, <2>3, <2>4 DEF NotReset
<1>6. ASSUME CommandFails PROVE ep0'.status # "done"
  BY <1>1, <1>6 DEF CommandFails
<1> QED BY <1>3, <1>4, <1>5, <1>6

LEMMA ListStep ==
  ASSUME EnumerationInvariant, [Next]_vars, NoReconfiguration
  PROVE  ListOfDevice'
<1>1. Stages /\ InfoSteps
  BY StagesStep, InfoStepsHold DEF EnumerationInvariant, Typed, InfoTyped
<1>2. ListOfDevice /\ State /\ InfoTyped(info) /\ ep0.from \in Devices \cup {NoDevice}
  BY DEF EnumerationInvariant, BudgetInvariant, Typed, InfoTyped
<1>3. /\ Send => ep0'.status = "busy"
      /\ CommandEnded \/ ConfigDescriptorSizeComplete \/ ConfigDescriptorComplete =>
           UNCHANGED ep0
  BY DEF Send, EnumerationInvariant, Typed, CommandEnded, ConfigDescriptorSizeComplete,
     ConfigDescriptorComplete
<1>4. /\ ConfigDescriptorSizeComplete => At(3, 1, 2)
      /\ ConfigDescriptorComplete => At(3, 2, 2)
  BY SizeCompleteMoves, DescriptorCompleteMoves
<1> DEFINE Asks == AsksConfiguration(1) \/ AsksConfiguration(2)
<1>5. Asks' => info'.descriptor = info.descriptor
  BY ListSteps DEF Lists, AsksConfiguration
<1>14. Asks' =>
         \/ Asks /\ usbHostState' = usbHostState
         \/ Asks /\ UNCHANGED ep0
              /\ (usbHostState'[3] = 0 \/ (usbHostState[3] = 1 /\ ep0.status = "done"))
         \/ ep0'.status = "busy" /\ usbHostState'[3] = 1
         \/ usbHostState'[3] = 0
  BY <1>1, <1>3 DEF Stages
<1>15. /\ AsksConfiguration(2) => info.countConfigurations \in 1 .. 255
       /\ AsksConfiguration(1) /\ usbHostState[3] \in 1 .. 2 /\ ep0.status = "done" =>
            info.countConfigurations \in 1 .. 255
  BY <1>2 DEF ListOfDevice
<1>16. LowestConfigurationFirst
  BY <1>2 DEF ListOfDevice
<1>6. Asks' /\ usbHostState'[3] \in 1 .. 2 /\ ep0'.status = "done" =>
        ep0'.from = info'.descriptor
  BY <1>2, <1>5, <1>14, AnswerInTime DEF ListOfDevice
<1>7. Asks' /\ usbHostState'[3] = 2 => ep0'.status = "done"
  BY <1>2, <1>14, AnswerInTime DEF ListOfDevice
<1>8. AsksConfiguration(2)' => info'.countConfigurations \in 1 .. 255
  <2> SUFFICES ASSUME AsksConfiguration(2)' PROVE info'.countConfigurations \in 1 .. 255
    OBVIOUS
  <2>1. \/ AsksConfiguration(2)
        \/ ConfigDescriptorSizeComplete
    BY <1>1 DEF Stages, AsksConfiguration
  <2>2. ~InitConfiguration /\ ~ConfigDescriptorComplete
    BY DEF InitConfiguration, ConfigDescriptorComplete, Run, RunIn, AsksConfiguration
  <2>3. info'.countConfigurations = info.countConfigurations
    BY <1>1, <2>2 DEF InfoSteps
  <2>4. ConfigDescriptorSizeComplete =>
          AsksConfiguration(1) /\ usbHostState[3] = 2 /\ ep0.status = "done"
    BY <1>2, <1>4 DEF ListOfDevice, AsksConfiguration
  <2> QED BY <1>15, <2>1, <2>3, <2>4
<1>9. AsksConfiguration(1)' /\ usbHostState'[3] \in 1 .. 2 /\ ep0'.status = "done" =>
        info'.countConfigurations \in 1 .. 255
  <2> SUFFICES ASSUME AsksConfiguration(1)', usbHostState'[3] \in 1 .. 2, ep0'.status = "done"
      PROVE  info'.countConfigurations \in 1 .. 255
    OBVIOUS
  <2>1. \/ AsksConfiguration(1) /\ usbHostState' = usbHostState
        \/ AsksConfiguration(1) /\ usbHostState[3] = 1 /\ ep0.status = "done"
    BY <1>1, <1>3 DEF Stages
  <2>2. ~InitConfiguration /\ ~ConfigDescriptorComplete
    BY <1>4, <2>1 DEF InitConfiguration, Run, AsksConfiguration
  <2>3. info'.countConfigurations = info.countConfigurations
    BY <1>1, <2>2 DEF InfoSteps
  <2>4. CASE AsksConfiguration(1) /\ usbHostState' = usbHostState
    <3>1. info.countConfigurations \in 1 .. 255
      BY <1>15, <2>4, AnswerInTime
    <3> QED BY <2>3, <3>1
  <2>5. CASE AsksConfiguration(1) /\ usbHostState[3] = 1 /\ ep0.status = "done"
    BY <1>15, <2>3, <2>5
  <2> QED BY <2>1, <2>4, <2>5
<1>10. AsksConfiguration(1)' =>
         \A i \in DOMAIN info'.configurations :
           info'.countConfigurations < info'.configurations[i].number
  <2> SUFFICES ASSUME AsksConfiguration(1)', NEW i \in DOMAIN info'.configurations
      PROVE  info'.countConfigurations < info'.configurations[i].number
    OBVIOUS
  <2>1. CASE info'.configurations = <<>>
    BY <2>1
  <2>2. CASE ConfigDescriptorComplete
    <3>1. AsksConfiguration(2) /\ UNCHANGED info.configurations
      <4>1. /\ ~ConfigDescriptorSizeComplete /\ ~InitConfiguration
            /\ ~(CommandEnded /\ At(3, 2, 1)) /\ AsksConfiguration(2)
        BY <1>4, <2>2 DEF InitConfiguration, Run, AsksConfiguration
      <4> QED BY <1>1, <2>1, <4>1 DEF InfoSteps, AsksConfiguration
    <3>2. info.countConfigurations \in 1 .. 255
      BY <1>15, <3>1
    <3>3. info'.countConfigurations = info.countConfigurations - 1
      <4>1. (info.countConfigurations - 1) % 256 = info.countConfigurations - 1
        BY <3>2
      <4> QED BY <1>2, <2>2, <4>1, InfoWrites
    <3>4. i \in DOMAIN info.configurations /\ i \in Nat \ {0} /\ 1 \in DOMAIN info.configurations
      BY <1>2, <3>1 DEF InfoTyped
    <3> DEFINE first == info.configurations[1].number
               this == info.configurations[i].number
    <3>5. this \in 0 .. 255
      BY <1>2, <3>4, NumberTyped DEF InfoTyped
    <3>10. info'.configurations[i].number = this
      BY <3>1
    <3>6. 1 < i => first < this
      BY <1>16, <3>4 DEF LowestConfigurationFirst
    <3>7. first = info.countConfigurations
      BY <1>2, <3>1 DEF ListOfDevice
    <3>11. i = 1 => first = this
      OBVIOUS
    <3> HIDE DEF first, this
    <3>8. info.countConfigurations <= this
      <4>1. CASE i = 1
        BY <3>2, <3>7, <3>11, <4>1
      <4>2. CASE 1 < i
        <5>1. first < this
          BY <3>6, <4>2
        <5> QED BY <3>2, <3>5, <3>7, <5>1
      <4> QED BY <3>4, <4>1, <4>2
    <3>9. info'.countConfigurations < this
      BY <3>2, <3>3, <3>5, <3>8
    <3> QED BY <3>9, <3>10
  <2>3. CASE info'.configurations # <<>> /\ ~ConfigDescriptorComplete
    <3>1. ~InitConfiguration
      BY <2>3, <1>2, InfoWrites
    <3>2. AsksConfiguration(1) /\ ~ConfigDescriptorSizeComplete
      <4>2. ConfigDescriptorSizeComplete => ~AsksConfiguration(1)'
        BY SizeCompleteMoves DEF AsksConfiguration
      <4> QED BY <1>1, <2>3, <3>1, <4>2 DEF Stages, AsksConfiguration
    <3>3. info'.countConfigurations = info.countConfigurations
      BY <1>1, <2>3, <3>1 DEF InfoSteps
    <3>4. info'.configurations = info.configurations
      BY <1>1, <2>3, <3>1, <3>2 DEF InfoSteps, AsksConfiguration
    <3> QED BY <1>2, <3>2, <3>3, <3>4 DEF ListOfDevice
  <2> QED BY <2>1, <2>2, <2>3
<1>11. AsksConfiguration(2)' =>
         /\ info'.configurations # <<>>
         /\ info'.configurations[1].number = info'.countConfigurations
  <2> SUFFICES ASSUME AsksConfiguration(2)'
      PROVE  /\ info'.configurations # <<>>
             /\ info'.configurations[1].number = info'.countConfigurations
    OBVIOUS
  <2>1. ~InitConfiguration /\ ~ConfigDescriptorComplete
    BY DEF InitConfiguration, ConfigDescriptorComplete, Run, RunIn, AsksConfiguration
  <2>2. info'.countConfigurations = info.countConfigurations
    BY <1>1, <2>1 DEF InfoSteps
  <2>3. CASE ConfigDescriptorSizeComplete
    <3> DEFINE new == [from |-> ep0.from, number |-> info.countConfigurations]
    <3>1. info'.configurations = <<new>> \o info.configurations
      BY <1>2, <2>3, InfoWrites
    <3>2. new \in Configurations /\ info.configurations \in Seq(Configurations)
      BY <1>2 DEF InfoTyped, Configurations
    <3>3. new.number = info.countConfigurations
      OBVIOUS
    <3> HIDE DEF new
    <3>4. info'.configurations # <<>> /\ info'.configurations[1] = new
      BY <3>1, <3>2, Prepended
    <3> QED BY <2>2, <3>3, <3>4
  <2>4. CASE AsksConfiguration(2) /\ ~ConfigDescriptorSizeComplete
    <3>1. info.configurations # <<>> /\ info.configurations[1].number = info.countConfigurations
      BY <1>2, <2>4 DEF ListOfDevice
    <3>2. 1 \in DOMAIN info.configurations
      BY <1>2, <3>1 DEF InfoTyped
    <3>3. \/ info'.configurations = info.configurations
          \/ /\ DOMAIN info'.configurations = DOMAIN info.configurations
             /\ info'.configurations[1].number = info.configurations[1].number
      BY <2>1, <2>4, <3>2, ListSteps DEF AsksConfiguration
    <3> QED BY <2>2, <3>1, <3>2, <3>3
  <2> QED BY <1>1, <2>3, <2>4 DEF Stages, AsksConfiguration
<1>12. Lists' => \A i \in DOMAIN info'.configurations :
                   info'.configurations[i].from = info'.descriptor
  <2> SUFFICES ASSUME Lists', NEW i \in DOMAIN info'.configurations
      PROVE  info'.configurations[i].from = info'.descriptor
    OBVIOUS
  <2>1. info'.descriptor = info.descriptor
    BY ListSteps
  <2>2. CASE info'.configurations = <<>>
    BY <2>2
  <2>3. CASE Lists
    <3>1. \A j \in DOMAIN info.configurations : info.configurations[j].from = info.descriptor
      BY <1>2, <2>3 DEF ListOfDevice
    <3>2. CASE info'.configurations = info.configurations
      BY <2>1, <3>1, <3>2
    <3>3. CASE Prepends /\ ConfigDescriptorSizeComplete
      <4> DEFINE new == [from |-> ep0.from, number |-> info.countConfigurations]
      <4>1. ep0.from = info.descriptor
        BY <1>2, <1>4, <3>3 DEF ListOfDevice, AsksConfiguration
      <4>2. new \in Configurations /\ info.configurations \in Seq(Configurations)
        BY <1>2 DEF InfoTyped, Configurations
      <4>3. new.from = info.descriptor
        BY <4>1
      <4>4. info'.configurations = <<new>> \o info.configurations
        BY <3>3 DEF Prepends
      <4> HIDE DEF new
      <4>5. /\ i \in 1 .. Len(info.configurations) + 1 /\ info'.configurations[1] = new
            /\ \A j \in 2 .. Len(info.configurations) + 1 :
                 /\ j - 1 \in DOMAIN info.configurations
                 /\ info'.configurations[j] = info.configurations[j - 1]
        BY <4>2, <4>4, Prepended
      <4>6. CASE i = 1
        BY <2>1, <4>3, <4>5, <4>6
      <4>7. CASE i \in 2 .. Len(info.configurations) + 1
        BY <2>1, <3>1, <4>5, <4>7
      <4> QED BY <4>5, <4>6, <4>7
    <3>4. CASE /\ DOMAIN info'.configurations = DOMAIN info.configurations
               /\ \A j \in DOMAIN info.configurations :
                    info'.configurations[j].from \in
                      {info.descriptor, info.configurations[j].from}
      BY <2>1, <3>1, <3>4
    <3> QED BY <2>2, <3>2, <3>3, <3>4, ListSteps
  <2> QED BY <1>1, <1>2, <2>2, <2>3, InfoWrites DEF Stages
<1>13. LowestConfigurationFirst'
  <2>1. CASE info'.configurations = info.configurations
    BY <1>16, <2>1 DEF LowestConfigurationFirst
  <2>2. CASE info'.configurations = <<>>
    BY <2>2 DEF LowestConfigurationFirst
  <2>3. CASE Prepends /\ ConfigDescriptorSizeComplete
    <3> DEFINE new == [from |-> ep0.from, number |-> info.countConfigurations]
    <3>1. \A j \in DOMAIN info.configurations :
            info.countConfigurations < info.configurations[j].number
      BY <1>2, <1>4, <2>3 DEF ListOfDevice, AsksConfiguration
    <3>2. new \in Configurations /\ info.configurations \in Seq(Configurations)
      BY <1>2 DEF InfoTyped, Configurations
    <3>3. new.number = info.countConfigurations
      OBVIOUS
    <3>4. info'.configurations = <<new>> \o info.configurations
      BY <2>3 DEF Prepends
    <3> HIDE DEF new
    <3>5. /\ DOMAIN info'.configurations = 1 .. Len(info.configurations) + 1
          /\ info'.configurations[1] = new
          /\ \A j \in 2 .. Len(info.configurations) + 1 :
               /\ j - 1 \in DOMAIN info.configurations
               /\ info'.configurations[j] = info.configurations[j - 1]
      BY <3>2, <3>4, Prepended
    <3> SUFFICES ASSUME NEW i \in DOMAIN info'.configurations,
                        NEW j \in DOMAIN info'.configurations, i < j
        PROVE  info'.configurations[i].number < info'.configurations[j].number
      BY DEF LowestConfigurationFirst
    <3>6. Len(info.configurations) \in Nat
      BY <3>2
    <3>7. i \in 1 .. Len(info.configurations) + 1 /\ j \in 2 .. Len(info.configurations) + 1
      BY <3>5, <3>6
    <3>8. /\ j - 1 \in DOMAIN info.configurations
          /\ info'.configurations[j] = info.configurations[j - 1]
      BY <3>5, <3>7
    <3>9. CASE i = 1
      BY <3>1, <3>3, <3>5, <3>8, <3>9
    <3>10. CASE i \in 2 .. Len(info.configurations) + 1
      <4>1. /\ i - 1 \in DOMAIN info.configurations
            /\ info'.configurations[i] = info.configurations[i - 1]
        BY <3>5, <3>10
      <4>2. i - 1 < j - 1
        BY <3>7, <3>6
      <4>3. info.configurations[i - 1].number < info.configurations[j - 1].number
        BY <1>16, <3>8, <4>1, <4>2 DEF LowestConfigurationFirst
      <4> QED BY <3>8, <4>1, <4>3
    <3> QED BY <3>6, <3>7, <3>9, <3>10
  <2>4. CASE /\ DOMAIN info'.configurations = DOMAIN info.configurations
             /\ \A i \in DOMAIN info.configurations :
                  info'.configurations[i].number = info.configurations[i].number
    BY <1>16, <2>4 DEF LowestConfigurationFirst
  <2> QED BY <2>1, <2>2, <2>3, <2>4, ListSteps
<1> QED BY <1>6, <1>7, <1>8, <1>9, <1>10, <1>11, <1>12, <1>13 DEF ListOfDevice

LEMMA InterfacesStep ==
  ASSUME InfoTyped(info), [Next]_vars, NoReconfiguration
  PROVE  \/ info'.interfaces = info.interfaces
         \/ Initialize \/ VbusOvercurrent \/ SelectConfiguration
<1> USE DEF InfoTyped, InfoRecord
<1>1. CASE info' = info
  BY <1>1
<1>2. CASE SetReset \/ Send \/ DeviceDescriptorSizeComplete \/ SetOtgComplete
  BY <1>2 DEF SetReset, Send, DeviceDescriptorSizeComplete, SetOtgComplete, Hold
<1>3. CASE InitClientDrivers \/ SetDeviceAddressComplete \/ InitConfiguration
  BY <1>3 DEF InitClientDrivers, SetDeviceAddressComplete, InitConfiguration, Hold
<1>4. CASE CommandEnded
  <2>1. \/ info' = info
        \/ \E e : info' = [info EXCEPT !.errorCode = e]
        \/ info' = [info EXCEPT !.descriptor = ep0.from]
        \/ info' = [info EXCEPT !.configurations =
                      [info.configurations EXCEPT ![1].from = ep0.from]]
    BY <1>4 DEF CommandEnded, CheckCommandAndEnumerationAttempts, Hold
  <2> QED BY <1>1, <2>1
<1>5. CASE ConfigDescriptorSizeComplete
  <2>1. \/ \E e : info' = [info EXCEPT !.errorCode = e]
        \/ \E list : info' = [info EXCEPT !.configurations = list]
    BY <1>5 DEF ConfigDescriptorSizeComplete, Hold
  <2> QED BY <2>1
<1>6. CASE ConfigDescriptorComplete
  BY <1>6 DEF ConfigDescriptorComplete
<1>7. ASSUME NEW c, USBHostSetDeviceConfiguration(c) PROVE FALSE
  BY <1>7 DEF USBHostSetDeviceConfiguration, NoReconfiguration, Calls
<1> QED BY InfoWriters, <1>1, <1>2, <1>3, <1>4, <1>5, <1>6, <1>7

(* The client driver is told of a detached device by whoever frees its interfaces. *)
LEMMA ClientStep ==
  ASSUME EnumerationInvariant, [Next]_vars, NoReconfiguration
  PROVE  /\ Initialize \/ VbusOvercurrent => ~client'
         /\ InState(RUNNING)' => client'
         /\ client' => /\ InState(RUNNING)' \/ InState(HOLDING)' \/ InSubState(INITIALIZE)'
                       /\ info'.interfaces /\ info'.deviceAddress = 1
<1>1. Stages /\ InfoSteps
  BY StagesStep, InfoStepsHold DEF EnumerationInvariant, Typed, InfoTyped
<1>2. /\ InState(RUNNING) => client
      /\ client => /\ InState(RUNNING) \/ InState(HOLDING) \/ InSubState(INITIALIZE)
                   /\ info.interfaces /\ info.deviceAddress = 1
  BY DEF EnumerationInvariant, Chosen
<1>3. InfoTyped(info) /\ State
  BY DEF EnumerationInvariant, BudgetInvariant, Typed, InfoTyped
<1>4. ASSUME Initialize \/ VbusOvercurrent PROVE ~client' /\ InState(DETACHED)'
  <2>1. client => info.interfaces /\ info.deviceAddress # 0
    BY <1>2
  <2>2. client' = (client /\ ~(info.deviceAddress # 0 /\ info.interfaces))
    BY <1>4 DEF Initialize, VbusOvercurrent, ClientAfterDetachEvent
  <2>3. InState(DETACHED)'
    BY <1>4 DEF Initialize, VbusOvercurrent
  <2> QED BY <2>1, <2>2, <2>3, Zenon
<1>5. CASE InitClientDrivers
  <2>1. At(3, 4, 3) /\ info.interfaces /\ info.deviceAddress = 1 /\ ~client
    BY <1>2, <1>5
       DEF InitClientDrivers, RunIn, EnumerationInvariant, Chosen,
           HasSelected, OneDevice, AddressSent
  <2>2. PICK answers :
          /\ answers \subseteq ClientAnswers /\ answers # {}
          /\ client' = (client \/ TRUE \in answers)
          /\ IF FALSE \in answers THEN Hold("CLIENT_INIT_ERROR")
             ELSE usbHostState' = NextState(usbHostState) /\ UNCHANGED info
    <3>1. PICK answers \in (IF info.interfaces THEN (SUBSET ClientAnswers) \ {{}} ELSE {{}}) :
            /\ client' = (client \/ TRUE \in answers)
            /\ IF FALSE \in answers THEN Hold("CLIENT_INIT_ERROR")
               ELSE usbHostState' = NextState(usbHostState) /\ UNCHANGED info
      BY <1>5, Zenon DEF InitClientDrivers
    <3>2. answers \in (SUBSET ClientAnswers) \ {{}}
      BY <2>1, <3>1, Zenon
    <3>3. answers \subseteq ClientAnswers /\ answers # {}
      BY <3>2, Zenon
    <3> QED BY <3>1, <3>3, Zenon
  <2>3. TRUE \in answers \/ FALSE \in answers
    <3>1. PICK a \in ClientAnswers : a \in answers
      BY <2>2
    <3>2. a \in BOOLEAN
      BY <3>1, AnswersAssumption
    <3>3. a = TRUE \/ a = FALSE
      BY <3>2, Zenon
    <3> QED BY <3>1, <3>3, Zenon
  <2>4. InState(RUNNING)' \/ InState(HOLDING)'
    BY <1>5, InitClientMoves
  <2>5. InState(RUNNING)' => client'
    <3>1. CASE FALSE \in answers
      BY <2>2, <3>1 DEF Hold
    <3>2. CASE TRUE \in answers
      BY <2>2, <3>2, Zenon
    <3> QED BY <2>3, <3>1, <3>2
  <2>6. info'.interfaces /\ info'.deviceAddress = 1
    <3>1. UNCHANGED info \/ info' = [info EXCEPT !.errorCode = "CLIENT_INIT_ERROR"]
      BY <2>2 DEF Hold
    <3> QED BY <1>3, <2>1, <3>1 DEF InfoTyped, InfoRecord
  <2> QED BY <1>4, <2>4, <2>5, <2>6
<1>6. CASE Initialize \/ VbusOvercurrent
  BY <1>4, <1>6
<1>7. CASE ~InitClientDrivers /\ ~Initialize /\ ~VbusOvercurrent
  <2>1. client' = client
    BY <1>7, ClientWriters
  <2>2. InState(RUNNING)' => client'
    BY <1>1, <1>2, <1>7, <2>1 DEF Stages
  <2>3. client => InState(RUNNING)' \/ InState(HOLDING)' \/ InSubState(INITIALIZE)'
    BY <1>1, <1>2, <1>7 DEF Stages
  <2>4. ASSUME client PROVE ~SelectConfiguration /\ ~Send
    <3>1. usbHostState[1] \in {0, 4, 5}
      BY <1>2, <2>4
    <3> QED BY <3>1, SelectMoves DEF Send
  <2>5. client => info'.interfaces
    BY <1>2, <1>3, <1>7, <2>4, InterfacesStep
  <2>6. ASSUME client PROVE info'.deviceAddress = 1
    <3>1. info'.deviceAddress = info.deviceAddress
      BY <1>1, <1>7, <2>4, <2>6 DEF InfoSteps
    <3> QED BY <1>2, <2>6, <3>1
  <2> QED BY <1>7, <2>1, <2>2, <2>3, <2>5, <2>6
<1> QED BY <1>5, <1>6, <1>7

LEMMA ChosenStep ==
  ASSUME EnumerationInvariant, [Next]_vars, NoReconfiguration
  PROVE  Chosen'
<1>1. Stages /\ InfoSteps
  BY StagesStep, InfoStepsHold DEF EnumerationInvariant, Typed, InfoTyped
<1>2. InfoTyped(info) /\ State /\ Chosen
  BY DEF EnumerationInvariant, BudgetInvariant, Typed, InfoTyped
<1>3. ASSUME SelectConfiguration
      PROVE  /\ pc' = "idle"
             /\ \/ usbHostState' = HOLD_INIT
                \/ /\ usbHostState' = SEND_SET_OTG
                   /\ info'.interfaces /\ UNCHANGED info.configurations
                   /\ \E i \in DOMAIN info.configurations :
                        /\ info'.currentConfiguration = info.configurations[i].number
                        /\ info.configurations[i].number \in info.configurations[i].from.supported
  <2>1. info.currentConfiguration = 0
    BY <1>2, <1>3, SelectMoves DEF Chosen, HasReset, HasSelected, AfterReset
  <2>2. info.configurations \in Seq(Configurations)
    BY <1>2 DEF InfoTyped
  <2> QED BY <1>2, <1>3, <2>1, <2>2, SelectChooses DEF InfoTyped, InfoRecord
<1>4. ASSUME HasReset', ~HasSelected' PROVE info'.currentConfiguration = 0
  <2>1. (HasReset /\ ~HasSelected) \/ SetReset
    BY <1>1, <1>4 DEF Stages
  <2>2. ~SelectConfiguration
    BY <1>3, <1>4 DEF HasReset, HasSelected
  <2>3. \/ info'.currentConfiguration = info.currentConfiguration
        \/ SetReset
    BY <1>1, <1>4, <2>2 DEF InfoSteps, HasReset
  <2> QED BY <1>2, <1>4, <2>1, <2>3, InfoWrites DEF Chosen
<1>5. ASSUME HasSelected'
      PROVE  /\ info'.interfaces
             /\ \E i \in DOMAIN info'.configurations :
                  /\ info'.configurations[i].number = info'.currentConfiguration
                  /\ info'.currentConfiguration \in info'.configurations[i].from.supported
  <2>1. CASE SelectConfiguration
    BY <1>3, <1>5, <2>1 DEF HasSelected
  <2>2. CASE HasSelected /\ ~SelectConfiguration
    <3>1. ~SetReset /\ ~Initialize /\ ~VbusOvercurrent
      BY <1>5 DEF SetReset, RunIn, Initialize, VbusOvercurrent, Hold, HasSelected
    <3>2. UNCHANGED info.configurations
      <4>1. ~InitConfiguration /\ ~ConfigDescriptorSizeComplete /\ ~At(3, 2, 1)
        BY <2>2, SizeCompleteMoves DEF InitConfiguration, Run, HasSelected
      <4> QED BY <1>1, <1>5, <4>1 DEF InfoSteps, HasSelected
    <3>3. UNCHANGED info.currentConfiguration
      BY <1>1, <1>5, <2>2, <3>1 DEF InfoSteps, HasSelected
    <3>4. info.interfaces = info'.interfaces
      BY <1>2, <2>2, <3>1, InterfacesStep
    <3> QED BY <1>2, <2>2, <3>2, <3>3, <3>4 DEF Chosen
  <2> QED BY <1>1, <1>5, <2>1, <2>2 DEF Stages
<1>6. pc' # "crashed"
  <2>1. pc # "crashed"
    BY <1>2 DEF Chosen
  <2>2. CASE SelectConfiguration
    BY <1>3, <2>2
  <2> QED BY <2>1, <2>2, OnlySelectionCrashes
<1> QED BY <1>4, <1>5, <1>6, ClientStep DEF Chosen

LEMMA EnumerationInit == Init => EnumerationInvariant
<1> SUFFICES ASSUME Init PROVE EnumerationInvariant
  OBVIOUS
<1>1. BudgetInvariant
  BY BudgetInit
<1>2. Typed
  <2>1. InfoRecord(info) /\ info.configurations = <<>> /\ info.errorCode = "none"
    BY DEF Init, InfoRecord
  <2>2. <<>> \in Seq(Configurations)
    OBVIOUS
  <2>3. PortRecord(port)
    BY DEF Init, PortRecord
  <2>4. /\ port.device = NoDevice /\ port.listens = -1 /\ port.DETACHIF \in BOOLEAN
        /\ module.powered \in BOOLEAN /\ module.ATTACHIE \in BOOLEAN
        /\ module.DETACHIE \in BOOLEAN
    BY DEF Init, NotReset
  <2>5. /\ ep0 = [status |-> ep0.status, from |-> ep0.from]
        /\ ep0.status = "failed" /\ ep0.from = NoDevice
    BY DEF Init, NoTransfer
  <2>6. /\ info.deviceAddress \in 0 .. 1 /\ info.deviceAddressAndSpeed \in 0 .. 1
        /\ info.descriptor = NoDevice /\ info.interfaces \in BOOLEAN
        /\ info.countConfigurations \in 0 .. 255 /\ info.currentConfiguration \in 0 .. 255
    BY DEF Init
  <2>7. /\ usbHostState = <<0, 0, 0>> /\ client \in BOOLEAN /\ bPowerGoodPort0 \in BOOLEAN
    BY DEF Init
  <2> QED BY <2>1, <2>2, <2>3, <2>4, <2>5, <2>6, <2>7 DEF Typed, NotReset, AsksConfiguration
<1>3. Waiting /\ OneDevice
  BY DEF Init, Waiting, OneDevice, NoTransfer, NotReset, HasDescriptor, AddressSent, HasAddress
<1>4. ListOfDevice
  BY DEF Init, ListOfDevice, LowestConfigurationFirst, AsksConfiguration, Lists
<1>5. Chosen
  BY DEF Init, Chosen, HasReset, HasSelected
<1> QED BY <1>1, <1>2, <1>3, <1>4, <1>5 DEF EnumerationInvariant

(* Every step of the stack, of its interrupt handler, of the bus and of the application keeps
   the inductive invariant. *)
THEOREM EnumerationHolds == ASSUME NoReconfiguration PROVE Spec => []EnumerationInvariant
<1>1. EnumerationInvariant /\ [Next]_vars => EnumerationInvariant'
  BY BudgetStep, TypedStep, WaitingStep, OneDeviceStep, ListStep, ChosenStep, NoReconfiguration
     DEF EnumerationInvariant
<1> QED BY EnumerationInit, <1>1, PTL DEF Spec

(* Whatever is refused, retried, reset or swapped on the way, a device runs only with its
   client driver and in a configuration that it supports, and configurations are listed
   once each, the lowest first. *)
THEOREM RunsWhatItSupports == ASSUME NoReconfiguration PROVE Spec => []HostInvariant
<1>1. EnumerationInvariant => HostInvariant
  <2> SUFFICES ASSUME EnumerationInvariant PROVE HostInvariant
    OBVIOUS
  <2>1. TypeOK
    <3>1. port \in [device : Devices \cup {NoDevice}, listens : NotReset .. 1,
                    DETACHIF : BOOLEAN]
      BY DEF EnumerationInvariant, Typed, PortRecord
    <3>2. module \in [powered : BOOLEAN, ATTACHIE : BOOLEAN, DETACHIE : BOOLEAN,
                      timer : 0 .. WaitTime]
      BY DEF EnumerationInvariant, BudgetInvariant, Typed, ModuleRecord
    <3>3. ep0 \in [status : {"busy", "done", "failed"}, from : Devices \cup {NoDevice}]
      BY DEF EnumerationInvariant, Typed
    <3>4. /\ usbHostState \in (0 .. 5) \X (0 .. 4) \X (0 .. 5)
          /\ pc \in {"idle", "clear", "run", "crashed"}
          /\ usbOverrideHostState \in {NoState, INITIALIZE, START_SETTLING_DELAY}
          /\ tries \in [command : 0 .. 255, enumeration : 0 .. 255]
      BY DEF EnumerationInvariant, BudgetInvariant, Typed
    <3>5. InfoTyped(info) /\ client \in BOOLEAN /\ bPowerGoodPort0 \in BOOLEAN
      BY DEF EnumerationInvariant, Typed, InfoTyped
    <3>6. info.countConfigurations \in Nat
      <4>1. info.countConfigurations \in 0 .. 255
        BY <3>5 DEF InfoTyped
      <4> QED BY <4>1
    <3> QED BY <3>1, <3>2, <3>3, <3>4, <3>5, <3>6 DEF TypeOK, InfoTyped
  <2>2. RunsSupportedConfiguration
    BY DEF EnumerationInvariant, OneDevice, AddressSent, HasAddress, Chosen, HasSelected,
       RunsSupportedConfiguration, USB_SINGLE_DEVICE_ADDRESS
  <2> QED BY <2>1, <2>2 DEF EnumerationInvariant, ListOfDevice, HostInvariant
<1> QED BY <1>1, EnumerationHolds, PTL

(* The client driver has been told that its device is gone before the next one is looked for. *)
THEOREM ClientIsReleased == ASSUME NoReconfiguration PROVE Spec => []ClientReleased
<1>1. EnumerationInvariant => ClientReleased
  BY DEF EnumerationInvariant, Chosen, ClientReleased
<1> QED BY <1>1, EnumerationHolds, PTL

(* Devices swapped in the middle of an enumeration are never mixed. *)
THEOREM DevicesAreNotMixed == ASSUME NoReconfiguration PROVE Spec => []EnumeratesOneDevice
<1>1. EnumerationInvariant => EnumeratesOneDevice
  <2> SUFFICES ASSUME EnumerationInvariant PROVE EnumeratesOneDevice
    OBVIOUS
  <2>1. usbHostState \in (0 .. 5) \X (0 .. 4) \X (0 .. 5)
    BY DEF EnumerationInvariant, Typed
  <2> QED BY <2>1 DEF EnumerationInvariant, ListOfDevice, Lists, EnumeratesOneDevice
<1> QED BY <1>1, EnumerationHolds, PTL

(* A timer that is left running steps no state that does not wait for it. *)
THEOREM TimerStepsWaits == ASSUME NoReconfiguration PROVE Spec => []TimerOnlyInWaits
<1>1. EnumerationInvariant => TimerOnlyInWaits
  BY DEF EnumerationInvariant, Waiting, TimerOnlyInWaits
<1> QED BY <1>1, EnumerationHolds, PTL

(* The null pointer is followed only after the application has set a configuration. *)
THEOREM HoldsWithoutReconfiguration ==
  ASSUME NoReconfiguration PROVE Spec => []InvalidConfigurationHolds
<1>1. EnumerationInvariant => InvalidConfigurationHolds
  BY DEF EnumerationInvariant, Chosen, InvalidConfigurationHolds
<1> QED BY <1>1, EnumerationHolds, PTL

-------------------------------------------------------------------------------
(* The life cycle that USBHostDeviceStatus shows. *)

LEMMA HoldReasons ==
  ASSUME EnumerationInvariant, [Next]_vars, NoReconfiguration, InState(HOLDING)'
  PROVE  \/ InState(HOLDING) /\ info' = info
         \/ usbHostState[1] \in 1 .. 3 /\ info'.errorCode \in HoldErrors
<1>1. Stages
  BY StagesStep DEF EnumerationInvariant
<1>2. InfoTyped(info) /\ State /\ Chosen
  BY DEF EnumerationInvariant, BudgetInvariant, Typed, InfoTyped
<1>3. CASE InState(HOLDING)
  <2>1. ASSUME info' # info PROVE FALSE
    <3>1. ~ConfigDescriptorSizeComplete /\ ~ConfigDescriptorComplete /\ ~SelectConfiguration
      BY <1>3, SizeCompleteMoves, DescriptorCompleteMoves, SelectMoves
    <3>2. /\ ~SetReset /\ ~Send /\ ~CommandEnded /\ ~DeviceDescriptorSizeComplete
          /\ ~SetDeviceAddressComplete /\ ~InitConfiguration /\ ~SetOtgComplete
          /\ ~InitClientDrivers /\ ~Initialize /\ ~VbusOvercurrent
      <4>1. ~SetReset /\ ~Send /\ ~CommandEnded /\ ~DeviceDescriptorSizeComplete
        BY <1>3 DEF SetReset, Send, CommandEnded, DeviceDescriptorSizeComplete, RunIn
      <4>2. ~SetDeviceAddressComplete /\ ~InitConfiguration /\ ~SetOtgComplete /\ ~InitClientDrivers
        BY <1>3, InitClientMoves DEF SetDeviceAddressComplete, InitConfiguration,
           SetOtgComplete, RunIn
      <4>3. ~Initialize /\ ~VbusOvercurrent
        BY DEF Initialize, VbusOvercurrent
      <4> QED BY <4>1, <4>2, <4>3
    <3>3. \A c : ~USBHostSetDeviceConfiguration(c)
      BY DEF USBHostSetDeviceConfiguration, NoReconfiguration, Calls
    <3> QED BY <2>1, <3>1, <3>2, <3>3, InfoWriters
  <2> QED BY <1>3, <2>1
<1>4. CASE ~InState(HOLDING)
  <2>1. /\ usbHostState[1] \in 1 .. 3
        /\ \/ SetReset \/ CommandEnded \/ DeviceDescriptorSizeComplete
           \/ ConfigDescriptorSizeComplete \/ SelectConfiguration \/ SetOtgComplete
           \/ InitClientDrivers
    BY <1>1, <1>4 DEF Stages
  <2>2. CASE \/ SetReset \/ CommandEnded \/ DeviceDescriptorSizeComplete
             \/ ConfigDescriptorSizeComplete \/ SetOtgComplete \/ InitClientDrivers
    <3>1. \E e \in HoldErrors : info' = [info EXCEPT !.errorCode = e]
      <4> USE DEF Hold, HoldErrors, RunIn
      <4>1. CASE SetReset
        BY <1>4, <4>1 DEF SetReset
      <4>2. CASE CommandEnded
        <5>1. usbHostState' = HOLD_INIT => \E e \in HoldErrors : Hold(e)
          BY <4>2 DEF CommandEnded, CheckCommandAndEnumerationAttempts
        <5> QED BY <4>2, <5>1 DEF CommandEnded, CheckCommandAndEnumerationAttempts
      <4>3. CASE DeviceDescriptorSizeComplete
        BY <4>3 DEF DeviceDescriptorSizeComplete
      <4>4. CASE ConfigDescriptorSizeComplete
        BY <4>4 DEF ConfigDescriptorSizeComplete
      <4>5. CASE SetOtgComplete
        BY <4>5 DEF SetOtgComplete
      <4>6. CASE InitClientDrivers
        BY <1>4, <2>1, <4>6, InitClientCases
      <4> QED BY <2>2, <4>1, <4>2, <4>3, <4>4, <4>5, <4>6
    <3> QED BY <1>2, <2>1, <3>1 DEF InfoTyped, InfoRecord
  <2>3. CASE SelectConfiguration
    <3>1. info.currentConfiguration = 0
      BY <1>2, <2>3, SelectMoves DEF Chosen, HasReset, HasSelected, AfterReset
    <3>2. info.configurations \in Seq(Configurations)
      BY <1>2 DEF InfoTyped
    <3>3. info' = [info EXCEPT !.interfaces = FALSE, !.errorCode = "UNSUPPORTED_DEVICE"]
      <4> DEFINE freed == [info EXCEPT !.interfaces = FALSE]
      <4>1. \/ info' = [freed EXCEPT !.errorCode = "UNSUPPORTED_DEVICE"]
            \/ usbHostState' = SEND_SET_OTG
        BY <2>3, <3>1, <3>2, SelectChooses
      <4> QED BY <4>1
    <3> QED BY <1>2, <2>1, <3>3 DEF InfoTyped, InfoRecord, HoldErrors
  <2> QED BY <2>1, <2>2, <2>3
<1> QED BY <1>3, <1>4

LEMMA LifecycleStep ==
  ASSUME EnumerationInvariant, EnumerationInvariant', [Next]_vars, NoReconfiguration
  PROVE  [Lifecycle!Next]_<<USBHostDeviceStatus, client>>
<1>1. Stages
  BY StagesStep DEF EnumerationInvariant
<1>2. usbHostState \in (0 .. 5) \X (0 .. 4) \X (0 .. 5) /\ client \in BOOLEAN
  BY DEF EnumerationInvariant, Typed
<1>3. usbHostState' \in (0 .. 5) \X (0 .. 4) \X (0 .. 5) /\ client' \in BOOLEAN
  BY DEF EnumerationInvariant, Typed
<1>4. /\ InState(RUNNING) => client
      /\ client => InState(RUNNING) \/ InState(HOLDING) \/ InSubState(INITIALIZE)
  BY DEF EnumerationInvariant, Chosen
<1>5. /\ InState(RUNNING)' => client'
      /\ client' => InState(RUNNING)' \/ InState(HOLDING)' \/ InSubState(INITIALIZE)'
  BY DEF EnumerationInvariant, Chosen
<1> USE DEF USBHostDeviceStatus, Lifecycle!Next
<1>6. CASE InState(DETACHED)'
  <2>1. client' = client \/ ~client'
    <3>1. ~InitClientDrivers
      BY <1>6, InitClientMoves
    <3> QED BY <3>1, ClientWriters, ClientStep
  <2> QED BY <1>2, <1>3, <1>6, <2>1 DEF Lifecycle!Detach
<1>7. CASE usbHostState'[1] \in 1 .. 3
  <2>1. ~client'
    BY <1>5, <1>7
  <2>2. CASE usbHostState[1] \in 1 .. 3
    BY <1>2, <1>3, <1>4, <1>7, <2>1, <2>2
  <2>3. CASE At(0, 3, 0)
    BY <1>2, <1>3, <1>4, <1>7, <2>1, <2>3 DEF Lifecycle!Connect
  <2> QED BY <1>1, <1>7, <2>2, <2>3 DEF Stages
<1>8. CASE InState(RUNNING)'
  <2>1. CASE InState(RUNNING)
    BY <1>2, <1>3, <1>4, <1>5, <1>8, <2>1 DEF Lifecycle!Suspend, Lifecycle!Resume
  <2>2. CASE InitClientDrivers
    <3>1. InState(CONFIGURING) /\ usbHostState' = <<4, 0, 0>>
      BY <1>8, <2>2, InitClientMoves
    <3> QED BY <1>3, <1>5, <1>8, <3>1 DEF Lifecycle!Accept
  <2> QED BY <1>1, <1>8, <2>1, <2>2 DEF Stages
<1>9. CASE InState(HOLDING)'
  <2>2. CASE InState(HOLDING) /\ info' = info
    <3>1. client' = client
      <4>1. ~InitClientDrivers
        BY <2>2, InitClientMoves
      <4>2. ~Initialize /\ ~VbusOvercurrent
        BY <1>9 DEF Initialize, VbusOvercurrent
      <4> QED BY <4>1, <4>2, ClientWriters
    <3> QED BY <1>2, <1>3, <1>9, <2>2, <3>1
  <2>3. CASE usbHostState[1] \in 1 .. 3 /\ info'.errorCode \in HoldErrors
    <3>1. ~client
      BY <1>2, <1>4, <2>3
    <3> QED BY <1>2, <1>3, <1>9, <2>3, <3>1 DEF Lifecycle!Refuse
  <2> QED BY <1>9, <2>2, <2>3, HoldReasons
<1> QED BY <1>3, <1>6, <1>7, <1>8, <1>9

(* The stack implements the life cycle that its status function shows. *)
THEOREM LifecycleIsImplemented == ASSUME NoReconfiguration PROVE Spec => ImplementsLifecycle
<1>1. Init => Lifecycle!Init
  BY DEF Init, Lifecycle!Init, USBHostDeviceStatus
<1>2. EnumerationInvariant /\ EnumerationInvariant' /\ [Next]_vars =>
        [Lifecycle!Next]_<<USBHostDeviceStatus, client>>
  BY LifecycleStep, NoReconfiguration
<1> QED BY <1>1, <1>2, EnumerationHolds, PTL DEF Spec, ImplementsLifecycle, Lifecycle!Spec
================================================================================
