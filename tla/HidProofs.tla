-------------------------------- MODULE HidProofs --------------------------------
(* Proofs about the HID client driver: for any devices, however many interfaces they have,
   any answers of the memory and the bus, and any calls of an application. *)
EXTENDS HidProperties, FiniteSetTheorems, WellFoundedInduction, TLAPS

Statuses == {"busy", "ok", "stalled", "error", "unresolved"}
PipeFields == {"status", "for", "bytes"}
DriverFields == {"address", "state", "bfReset", "collected", "error", "bytes", "endpoint",
                 "descriptor"}

(* What each step of the driver needs of the endpoints and of its own record. *)
PipesTyped ==
  /\ ep = [e \in Endpoints |-> ep[e]]
  /\ \A e \in Endpoints : /\ ep[e] = [f \in PipeFields |-> ep[e][f]]
                          /\ ep[e].status \in Statuses
  /\ hid = [f \in DriverFields |-> hid[f]]
  /\ hid.endpoint \in Endpoints

(* The steps of the driver with any application above it, in any order. *)
Call ==
  \/ \E read \in BOOLEAN, n \in 1 .. MaxInterfaces : Transfer(read, n)
  \/ \E read \in BOOLEAN, n \in 1 .. MaxInterfaces : USBHostHIDTerminateTransfer(read, n)
  \/ USBHostHIDResetDevice
DriverStep ==
  \/ hid.state[1] # UNDEFINED /\ (USBHostTasks \/ USBHostHIDTasks \/ Call)
  \/ Bus \/ User \/ UNCHANGED vars

(* What a step may do to an endpoint. *)
Clears(e) ==
  /\ ep[e].status \in {"stalled", "error"}
  /\ ep'[e] = [ep[e] EXCEPT !.status = "unresolved"]
Starts(e) ==
  /\ usb.status = "ATTACHED" /\ UNCHANGED usb
  /\ \/ ep[e].status \in {"ok", "unresolved"} /\ Exists(e)
     \/ e = EP0 /\ ep[e].status # "busy"
  /\ \E what \in Purposes :
       /\ ep'[e] = [status |-> "busy", for |-> what, bytes |-> 0]
       /\ what = "read" => e[1] = "in"
Forgets(e) == ep'[e] = NoTransfer /\ usb'.status = "DETACHED"
Terminates(e) ==
  ep[e].status = "busy" /\ ep'[e] = [ep[e] EXCEPT !.status = "unresolved"]
Ends(e) ==
  /\ ep[e].status = "busy"
  /\ \/ \E how \in {"stalled", "error"} : ep'[e] = [ep[e] EXCEPT !.status = how]
     \/ \E bytes \in IF ep[e].for = "read" THEN {0, port[e[2]].size} ELSE {0} :
          /\ Answers
          /\ ep'[e] = [ep[e] EXCEPT !.status = "ok", !.bytes = bytes]
PipeStep(e) ==
  ep'[e] = ep[e] \/ Clears(e) \/ Starts(e) \/ Forgets(e) \/ Terminates(e) \/ Ends(e)
PipeSteps == ep' = [e \in Endpoints |-> ep'[e]] /\ \A e \in Endpoints : PipeStep(e)

LEMMA EndpointsAre ==
  /\ EP0 \in Endpoints
  /\ \A n \in 1 .. MaxInterfaces : In(n) \in Endpoints /\ Out(n) \in Endpoints
  /\ \A n : In(n) # EP0 /\ Out(n) # EP0 /\ In(n)[1] = "in" /\ Out(n)[1] = "out"
BY DEF EP0, In, Out, Endpoints

\* Nothing changes but one endpoint.
LEMMA OnePipeSteps ==
  ASSUME PipesTyped, NEW e \in Endpoints, NEW r, ep' = [ep EXCEPT ![e] = r], PipeStep(e)
  PROVE  PipeSteps
<1>1. \A f \in Endpoints : f # e => ep'[f] = ep[f]
  BY DEF PipesTyped
<1>2. ep' = [f \in Endpoints |-> ep'[f]]
  BY DEF PipesTyped
<1> QED BY <1>1, <1>2 DEF PipeSteps, PipeStep

LEMMA StartedSteps ==
  ASSUME PipesTyped, NEW e \in Endpoints, NEW what \in Purposes,
         ep' = Started(e, what), UNCHANGED usb,
         what = "read" => e[1] = "in",
         AcceptsTransfer(e) \/ (e = EP0 /\ AcceptsDeviceRequest)
  PROVE  PipeSteps
<1>1. ep'[e] = [status |-> "busy", for |-> what, bytes |-> 0]
  BY DEF PipesTyped, Started
<1>2. Starts(e)
  BY <1>1 DEF Starts, AcceptsTransfer, AcceptsDeviceRequest
<1> QED BY <1>2, OnePipeSteps DEF Started, PipeStep

LEMMA ClearedSteps ==
  ASSUME PipesTyped, NEW e \in Endpoints, ep' = Cleared(e), ep[e].status # "busy"
  PROVE  PipeSteps
<1>1. PipeStep(e)
  BY DEF PipeStep, Clears, PipesTyped, Cleared, PipeFields, Statuses
<1> QED BY <1>1, OnePipeSteps DEF Cleared

\* A reset, after the errors of an endpoint have been cleared.
LEMMA ResetSteps ==
  ASSUME PipesTyped, NEW e \in Endpoints, NEW h, StartReset(h, Cleared(e)),
         ep[e].status # "busy", UNCHANGED usb
  PROVE  PipeSteps
<1>1. CASE ~AcceptsDeviceRequest
  BY <1>1, ClearedSteps DEF StartReset
<1>2. CASE AcceptsDeviceRequest
  <2>1. ep' = [Cleared(e) EXCEPT ![EP0] = [status |-> "busy", for |-> "reset", bytes |-> 0]]
    BY <1>2 DEF StartReset
  <2>2. Starts(EP0)
    BY <1>2, <2>1, EndpointsAre DEF Starts, AcceptsDeviceRequest, Cleared, PipesTyped, Purposes
  <2>3. \A f \in Endpoints : f # e /\ f # EP0 => ep'[f] = ep[f]
    BY <2>1 DEF PipesTyped, Cleared
  <2>4. e # EP0 => ep'[e] = ep[e] \/ Clears(e)
    BY <2>1 DEF Clears, PipesTyped, Cleared, PipeFields, Statuses
  <2>5. ep' = [f \in Endpoints |-> ep'[f]]
    BY <2>1 DEF PipesTyped, Cleared
  <2> QED BY <2>2, <2>3, <2>4, <2>5 DEF PipeSteps, PipeStep
<1> QED BY <1>1, <1>2

LEMMA PipesStep ==
  ASSUME PipesTyped, DriverStep
  PROVE  PipeSteps
<1>1. CASE UNCHANGED ep
  BY <1>1 DEF PipeSteps, PipeStep, PipesTyped
<1>2. CASE HostDetach
  BY <1>2 DEF HostDetach, PipeSteps, PipeStep, Forgets
<1>3. CASE SendGetReportDescriptor
  BY <1>1, <1>3, StartedSteps, EndpointsAre DEF SendGetReportDescriptor, Purposes
<1>4. CASE WaitForReportDescriptor
  BY <1>1, <1>4, ClearedSteps, EndpointsAre DEF WaitForReportDescriptor, Complete
<1>5. CASE TransferWait
  <2>1. ep[hid.endpoint].status # "busy" /\ hid.endpoint \in Endpoints /\ UNCHANGED usb
    BY <1>5 DEF TransferWait, Complete, PipesTyped
  <2>2. \/ ep' = Cleared(hid.endpoint)
        \/ StartReset(hid, Cleared(hid.endpoint))
        \/ UNCHANGED ep
    BY <1>5 DEF TransferWait
  <2> QED BY <1>1, <2>1, <2>2, ClearedSteps, ResetSteps
<1>6. CASE WaitForReset
  <2>1. ep[EP0].status # "busy" /\ UNCHANGED usb
    BY <1>6 DEF WaitForReset, Complete
  <2>2. UNCHANGED ep \/ StartReset([hid EXCEPT !.error = ErrorOf(EP0)], Cleared(EP0))
    BY <1>6 DEF WaitForReset
  <2> QED BY <1>1, <2>1, <2>2, EndpointsAre, ResetSteps
<1>7. ASSUME NEW read \in BOOLEAN, NEW n \in 1 .. MaxInterfaces, Transfer(read, n)
      PROVE  PipeSteps
  <2> DEFINE e == IF read THEN In(n) ELSE IF interfaces[IndexOf(n)].out THEN Out(n) ELSE EP0
             what == IF read THEN "read" ELSE "write"
  <2>1. e \in Endpoints /\ what \in Purposes /\ (what = "read" => e[1] = "in")
    BY EndpointsAre DEF Purposes
  <2>2. \/ UNCHANGED ep
        \/ /\ IF e = EP0 THEN AcceptsDeviceRequest ELSE AcceptsTransfer(e)
           /\ ep' = Started(e, what)
    BY <1>7 DEF Transfer
  <2>3. UNCHANGED usb
    BY <1>7 DEF Transfer
  <2> HIDE DEF e, what
  <2> QED BY <1>1, <2>1, <2>2, <2>3, StartedSteps
<1>8. ASSUME NEW read \in BOOLEAN, NEW n \in 1 .. MaxInterfaces,
             USBHostHIDTerminateTransfer(read, n)
      PROVE  PipeSteps
  <2> DEFINE e == IF read THEN In(n) ELSE IF interfaces[IndexOf(n)].out THEN Out(n) ELSE EP0
  <2>1. e \in Endpoints
    BY EndpointsAre
  <2>2. \/ UNCHANGED ep
        \/ ep' = [ep EXCEPT ![e].status = IF @ = "busy" THEN "unresolved" ELSE @]
    BY <1>8 DEF USBHostHIDTerminateTransfer
  <2> HIDE DEF e
  <2>3. CASE ep' = [ep EXCEPT ![e].status = IF @ = "busy" THEN "unresolved" ELSE @]
    <3>1. PipeStep(e)
      BY <2>1, <2>3 DEF PipeStep, Terminates, PipesTyped, PipeFields
    <3> QED BY <2>1, <2>3, <3>1, OnePipeSteps
  <2> QED BY <1>1, <2>2, <2>3
<1>9. CASE USBHostHIDResetDevice
  <2>1. \/ UNCHANGED ep
        \/ AcceptsDeviceRequest /\ ep' = Started(EP0, "reset")
    BY <1>9 DEF USBHostHIDResetDevice, StartReset, Started
  <2>2. UNCHANGED usb
    BY <1>9 DEF USBHostHIDResetDevice
  <2> QED BY <1>1, <2>1, <2>2, StartedSteps, EndpointsAre DEF Purposes
<1>10. CASE Bus
  <2>1. ASSUME NEW e \in Endpoints, TransferSucceeds(e) PROVE PipeSteps
    <3>1. PICK bytes \in IF ep[e].for = "read" THEN {0, port[e[2]].size} ELSE {0} :
            ep' = [ep EXCEPT ![e].status = "ok", ![e].bytes = bytes]
      BY <2>1 DEF TransferSucceeds
    <3>2. ep'[e] = [ep[e] EXCEPT !.status = "ok", !.bytes = bytes]
      BY <3>1 DEF PipesTyped
    <3>3. Ends(e)
      BY <2>1, <3>2 DEF Ends, TransferSucceeds
    <3>4. \A f \in Endpoints : f # e => ep'[f] = ep[f]
      BY <3>1 DEF PipesTyped
    <3>5. ep' = [f \in Endpoints |-> ep'[f]]
      BY <3>1 DEF PipesTyped
    <3> QED BY <3>3, <3>4, <3>5 DEF PipeSteps, PipeStep
  <2>2. ASSUME NEW e \in Endpoints, NEW how \in {"stalled", "error"}, TransferFails(e, how)
        PROVE  PipeSteps
    <3>1. Ends(e)
      BY <2>2 DEF Ends, TransferFails, PipesTyped
    <3> QED BY <2>2, <3>1, OnePipeSteps DEF TransferFails, PipeStep
  <2> QED BY <1>10, <2>1, <2>2 DEF Bus
<1>11. CASE USBHostTasks
  BY <1>1, <1>2, <1>11 DEF USBHostTasks, HostEnumerate, HostInitializeClient, HostWaits, vars
<1>12. CASE USBHostHIDTasks
  BY <1>1, <1>3, <1>4, <1>5, <1>6, <1>12 DEF USBHostHIDTasks, ForgetState, Waits,
     WaitForEnumeration, DeviceEnumerated, GetReportDescriptorComplete,
     ParseReportDescriptor, ParsingComplete, TransferDone, vars
<1>13. CASE User
  BY <1>1, <1>13 DEF User, PlugIn, Unplug
<1>14. CASE UNCHANGED vars
  BY <1>1, <1>14 DEF vars
<1> QED BY <1>7, <1>8, <1>9, <1>10, <1>11, <1>12, <1>13, <1>14 DEF DriverStep, Call

LEMMA PipesTypedInit == Init => PipesTyped
BY EndpointsAre DEF Init, PipesTyped, NoTransfer, PipeFields, DriverFields, Statuses

\* The endpoint of a transfer is set with its start and stays.
LEMMA EndpointStep ==
  ASSUME PipesTyped, DriverStep
  PROVE  hid' = [f \in DriverFields |-> hid'[f]] /\ hid'.endpoint \in Endpoints
<1> USE DEF DriverFields, Lock, Undefined
<1>0. hid = [f \in DriverFields |-> hid[f]] /\ hid.endpoint \in Endpoints
  BY DEF PipesTyped
<1>1. CASE UNCHANGED hid
  BY <1>0, <1>1
<1>2. ASSUME NEW d, InitializeDevice(d)
      PROVE \E a, s : hid' = [hid EXCEPT !.address = a, !.state = s] \/ UNCHANGED hid
  BY <1>2 DEF InitializeDevice
<1>3. CASE USBHostTasks
  <2>1. DetachEvent => \/ UNCHANGED hid
                       \/ \E a, s : hid' = [hid EXCEPT !.address = a, !.state = s]
    BY DEF DetachEvent
  <2>2. \/ UNCHANGED hid
        \/ \E a, s : hid' = [hid EXCEPT !.address = a, !.state = s]
    BY <1>2, <1>3, <2>1 DEF USBHostTasks, HostDetach, HostEnumerate, HostInitializeClient,
       HostWaits, vars
  <2> QED BY <1>0, <1>1, <2>2
<1>4. CASE \/ ForgetState \/ Waits \/ WaitForEnumeration \/ DeviceEnumerated
           \/ GetReportDescriptorComplete \/ TransferDone
  BY <1>0, <1>4 DEF ForgetState, Waits, WaitForEnumeration, DeviceEnumerated,
     GetReportDescriptorComplete, TransferDone, vars
<1>5. CASE SendGetReportDescriptor
  BY <1>0, <1>5 DEF SendGetReportDescriptor
<1>6. CASE WaitForReportDescriptor
  BY <1>0, <1>6 DEF WaitForReportDescriptor
<1>7. CASE ParseReportDescriptor
  BY <1>0, <1>7 DEF ParseReportDescriptor
<1>8. CASE ParsingComplete
  BY <1>0, <1>8 DEF ParsingComplete
<1>9. CASE TransferWait
  BY <1>0, <1>9 DEF TransferWait, StartReset
<1>10. CASE WaitForReset
  BY <1>0, <1>10 DEF WaitForReset, StartReset
<1>11. ASSUME NEW read \in BOOLEAN, NEW n \in 1 .. MaxInterfaces, Transfer(read, n)
       PROVE  hid' = [f \in DriverFields |-> hid'[f]] /\ hid'.endpoint \in Endpoints
  <2> DEFINE e == IF read THEN In(n) ELSE IF interfaces[IndexOf(n)].out THEN Out(n) ELSE EP0
  <2>1. e \in Endpoints
    BY EndpointsAre
  <2>2. \/ UNCHANGED hid \/ Undefined
        \/ \E s : hid' = [TransferInit(hid, e) EXCEPT !.state = s]
        \/ hid' = [TransferInit(hid, e) EXCEPT !.error = "refused", !.state = WAITING_FOR_REQ]
    BY <1>11 DEF Transfer
  <2> HIDE DEF e
  <2> QED BY <1>0, <2>1, <2>2 DEF TransferInit
<1>12. CASE USBHostHIDResetDevice
  BY <1>0, <1>12 DEF USBHostHIDResetDevice, StartReset
<1>13. ASSUME NEW read \in BOOLEAN, NEW n \in 1 .. MaxInterfaces,
              USBHostHIDTerminateTransfer(read, n)
       PROVE  hid' = [f \in DriverFields |-> hid'[f]] /\ hid'.endpoint \in Endpoints
  BY <1>0, <1>13 DEF USBHostHIDTerminateTransfer
<1>14. CASE Bus \/ User \/ UNCHANGED vars
  BY <1>1, <1>14 DEF Bus, TransferSucceeds, TransferFails, User, PlugIn, Unplug, vars
<1> QED BY <1>3, <1>4, <1>5, <1>6, <1>7, <1>8, <1>9, <1>10, <1>11, <1>12, <1>13, <1>14
       DEF DriverStep, Call, USBHostHIDTasks

LEMMA PipesTypedStep ==
  ASSUME PipesTyped, DriverStep
  PROVE  PipesTyped'
<1>1. PipeSteps
  BY PipesStep
<1>2. ASSUME NEW e \in Endpoints
      PROVE  ep'[e] = [f \in PipeFields |-> ep'[e][f]] /\ ep'[e].status \in Statuses
  <2>1. ep[e] = [f \in PipeFields |-> ep[e][f]] /\ ep[e].status \in Statuses
    BY DEF PipesTyped
  <2>2. PipeStep(e)
    BY <1>1 DEF PipeSteps
  <2>3. CASE Clears(e) \/ Terminates(e)
    BY <2>1, <2>3 DEF Clears, Terminates, PipeFields, Statuses
  <2>4. CASE Starts(e)
    BY <2>4 DEF Starts, PipeFields, Statuses
  <2>5. CASE Forgets(e)
    BY <2>5 DEF Forgets, NoTransfer, PipeFields, Statuses
  <2>6. CASE Ends(e)
    BY <2>1, <2>6 DEF Ends, PipeFields, Statuses
  <2> QED BY <2>1, <2>2, <2>3, <2>4, <2>5, <2>6 DEF PipeStep
<1>3. ep' = [e \in Endpoints |-> ep'[e]]
  BY <1>1 DEF PipeSteps
<1> QED BY <1>2, <1>3, EndpointStep DEF PipesTyped

LEMMA NextIsDriverStep == [Next]_vars => DriverStep
BY DEF Next, DriverStep, Application, Call, vars

(* Every step of the driver, of its application and of the bus is one the endpoints allow. *)
LEMMA PipeNext ==
  ASSUME PipesTyped, DriverStep
  PROVE  [Pipe!Next]_([e \in Endpoints |-> ep[e].status])
<1> DEFINE status == [e \in Endpoints |-> ep[e].status]
<1>1. PipeSteps
  BY PipesStep
<1>2. ASSUME NEW e \in Endpoints
      PROVE  \/ status'[e] = status[e]
             \/ Pipe!Prepare(e) \/ Pipe!Start(e) \/ Pipe!End(e) \/ Pipe!Abort(e)
  <2>1. ep[e] = [f \in PipeFields |-> ep[e][f]]
    BY DEF PipesTyped
  <2>2. CASE ep'[e] = ep[e]
    BY <2>2
  <2>3. CASE Clears(e)
    BY <2>1, <2>3 DEF Clears, Pipe!Prepare, PipeFields
  <2>4. CASE Starts(e)
    BY <2>4 DEF Starts, Pipe!Start
  <2>5. CASE Forgets(e)
    BY <2>5 DEF Forgets, NoTransfer, Pipe!Abort
  <2>6. CASE Terminates(e)
    BY <2>1, <2>6 DEF Terminates, Pipe!Abort, PipeFields
  <2>7. CASE Ends(e)
    BY <2>1, <2>7 DEF Ends, Pipe!End, Pipe!Endings, PipeFields
  <2> QED BY <1>1, <2>2, <2>3, <2>4, <2>5, <2>6, <2>7 DEF PipeSteps, PipeStep
<1> QED BY <1>2 DEF Pipe!Next

(* Whatever its application calls and the user plugs, the driver uses its endpoints as the
   host stack allows: no transfer on an endpoint that is busy, or that has an error which
   was not cleared, and no result is lost but with its device. *)
THEOREM EndpointsAreUsed == Spec => UsesPipes
<1>1. Init => Pipe!Init
  BY DEF Init, NoTransfer, Pipe!Init
<1>2. PipesTyped /\ [Next]_vars => PipesTyped'
  BY PipesTypedStep, NextIsDriverStep
<1>3. PipesTyped /\ [Next]_vars => [Pipe!Next]_([e \in Endpoints |-> ep[e].status])
  BY PipeNext, NextIsDriverStep
<1> QED BY <1>1, <1>2, <1>3, PipesTypedInit, PTL DEF Spec, UsesPipes, Pipe!Spec

-------------------------------------------------------------------------------
(* The interface list *)

Less == {pair \in Nat \X Nat : pair[1] < pair[2]}
LEMMA LessIsWellFounded == IsWellFoundedOn(Less, Nat)
BY NatLessThanWellFounded DEF OpToRel, Less

LEMMA Smallest ==
  ASSUME NEW S, S \subseteq Nat, S # {}
  PROVE  \E m \in S : \A k \in S : m <= k
<1>1. PICK m \in S : \A k \in S : <<k, m>> \notin Less
  BY LessIsWellFounded, WFMin
<1>2. \A k \in S : ~(k < m)
  BY <1>1 DEF Less
<1> QED BY <1>2

(* A finite set of numbers has a first, a second, ... element, up to the last. *)
LEMMA EveryPlaceIsTaken ==
  ASSUME NEW k \in Nat, NEW S, S \subseteq 1 .. k, NEW i \in 1 .. Cardinality(S)
  PROVE  \E n \in S : Cardinality({m \in S : m <= n}) = i
<1> DEFINE place(n) == Cardinality({m \in S : m <= n})
           empty == {j \in 1 .. Cardinality(S) : \A n \in S : place(n) # j}
<1>1. IsFiniteSet(S) /\ Cardinality(S) \in Nat
  <2>1. IsFiniteSet(1 .. k)
    BY FS_Interval
  <2> QED BY <2>1, FS_Subset, FS_CardinalityType
<1>7. \A n \in S : n \in Nat
  OBVIOUS
<1>2. \A n \in S : IsFiniteSet({m \in S : m <= n})
  BY <1>1, FS_Subset
<1> SUFFICES ASSUME i \in empty PROVE FALSE
  OBVIOUS
<1>3. PICK j \in empty : \A l \in empty : j <= l
  <2>1. empty \subseteq Nat /\ empty # {}
    BY <1>1
  <2> HIDE DEF empty
  <2> QED BY <2>1, Smallest
<1>4. j \in 1 .. Cardinality(S) /\ \A n \in S : place(n) # j
  BY <1>3
<1>5. CASE j = 1
  <2>1. S # {}
    BY <1>1, <1>4, <1>5, FS_EmptySet
  <2>2. PICK n \in S : \A m \in S : n <= m
    BY <1>7, <2>1, Smallest
  <2>3. {m \in S : m <= n} = {n}
    <3>1. \A m \in S : m <= n <=> m = n
      BY <1>7, <2>2
    <3> QED BY <3>1
  <2> QED BY <1>4, <1>5, <2>3, FS_Singleton
<1>6. CASE j # 1
  <2>1. j - 1 \in 1 .. Cardinality(S) /\ ~(j <= j - 1)
    BY <1>1, <1>4, <1>6
  <2>2. j - 1 \notin empty
    BY <1>3, <2>1
  <2>3. PICK n \in S : place(n) = j - 1
    BY <2>1, <2>2
  <2> DEFINE above == {m \in S : m > n}
  <2>4. above # {}
    <3>1. above = {} => {m \in S : m <= n} = S
      <4>1. \A m \in S : m > n \/ m <= n
        BY <1>7
      <4> QED BY <4>1
    <3> QED BY <1>4, <2>1, <2>3, <3>1
  <2>5. PICK u \in above : \A m \in above : u <= m
    <3>1. above \subseteq Nat
      BY <1>7
    <3> HIDE DEF above
    <3> QED BY <2>4, <3>1, Smallest
  <2>6. {m \in S : m <= u} = {m \in S : m <= n} \cup {u} /\ u \notin {m \in S : m <= n}
    <3>1. \A m \in S : m <= u <=> m <= n \/ m = u
      BY <1>7, <2>5
    <3>2. u \in S /\ ~(u <= n)
      BY <1>7, <2>5
    <3> QED BY <3>1, <3>2
  <2>7. place(u) = place(n) + 1
    BY <1>2, <2>3, <2>6, FS_AddElement
  <2> QED BY <1>1, <1>4, <2>3, <2>5, <2>7
<1> QED BY <1>5, <1>6

Node == [number : 1 .. MaxInterfaces, in : BOOLEAN, out : BOOLEAN, described : BOOLEAN]

(* The nodes that are made are those of interfaces of the device with the HID class. *)
LEMMA NodesAre ==
  ASSUME NEW d \in Devices, NEW fails
  PROVE  /\ Nodes(d, fails) \in Seq(Node)
         /\ \A i \in DOMAIN Nodes(d, fails) :
              Nodes(d, fails)[i].number \in DOMAIN d /\ d[Nodes(d, fails)[i].number].hid
<1> DEFINE made == {n \in DOMAIN d : d[n].hid /\ n < fails}
           number(i) == CHOOSE n \in made : Cardinality({m \in made : m <= n}) = i
           size == Cardinality(made)
<1>1. d \in Seq(Interfaces) /\ Len(d) \in Nat /\ Len(d) <= MaxInterfaces /\ DOMAIN d = 1 .. Len(d)
  BY DeviceAssumption
<1>2. made \subseteq 1 .. Len(d)
  BY <1>1
<1>3. size \in Nat
  <2>1. IsFiniteSet(1 .. Len(d))
    BY <1>1, FS_Interval
  <2> HIDE DEF made
  <2>2. IsFiniteSet(made)
    BY <1>2, <2>1, FS_Subset
  <2> QED BY <2>2, FS_CardinalityType
<1>4. ASSUME NEW i \in 1 .. size PROVE number(i) \in made
  <2> HIDE DEF made
  <2>1. \E n \in made : Cardinality({m \in made : m <= n}) = i
    BY <1>1, <1>2, EveryPlaceIsTaken
  <2> QED BY <2>1
<1> DEFINE record(i) == [number |-> number(i), in |-> d[number(i)].in,
                         out |-> d[number(i)].out, described |-> d[number(i)].described]
<1>5. Nodes(d, fails) = [i \in 1 .. size |-> record(i)]
  BY DEF Nodes
<1>6. ASSUME NEW i \in 1 .. size
      PROVE  record(i) \in Node /\ record(i).number \in DOMAIN d /\ d[record(i).number].hid
  <2>1. number(i) \in made
    BY <1>4
  <2> DEFINE n == number(i)
  <2> HIDE DEF number
  <2>2. n \in 1 .. MaxInterfaces /\ n \in DOMAIN d /\ d[n].hid /\ d[n] \in Interfaces
    BY <1>1, <2>1, MaxInterfacesAssumption
  <2> QED BY <2>2 DEF Node, Interfaces
<1> HIDE DEF record, size
<1>7. [i \in 1 .. size |-> record(i)] \in Seq(Node)
  BY <1>3, <1>6
<1> QED BY <1>5, <1>6, <1>7
-------------------------------------------------------------------------------
(* The inductive invariant *)

(* The HID class asks for an interrupt IN endpoint.  Initialize takes an interface without
   one into its list, but not the device for its own, when that is all there is; the list
   is then never freed, and gets the interfaces of the next device at its end. *)
InputsPresent == \A d \in Devices : \A n \in DOMAIN d : d[n].hid => d[n].in

(* The driver has a device only while the host stack has it, and forgets its state with
   its device; the port holds that device until its detach interrupt. *)
HostKnown ==
  /\ port \in Devices \cup {NoDevice}
  /\ usb = [f \in {"status", "device", "detach"} |-> usb[f]]
  /\ usb.status \in {"DETACHED", "ENUMERATING", "ATTACHED", "HOLDING"}
  /\ usb.device \in Devices \cup {NoDevice} /\ usb.detach \in BOOLEAN
  /\ usb.status = "DETACHED" <=> usb.device = NoDevice
  /\ usb.device = NoDevice \/ usb.detach \/ port = usb.device
  /\ hid.address \in {0, 1}
  /\ Attached => usb.status \in {"ATTACHED", "HOLDING"}
  /\ ~Attached => hid.state = <<DETACHED, 0>>

(* A busy endpoint is one of the device that is attached. *)
PipesBusy ==
  \A e \in Endpoints :
    /\ ep[e].for \in Purposes
    /\ ep[e].status = "busy" => usb.status = "ATTACHED" /\ Exists(e)
    /\ ep[e].for = "read" => e[1] = "in"

(* The nodes of the list are of interfaces of the device, all of them if it is attached;
   without a device there are none. *)
ListKnown ==
  /\ interfaces \in Seq(Node)
  /\ ~Attached => interfaces = <<>>
  /\ Attached => \A i \in DOMAIN interfaces : interfaces[i].number \in DOMAIN usb.device
  /\ InterfacesOfThisDevice
  /\ pCurrInterfaceDetails \in {None, Dangling} \cup DOMAIN interfaces

(* From the request of a report descriptor until it is parsed, its interface is one of
   the device. *)
DescriptorStates == {WAIT_FOR_REPORT_DSC, GET_REPORT_DSC_COMPLETE, PARSE_REPORT_DSC,
                     PARSING_COMPLETE}
DescriptorKnown ==
  /\ hid.state \in HidStates
  /\ hid.descriptor \in 0 .. MaxInterfaces
  /\ hid.state \in DescriptorStates => Attached /\ hid.descriptor \in DOMAIN usb.device

CountsTyped ==
  /\ hid.bfReset \in BOOLEAN /\ hid.collected \in BOOLEAN /\ hid.bytes \in 0 .. 255
  /\ \A e \in Endpoints : ep[e].bytes \in 0 .. 255
  /\ report \in Reports /\ buffer \in Reports

DriverInv == /\ PipesTyped /\ HostKnown /\ PipesBusy /\ ListKnown /\ DescriptorKnown
             /\ CountsTyped

-------------------------------------------------------------------------------
LEMMA InputEndpoint ==
  ASSUME NEW e \in Endpoints, e[1] = "in"
  PROVE  e[2] \in 1 .. MaxInterfaces /\ e = In(e[2]) /\ e # EP0 /\ \A n : e # Out(n)
BY DEF Endpoints, EP0, In, Out

(* The driver, its application and the bus leave the device to the host stack, and the list
   to a device. *)
LEMMA DriverMoves ==
  ASSUME PipesTyped, USBHostHIDTasks \/ Call \/ Bus
  PROVE  /\ UNCHANGED <<port, usb>> /\ hid'.address = hid.address
         /\ ~Attached => /\ hid'.state \in {hid.state, <<DETACHED, 0>>}
                         /\ UNCHANGED interfaces
         /\ interfaces' \in {interfaces, <<>>}
<1>0. hid = [f \in DriverFields |-> hid[f]]
  BY DEF PipesTyped
<1> USE DEF DriverFields, Lock, Undefined
<1>1. CASE \/ ForgetState \/ Waits \/ WaitForEnumeration \/ DeviceEnumerated
           \/ GetReportDescriptorComplete \/ TransferDone
  BY <1>0, <1>1 DEF ForgetState, Waits, WaitForEnumeration, DeviceEnumerated, RunIn,
     GetReportDescriptorComplete, TransferDone, vars
<1>2. CASE SendGetReportDescriptor \/ WaitForReportDescriptor
  BY <1>0, <1>2 DEF SendGetReportDescriptor, WaitForReportDescriptor, RunIn
<1>3. CASE ParseReportDescriptor
  BY <1>0, <1>3 DEF ParseReportDescriptor, RunIn, FreeInterfaces
<1>4. CASE ParsingComplete
  BY <1>0, <1>4 DEF ParsingComplete, RunIn
<1>5. CASE TransferWait \/ WaitForReset
  BY <1>0, <1>5 DEF TransferWait, WaitForReset, RunIn, StartReset
<1>6. CASE Bus
  BY <1>0, <1>6 DEF Bus, TransferSucceeds, TransferFails
<1>7. CASE Call
  BY <1>0, <1>7 DEF Call, Transfer, USBHostHIDTerminateTransfer, USBHostHIDResetDevice,
     StartReset, TransferInit
<1> QED BY <1>1, <1>2, <1>3, <1>4, <1>5, <1>6, <1>7 DEF USBHostHIDTasks

\* One outcome of Initialize: the nodes that are made, and whether memory was enough.
Made(memory, nodes) ==
  LET found == \E i \in DOMAIN nodes : Usable(usb.device, nodes[i].number)
  IN /\ interfaces' = SubSeq(interfaces, 1, pCurrInterfaceDetails) \o nodes
     /\ pCurrInterfaceDetails' = IF interfaces' = <<>> THEN pCurrInterfaceDetails
                                 ELSE Len(interfaces')
     /\ hid' = [hid EXCEPT !.address = IF found THEN 1 ELSE 0,
                           !.state = IF memory /\ found THEN WAIT_FOR_ENUMERATION ELSE @]
     /\ usb' = [usb EXCEPT !.status = IF memory /\ found THEN "ATTACHED" ELSE "HOLDING"]

LEMMA InitializeIs ==
  ASSUME HostKnown, HostInitializeClient
  PROVE  /\ usb.device \in Devices /\ ~Attached
         /\ \E memory \in MemoryAnswers :
              LET d == usb.device
              IN \E fails \in IF memory THEN {Len(d) + 1} ELSE {n \in DOMAIN d : d[n].hid} :
                   Made(memory, Nodes(d, fails))
<1>1. usb.device \in Devices /\ ~Attached /\ InitializeDevice(usb.device)
  BY DEF HostInitializeClient, HostKnown
<1>2. PICK memory \in MemoryAnswers :
        \E fails \in IF memory THEN {Len(usb.device) + 1}
                     ELSE {n \in DOMAIN usb.device : usb.device[n].hid} :
          Made(memory, Nodes(usb.device, fails))
  BY <1>1 DEF InitializeDevice, Made
<1> QED BY <1>1, <1>2

(* The driver has the device from Initialize on, or is as it was. *)
LEMMA InitializeMoves ==
  ASSUME PipesTyped, HostKnown, HostInitializeClient
  PROVE  /\ UNCHANGED port /\ usb' = [usb EXCEPT !.status = usb'.status]
         /\ usb'.status \in {"ATTACHED", "HOLDING"}
         /\ hid' = [hid EXCEPT !.address = hid'.address, !.state = hid'.state]
         /\ hid'.address \in {0, 1} /\ hid'.state \in {hid.state, WAIT_FOR_ENUMERATION}
         /\ hid'.address = 0 \/ usb'.status # "ATTACHED" => hid'.state = hid.state
<1>1. PICK memory, found \in BOOLEAN :
        /\ hid' = [hid EXCEPT !.address = IF found THEN 1 ELSE 0,
                              !.state = IF memory /\ found THEN WAIT_FOR_ENUMERATION ELSE @]
        /\ usb' = [usb EXCEPT !.status = IF memory /\ found THEN "ATTACHED" ELSE "HOLDING"]
  BY InitializeIs, ResultsAssumption DEF Made
<1>2. /\ hid' = [hid EXCEPT !.address = hid'.address, !.state = hid'.state]
      /\ hid'.address = (IF found THEN 1 ELSE 0)
      /\ hid'.state = IF memory /\ found THEN WAIT_FOR_ENUMERATION ELSE hid.state
  BY <1>1 DEF PipesTyped, DriverFields
<1>3. /\ usb' = [usb EXCEPT !.status = usb'.status]
      /\ usb'.status = IF memory /\ found THEN "ATTACHED" ELSE "HOLDING"
  BY <1>1 DEF HostKnown
<1> QED BY <1>2, <1>3 DEF HostInitializeClient

(* An initialisation that does not take the device leaves no list. *)
LEMMA InitializeMakes ==
  ASSUME InputsPresent, PipesTyped, HostKnown, ListKnown, HostInitializeClient
  PROVE  /\ hid'.address = 0 => interfaces' = <<>>
         /\ interfaces' \in Seq(Node)
         /\ \A i \in DOMAIN interfaces' : interfaces'[i].number \in DOMAIN usb.device
         /\ usb'.status = "ATTACHED" =>
              interfaces' = Nodes(usb.device, Len(usb.device) + 1)
         /\ pCurrInterfaceDetails' \in {None, Dangling} \cup DOMAIN interfaces'
<1> DEFINE d == usb.device
<1>1. /\ ~Attached /\ interfaces = <<>> /\ d \in Devices
      /\ pCurrInterfaceDetails \in {None, Dangling}
  BY InitializeIs DEF ListKnown
<1>11. PICK memory \in MemoryAnswers :
         \E fails \in IF memory THEN {Len(d) + 1} ELSE {n \in DOMAIN d : d[n].hid} :
           Made(memory, Nodes(d, fails))
  BY InitializeIs
<1>2. PICK fails \in IF memory THEN {Len(d) + 1} ELSE {n \in DOMAIN d : d[n].hid} :
        Made(memory, Nodes(d, fails))
  BY <1>11
<1> DEFINE nodes == Nodes(d, fails)
           found == \E i \in DOMAIN nodes : Usable(d, nodes[i].number)
<1>3. nodes \in Seq(Node) /\ \A i \in DOMAIN nodes : /\ nodes[i].number \in DOMAIN d
                                                      /\ d[nodes[i].number].hid
  BY <1>1, NodesAre
<1>4. interfaces' = nodes
  <2>1. SubSeq(<<>>, 1, pCurrInterfaceDetails) = <<>>
    BY <1>1 DEF None, Dangling
  <2>2. <<>> \o nodes = nodes
    <3> HIDE DEF nodes
    <3> QED BY <1>3
  <2>3. interfaces' = SubSeq(interfaces, 1, pCurrInterfaceDetails) \o nodes
    BY <1>2 DEF Made
  <2> QED BY <1>1, <2>1, <2>2, <2>3
<1>5. nodes # <<>> => found
  <2>1. nodes # <<>> => 1 \in DOMAIN nodes
    <3> HIDE DEF nodes
    <3> QED BY <1>3
  <2>2. \A i \in DOMAIN nodes : Usable(d, nodes[i].number)
    BY <1>1, <1>3 DEF InputsPresent, Usable
  <2> QED BY <2>1, <2>2
<1>6. memory => nodes = Nodes(usb.device, Len(usb.device) + 1)
  BY <1>2
<1>7. pCurrInterfaceDetails' \in {None, Dangling} \cup DOMAIN interfaces'
  <2>1. interfaces' # <<>> => Len(interfaces') \in DOMAIN interfaces'
    <3> HIDE DEF nodes
    <3> QED BY <1>3, <1>4
  <2> QED BY <1>1, <1>2, <2>1 DEF Made
<1>8. /\ hid' = [hid EXCEPT !.address = IF found THEN 1 ELSE 0,
                            !.state = IF memory /\ found THEN WAIT_FOR_ENUMERATION ELSE @]
      /\ usb' = [usb EXCEPT !.status = IF memory /\ found THEN "ATTACHED" ELSE "HOLDING"]
  BY <1>2 DEF Made
<1> HIDE DEF nodes, found
<1>9. hid'.address = IF found THEN 1 ELSE 0
  BY <1>8 DEF PipesTyped, DriverFields
<1>10. usb'.status = IF memory /\ found THEN "ATTACHED" ELSE "HOLDING"
  BY <1>8 DEF HostKnown
<1> QED BY <1>3, <1>4, <1>5, <1>6, <1>7, <1>9, <1>10

LEMMA HostStep ==
  ASSUME PipesTyped, HostKnown, DriverStep
  PROVE  HostKnown'
<1>0. HostKnown /\ PipesTyped
  OBVIOUS
<1> USE DEF HostKnown, Attached
<1>1. CASE USBHostHIDTasks \/ Call \/ Bus
  <2>1. UNCHANGED <<port, usb>> /\ hid'.address = hid.address
    BY <1>0, <1>1, DriverMoves
  <2>2. ~Attached => hid'.state = <<DETACHED, 0>>
    BY <1>0, <1>1, DriverMoves
  <2> QED BY <1>0, <2>1, <2>2
<1>2. CASE HostDetach
  <2>1. \/ ~Attached /\ UNCHANGED hid
        \/ hid'.address = 0 /\ hid'.state = <<DETACHED, 0>>
    BY <1>0, <1>2 DEF HostDetach, DetachEvent, PipesTyped, DriverFields
  <2>2. /\ UNCHANGED port
        /\ usb' = [status |-> "DETACHED", device |-> NoDevice, detach |-> FALSE]
    BY <1>2 DEF HostDetach
  <2> QED BY <1>0, <2>1, <2>2
<1>3. CASE HostEnumerate
  <2>1. usb' = [usb EXCEPT !.status = "ENUMERATING", !.device = port] /\ UNCHANGED <<port, hid>>
        /\ port # NoDevice /\ ~Attached
    BY <1>0, <1>3 DEF HostEnumerate
  <2>2. /\ usb' = [f \in {"status", "device", "detach"} |-> usb'[f]]
        /\ usb'.status = "ENUMERATING" /\ usb'.device = port /\ usb'.detach = usb.detach
    BY <1>0, <2>1
  <2> QED BY <1>0, <2>1, <2>2, NoDeviceAssumption
<1>4. CASE HostInitializeClient
  <2>1. /\ UNCHANGED port /\ usb' = [usb EXCEPT !.status = usb'.status]
        /\ usb'.status \in {"ATTACHED", "HOLDING"}
        /\ hid'.address \in {0, 1}
        /\ hid'.address = 0 => hid'.state = hid.state
    BY <1>0, <1>4, InitializeMoves
  <2>2. usb.status = "ENUMERATING"
    BY <1>4 DEF HostInitializeClient
  <2>3. /\ usb' = [f \in {"status", "device", "detach"} |-> usb'[f]]
        /\ usb'.device = usb.device /\ usb'.detach = usb.detach
    BY <1>0, <2>1
  <2> QED BY <1>0, <2>1, <2>2, <2>3
<1>5. CASE User
  <2>1. CASE Unplug
    <3>1. /\ port' = NoDevice /\ UNCHANGED hid
          /\ usb' = [usb EXCEPT !.detach = usb.status # "DETACHED"]
      BY <2>1 DEF Unplug
    <3>2. /\ usb' = [f \in {"status", "device", "detach"} |-> usb'[f]]
          /\ usb'.status = usb.status /\ usb'.device = usb.device
          /\ usb'.detach = (usb.status # "DETACHED")
      BY <1>0, <3>1
    <3> QED BY <1>0, <3>1, <3>2
  <2>2. CASE \E d \in Devices : PlugIn(d)
    BY <1>0, <2>2 DEF PlugIn
  <2> QED BY <1>5, <2>1, <2>2 DEF User
<1>6. CASE HostWaits \/ UNCHANGED vars
  BY <1>0, <1>6 DEF HostWaits, vars
<1> QED BY <1>1, <1>2, <1>3, <1>4, <1>5, <1>6 DEF DriverStep, USBHostTasks

LEMMA PipesBusyStep ==
  ASSUME PipesTyped, HostKnown, PipesBusy, DriverStep
  PROVE  PipesBusy'
<1>0. HostKnown /\ PipesTyped /\ PipesBusy
  OBVIOUS
<1>1. PipeSteps /\ PipesTyped'
  BY <1>0, PipesStep, PipesTypedStep
<1> SUFFICES ASSUME NEW e \in Endpoints
    PROVE  /\ ep'[e].for \in Purposes
           /\ ep'[e].status = "busy" => usb'.status = "ATTACHED" /\ Exists(e)'
           /\ ep'[e].for = "read" => e[1] = "in"
  BY DEF PipesBusy
<1>2. PipeStep(e) /\ ep[e] = [f \in PipeFields |-> ep[e][f]]
  BY <1>0, <1>1 DEF PipeSteps, PipesTyped
<1>3. /\ ep[e].for \in Purposes
      /\ ep[e].status = "busy" => usb.status = "ATTACHED" /\ Exists(e)
      /\ ep[e].for = "read" => e[1] = "in"
  BY <1>0 DEF PipesBusy
<1>4. usb.status = "ATTACHED" => /\ usb'.device = usb.device /\ usb'.status = usb.status
                                 \/ ep' = [f \in Endpoints |-> NoTransfer]
  <2>1. CASE HostDetach
    BY <2>1 DEF HostDetach
  <2>2. CASE HostEnumerate \/ HostInitializeClient
    BY <2>2 DEF HostEnumerate, HostInitializeClient
  <2>3. CASE HostWaits \/ UNCHANGED vars
    BY <2>3 DEF HostWaits, vars
  <2>4. CASE User
    BY <1>0, <2>4 DEF User, PlugIn, Unplug, HostKnown
  <2>5. CASE USBHostHIDTasks \/ Call \/ Bus
    BY <1>0, <2>5, DriverMoves
  <2> QED BY <2>1, <2>2, <2>3, <2>4, <2>5 DEF DriverStep, USBHostTasks
<1>5. CASE ep' = [f \in Endpoints |-> NoTransfer]
  BY <1>5 DEF NoTransfer, Purposes
<1>6. CASE ep'[e] = ep[e] /\ ep' # [f \in Endpoints |-> NoTransfer]
  BY <1>3, <1>4, <1>6 DEF Exists
<1>7. CASE (Clears(e) \/ Terminates(e)) /\ ep' # [f \in Endpoints |-> NoTransfer]
  BY <1>2, <1>3, <1>7 DEF Clears, Terminates, PipeFields
<1>8. CASE Starts(e)
  <2>1. PICK what \in Purposes : /\ ep'[e] = [status |-> "busy", for |-> what, bytes |-> 0]
                                 /\ what = "read" => e[1] = "in"
    BY <1>8 DEF Starts
  <2>2. usb.device # NoDevice
    BY <1>0, <1>8 DEF Starts, HostKnown
  <2> QED BY <1>8, <2>1, <2>2 DEF Starts, Exists
<1>9. CASE Forgets(e)
  BY <1>9 DEF Forgets, NoTransfer, Purposes
<1>10. CASE Ends(e)
  BY <1>2, <1>3, <1>10 DEF Ends, PipeFields
<1> QED BY <1>2, <1>5, <1>6, <1>7, <1>8, <1>9, <1>10 DEF PipeStep

LEMMA IndexIsOfList ==
  ASSUME interfaces \in Seq(Node), NEW n
  PROVE  IndexOf(n) \in {None} \cup DOMAIN interfaces
<1> DEFINE found == {i \in DOMAIN interfaces : interfaces[i].number = n}
<1>1. found \subseteq Nat
  OBVIOUS
<1>2. found # {} => \E i \in found : \A j \in found : i <= j
  <2> HIDE DEF found
  <2> QED BY <1>1, Smallest
<1>3. IndexOf(n) = IF found = {} THEN None
                   ELSE CHOOSE i \in found : \A j \in found : i <= j
  BY DEF IndexOf
<1>4. found \subseteq DOMAIN interfaces
  OBVIOUS
<1> HIDE DEF found
<1> QED BY <1>2, <1>3, <1>4

(* The cursor is moved along the list, or set with a call. *)
LEMMA CursorStep ==
  ASSUME ListKnown, USBHostHIDTasks \/ Call \/ Bus
  PROVE  pCurrInterfaceDetails' \in {None, Dangling} \cup DOMAIN interfaces'
<1>0. /\ interfaces \in Seq(Node)
      /\ pCurrInterfaceDetails \in {None, Dangling} \cup DOMAIN interfaces
  BY DEF ListKnown
<1>1. CASE UNCHANGED <<interfaces, pCurrInterfaceDetails>>
  BY <1>0, <1>1
<1>2. CASE WaitForEnumeration
  BY <1>0, <1>2 DEF WaitForEnumeration
<1>3. CASE ParseReportDescriptor
  BY <1>0, <1>3 DEF ParseReportDescriptor, FreeInterfaces
<1>4. CASE ParsingComplete
  <2>1. \/ UNCHANGED <<interfaces, pCurrInterfaceDetails>>
        \/ pCurrInterfaceDetails' \in {None, Dangling}
        \/ /\ pCurrInterfaceDetails \notin {None, Dangling} /\ UNCHANGED interfaces
           /\ pCurrInterfaceDetails # Len(interfaces)
           /\ pCurrInterfaceDetails' = pCurrInterfaceDetails + 1
    BY <1>4 DEF ParsingComplete
  <2> QED BY <1>0, <1>1, <2>1
<1>5. CASE Call
  <2>1. UNCHANGED interfaces /\ (\/ pCurrInterfaceDetails' = pCurrInterfaceDetails
                                 \/ \E n : pCurrInterfaceDetails' = IndexOf(n))
    BY <1>5 DEF Call, Transfer, USBHostHIDTerminateTransfer, USBHostHIDResetDevice
  <2> QED BY <1>0, <2>1, IndexIsOfList
<1>6. CASE Bus
  BY <1>1, <1>6 DEF Bus, TransferSucceeds, TransferFails
<1> QED BY <1>1, <1>2, <1>3, <1>4, <1>5, <1>6 DEF USBHostHIDTasks, ForgetState, Waits,
        DeviceEnumerated, SendGetReportDescriptor, WaitForReportDescriptor,
        GetReportDescriptorComplete, TransferWait, TransferDone, WaitForReset, vars

LEMMA ListStep ==
  ASSUME InputsPresent, DriverInv, DriverStep
  PROVE  ListKnown'
<1>0. HostKnown /\ PipesTyped /\ ListKnown
  BY DEF DriverInv
<1> USE DEF ListKnown, InterfacesOfThisDevice, Attached
<1>1. CASE USBHostHIDTasks \/ Call \/ Bus
  <2>1. pCurrInterfaceDetails' \in {None, Dangling} \cup DOMAIN interfaces'
    BY <1>0, <1>1, CursorStep
  <2>2. /\ UNCHANGED <<port, usb>> /\ hid'.address = hid.address
        /\ ~Attached => UNCHANGED interfaces
        /\ interfaces' \in {interfaces, <<>>}
    BY <1>0, <1>1, DriverMoves
  <2>3. CASE UNCHANGED interfaces
    BY <1>0, <2>1, <2>2, <2>3
  <2>4. CASE interfaces' = <<>>
    BY <1>0, <2>1, <2>2, <2>4
  <2> QED BY <2>2, <2>3, <2>4
<1>2. CASE HostDetach
  <2>1. \/ ~Attached /\ UNCHANGED <<hid, interfaces, pCurrInterfaceDetails>>
        \/ /\ hid'.address = 0 /\ interfaces' = <<>>
           /\ pCurrInterfaceDetails' \in {None, Dangling}
    BY <1>0, <1>2 DEF HostDetach, DetachEvent, FreeInterfaces, PipesTyped, DriverFields
  <2>2. CASE ~Attached /\ UNCHANGED <<hid, interfaces, pCurrInterfaceDetails>>
    BY <1>0, <2>2
  <2>3. CASE /\ hid'.address = 0 /\ interfaces' = <<>>
             /\ pCurrInterfaceDetails' \in {None, Dangling}
    BY <2>3
  <2> QED BY <2>1, <2>2, <2>3
<1>3. CASE HostInitializeClient
  <2>1. usb'.device = usb.device
    BY <1>0, <1>3, InitializeMoves DEF HostKnown
  <2>2. /\ hid'.address = 0 => interfaces' = <<>>
        /\ interfaces' \in Seq(Node)
        /\ \A i \in DOMAIN interfaces' : interfaces'[i].number \in DOMAIN usb.device
        /\ usb'.status = "ATTACHED" =>
             interfaces' = Nodes(usb.device, Len(usb.device) + 1)
        /\ pCurrInterfaceDetails' \in {None, Dangling} \cup DOMAIN interfaces'
    BY <1>0, <1>3, InitializeMakes
  <2> QED BY <2>1, <2>2
<1>4. CASE HostEnumerate \/ HostWaits \/ User \/ UNCHANGED vars
  <2>1. UNCHANGED <<hid, interfaces, pCurrInterfaceDetails>>
    BY <1>4 DEF HostEnumerate, HostWaits, User, PlugIn, Unplug, vars
  <2>2. ~Attached \/ (usb'.status = usb.status /\ usb'.device = usb.device)
    BY <1>0, <1>4 DEF HostEnumerate, HostWaits, User, PlugIn, Unplug, vars, HostKnown
  <2> QED BY <1>0, <2>1, <2>2
<1> QED BY <1>1, <1>2, <1>3, <1>4 DEF DriverStep, USBHostTasks

\* The states are the pairs of numbers they are defined as.
USE DEF DETACHED, INITIALIZE_DEVICE, GET_REPORT_DSC, RUNNING, HID_RESET_RECOVERY, HOLDING,
        UNDEFINED, WAIT_FOR_ENUMERATION, DEVICE_ENUMERATED, SEND_GET_REPORT_DSC,
        WAIT_FOR_REPORT_DSC, GET_REPORT_DSC_COMPLETE, PARSE_REPORT_DSC, PARSING_COMPLETE,
        WAITING_FOR_REQ, READ_REQ_WAIT, READ_REQ_DONE, WRITE_REQ_WAIT, WRITE_REQ_DONE,
        WAIT_FOR_RESET

(* A transfer that is accepted or refused sets the results of the last one, and keeps the
   rest of the driver's record. *)
LEMMA TransferMoves ==
  ASSUME PipesTyped, NEW read \in BOOLEAN, NEW n \in 1 .. MaxInterfaces, Transfer(read, n)
  PROVE  \/ UNCHANGED <<hid, ep>>
         \/ hid' = [hid EXCEPT !.state = <<UNDEFINED, 0>>] /\ UNCHANGED ep
         \/ /\ hid'.state \in {READ_REQ_WAIT, WRITE_REQ_WAIT, WAITING_FOR_REQ}
            /\ hid'.bytes = 0 /\ hid'.address = hid.address
            /\ hid'.descriptor = hid.descriptor
            /\ hid'.bfReset = hid.bfReset /\ hid'.collected = hid.collected
<1> DEFINE e == IF read THEN In(n) ELSE IF interfaces[IndexOf(n)].out THEN Out(n) ELSE EP0
<1>1. hid = [f \in DriverFields |-> hid[f]]
  BY DEF PipesTyped
<1>2. \/ UNCHANGED <<hid, ep>>
      \/ Undefined /\ UNCHANGED ep
      \/ hid' = [TransferInit(hid, e) EXCEPT !.state = READ_REQ_WAIT]
      \/ hid' = [TransferInit(hid, e) EXCEPT !.state = WRITE_REQ_WAIT]
      \/ hid' = [TransferInit(hid, e) EXCEPT !.error = "refused", !.state = WAITING_FOR_REQ]
  BY DEF Transfer
<1> HIDE DEF e
<1> USE DEF TransferInit, DriverFields
<1>3. ASSUME NEW s, hid' = [TransferInit(hid, e) EXCEPT !.state = s]
      PROVE  /\ hid'.state = s /\ hid'.bytes = 0 /\ hid'.address = hid.address
             /\ hid'.descriptor = hid.descriptor
             /\ hid'.bfReset = hid.bfReset /\ hid'.collected = hid.collected
  BY <1>1, <1>3
<1>4. CASE hid' = [TransferInit(hid, e) EXCEPT !.error = "refused", !.state = WAITING_FOR_REQ]
  BY <1>1, <1>4
<1> QED BY <1>2, <1>3, <1>4 DEF Undefined

LEMMA DescriptorStep ==
  ASSUME InputsPresent, DriverInv, DriverStep
  PROVE  DescriptorKnown'
<1>0. HostKnown /\ PipesTyped /\ ListKnown /\ DescriptorKnown
  BY DEF DriverInv
<1>1. hid = [f \in DriverFields |-> hid[f]]
  BY <1>0 DEF PipesTyped
<1>2. /\ hid.state \in HidStates /\ hid.descriptor \in 0 .. MaxInterfaces
      /\ hid.state \in DescriptorStates => Attached /\ hid.descriptor \in DOMAIN usb.device
  BY <1>0 DEF DescriptorKnown
<1> DEFINE OtherStates == HidStates \ DescriptorStates
\* A step that leaves the descriptor where it is.
<1>3. ASSUME hid'.descriptor = hid.descriptor,
             \/ hid'.state \in OtherStates
             \/ /\ hid'.state \in HidStates /\ hid.state \in DescriptorStates
                /\ hid'.address = hid.address /\ usb'.device = usb.device
      PROVE  DescriptorKnown'
  BY <1>2, <1>3 DEF DescriptorKnown, Attached
<1>4. CASE /\ UNCHANGED hid
           /\ hid.state \in DescriptorStates => usb'.device = usb.device
  <2>1. CASE hid.state \in DescriptorStates
    BY <1>2, <1>3, <1>4, <2>1
  <2>2. CASE hid.state \notin DescriptorStates
    BY <1>2, <1>3, <1>4, <2>2
  <2> QED BY <2>1, <2>2
<1> USE DEF HidStates, DescriptorStates, DriverFields
<1>5. CASE USBHostTasks
  <2>1. CASE HostDetach
    <3>1. \/ UNCHANGED hid /\ hid.state = <<DETACHED, 0>>
          \/ hid'.descriptor = hid.descriptor /\ hid'.state = <<DETACHED, 0>>
      BY <1>0, <1>1, <2>1 DEF HostDetach, DetachEvent, HostKnown
    <3> QED BY <1>3, <3>1
  <2>2. CASE HostInitializeClient
    <3>1. hid'.state \in {hid.state, WAIT_FOR_ENUMERATION} /\ hid'.descriptor = hid.descriptor
      BY <1>0, <1>1, <2>2, InitializeMoves
    <3>2. hid.state = <<DETACHED, 0>>
      BY <1>0, <2>2 DEF HostInitializeClient, HostKnown
    <3> QED BY <1>3, <3>1, <3>2
  <2>3. CASE HostEnumerate
    <3>1. UNCHANGED hid /\ hid.state = <<DETACHED, 0>>
      BY <1>0, <2>3 DEF HostEnumerate, HostKnown
    <3> QED BY <1>3, <3>1
  <2>4. CASE HostWaits
    BY <1>4, <2>4 DEF HostWaits, vars
  <2> QED BY <1>5, <2>1, <2>2, <2>3, <2>4 DEF USBHostTasks
<1>6. CASE User \/ UNCHANGED vars \/ Bus
  <2>1. UNCHANGED hid /\ usb'.device = usb.device
    BY <1>0, <1>6 DEF User, PlugIn, Unplug, Bus, TransferSucceeds, TransferFails, vars,
       HostKnown
  <2> QED BY <1>4, <2>1
<1>7. CASE USBHostHIDTasks \/ Call
  <2>1. UNCHANGED usb /\ hid'.address = hid.address
    BY <1>0, <1>7, DriverMoves
  <2> USE DEF Lock, Undefined, RunIn, NextSubState
  <2>2. CASE Waits \/ ForgetState
    <3>1. UNCHANGED hid \/ (hid'.descriptor = hid.descriptor /\ hid'.state = <<DETACHED, 0>>)
      BY <1>1, <2>2 DEF Waits, ForgetState, vars
    <3> QED BY <1>3, <1>4, <2>1, <3>1
  <2>3. CASE WaitForEnumeration \/ DeviceEnumerated \/ TransferDone
    <3>1. /\ hid'.descriptor = hid.descriptor
          /\ hid'.state \in {DEVICE_ENUMERATED, SEND_GET_REPORT_DSC, WAITING_FOR_REQ}
      BY <1>1, <2>3 DEF WaitForEnumeration, DeviceEnumerated, TransferDone
    <3> QED BY <1>3, <3>1
  <2>4. CASE SendGetReportDescriptor
    <3>1. CASE hid' = Lock("INTERFACE_ERROR") \/ Undefined
               \/ hid' = Lock("MEMORY_ALLOCATION_ERROR")
      <4>1. hid'.descriptor = hid.descriptor /\ hid'.state \in {<<HOLDING, 0>>, <<UNDEFINED, 0>>}
        BY <1>1, <3>1
      <4> QED BY <1>3, <4>1
    <3>2. CASE /\ pCurrInterfaceDetails > 0
               /\ hid' = [hid EXCEPT
                    !.state = NextSubState(@),
                    !.descriptor = interfaces[pCurrInterfaceDetails].number]
      <4>1. /\ hid'.state = WAIT_FOR_REPORT_DSC
            /\ hid'.descriptor = interfaces[pCurrInterfaceDetails].number
        BY <1>1, <2>4, <3>2 DEF SendGetReportDescriptor
      <4>2. pCurrInterfaceDetails \in DOMAIN interfaces
        BY <1>0, <3>2 DEF ListKnown, None, Dangling
      <4>3. Attached
        BY <2>4 DEF SendGetReportDescriptor
      <4>4. hid'.descriptor \in DOMAIN usb.device /\ interfaces \in Seq(Node)
        BY <1>0, <4>1, <4>2, <4>3 DEF ListKnown
      <4>5. interfaces[pCurrInterfaceDetails] \in Node
        BY <4>2, <4>4
      <4>6. hid'.descriptor \in 0 .. MaxInterfaces
        BY <4>1, <4>5, MaxInterfacesAssumption DEF Node
      <4>7. hid'.state \in HidStates
        BY <4>1
      <4>8. Attached' /\ usb' = usb
        BY <2>1, <4>3 DEF Attached
      <4> QED BY <4>4, <4>6, <4>7, <4>8 DEF DescriptorKnown
    <3> QED BY <2>4, <3>1, <3>2 DEF SendGetReportDescriptor
  <2>5. CASE WaitForReportDescriptor \/ GetReportDescriptorComplete
    <3>1. /\ hid'.descriptor = hid.descriptor
          /\ hid'.state \in {<<HOLDING, 1>>, GET_REPORT_DSC_COMPLETE, PARSE_REPORT_DSC}
          /\ hid.state \in DescriptorStates
      <4>1. CASE WaitForReportDescriptor
        <5>1. CASE hid' = [hid EXCEPT !.state = NextSubState(@)]
          BY <1>1, <4>1, <5>1 DEF WaitForReportDescriptor
        <5>2. CASE hid' = [Lock(ErrorOf(EP0)) EXCEPT !.state = NextSubState(@)]
          BY <1>1, <4>1, <5>2 DEF WaitForReportDescriptor
        <5> QED BY <4>1, <5>1, <5>2 DEF WaitForReportDescriptor
      <4>2. CASE GetReportDescriptorComplete
        BY <1>1, <4>2 DEF GetReportDescriptorComplete
      <4> QED BY <2>5, <4>1, <4>2
    <3> QED BY <1>3, <2>1, <3>1
  <2>6. CASE ParseReportDescriptor
    <3>1. /\ hid'.descriptor = hid.descriptor
          /\ hid'.state \in {<<HOLDING, 0>>, PARSING_COMPLETE, <<UNDEFINED, 0>>}
          /\ hid.state \in DescriptorStates
      <4>1. hid.state = PARSE_REPORT_DSC
        BY <2>6 DEF ParseReportDescriptor
      <4>2. Undefined \/ hid' = [hid EXCEPT !.state = NextSubState(@)]
            \/ hid' = Lock("REPORT_DESCRIPTOR_BAD")
        BY <2>6 DEF ParseReportDescriptor
      <4>3. hid'.descriptor = hid.descriptor
        BY <1>1, <4>2
      <4>4. hid'.state \in {<<HOLDING, 0>>, PARSING_COMPLETE, <<UNDEFINED, 0>>}
        <5>1. hid' = Lock("REPORT_DESCRIPTOR_BAD") => hid'.state = <<HOLDING, 0>>
          BY <1>1
        <5>2. Undefined => hid'.state = <<UNDEFINED, 0>>
          BY <1>1
        <5>3. hid' = [hid EXCEPT !.state = NextSubState(@)] => hid'.state = PARSING_COMPLETE
          BY <1>1, <4>1
        <5> QED BY <4>2, <5>1, <5>2, <5>3
      <4> QED BY <4>1, <4>3, <4>4
    <3> QED BY <1>3, <2>1, <3>1
  <2>7. CASE ParsingComplete
    <3>1. /\ hid'.descriptor = hid.descriptor
          /\ hid'.state \in {<<HOLDING, 0>>, SEND_GET_REPORT_DSC, WAITING_FOR_REQ,
                             <<UNDEFINED, 0>>}
      BY <1>1, <2>7 DEF ParsingComplete
    <3> QED BY <1>3, <3>1
  <2>8. CASE TransferWait \/ WaitForReset
    <3>1. /\ hid'.descriptor = hid.descriptor
          /\ hid'.state \in {READ_REQ_DONE, WRITE_REQ_DONE, WAITING_FOR_REQ, WAIT_FOR_RESET}
      <4>1. ASSUME NEW h, NEW e, StartReset(h, e), h.descriptor = hid.descriptor,
                   h = [f \in DriverFields |-> h[f]]
            PROVE  /\ hid'.descriptor = hid.descriptor
                   /\ hid'.state \in {WAITING_FOR_REQ, WAIT_FOR_RESET}
        BY <4>1 DEF StartReset
      <4>2. CASE TransferWait
        <5>1. CASE StartReset(hid, Cleared(hid.endpoint))
          BY <1>1, <4>1, <5>1
        <5>2. CASE \E b : hid' = [hid EXCEPT !.state = NextSubState(@), !.bytes = b]
          BY <1>1, <4>2, <5>2 DEF TransferWait
        <5>3. CASE \E error : hid' = [hid EXCEPT !.error = error, !.state = WAITING_FOR_REQ]
          BY <1>1, <5>3
        <5> QED BY <4>2, <5>1, <5>2, <5>3 DEF TransferWait
      <4>3. CASE WaitForReset
        <5> DEFINE done == [hid EXCEPT !.error = ErrorOf(EP0)]
        <5>1. done.descriptor = hid.descriptor /\ done = [f \in DriverFields |-> done[f]]
          BY <1>1
        <5>2. \/ StartReset(done, Cleared(EP0))
              \/ hid' = [done EXCEPT !.bfReset = FALSE, !.state = WAITING_FOR_REQ]
          BY <4>3 DEF WaitForReset
        <5> HIDE DEF done
        <5> QED BY <4>1, <5>1, <5>2
      <4> QED BY <2>8, <4>2, <4>3
    <3> QED BY <1>3, <3>1
  <2>9. CASE Call
    <3>1. \/ UNCHANGED hid
          \/ /\ hid'.descriptor = hid.descriptor
             /\ hid'.state \in {READ_REQ_WAIT, WRITE_REQ_WAIT, WAITING_FOR_REQ,
                                WAIT_FOR_RESET, <<UNDEFINED, 0>>}
      <4>1. ASSUME NEW read \in BOOLEAN, NEW n \in 1 .. MaxInterfaces, Transfer(read, n)
            PROVE  \/ UNCHANGED hid
                   \/ /\ hid'.descriptor = hid.descriptor
                      /\ hid'.state \in {READ_REQ_WAIT, WRITE_REQ_WAIT, WAITING_FOR_REQ,
                                         <<UNDEFINED, 0>>}
        BY <1>0, <1>1, <4>1, TransferMoves
      <4>2. ASSUME NEW read \in BOOLEAN, NEW n \in 1 .. MaxInterfaces,
                   USBHostHIDTerminateTransfer(read, n)
            PROVE  /\ hid'.descriptor = hid.descriptor
                   /\ hid'.state \in {WAITING_FOR_REQ, <<UNDEFINED, 0>>}
        BY <1>1, <4>2 DEF USBHostHIDTerminateTransfer
      <4>3. CASE USBHostHIDResetDevice
        BY <1>1, <4>3 DEF USBHostHIDResetDevice, StartReset
      <4> QED BY <2>9, <4>1, <4>2, <4>3 DEF Call
    <3> QED BY <1>3, <1>4, <2>1, <3>1
  <2> QED BY <1>7, <2>2, <2>3, <2>4, <2>5, <2>6, <2>7, <2>8, <2>9 DEF USBHostHIDTasks
<1> QED BY <1>5, <1>6, <1>7 DEF DriverStep

(* What an endpoint reads comes from the device of the driver. *)
LEMMA AnswerIsOfDevice ==
  ASSUME HostKnown, PipesBusy, NEW e \in Endpoints,
         ep[e].status = "busy", ep[e].for = "read", Answers
  PROVE  /\ port = usb.device /\ port \in Devices
         /\ e[2] \in 1 .. MaxInterfaces /\ port[e[2]].size \in 1 .. 255
<1>1. usb.status = "ATTACHED" /\ Exists(e) /\ e[1] = "in"
  BY DEF PipesBusy
<1>2. port = usb.device /\ port \in Devices
  BY <1>1 DEF HostKnown, Answers
<1>3. e = In(e[2]) /\ e[2] \in 1 .. MaxInterfaces /\ e # EP0 /\ \A n : e # Out(n)
  BY <1>1, InputEndpoint
<1>4. e[2] \in DOMAIN usb.device
  <2>1. PICK n \in DOMAIN usb.device : e = In(n)
    BY <1>1, <1>3 DEF Exists
  <2>2. In(n)[2] = n
    BY DEF In
  <2> QED BY <2>1, <2>2
<1>5. port[e[2]] \in Interfaces
  BY <1>2, <1>4, DeviceAssumption
<1> QED BY <1>2, <1>3, <1>5 DEF Interfaces

LEMMA FlagsStep ==
  ASSUME DriverInv, DriverStep
  PROVE  hid'.bfReset \in BOOLEAN /\ hid'.collected \in BOOLEAN /\ hid'.bytes \in 0 .. 255
<1>0. /\ hid = [f \in DriverFields |-> hid[f]] /\ hid.endpoint \in Endpoints
      /\ hid.bfReset \in BOOLEAN /\ hid.collected \in BOOLEAN /\ hid.bytes \in 0 .. 255
      /\ \A e \in Endpoints : ep[e].bytes \in 0 .. 255
  BY DEF DriverInv, PipesTyped, CountsTyped
<1> USE DEF DriverFields, Lock, Undefined
<1> DEFINE Kept == /\ hid'.bfReset = hid.bfReset /\ hid'.collected = hid.collected
                   /\ hid'.bytes = hid.bytes
<1>1. CASE Kept
  BY <1>0, <1>1
<1>2. CASE USBHostTasks
  <2>1. \/ UNCHANGED hid
        \/ \E a, s : hid' = [hid EXCEPT !.address = a, !.state = s]
    BY <1>2 DEF USBHostTasks, HostDetach, HostEnumerate, HostInitializeClient,
       HostWaits, DetachEvent, InitializeDevice, vars
  <2>2. Kept
    BY <1>0, <2>1
  <2> QED BY <1>1, <2>2
<1>3. CASE \/ ForgetState \/ Waits \/ WaitForEnumeration \/ DeviceEnumerated
           \/ GetReportDescriptorComplete \/ TransferDone \/ SendGetReportDescriptor
           \/ WaitForReportDescriptor \/ ParseReportDescriptor
  <2>1. CASE \/ ForgetState \/ Waits \/ WaitForEnumeration \/ DeviceEnumerated
             \/ GetReportDescriptorComplete \/ TransferDone
    <3>1. Kept
      BY <1>0, <2>1 DEF ForgetState, Waits, WaitForEnumeration, DeviceEnumerated,
         GetReportDescriptorComplete, TransferDone, vars
    <3> QED BY <1>1, <3>1
  <2>2. CASE SendGetReportDescriptor \/ WaitForReportDescriptor
    <3>1. Kept
      BY <1>0, <2>2 DEF SendGetReportDescriptor, WaitForReportDescriptor
    <3> QED BY <1>1, <3>1
  <2>3. CASE ParseReportDescriptor
    <3>1. Kept
      BY <1>0, <2>3 DEF ParseReportDescriptor
    <3> QED BY <1>1, <3>1
  <2> QED BY <1>3, <2>1, <2>2, <2>3
<1>4. CASE ParsingComplete
  <2>1. hid'.bfReset = hid.bfReset /\ hid'.bytes = hid.bytes
    BY <1>0, <1>4 DEF ParsingComplete
  <2>2. \/ hid'.collected = hid.collected
        \/ hid'.collected = (hid.collected \/ Described.collects)
        \/ hid'.collected = TRUE
    BY <1>0, <1>4 DEF ParsingComplete
  <2>3. (hid.collected \/ Described.collects) \in BOOLEAN
    OBVIOUS
  <2> QED BY <1>0, <2>1, <2>2, <2>3
<1>5. ASSUME NEW h, NEW e, StartReset(h, e), h = [f \in DriverFields |-> h[f]],
             h.collected = hid.collected, h.bytes = hid.bytes
      PROVE  /\ hid'.bfReset = TRUE /\ hid'.collected = hid.collected
             /\ hid'.bytes = hid.bytes
  BY <1>5 DEF StartReset
<1>6. CASE TransferWait
  <2>1. CASE StartReset(hid, Cleared(hid.endpoint))
    BY <1>0, <1>5, <2>1
  <2>2. CASE hid' = [hid EXCEPT !.state = NextSubState(@),
               !.bytes = IF hid.state = READ_REQ_WAIT THEN ep[hid.endpoint].bytes ELSE @]
    <3>1. /\ hid'.bfReset = hid.bfReset /\ hid'.collected = hid.collected
          /\ hid'.bytes \in {hid.bytes, ep[hid.endpoint].bytes}
      BY <1>0, <2>2
    <3> QED BY <1>0, <3>1
  <2>3. CASE \E error : hid' = [hid EXCEPT !.error = error, !.state = WAITING_FOR_REQ]
    BY <1>0, <1>1, <2>3
  <2> QED BY <1>6, <2>1, <2>2, <2>3 DEF TransferWait
<1>7. CASE WaitForReset
  <2> DEFINE done == [hid EXCEPT !.error = ErrorOf(EP0)]
  <2>1. done = [f \in DriverFields |-> done[f]] /\ done.collected = hid.collected
        /\ done.bytes = hid.bytes
    BY <1>0
  <2>2. \/ StartReset(done, Cleared(EP0))
        \/ hid' = [done EXCEPT !.bfReset = FALSE, !.state = WAITING_FOR_REQ]
    BY <1>7 DEF WaitForReset
  <2> HIDE DEF done
  <2>3. /\ hid'.bfReset \in BOOLEAN /\ hid'.collected = hid.collected
        /\ hid'.bytes = hid.bytes
    BY <1>5, <2>1, <2>2
  <2> QED BY <1>0, <2>3
<1>8. CASE Call
  <2>1. ASSUME NEW read \in BOOLEAN, NEW n \in 1 .. MaxInterfaces, Transfer(read, n)
        PROVE  /\ hid'.bfReset = hid.bfReset /\ hid'.collected = hid.collected
               /\ hid'.bytes \in {0, hid.bytes}
    <3>1. \/ hid' = [hid EXCEPT !.state = <<UNDEFINED, 0>>]
          \/ /\ hid'.bfReset = hid.bfReset /\ hid'.collected = hid.collected
             /\ hid'.bytes \in {0, hid.bytes}
      BY <2>1, TransferMoves DEF DriverInv
    <3> QED BY <1>0, <3>1
  <2>2. ASSUME NEW read \in BOOLEAN, NEW n \in 1 .. MaxInterfaces,
               USBHostHIDTerminateTransfer(read, n)
        PROVE  Kept
    BY <1>0, <2>2 DEF USBHostHIDTerminateTransfer
  <2>3. CASE USBHostHIDResetDevice
    BY <1>0, <1>5, <2>3 DEF USBHostHIDResetDevice
  <2> QED BY <1>0, <1>1, <1>8, <2>1, <2>2, <2>3 DEF Call
<1>9. CASE Bus \/ User \/ UNCHANGED vars
  BY <1>1, <1>9 DEF Bus, TransferSucceeds, TransferFails, User, PlugIn, Unplug, vars
<1> QED BY <1>2, <1>3, <1>4, <1>6, <1>7, <1>8, <1>9 DEF DriverStep, USBHostHIDTasks

LEMMA CountsStep ==
  ASSUME InputsPresent, DriverInv, DriverStep
  PROVE  CountsTyped'
<1>0. /\ HostKnown /\ PipesTyped /\ PipesBusy /\ ListKnown /\ DescriptorKnown /\ CountsTyped
      /\ PipeSteps
  BY PipesStep DEF DriverInv
<1>1. ASSUME NEW e \in Endpoints PROVE ep'[e].bytes \in 0 .. 255
  <2>1. ep[e].bytes \in 0 .. 255 /\ ep[e] = [f \in PipeFields |-> ep[e][f]] /\ PipeStep(e)
    BY <1>0 DEF CountsTyped, PipeSteps, PipesTyped
  <2>2. CASE ep'[e].bytes = ep[e].bytes
    BY <2>1, <2>2
  <2>3. CASE Clears(e) \/ Terminates(e)
    BY <2>1, <2>3 DEF Clears, Terminates, PipeFields
  <2>4. CASE Starts(e)
    BY <2>4 DEF Starts
  <2>6. CASE Forgets(e)
    BY <2>6 DEF Forgets, NoTransfer
  <2>5. CASE Ends(e)
    <3>1. CASE \E how \in {"stalled", "error"} : ep'[e] = [ep[e] EXCEPT !.status = how]
      BY <2>1, <3>1 DEF PipeFields
    <3>2. CASE \E bytes \in IF ep[e].for = "read" THEN {0, port[e[2]].size} ELSE {0} :
                 Answers /\ ep'[e] = [ep[e] EXCEPT !.status = "ok", !.bytes = bytes]
      <4>1. PICK bytes \in IF ep[e].for = "read" THEN {0, port[e[2]].size} ELSE {0} :
                   Answers /\ ep'[e] = [ep[e] EXCEPT !.status = "ok", !.bytes = bytes]
        BY <3>2
      <4>2. ep[e].status = "busy"
        BY <2>5 DEF Ends
      <4>3. bytes \in 0 .. 255
        BY <1>0, <4>1, <4>2, AnswerIsOfDevice
      <4>4. ep'[e].bytes = bytes
        BY <2>1, <4>1 DEF PipeFields
      <4> QED BY <4>3, <4>4
    <3> QED BY <2>5, <3>1, <3>2 DEF Ends
  <2> QED BY <2>1, <2>2, <2>3, <2>4, <2>5, <2>6 DEF PipeStep
<1>2. report' \in Reports
  <2>1. CASE ParsingComplete
    <3>1. /\ hid.state = PARSING_COMPLETE
          /\ report' \in {report, [device |-> usb.device, interface |-> hid.descriptor]}
      BY <2>1 DEF ParsingComplete, RunIn
    <3>2. Attached /\ hid.descriptor \in DOMAIN usb.device
      BY <1>0, <3>1 DEF DescriptorKnown, DescriptorStates
    <3>3. usb.device \in Devices
      BY <1>0, <3>2 DEF HostKnown
    <3>4. hid.descriptor \in 1 .. MaxInterfaces
      <4>1. usb.device \in Seq(Interfaces) /\ Len(usb.device) <= MaxInterfaces
        BY <3>3, DeviceAssumption
      <4>2. hid.descriptor \in 1 .. Len(usb.device) /\ Len(usb.device) \in Nat
        BY <3>2, <4>1
      <4> QED BY <4>1, <4>2, MaxInterfacesAssumption
    <3>5. report \in Reports
      BY <1>0 DEF CountsTyped
    <3> QED BY <3>1, <3>3, <3>4, <3>5 DEF Reports
  <2>2. CASE UNCHANGED report
    BY <1>0, <2>2 DEF CountsTyped
  <2> QED BY <2>1, <2>2 DEF DriverStep, USBHostTasks, HostDetach, HostEnumerate,
      HostInitializeClient, HostWaits, USBHostHIDTasks, ForgetState, Waits,
      WaitForEnumeration, DeviceEnumerated, SendGetReportDescriptor, WaitForReportDescriptor,
      GetReportDescriptorComplete, ParseReportDescriptor, TransferWait, TransferDone,
      WaitForReset, Call, Transfer, USBHostHIDTerminateTransfer, USBHostHIDResetDevice,
      Bus, TransferSucceeds, TransferFails, User, PlugIn, Unplug, vars
<1>3. buffer' \in Reports
  <2>1. ASSUME NEW e \in Endpoints, TransferSucceeds(e) PROVE buffer' \in Reports
    <3>1. PICK bytes \in IF ep[e].for = "read" THEN {0, port[e[2]].size} ELSE {0} :
            buffer' = IF bytes # 0 THEN [device |-> port, interface |-> e[2]] ELSE buffer
      BY <2>1 DEF TransferSucceeds
    <3>2. ep[e].status = "busy" /\ Answers
      BY <2>1 DEF TransferSucceeds
    <3>3. bytes # 0 => port \in Devices /\ e[2] \in 1 .. MaxInterfaces
      BY <1>0, <3>1, <3>2, AnswerIsOfDevice
    <3>4. buffer \in Reports
      BY <1>0 DEF CountsTyped
    <3> QED BY <3>1, <3>3, <3>4 DEF Reports
  <2>2. CASE buffer' \in {buffer, NoReport}
    BY <1>0, <2>2 DEF CountsTyped, Reports
  <2>3. CASE Call
    <3>1. buffer' \in {buffer, NoReport}
      BY <2>3 DEF Call, Transfer, USBHostHIDTerminateTransfer, USBHostHIDResetDevice
    <3> QED BY <2>2, <3>1
  <2>4. CASE Bus
    BY <2>1, <2>2, <2>4 DEF Bus, TransferFails
  <2> QED BY <2>2, <2>3, <2>4 DEF DriverStep, USBHostTasks, HostDetach, HostEnumerate,
      HostInitializeClient, HostWaits, USBHostHIDTasks, ForgetState, Waits,
      WaitForEnumeration, DeviceEnumerated, SendGetReportDescriptor, WaitForReportDescriptor,
      GetReportDescriptorComplete, ParseReportDescriptor, ParsingComplete, TransferWait,
      TransferDone, WaitForReset, User, PlugIn, Unplug, vars
<1>4. hid'.bfReset \in BOOLEAN /\ hid'.collected \in BOOLEAN /\ hid'.bytes \in 0 .. 255
  BY FlagsStep
<1> QED BY <1>1, <1>2, <1>3, <1>4 DEF CountsTyped

LEMMA DriverInit == Init => DriverInv
<1> SUFFICES ASSUME Init PROVE DriverInv
  OBVIOUS
<1>1. PipesTyped
  BY PipesTypedInit
<1>2. HostKnown
  BY DEF Init, HostKnown, Attached
<1>3. PipesBusy /\ CountsTyped
  BY DEF Init, PipesBusy, CountsTyped, NoTransfer, Purposes, Reports
<1>4. ListKnown
  BY DEF Init, ListKnown, InterfacesOfThisDevice, Attached
<1>5. DescriptorKnown
  BY MaxInterfacesAssumption DEF Init, DescriptorKnown, HidStates, DescriptorStates
<1> QED BY <1>1, <1>2, <1>3, <1>4, <1>5 DEF DriverInv

(* Every step of the driver, of its application, of the bus and of the user keeps the
   inductive invariant. *)
LEMMA DriverInvStep ==
  ASSUME InputsPresent, DriverInv, DriverStep
  PROVE  DriverInv'
BY PipesTypedStep, HostStep, PipesBusyStep, ListStep, DescriptorStep, CountsStep DEF DriverInv

(* At any call or event the driver keeps the interface list of the device that it runs and
   of no other one, its cursor leads to a node or nowhere, and each variable has its type. *)
THEOREM DriverIsSound == ASSUME InputsPresent PROVE Spec => []DriverInvariant
<1>1. DriverInv /\ [Next]_vars => DriverInv'
  BY DriverInvStep, NextIsDriverStep, InputsPresent
<1>2. DriverInv => DriverInvariant
  <2> SUFFICES ASSUME DriverInv PROVE DriverInvariant
    OBVIOUS
  <2>1. /\ HostKnown /\ PipesTyped /\ PipesBusy /\ ListKnown /\ DescriptorKnown
        /\ CountsTyped
    BY DEF DriverInv
  <2>2. usb \in [status : {"DETACHED", "ENUMERATING", "ATTACHED", "HOLDING"},
                 device : Devices \cup {NoDevice}, detach : BOOLEAN]
    BY <2>1 DEF HostKnown
  <2>3. ep \in [Endpoints -> [status : {"busy", "ok", "stalled", "error", "unresolved"},
                              for : Purposes, bytes : 0 .. 255]]
    <3>1. ASSUME NEW e \in Endpoints
          PROVE  ep[e] \in [status : {"busy", "ok", "stalled", "error", "unresolved"},
                            for : Purposes, bytes : 0 .. 255]
      <4>1. /\ ep[e] = [f \in PipeFields |-> ep[e][f]] /\ ep[e].status \in Statuses
            /\ ep[e].for \in Purposes /\ ep[e].bytes \in 0 .. 255
        BY <2>1 DEF PipesTyped, PipesBusy, CountsTyped
      <4> QED BY <4>1 DEF PipeFields, Statuses
    <3>2. ep = [e \in Endpoints |-> ep[e]]
      BY <2>1 DEF PipesTyped
    <3> QED BY <3>1, <3>2
  <2>4. port \in Devices \cup {NoDevice} /\ hid.address \in {0, 1}
    BY <2>1 DEF HostKnown
  <2>5. /\ InterfacesOfThisDevice
        /\ pCurrInterfaceDetails \in {None, Dangling} \cup DOMAIN interfaces
    BY <2>1 DEF ListKnown
  <2>6. hid.endpoint \in Endpoints
    BY <2>1 DEF PipesTyped
  <2>7. hid.state \in HidStates /\ hid.descriptor \in 0 .. MaxInterfaces
    BY <2>1 DEF DescriptorKnown
  <2>8. /\ hid.bfReset \in BOOLEAN /\ hid.collected \in BOOLEAN /\ hid.bytes \in 0 .. 255
        /\ report \in Reports /\ buffer \in Reports
    BY <2>1 DEF CountsTyped
  <2> QED BY <2>2, <2>3, <2>4, <2>5, <2>6, <2>7, <2>8 DEF DriverInvariant, TypeOK
<1> QED BY <1>1, <1>2, DriverInit, PTL DEF Spec
================================================================================
