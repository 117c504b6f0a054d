--------------------------- MODULE UsbConfiguration ---------------------------
(***************************************************************************)
(* The interfaces and endpoints of a device in the USB host stack          *)
(* (usb_host.c): the list that the main loop builds from a configuration   *)
(* descriptor, node by node, and frees again, while the interrupt handler  *)
(* walks along it; and the calls that look something up in it.  When a     *)
(* configuration is selected and why is module UsbHost's, what a transfer  *)
(* is made of UsbTransfer's.                                               *)
(***************************************************************************)
EXTENDS Integers, Sequences, FiniteSets

CONSTANTS
  Devices,         \* each the sequence of its configurations
  PowerAnswers,    \* the answers the application may give to a power request
  MemoryAnswers,   \* TRUE: malloc may succeed; FALSE: it may fail
  Numbers, Alternates, Addresses   \* the interfaces, settings and endpoints that are asked for

(* A configuration is the sequence of its descriptors after the first one. *)
(* Of an interface: its number, alternate setting and number of endpoints, *)
(* and whether a client driver supports it.                                *)
ASSUME DescriptorsAssumption ==
  \A d \in Devices : d # <<>> /\ \A c \in DOMAIN d : \A p \in DOMAIN d[c] :
    /\ d[c][p].type \in {"interface", "endpoint", "other"}
    /\ d[c][p].number \in Nat /\ d[c][p].alt \in Nat /\ d[c][p].endpoints \in Nat
    /\ d[c][p].supported \in BOOLEAN /\ d[c][p].address \in Nat
ASSUME AnswersAssumption == PowerAnswers \subseteq BOOLEAN /\ MemoryAnswers \subseteq BOOLEAN

VARIABLES
  configPC,            \* where the main loop is
  device,              \* the configurations of the device
  currentConfiguration,
  node,                \* pCurrentConfigurationNode, as the number of its configuration
  index,               \* the descriptor that is next
  newInterface,        \* newInterfaceInfo,
  newSetting,          \* newSettingInfo,
  temp,                \* and what follows the node that is freed
  currentEndpoint,     \* the endpoints found for the interface, of
  bNumEndpoints,       \* those there should be
  heap,                \* the nodes that are allocated, by their addresses
  pInterfaceList,
  pCurrentEndpoint,
  token,               \* whether a token of that endpoint is under way
  strayed              \* the interrupt handler followed a pointer to no node

localVars == <<node, index, newInterface, newSetting, temp, currentEndpoint, bNumEndpoints>>
listVars == <<heap, pInterfaceList>>
configVars == <<configPC, device, currentConfiguration, localVars, listVars,
                pCurrentEndpoint, token, strayed>>

NULL == 0
EP0 == 1    \* the node of endpoint 0, which is always there
WILD == -1  \* what a pointer is in new memory

NewEndpoint(address, next) ==
  [kind |-> "endpoint", address |-> address, complete |-> TRUE, toggle |-> 0, next |-> next]
NewSetting(alt, next) ==
  [kind |-> "setting", alt |-> alt, endpoints |-> NULL, next |-> next]
NewInterface(number, next) ==
  [kind |-> "interface", number |-> number, settings |-> NULL, current |-> WILD, next |-> next]

OnlyEP0 == [p \in {EP0} |-> NewEndpoint(0, NULL)]

\* malloc: the first address that is free.
Malloc == CHOOSE p \in 1 .. Cardinality(DOMAIN heap) + 1 :
            p \notin DOMAIN heap /\ \A q \in 1 .. p - 1 : q \in DOMAIN heap
With(p, n) == [q \in DOMAIN heap \union {p} |-> IF q = p THEN n ELSE heap[q]]
Without(p) == [q \in DOMAIN heap \ {p} |-> heap[q]]

\* The nodes from p on; the last is no node when a pointer leads to none.
Chain(p) ==
  LET from[q \in Int] == IF q = NULL THEN <<>>
                         ELSE IF q \notin DOMAIN heap THEN <<q>>
                         ELSE <<q>> \o from[heap[q].next]
  IN  from[p]
Nodes(p) == {Chain(p)[n] : n \in DOMAIN Chain(p)}

\* The endpoints of an interface that are in use.
CurrentEndpoints(i) ==
  IF heap[i].current \in DOMAIN heap /\ heap[heap[i].current].kind = "setting"
  THEN Chain(heap[heap[i].current].endpoints) ELSE <<heap[i].current>>

\* What the interrupt handler looks at: every node of the list, and the endpoints in use.
Walkable ==
  \A i \in Nodes(pInterfaceList) :
    i \in DOMAIN heap /\ \A n \in DOMAIN CurrentEndpoints(i) :
      CurrentEndpoints(i)[n] \in DOMAIN heap /\ heap[CurrentEndpoints(i)[n]].kind = "endpoint"

\* The endpoints in use, in the order of the list.
InUse ==
  LET list == Chain(pInterfaceList)
      upTo[n \in 0 .. Len(list)] ==
        IF n = 0 THEN <<>> ELSE upTo[n - 1] \o CurrentEndpoints(list[n])
  IN  upTo[Len(list)]

\* _USB_FindEndpoint
FindEndpoint(address) ==
  LET has == {n \in DOMAIN InUse : heap[InUse[n]].address = address} IN
  IF address = 0 THEN EP0
  ELSE IF has = {} THEN NULL ELSE InUse[CHOOSE n \in has : \A m \in has : n <= m]

ConfigInit ==
  /\ configPC = "detached" /\ device = <<>> /\ currentConfiguration = 0
  /\ node = 0 /\ index = 1 /\ newInterface = NULL /\ newSetting = NULL /\ temp = NULL
  /\ currentEndpoint = 0 /\ bNumEndpoints = 0
  /\ heap = OnlyEP0 /\ pInterfaceList = NULL /\ pCurrentEndpoint = EP0
  /\ token = FALSE /\ strayed = FALSE

\* A device is enumerated up to SUBSTATE_SELECT_CONFIGURATION.  The table of devices
\* chooses no configuration.
PlugIn ==
  /\ configPC = "detached"
  /\ device' \in Devices
  /\ configPC' = "select"
  /\ UNCHANGED <<currentConfiguration, localVars, listVars, pCurrentEndpoint, token, strayed>>

\* The device is removed, or USBHostResetDevice sets the host back to its detached state,
\* whose USBHostShutdown turns the module off before it frees everything.
Unplug ==
  /\ configPC \in {"select", "selected", "running", "holding"}
  /\ configPC' = "detached" /\ device' = <<>> /\ currentConfiguration' = 0
  /\ heap' = OnlyEP0 /\ pInterfaceList' = NULL /\ pCurrentEndpoint' = EP0 /\ token' = FALSE
  /\ UNCHANGED <<localVars, strayed>>

-------------------------------------------------------------------------------
(* Selecting a configuration. *)

\* The old configuration is freed, before the first or the chosen one is parsed.
SelectConfiguration ==
  /\ configPC = "select"
  /\ node' = (IF currentConfiguration = 0 THEN 1 ELSE currentConfiguration)
  /\ configPC' = "free"
  /\ UNCHANGED <<device, currentConfiguration, index, newInterface, newSetting, temp,
                 currentEndpoint, bNumEndpoints, listVars, pCurrentEndpoint, token, strayed>>

\* The node that _USB_FreeConfigMemory frees next: an endpoint of the first setting of
\* the first interface, that setting, or the interface.
Victim ==
  LET setting == heap[pInterfaceList].settings IN
  IF setting = NULL THEN pInterfaceList
  ELSE IF heap[setting].endpoints = NULL THEN setting ELSE heap[setting].endpoints

Free ==
  /\ configPC = "free" /\ pInterfaceList # NULL
  /\ temp' = heap[Victim].next
  /\ heap' = Without(Victim)
  /\ configPC' = "unlink"
  /\ UNCHANGED <<device, currentConfiguration, node, index, newInterface, newSetting,
                 currentEndpoint, bNumEndpoints, pInterfaceList, pCurrentEndpoint, token, strayed>>

\* The pointer to the node that was freed is set to what followed it.
Unlink ==
  /\ configPC = "unlink"
  /\ IF pInterfaceList \notin DOMAIN heap
     THEN pInterfaceList' = temp /\ UNCHANGED heap
     ELSE /\ LET setting == heap[pInterfaceList].settings IN
             heap' = IF setting \in DOMAIN heap THEN [heap EXCEPT ![setting].endpoints = temp]
                     ELSE [heap EXCEPT ![pInterfaceList].settings = temp]
          /\ UNCHANGED pInterfaceList
  /\ configPC' = "free"
  /\ UNCHANGED <<device, currentConfiguration, localVars, pCurrentEndpoint, token, strayed>>

\* All is freed: the next configuration is parsed, or there is none.
FreeDone ==
  /\ configPC = "free" /\ pInterfaceList = NULL
  /\ pCurrentEndpoint' = EP0
  /\ configPC' = IF node \in DOMAIN device THEN "power" ELSE "holding"
  /\ UNCHANGED <<device, currentConfiguration, localVars, listVars, token, strayed>>

\* A configuration that fails is freed; after one that was not chosen comes the next.
Fail ==
  /\ configPC' = "free"
  /\ node' = IF currentConfiguration = 0 THEN node + 1 ELSE 0

descriptors == device[node]
allRead == index > Len(descriptors)
entry == descriptors[index]

\* _USB_ParseConfigurationDescriptor asks for power first.
RequestPower ==
  /\ configPC = "power"
  /\ index' = 1
  /\ \/ TRUE \in PowerAnswers /\ configPC' = "parse" /\ UNCHANGED node
     \/ FALSE \in PowerAnswers /\ Fail
  /\ UNCHANGED <<device, currentConfiguration, newInterface, newSetting, temp,
                 currentEndpoint, bNumEndpoints, listVars, pCurrentEndpoint, token, strayed>>

\* What is no interface, or none that is supported, is skipped.
SkipDescriptor ==
  /\ configPC = "parse" /\ ~allRead
  /\ entry.type = "interface" => ~entry.supported
  /\ index' = index + 1
  /\ UNCHANGED <<configPC, device, currentConfiguration, node, newInterface, newSetting, temp,
                 currentEndpoint, bNumEndpoints, listVars, pCurrentEndpoint, token, strayed>>

\* The node of the interface is looked up, or made and put on the list.  Its current
\* setting is not set.
ParseInterface ==
  LET known == {i \in Nodes(pInterfaceList) : heap[i].number = entry.number} IN
  /\ configPC = "parse" /\ ~allRead
  /\ entry.type = "interface" /\ entry.supported
  /\ bNumEndpoints' = entry.endpoints /\ currentEndpoint' = 0
  /\ \/ /\ known # {}
        /\ newInterface' = CHOOSE i \in known : TRUE
        /\ configPC' = "setting"
        /\ UNCHANGED <<listVars, node>>
     \/ /\ known = {} /\ TRUE \in MemoryAnswers
        /\ newInterface' = Malloc
        /\ heap' = With(newInterface', NewInterface(entry.number, pInterfaceList))
        /\ pInterfaceList' = newInterface'
        /\ configPC' = "setting"
        /\ UNCHANGED node
     \/ /\ known = {} /\ FALSE \in MemoryAnswers
        /\ Fail
        /\ UNCHANGED <<listVars, newInterface>>
  /\ UNCHANGED <<device, currentConfiguration, index, newSetting, temp, pCurrentEndpoint,
                 token, strayed>>

\* A setting is added; setting 0 is the current one.
ParseSetting ==
  /\ configPC = "setting"
  /\ \/ /\ TRUE \in MemoryAnswers
        /\ newSetting' = Malloc
        /\ LET interface == heap[newInterface] IN
           heap' = [With(newSetting', NewSetting(entry.alt, interface.settings)) EXCEPT
                      ![newInterface].settings = newSetting',
                      ![newInterface].current =
                         IF entry.alt = 0 THEN newSetting' ELSE interface.current]
        /\ index' = index + 1
        /\ configPC' = "endpoints"
        /\ UNCHANGED node
     \/ /\ FALSE \in MemoryAnswers
        /\ Fail
        /\ UNCHANGED <<heap, newSetting, index>>
  /\ UNCHANGED <<device, currentConfiguration, newInterface, temp, currentEndpoint,
                 bNumEndpoints, pInterfaceList, pCurrentEndpoint, token, strayed>>

\* The endpoints of the setting; other descriptors between them are skipped.
ParseEndpoint ==
  /\ configPC = "endpoints" /\ ~allRead /\ currentEndpoint < bNumEndpoints
  /\ index' = index + 1
  /\ \/ /\ entry.type # "endpoint"
        /\ UNCHANGED <<configPC, node, heap, currentEndpoint>>
     \/ /\ entry.type = "endpoint" /\ TRUE \in MemoryAnswers
        /\ heap' = [With(Malloc, NewEndpoint(entry.address, heap[newSetting].endpoints)) EXCEPT
                      ![newSetting].endpoints = Malloc]
        /\ currentEndpoint' = currentEndpoint + 1
        /\ UNCHANGED <<configPC, node>>
     \/ /\ entry.type = "endpoint" /\ FALSE \in MemoryAnswers
        /\ Fail
        /\ UNCHANGED <<heap, currentEndpoint>>
  /\ UNCHANGED <<device, currentConfiguration, newInterface, newSetting, temp, bNumEndpoints,
                 pInterfaceList, pCurrentEndpoint, token, strayed>>

\* All the endpoints of the setting must be there.
EndpointsDone ==
  /\ configPC = "endpoints" /\ (allRead \/ currentEndpoint = bNumEndpoints)
  /\ IF currentEndpoint = bNumEndpoints THEN configPC' = "parse" /\ UNCHANGED node ELSE Fail
  /\ UNCHANGED <<device, currentConfiguration, index, newInterface, newSetting, temp,
                 currentEndpoint, bNumEndpoints, listVars, pCurrentEndpoint, token, strayed>>

\* A configuration without an interface that is supported is not taken.
ParseDone ==
  /\ configPC = "parse" /\ allRead
  /\ IF pInterfaceList = NULL THEN Fail /\ UNCHANGED currentConfiguration
     ELSE configPC' = "selected" /\ currentConfiguration' = node /\ UNCHANGED node
  /\ UNCHANGED <<device, index, newInterface, newSetting, temp, currentEndpoint,
                 bNumEndpoints, listVars, pCurrentEndpoint, token, strayed>>

\* SUBSTATE_SET_CONFIGURATION: the configuration is set and the drivers are initialised; a
\* driver refuses, or the host gives up; or the device is reset and enumerated again.
SetConfiguration ==
  /\ configPC = "selected"
  /\ \/ configPC' \in {"running", "holding"} /\ UNCHANGED currentConfiguration
     \/ configPC' = "select" /\ currentConfiguration' = 0
  /\ UNCHANGED <<device, localVars, listVars, pCurrentEndpoint, token, strayed>>

-------------------------------------------------------------------------------
(* The calls of the application and of the client drivers. *)

TransferInProgress ==
  \/ ~heap[EP0].complete
  \/ \E i \in Nodes(pInterfaceList) : \E s \in Nodes(heap[i].settings) :
       \E e \in Nodes(heap[s].endpoints) : ~heap[e].complete

USBHostSetDeviceConfiguration ==
  /\ configPC = "running" /\ ~TransferInProgress
  /\ currentConfiguration' \in DOMAIN device
  /\ configPC' = "select"
  /\ UNCHANGED <<device, localVars, listVars, pCurrentEndpoint, token, strayed>>

\* USBHostRead and USBHostWrite
StartTransfer(address) ==
  LET p == FindEndpoint(address) IN
  /\ configPC = "running"
  /\ p \notin {NULL, EP0} /\ heap[p].complete
  /\ heap' = [heap EXCEPT ![p].complete = FALSE]
  /\ UNCHANGED <<configPC, device, currentConfiguration, localVars, pInterfaceList,
                 pCurrentEndpoint, token, strayed>>

\* USBHostTerminateTransfer: a token of the endpoint may still be under way.
Terminate(address) ==
  LET p == FindEndpoint(address) IN
  /\ configPC \in {"select", "selected", "running", "holding"}
  /\ p # NULL
  /\ heap' = [heap EXCEPT ![p].complete = TRUE]
  /\ UNCHANGED <<configPC, device, currentConfiguration, localVars, pInterfaceList,
                 pCurrentEndpoint, token, strayed>>

\* A bug: transfers of the current setting are not looked for.
MutSettingIsFree(i) == TRUE

\* No transfer is under way on the current setting of an interface.
SettingIsFree(i) == \A n \in DOMAIN CurrentEndpoints(i) : heap[CurrentEndpoints(i)[n]].complete

\* USBHostIssueDeviceRequest with SET INTERFACE: the new setting is used from now on.
SetInterface(number, alt) ==
  /\ configPC = "running" /\ heap[EP0].complete
  /\ \E i \in Nodes(pInterfaceList) :
       /\ heap[i].number = number /\ SettingIsFree(i)
       /\ \E s \in Nodes(heap[i].settings) :
            /\ heap[s].alt = alt
            /\ heap' = [heap EXCEPT ![i].current = s, ![EP0].complete = FALSE]
  /\ UNCHANGED <<configPC, device, currentConfiguration, localVars, pInterfaceList,
                 pCurrentEndpoint, token, strayed>>

\* The same with CLEAR FEATURE(ENDPOINT_HALT): _USB_ResetDATA0
ClearHalt(address) ==
  /\ configPC = "running" /\ heap[EP0].complete
  /\ LET cleared == IF address = 0
                    THEN UNION {Nodes(heap[s].endpoints) :
                                  s \in UNION {Nodes(heap[i].settings) : i \in Nodes(pInterfaceList)}}
                    ELSE {FindEndpoint(address)} \ {NULL} IN
     heap' = [p \in DOMAIN heap |->
                IF p \in cleared THEN [heap[p] EXCEPT !.toggle = 0]
                ELSE IF p = EP0 THEN [heap[p] EXCEPT !.complete = FALSE] ELSE heap[p]]
  /\ UNCHANGED <<configPC, device, currentConfiguration, localVars, pInterfaceList,
                 pCurrentEndpoint, token, strayed>>

-------------------------------------------------------------------------------
(* The interrupt handler. *)

Astray == strayed' = TRUE /\ UNCHANGED <<heap, pCurrentEndpoint, token>>

\* A start of frame: the intervals of all endpoints in use are counted, then the first with
\* a transfer is served, endpoint 0 before the others.
StartOfFrame ==
  LET waiting == {n \in DOMAIN InUse : ~heap[InUse[n]].complete} IN
  /\ configPC # "detached"
  /\ IF ~Walkable THEN Astray
     ELSE /\ ~token
          /\ \/ ~heap[EP0].complete /\ pCurrentEndpoint' = EP0
             \/ /\ heap[EP0].complete /\ waiting # {}
                /\ pCurrentEndpoint' = InUse[CHOOSE n \in waiting : \A m \in waiting : n <= m]
          /\ token' = TRUE
          /\ UNCHANGED <<heap, strayed>>
  /\ UNCHANGED <<configPC, device, currentConfiguration, localVars, pInterfaceList>>

\* A token is done: the record of the endpoint it was for is written to.
TransferDone ==
  /\ token
  /\ IF pCurrentEndpoint \notin DOMAIN heap THEN Astray
     ELSE /\ token' = FALSE
          /\ \E complete \in BOOLEAN :
               heap' = [heap EXCEPT ![pCurrentEndpoint].toggle = 1 - @,
                                    ![pCurrentEndpoint].complete = @ \/ complete]
          /\ UNCHANGED <<pCurrentEndpoint, strayed>>
  /\ UNCHANGED <<configPC, device, currentConfiguration, localVars, pInterfaceList>>

Selecting ==
  \/ SelectConfiguration \/ Free \/ Unlink \/ FreeDone \/ RequestPower \/ SkipDescriptor
  \/ ParseInterface \/ ParseSetting \/ ParseEndpoint \/ EndpointsDone \/ ParseDone
  \/ SetConfiguration

Calls ==
  \/ USBHostSetDeviceConfiguration
  \/ \E a \in Addresses : StartTransfer(a) \/ Terminate(a) \/ ClearHalt(a)
  \/ \E n \in Numbers, a \in Alternates : SetInterface(n, a)

\* A pointer that leads to no node may do anything.
ConfigNext ==
  /\ ~strayed
  /\ PlugIn \/ Unplug \/ Selecting \/ Calls \/ StartOfFrame \/ TransferDone

ConfigSpec == ConfigInit /\ [][ConfigNext]_configVars

-------------------------------------------------------------------------------
SettingsOf(i) == Nodes(heap[i].settings)
Listed == Nodes(pInterfaceList)

\* Each node is of the kind that the pointers to it say.
ConfigTypeOK ==
  /\ configPC \in {"detached", "select", "free", "unlink", "power", "parse", "setting",
                   "endpoints", "selected", "running", "holding"}
  /\ EP0 \in DOMAIN heap /\ heap[EP0].kind = "endpoint"
  /\ configPC \notin {"free", "unlink"} =>
       \A i \in Listed : /\ heap[i].kind = "interface"
                         /\ \A s \in SettingsOf(i) : /\ heap[s].kind = "setting"
                              /\ \A e \in Nodes(heap[s].endpoints) : heap[e].kind = "endpoint"

\* The interrupt handler, which may come between any two steps of the main loop, finds
\* nodes behind every pointer it follows, but for two windows: while the list is freed, and
\* from an interface to its first setting.
WalksAreSafe ==
  configPC \notin {"free", "unlink", "setting"} =>
    ~strayed /\ Walkable /\ pCurrentEndpoint \in DOMAIN heap

\* "the caller will need to clean up, freeing memory" (usb_host.c:4526): whatever fails,
\* every node that is allocated is on the list, and none is left when the next
\* configuration is begun.
NothingLeaks ==
  /\ configPC # "unlink" =>
       DOMAIN heap = {EP0} \union Listed \union UNION {SettingsOf(i) : i \in Listed}
         \union UNION {UNION {Nodes(heap[s].endpoints) : s \in SettingsOf(i)} : i \in Listed}
  /\ configPC = "power" => DOMAIN heap = {EP0}

Interface(d, p) == d[p].type = "interface"
\* The endpoint descriptors between an interface descriptor and the next.
EndpointsAt(d, p) ==
  {q \in p + 1 .. Len(d) : d[q].type = "endpoint" /\ \A r \in p + 1 .. q : ~Interface(d, r)}
Supported(d) == {p \in DOMAIN d : Interface(d, p) /\ d[p].supported}
Complete(d) == \A p \in Supported(d) : Cardinality(EndpointsAt(d, p)) = d[p].endpoints

\* The list of the configuration that is in use has an interface for each number that is
\* supported, a setting for each of its descriptors, and the endpoints that follow it there;
\* nothing is left in it of a configuration that was tried before.
ListFollowsDescriptor ==
  configPC \in {"selected", "running"} =>
    LET d == device[currentConfiguration]
        numbers == {d[p].number : p \in Supported(d)} IN
    /\ {heap[i].number : i \in Listed} = numbers /\ Cardinality(Listed) = Cardinality(numbers)
    /\ \A i \in Listed :
         /\ Cardinality(SettingsOf(i))
              = Cardinality({p \in Supported(d) : d[p].number = heap[i].number})
         /\ heap[i].current \in SettingsOf(i)
    /\ Complete(d) => \A p \in Supported(d) : \E i \in Listed : \E s \in SettingsOf(i) :
         /\ heap[i].number = d[p].number /\ heap[s].alt = d[p].alt
         /\ Len(Chain(heap[s].endpoints)) = d[p].endpoints
         /\ {heap[e].address : e \in Nodes(heap[s].endpoints)}
              = {d[q].address : q \in EndpointsAt(d, p)}

\* A transfer that is under way has its endpoint in use, or it would never be served, and
\* never be over for those who wait for it: SET INTERFACE takes no such endpoint out of use,
\* and a new configuration frees none.
TransfersAreServed ==
  \A p \in DOMAIN heap : heap[p].kind = "endpoint" /\ ~heap[p].complete =>
    /\ configPC = "running"
    /\ p = EP0 \/ \E n \in DOMAIN InUse : InUse[n] = p

\* The list of interfaces and endpoints through selections, failures, resets and calls.
EndpointListIsSound ==
  ConfigTypeOK /\ WalksAreSafe /\ NothingLeaks /\ ListFollowsDescriptor /\ TransfersAreServed

\* "If the user is doing a SET INTERFACE, we must reset DATA0 for all endpoints."
\* (usb_host.c:650): the endpoints of a setting that is chosen start with DATA0, as those
\* of the device do.
SetInterfaceResets ==
  [][configPC = "running" /\ configPC' = "running" =>
       \A i \in Listed : heap'[i].current # heap[i].current =>
         \A e \in Nodes(heap[heap'[i].current].endpoints) : heap'[e].toggle = 0]_configVars
===============================================================================
