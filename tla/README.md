# Verification of the Microprocessor Labs

TLA+ models of the programs in this repository, the TLC runs that check them and proofs
about them. The repository holds seven labs of a microprocessor course: designs for an FPGA
(SystemVerilog, Labs 1 to 3 and the display of Lab 7), assembler programs for a PIC32 (Labs
4 and 5), a calculator in C (Lab 6) and a USB mouse that moves a pointer on a VGA screen
(Lab 7).

File names below are relative to `src/`; `usbmouse` is `Lab 7/usbmouse`.

## 1. Inventory

| part | source | state | operations | hard because | correct when |
|---|---|---|---|---|---|
| Keypad reader | `Lab 3/lab3_hh.sv` | scan index, synchronizer, tracked key, quiet counter, last two digits | clock edge, asynchronous reset | keys bounce while they are scanned one at a time | each press is recorded once, as the key that was closed |
| Sort | `Lab 4/leds_hh.S` | the words, six registers | one pass from label to label | loops end on equal addresses | the words end up sorted, none lost; the largest of the top ones is shown |
| Song player | `Lab 5/leds_hh.S` | position in the song, stack of loops, two timers, the pin | one pass from label to label; the timers run on | timers are not stopped between notes; loops in loops | notes in the order of the score, each as long as it says |
| Calculator | `Lab 6/*.c` | line buffer, UART, position in the line | read a character, parse, answer | overflow, division, unwritten variables, malformed and long lines | each line is answered with its value, or with its worst error |
| USB host: device states | `usbmouse/USB/usb_host.c` 1251-2428, 5200-5333 | `usbHostState`, override state, retry counters, configuration list, timer | `USBHostTasks`, attach, detach and timer interrupts, five calls | interrupts change the state behind the main loop; retries; refusals; swapped devices | a device ends up running or on hold; removals are noticed and passed on |
| USB host: endpoint list | `usb_host.c` 2046-2110, 4120-4195, 4543-4869 | interfaces, settings and endpoints in nodes from malloc | parse, free, SET_INTERFACE, look up | the interrupt handler walks the list while it is built and freed | it is what the descriptor says; no pointer leads to a node that was freed |
| USB host: transfers | `usb_host.c` 3094-3965, 4228-4444, 5400-5771 | status of each endpoint, token lock, interrupt flags | interrupt handler; start, ask, terminate, clear | one token at a time for all endpoints; lost packets; calls interrupted half way | each transfer ends once, with every byte once |
| HID client driver | `usbmouse/USB/HID Host Driver/usb_host_hid.c` | `deviceInfoHID[0]`, interface list and its cursor | `USBHostHIDTasks`, six calls, two callbacks | resets and removals in the middle of transfers | no use of what is gone; complete means over |
| HID report parser | `.../usb_host_hid_parser.c` | tables of collections, report items, reports and usages; two stacks | two passes over a descriptor, item by item; search for a usage | tables sized by one pass and filled by another, counters of a byte, variables that outlive a parse | the fields are where the descriptor has them |
| Mouse application | `usbmouse/Mouse_demo.c` | `App_State_Mouse`, what it collected of the report, buffers | main loop, collect, read a report | follows the driver's state from outside | each report is read once and as the descriptor says |
| VGA display | `Lab 7/vga/vga.sv` | counters, shift register, stored word, cursor | pixel clock, serial clock | two clocks; frames with any gap; a counter inside the pulse of another | every pixel once, all of a picture for one position |
| LEDs, digits | `Lab 1`, `Lab 2` | a divider | clock edge | nothing | |

Everything else is not part of a lab: the device side, OTG and the other client drivers of
Microchip's library, its headers for networking, graphics and file systems, linker output,
hex files and fonts. None of it is compiled, apart from headers.

How the parts of Lab 7 interact. The application calls `USBTasks`, which runs `USBHostTasks`
and then `USBHostHIDTasks` from the main loop. `USBHostTasks` enumerates a device with
control transfers and calls the client driver's `Initialize` and `EventHandler`. The driver
and the host issue requests and reads, which only fill in an endpoint's record; the interrupt
handler turns them into tokens and writes results back into the record, which the main loop
polls. The attach and detach interrupts leave a state in `usbOverrideHostState` for the main
loop to take over. When a HID device is configured the driver fetches its report descriptor
and has it parsed; the application picks the fields it wants out of the tables, and from then
on takes them out of each report. The display is a second chip that is sent the position in
serial frames. The labs before stand alone, and so do their programs in the runs.

What is hard to test in each part is listed, line by line, under "hazards" in `PROJECT.json`.

## 2. Modules

```
KeyPress <|.. KeypadDebounce -> Keypad                     KeypadProofs
SelectionSort                                              LabsProofs
SongPlayer                                                 LabsProofs
Calculator -> CalcParser -> CalcArithmetic                 LabsProofs (CalcArithmetic)
Display                                                    LabsProofs
UsbLifecycle <|.. UsbHostProperties -> UsbHost             UsbHostProofs
UsbPipe <|.. UsbTransferProperties -> UsbTransfer          UsbTransferProofs
UsbConfiguration
UsbPipe <|.. HidProperties -> HidHost                       HidProofs
MouseProperties -> MouseApp -> HidHost                      MouseProofs
    (the application composed with the driver)
HidReportProperties -> HidImport -> HidReport     FieldsProofs -> DescriptorsProofs
    (the application composed with the parser)
```

`->` is EXTENDS, `<|..` is "implements". The `...MC` modules give the constants their values
for TLC. `LabsMC` puts the four stand-alone programs side by side and `DescriptorsMC` the two
parsers of descriptors: each behaviour runs one of them while the others wait. The modules with
the transition systems hold also the operators named `Mut...`: the same definition with a
plausible mistake in it. None of them is used; each shows that a property would notice that
mistake, and `PROJECT.json` names one for every property of every run.

Some properties are conjunctions with a name of their own: they are the one thing to be said of
a part (`AnswersAreRight`, `EndpointListIsSound`, ...), and the parts have their own comments.

### Keypad, KeypadDebounce, KeyPress (Lab 3)

One `Clock` action updates all registers from the values they had: `Scan` is `hex_generator`,
`key_reader` and `key_synchronizer`, `Track` is `key_tracker`, `CountQuiet` is
`key_deactivator`, `Record` is `key_record`. `Touch` changes the set of closed keys at any
time, so every bounce is possible. `PressReset` is asynchronous. `raw_signal` includes the
current that goes around three corners of a rectangle.

`KeypadDebounce` adds history variables that only observe (`HistoryObserves` in the proofs)
and states the properties: what is recorded was closed when it was sampled
(`RecordsPressedKey`), a press is recorded once however long the key is held
(`HeldKeyRecordedOnce`), it is let go of only after enough quiet (`QuietBeforeRelease`), the
count ends only for a tracked press (`ReleaseIsOfATrackedPress`), and two liveness
properties. `KeyPress` is the reader without scan and timing; `ImplementsKeyPress` is the
refinement.

### UsbHost, UsbLifecycle

`usbHostState` is a triple (state, substate, subsubstate) with the numbers of
`usb_host_local.h`, so that "set the next subsubstate" is an addition as in the code and a
timer interrupt in the wrong state has the effect it has there. A pass of `USBHostTasks` is
two steps, `TakeOverride` with `ClearOverride`, and `Run`, as the override is read and cleared
with the interrupts on; the rest of a pass changes nothing an interrupt reads. The commands of
the enumeration go through `ep0`, which is busy, done or failed: their tokens are module
UsbTransfer's. A device is a record of what the enumeration depends on (`hub`, `low` speed,
the number of configurations, those a client driver supports). `client` is whether the client
driver has a device, for one interface at least: each interface is offered to it, and the device
goes on hold when one of them is refused, also if others were taken. The detach flag of the hardware is a level or an event
(`DetachIsLevel`); the safety runs use the event, liveness the level, because with an event the
code loses a detach between reading the flag and clearing it (hazards at 1328 and 1490).

`UsbLifecycle` is what `USBHostDeviceStatus` shows: a device is enumerated before it is
attached or refused, a refused one stays refused, and no new device is looked at before the
client driver knows that the last one is gone.

### UsbTransfer, UsbPipe

The interrupt handler is one step, written as functions of the host's variables in the order
of its parts: `TransferDone`, `StartOfFrame`, `UsbError`, the first two ending in
`FindNextToken`. Three calls of the main loop are interrupted where it matters: the start of
a transfer (parameters, then the flag), the question for its result (complete, then the
error) and the termination (read the status word, then write it). The device and the wire are
external: a token is answered with data, an acknowledgement, NAK, a stall or nothing, each
packet and each acknowledgement can be lost, and an error may raise the transfer interrupt,
the error interrupt or both.

`UsbPipe` is what the rest may rely on: a started transfer ends once, with a result that
stays. UsbTransfer implements it; HidHost is checked to use its endpoints that way
(`UsesPipes`), with aborts for termination and detach. That is the link between the two
models.

The data are abstracted: a packet is its size and toggle. SETUP is one token that counts no
bytes. NAKs are counted on endpoint 0 only (no other enables the limit). A control read asks
for at least a byte. `ClearEndpointErrors` is called between transfers. The assignments of a
suspend are one step. Bulk and isochronous transfers are not compiled.

### UsbConfiguration

The list of interfaces, their settings and endpoints as nodes at addresses of a `heap`, whose
`malloc` takes the first free address, so that one that was freed is used again. The main loop
takes a step for each pointer it writes: `Free` and `Unlink` are the two statements of
`_USB_FreeConfigMemory`, `ParseInterface`, `ParseSetting` and `ParseEndpoint` the three places
where `_USB_ParseConfigurationDescriptor` allocates. Between any two of them the interrupt
handler may walk the list (`StartOfFrame`) or end a token (`TransferDone`), whose record is
that of `pCurrentEndpoint`; if a pointer leads to no node, `strayed` is set and the behaviour
ends. A descriptor is a record of what the parser reads of it. `SetInterface`, `ClearHalt`,
`StartTransfer` and `Terminate` are the calls that look something up in the list.
USBHostResetDevice goes through the detached state, so it is `Unplug` here.

`EndpointListIsSound`: every pointer leads to a node of its kind; outside of two windows the
handler finds the list whole; every allocated node is on the list, whatever fails; the list of
the configuration in use is what its descriptors say, and nothing of one that was tried before
is left in it; an endpoint with a transfer is in use until the transfer is over. The windows are
in the code: while the list is freed with the interrupts on (`usb_host.c:4135`), and from an
interface node to its first setting (`usb_host.c:4687`), as `pCurrentSetting` is not
initialised. In both the start-of-frame interrupt may follow a pointer to freed or uninitialised
memory. It is assumed that an interface has its setting 0 first; a device that lists another
one first keeps the second window open for longer.

### HidHost, MouseApp

`HidHost` has an action for each substate of `USBHostHIDTasks` and for each call, and the part
of the host stack that the driver can see: detach, enumerate, initialise the client. The
interface list is a sequence and `pCurrInterfaceDetails` an index of it, `None` or `Dangling`
after the list was freed; following one of those two ends the behaviour in `UNDEFINED`. Here the
report parser's verdict and whether the application finds its report belong to the device;
HidReport and HidImport are about how they come about.
Specification `Spec` lets an application make any call at any time; `MouseApp` is the main
loop of the lab on top of the same driver, with a program counter for the places where
`USBTasks` and the switch alternate. `buffer` is a history variable: which device filled the
report buffer since the last read was started.

### HidReport, HidImport

`HidReport` is the report descriptor parser: a descriptor is a sequence of items, and each of
its two passes an action per item (`CountItem`; `FillItem` with one action for each group of
tags). Counters are bytes, sizes of reports are words, tables are functions of the indices that
were allocated; to write outside of one is the phase `overrun`, which ends the behaviour.
`deviceRptInfo` stays as it is between descriptors, and `found` remembers what it was when the
parse began. `HidImport` is what reads the tables: the search for a usage (`ApiFindBit`,
`ApiFindValue`), the field that is taken out of a report (`ApiImportData`), and the
application, which collects two fields of the last descriptor it likes and shows the buttons.

The properties do not use the parser's state machine: `HidReportProperties` says from the
descriptor as a whole which collections are open at a position, which global items are in force
there in spite of Push and Pop, where in its report a field begins, and which usages are its
own. The data of an item are a number: that of the signed 32 bits if it has four bytes, so that a
bound of four bytes is what the code keeps in a LONG, and the unsigned one otherwise. `TablesFollowDescriptor`, `UsagesAreFound` and `CollectionsFormTree` compare the tables
with that (the first is the conjunction of the ranges of the variables, `TakesOnlyMatched` for
what is refused, `GlobalsInForce` and `BoundsAreSigned` for the global items, and `FieldsFollow`
for the places and lengths), `FitsRoom` the two passes with each other, `ReadsReports` the values with the bits
of the report. What the code keeps from an earlier descriptor is an assumption of these
properties, not of the model (`found.parent # 0` and the like); `StartsAfresh` is the claim
that it keeps nothing.

### SelectionSort (Lab 4)

A step is one pass of the assembly code between two labels. Addresses are indices of the words,
registers the variables `t1` to `t6`. `SortCorrect`: in the end the words are in order, they
are the words that were given, and the number on the LEDs is the largest of the top ones.

### SongPlayer (Lab 5)

A step of the program is one pass between two labels; `Tick` moves the two timers, and the
program gets a turn in each tick (32 processor cycles, more than any pass takes). `played`,
`elapsed`, `halfWave` and `sounding` are history. `FollowsScore` compares what is played with
the score of the song, computed by recursion over its nested loops; `KeepsTime` says how long
notes last, how long they are heard and how short a half wave may be. A note is heard for its
duration up to one period and three ticks: two are lost when the period timer starts again after
a long rest, and one with the pass that sees the period over.

### CalcArithmetic, CalcParser, Calculator (Lab 6)

`CalcArithmetic` holds the overflow checks; the range is a constant, so that the checks meet
their bounds in a small instance. `CalcParser` is the parser, which reads a line from its end,
as a recursive function on (rule, position, what the out variable holds). Local variables hold
`junk` until they are written. Beside it stands the grammar of `parser_hh.h:29-49` with the
meaning of each rule over unbounded integers. `Calculator` adds the typist, the UART with its
overrun, the line buffer and the answer. `AnswersAreRight` compares the answer with what the
grammar derives. Writing a number in decimal is left out.

### Display (Lab 7, `vga/vga.sv`)

`VgaClock` and `SpiClock` are rising edges of two independent clocks. The sender is external: it
sends frames with any gap between them and may be in the middle of one when the slave starts.
`StoresLastFrame`: the stored word is that of the last frame that ended in a gap.
`PictureIsWhole`: each pixel is drawn once and in its turn, and all of them for one cursor.
A word crosses to the other clock in one step: what flip-flops do in a race is not modelled,
nor are the colours.

## 3. Runs

All constants are in the `.cfg` files. A "violation" run checks one property that a comment of
the code states and the code does not keep; its lines are under "findings" in `PROJECT.json`.
Each listed property has a mutant there, a plausible bug that breaks it.

| run | states | what it shows |
|---|---|---|
| keypad | 11 k | two keys in different rows and columns, a counter of 31: what is recorded was closed, once per press, let go of only after quiet; the refinement; a held key is shown, the reader gets ready again (`ReaderSettles`) |
| labs | 0.6 M | `SortCorrect` for four words of every order; `FollowsScore` and `KeepsTime` for songs with loops in loops; `AnswersAreRight` for every line of up to four characters and seven longer ones; `StoresLastFrame` and `PictureIsWhole` for frames with every gap; each program gets somewhere (`ProgramsProgress`) |
| usb_host | 1.5 M | all safety properties of the device states and the life cycle: five kinds of device, every refusal, all calls but SetDeviceConfiguration |
| usb_host_live | 0.5 M | three kinds of device, suspended, resumed and configured again at any time: a device settles, its removal is noticed, the retry budgets hold |
| hid_driver | 0.2 M | any application on the driver: endpoints used as pipes, no interface of an earlier device |
| hid_mouse | 0.8 M | the lab's application, four devices, every result, malloc failing: fresh reports only, removals noticed, reports processed, driver and application agree on which read goes on |
| usb_transfer_request | 0.1 M | control transfers of 0, 1 and 3 bytes in packets of 2: each ends, success is complete, answers are final |
| usb_transfer_input | 0.2 M | an interrupt IN endpoint, 1 to 3 bytes, halts cleared over endpoint 0: toggles agree, each transfer ends |
| usb_transfer_together | 1.4 M | an interrupt OUT endpoint and endpoint 0, suspended, resumed and terminated at any time: the token lock |
| descriptors | 0.4 M | 67 report descriptors, each alone and after each other: tables, usages, tree and values follow the descriptor; beside them, five devices whose configurations are selected, refused, freed and used: `EndpointListIsSound` |
| usb_host_retry | violation | a retry asks a device that was reset at its old address (`RetryReachesDevice`) |
| descriptors_again | violation | a report descriptor is parsed with what an earlier one left (`StartsAfresh`) |

Bounds, and why they are enough. Keypad: the counter must outlast a scan of 16 clocks, and 31 does
so by almost as many again; 2^20 - 1 differs only in the length of the wait, and of the proofs
only `HeldKeyIsKept` needs more than 16. Two keys give every order of presses; more keys add the
ghost key (`lab3_hh.sv:230`), which the reader does not claim to handle. Sort: four words of four
values have every order and every tie, and the proof has no bound. Song: the loops nest twice, are
played 0 (for ever) to 3 times, and hold notes, rests and unknown ops; a unit of 4 for the ops and
a ratio of 8 between the timers keep every comparison of the code apart, and the first 6 notes
(`MaxPlayed`) are compared, which are more than one round of any loop. Calculator: numbers up to
15 make every operation overflow within four characters; a buffer of 10 and a UART of 2 characters
are filled and overrun by the longer lines. Display: a screen of 2 by 2 pixels in 7 by 7 clocks
has each porch and pulse; frames of 4 bits with gaps of 0, 1 and 2 clocks have every way a frame
can follow another; the proofs have no bound. Host: two tries of each kind let a budget be used,
reloaded and exhausted; a wait of two ticks (one in the liveness run) lets a timer be armed, seen
and left. Two configurations are one more than the first that is tried. Transfers: three bytes in
packets of two make a full and a short packet, one byte a short one only; two or three attempts
let one or two errors be forgiven; an interrupt endpoint with endpoint 0 is what the mouse has,
two of them are needed only for the counterexample about starvation. Requests with data stages
together with interrupt reads were not put in one run: the token lock between them is proved, and
each is checked with its own hazards. Driver: two interfaces (`MaxInterfaces`) are one that is
last and one that is not. Descriptors: 19 beginnings, one for each feature and each error of the
parser, with 3 endings; two parses (`MaxParses`), as what a parse leaves is seen by the next, and
the third could only see the same; configurations with one interface, two, two settings, an
unsupported one, and one that ends too early. Nothing unbounded is left in the models, so no state
constraint is used.

What restricts a run, and why. Liveness of the host takes a power supply and memory that do not
refuse. `usb_host` leaves SetDeviceConfiguration out, which breaks what the code says of its
timer and of its client driver (section 4); `usb_host_live` has it, and `AttachedDeviceSettles`
speaks of the behaviours in which the timer runs only in states that wait for it.
`TogglesAgree`, `CompleteTransfersAreOver` and `ImplementsPipes` are checked without
termination, for the same reason. `DetachIsLevel` is explained with UsbHost above. The
descriptor runs may stop, after the last parse or where the code writes outside of a table, so
they do not check for deadlock; all others do.

Fairness. The main loop runs for ever and calls its tasks in each round: weak fairness for
them. Interrupts that are pending are served. The FPGA's clocks do not stop, nor do the timers of
the microcontroller, and its program takes a step whenever it can. The USB module
makes a frame each millisecond while enabled, and ends each token within its timeout. Nothing
is assumed of users, typists or the sender of frames, of the order of interrupts or of what a
device answers, but that an
endpoint that is asked ends its transfer in some way where the driver is modelled without
tokens (`MouseFairSpec`); `TransfersEnd` of the transfer runs is what justifies that. In
UsbTransfer the handler's fairness is written with `Interrupted`, which is when it is enabled,
in Calculator the program's with `ProgramTurn`, what its steps do to the label and the UART.

## 4. Where the code does not do what it says

Two of these are the violation runs. For the others the property is in the module of the run it
belongs to, and the `.cfg` named here shows the counterexample.

| property | config | what happens |
|---|---|---|
| `RetryReachesDevice` | run usb_host_retry | `usb_host.c:1565` resets the address for a low-speed device only |
| `StartsAfresh` | run descriptors_again | `usb_host_hid_parser.c:741` leaves the parent, the siblings, the first items and two of the counts as they were |
| `SuccessIsAccepted` | `UsbTransferStatus.cfg` | `usb_host.c:2553` tests success, set by the data stage, before stall and error: a request whose status stage stalled is a success |
| `InterruptsAreServed` | `UsbTransferInterrupts.cfg` | `usb_host.c:4051` stops at the first endpoint with a transfer, also when its interval is not over, and a second one starves |
| `RunsCollectedReport` | `HidDriver.cfg` with this invariant | `usb_host_hid.c:755` tests a flag that no detach clears |
| `SetInterfaceResets` | `UsbSetInterface.cfg` | `usb_host.c:650` says that SET INTERFACE resets DATA0 for all endpoints; line 691 only changes the setting |
| `OvercurrentUntilAvailable` | `UsbHostOvercurrent.cfg` | the initialisation after an overcurrent (`usb_host.c:417`) gives the port its power back; `usb_common.h:279` says it gets none until the application allows it |
| `InvalidConfigurationHolds` | `UsbHostBadConfiguration.cfg` | a configuration number that does not exist is searched to NULL, which is followed (`usb_host.c:2080`); line 1030 says that the device goes on hold |
| `GivesUpDetached` | `UsbHostBadConfiguration.cfg` with this invariant | the last failed try ends on hold (2820), `usb_host.h:97` says detached |
| `TimerOnlyInWaits` | `UsbHostTimer.cfg` | SetDeviceConfiguration during a resume leaves its timer running, which later steps another state (5271): a wait whose timer is over or a state with no case, where the device stays until it is unplugged |
| `ClientReleased` | `UsbHostTimer.cfg` with this invariant | choosing an unsupported configuration frees the interface list first (2049), so that the client driver is not told of the later removal (1145) |
| `SilentWhileSuspended` | `UsbTransferSuspend.cfg` | the test for a suspended device (3101) compares masked bits with a value that has more of them, and is never true |
| `CompleteTransfersAreOver` | `UsbTransferTerminate.cfg` | a terminated transfer is complete with its token under way (2472); as the status word is read and written back (2471), the toggle of a packet acknowledged in between is undone too |
| `TransfersWhenReady` | `HidDriver.cfg` with this property | the test of the driver's state (`usb_host_hid.c:1065`) has `&&` for `\|\|`, a read is started while the report descriptor is still fetched |
| `CompletedTransfersAreOver` | `HidDriver.cfg` with this invariant | a reset (532) leaves the state of an outstanding read, which then counts as complete |
| `InterfacesOfThisDevice` | `HidDriver.cfg` with `Devices <- Leftover` | an interface without an interrupt IN endpoint is put on the list (`usb_host_hid.c:1961`) before it is refused (2023), with `deviceAddress` still 0; EVENT_DETACH (1549) then finds no device and frees nothing, and the next device's interfaces are appended |
| `BoundsComeInPairs` | `Descriptors.cfg` with this invariant | `usb_host_hid_parser.h:419` calls a missing bound of a usage range an error; a minimum that is given twice and then its maximum leave one bound over, and the descriptor is taken |
| `DivisionsAreReal` | `Labs.cfg` with this invariant | after an overflow an unwritten variable may hold 0 and be divided by: `1/(6*6)` is answered with "Division by zero occurred." (`parser_hh.h:189`) |

Read, and kept as it is in the models, but with no property of their own:

- Song player: after a note has ended the period check runs once with the word that follows,
  whose period may be the code of an op. The comments at `Lab 5/leds_hh.S:350` and 363 say that
  a section is played 2 times, the words say `loop` and `loop 5`.
- Calculator: `is_cat_overflow` and `is_prev_char_in` lack a return statement, so their callers
  see what the last expression left in the result register.
- Display: the counters run over 801 by 526 values where line 23 says 800 by 525; the line counter
  advances with the end of hsync where line 63 says its start. Frames without a gap are never
  stored, as `finished` does not rise between them.
- Report parser: a `;` ends the `if` of line 539; the children of a collection are in the reverse
  order; `startBit` is a byte, as is each counter of items, and wraps; a usage of four bytes keeps
  the low byte of its number; a size of 32 bits or more is shifted by more than the word has.
- Driver: `ApiImportData` (1445) lets the last byte lie one past the report; a field over three
  bytes loses its highest bits, and values are cut to a byte. When the last interface is refused
  the next one is read from a node that was freed (771).
- Mouse application: `ReportData` has 4 bytes and each buffer 3 values, whatever the descriptor
  says; the index of the report is unset when no field was found (468); the report is picked from
  the last interface that has one and read from interface 0 (206), and its details stay those of
  an interface that is refused later; the third LED may be left over; the movements end in local
  variables.
- LED display: the comment at `Lab 1/lab1_hh.sv:39` (`led[3] : s[2] = 0`) and the code disagree;
  line 46 names an `s[4]` that a 4-bit signal does not have.
- Keypad: three keys at the corners of a rectangle close the fourth in Lab 3.

## 5. Proofs

Each theorem holds for every value of the constants that satisfies the named ASSUMEs of its
modules, which TLC evaluates in the runs, and the hypothesis that is part of its statement, if
it has one. Twenty-seven of the checked properties are theorems:

| module | properties proved |
|---|---|
| KeypadProofs | `ImplementsKeyPress`, `QuietBeforeRelease`; with a counter longer than a scan `HeldKeyRecordedOnce`; without phantom keys `RecordsPressedKey` |
| LabsProofs | `SortCorrect`, `StoresLastFrame`, `PictureIsWhole`; with few ops between notes `KeepsTime` |
| UsbHostProofs | `BudgetsLast`; without SetDeviceConfiguration `HostInvariant`, `ClientReleased`, `EnumeratesOneDevice`, `TimerOnlyInWaits`, `ImplementsLifecycle` |
| UsbTransferProofs | `OneTokenAtATime`; without USBHostTerminateTransfer `RequestInvariant`, `TogglesAgree`, `CompleteTransfersAreOver`, `AnswersAreFinal`, `ImplementsPipes` |
| HidProofs | `UsesPipes`; with an IN endpoint in every HID interface `DriverInvariant` |
| MouseProofs | `ReadsAreUnderwayOrOver`; with an IN endpoint in every HID interface `ProcessesFreshReport` |
| DescriptorsProofs | for descriptors that counters of a byte can count `FitsRoom`, `CollectionsFormTree`; and `TakesOnlyMatched`, `GlobalsInForce`, `BoundsAreSigned`, which are parts of `TablesFollowDescriptor` |
| FieldsProofs | for descriptors whose reports can be measured too `TablesFollowDescriptor` |

The inductive invariants named below were checked by TLC on the constants of the runs before
they were proved.

`KeypadProofs` (any counter length, any set of touches): `TypeCorrect`; `CountdownNeedsPress` from
an invariant that ties the counter to the tracking register; `Refinement`, each step of the reader
being a press, a release, a reset or a stutter of `KeyPress`, for which the invariant is needed
because a press and a release in the same clock would be none of them; `QuietCorrect`, with
history: the counter never exceeds the quiet clocks seen so far by more than the two registers
between contact and counter. `RecordingIsOfPressedKey`, from the invariant that a contact in the
register was made by a closed key under the label beside it; it assumes `NoPhantomKeys`, that no
touch closes a rectangle's fourth corner, which holds whenever at most two keys are held
(`TwoKeysHaveNoPhantom`). `HeldKeyIsKept`, for `CounterMax > 16`: the property is not inductive,
as the counter of a held key runs between two reads of it. `CountFollowsScan` bounds it by the
clocks since that read (`SinceRead`): at most 15 when the contact is in the first register and 16
when it is in the second, cleared after that, and one less than the clocks elsewhere.
`LabelsInStep` adds that the label in the register is the one of the key scanned last, so that a
read of the held key is recognised. The hypothesis is the weakest: with 16 TLC finds a held key
let go of. The 20 bits of the source are far beyond it.

`UsbTransferProofs` (any number of endpoints, sizes, intervals, retries, NAKs, calls):
`TokenLock`, that no token is written while another is under way or has an interrupt that is
still to be handled. `OneTokenAtATime` alone is not inductive: an error interrupt opens the
lock too, so the invariant `LockHolds` adds that the lock is closed while an error interrupt
waits; and between the parts of the handler the lock may be open with a transfer interrupt
still pending, which is why the lemmas carry `MayServe` from one part to the next. There is
one lemma for each part of the handler and one for each group of other actions.
The other five are from `TransferInv`, for applications that terminate no transfer
(`NoTermination`). That hypothesis is needed: USBHostTerminateTransfer reads the status word and
writes it back, and section 4 has a counterexample. The heart of `TransferInv` is `Side`, one
statement for each endpoint about its record, the result of its last token that the handler has
not seen, and the device's record: that a transfer goes on, has failed and says how, or has
ended well (`Stage`); that a waiting result belongs to the packet the record is at (`Result`);
that the toggles differ exactly while one side has a packet the other does not know of
(`InStep`); and for endpoint 0 (`ControlSide`), that behind its SETUP stage the device has this
request and no other, and has counted the host's bytes and those of the packet between them
(`Halfway`). `TokenHeld` says that the token under way is the one the current endpoint's record
would send now; `CallKnown` that a call finds its transfer complete until it sets the flag, which
is where the order of the two steps of InitTransfer matters; `HaltKnown` that an endpoint whose
halt is being cleared waits for it with DATA0, without which the two sides would not start again
in step; `AskKnown` that what was found complete is still complete. The handler is proved part by
part: each keeps `Known`, which is `Side` and `TokenHeld` for the host's variables half way
through the handler, and `Moves`: it leaves complete transfers alone, and completes one only with
a result, which is all that `EndpointsArePipes` needs of it.

`UsbHostProofs` (any devices, numbers of tries, waits, power and memory):
`BudgetsAreKept` for any application: every failed command takes a try and the last one leads to
the hold state, where no command is waited for. The others from `EnumerationInvariant`, for any
application that does not call SetDeviceConfiguration (`NoReconfiguration`). That hypothesis is
needed: the call restarts the selection in the middle of a resume or of a running device, and
section 4 has the counterexamples, two of which are these very properties. The invariant is a
conjunction of
`BudgetInvariant` (the counters of tries), `Typed` (each variable has its type and the state is
one of the states), `Waiting` (the timer runs only in a state that waits for it, a command only
in one that waits for its end), `OneDevice` (a device that listens was reset after it was plugged
in and is the one whose descriptor is held, which is why no swap mixes two devices), `ListOfDevice`
(the list of configurations and the index of the next one) and `Chosen` (what has been selected,
and with whose client driver). The stack has 40 kinds of steps and each variable few writers, so
there is first a lemma for each variable that says who writes it; a part of the invariant is
then proved for those steps only. `LifecycleIsImplemented` maps each step to one of
`UsbLifecycle` or to a stutter, for which `Chosen` is needed: a device is attached only with a
client driver, and looked for only without.

`HidProofs` (any devices, numbers of interfaces, results, memory and calls).
`EndpointsAreUsed` needs no invariant but the types of the endpoints (`PipesTyped`): each step of
the driver, its application and the bus does to each endpoint one of the things a pipe may have
done to it. `DriverIsSound` from `DriverInv`: what the host shows
and what is plugged in agree (`HostKnown`), an endpoint is busy only for a device
(`PipesBusy`), the list is that of the device, of all of its HID interfaces in their order
(`ListKnown`), an interface whose report descriptor is fetched is one of the device
(`DescriptorKnown`), and counts are bytes (`CountsTyped`). That the list is complete is counted:
`Nodes` numbers the interfaces by rank, and `EveryPlaceIsTaken` shows from cardinalities that no
node is left out. The theorem assumes `InputsPresent`, that a HID interface has an interrupt IN
endpoint, as the HID class demands: without it `InterfacesOfThisDevice` is false (section 4).
The lemmas are about `DriverStep`, of which the steps of any application and those of the lab's
are both instances, so that both modules of proofs use them.

`MouseProofs` (the same constants, the lab's application): `ReadsAreUnderway` from `ReadsInv`,
that the driver's substate, the application's state and its place in the main loop agree
(`ReadsKnown`, `LoopKnown`), and that no endpoint is busy with a read in any other substate.
`ReportsAreFresh` from `FreshInv`, which adds that what the driver has counted of the read that is
waited for is in the buffer and from the device that is there (`CountIsFresh`). That is
inductive only with `DetachIsSeen`: the application notices that a device is gone before the
driver can be given another one, because a detach and the next initialisation are never in the
same round of the main loop.

`LabsProofs` is about Labs 4, 5 and 6 and the display of Lab 7.

The sort (any number of words, any words): `SortIsCorrect` from `SortInv`, which says
what each loop has found so far (`MaxSoFar`, `MinSoFar`), that every word below `t2` is no larger
than any above it (`Placed`), and that the words are an order of the given ones; that an
exchange keeps them one is a lemma about permutations (`ExchangeKeeps`).

The song player (any songs, sizes of timers and ratio of their clocks). `SongInv` says that the
program is at a word of the song, that the stack holds the loop ops that are open there
(`StackOpens`) and that the number of them is the nesting; from that every register, timer and
stack entry keeps its range (`SongTypeCorrect`) and the stack is the nesting of the loops
(`StackIsRight`). It needs songs in which every end_loop has its loop, which is what
`SongsAssumption` says of them. `TimeIsKept` is `KeepsTime`, from `TimeInv`: the note timer
shows what has `elapsed` since the last note was over (`TimerShows`), each word is looked at early
enough to end on its tick or on the next (`OnTime`), the period timer shows no more than the half
wave has lasted (`WaveShows`), and a note has sounded since it began or since the period timer
was over (`SoundsOn`). An op takes up to two
passes in which nothing looks at the timers, so the invariant has to bound the ops between a note
and the next. Its hypothesis `FewOps` is that such a bound exists: a number for each word that
grows along every way through the song, the ways back to a loop op included, begins again at each
note, and stays below that note's duration. A loop without a note in it has no such number:
its rounds may take longer than the note behind it.

The arithmetic of the calculator (any width): three theorems, that the checks of a sum, of one more digit
and of a product refuse exactly the operations that leave the range. They are about the
arithmetic the C code does: halves with a carry, a division rounded towards 0, bounds whose order
depends on a sign. That the parser uses the checks rightly is model-checked.

The display (any screen and pulses that fit, any frame length, any gaps):
`PicturesAreWhole` from `Scan`, which ties the next pixel to the two counters although the line
counter moves at the end of the pulse in a line; `SlaveStoresFrames` from `SlaveFollows`: in a
frame that was heard from its start the counter is one ahead of the bits sent, which are the last
ones of the register (`FrameIsComplete`), and outside of one the slave waits.

`DescriptorsProofs` (any set of descriptors, any order of parses, errors and devices between
them). The hypothesis of all its theorems is `Countable`: at most 254 items of each kind that is
counted in a byte. With more of them both passes wrap, and the tables are too small.
Positions of a descriptor are counted by sets (`Num`, `Upto`), so that "the number of items before
this one" grows by one lemma (`CountsGrow`) and needs no recursion.

- `SecondPassFits` from `ParserInv`. In the first pass the counters are the numbers of items
  before `at`, and the maxima of the two nestings are at least every nesting so far
  (`CountsItems`, `CountsNesting`). When it ends the tables have the room it counted (`Rooms`), and
  the second pass, which starts from the variables it finds, has numbered no more than there is
  before `at` (`FillCounts`). The numbering of local items is where the passes differ: the
  first counts a range for two bounds, the second makes an entry when it has both, so the
  invariant is that twice the entries and a bound that waits are no more than twice the indices
  and the bounds before (`ItemsBelow`). `found.parent`, `found.items` are the cases that the
  property leaves out, as the code does not reset them.
- `CollectionsAreTree` from `TreeInv`: the collections that are open at `at` are the current
  parent, its parent, and so on (`OpenKept`); the children of each collection that has been opened
  are chained from its first child over the siblings, the newest first, and end in 0 (`Chained`);
  and each collection that has been closed has the report items between its ends. The lemmas about
  the descriptor alone (`OpenGrows`, `InnermostThere`, `ParentThere`) say that the innermost open
  collection is the one whose number the code takes back from the parent's entry. `Children`
  is a recursive function over the list, and that it collects the chain (`ChildrenAre`)
  is shown by the least collection at which it would not, as induction is out of reach.
- `DescriptorsAreMatched` from `MatchInv`: the two flags for a bound that waits are the minima less
  the maxima (`Pending`), as long as none was given twice.
- `GlobalsAreInForce` and `BoundsKeepTheirSign` from `GlobalInv`: the current globals, every
  entry of the stack of globals and every report item are what was in force at `at`, at the Push
  of that entry, and at that item. A Pop is a static fact about descriptors: each level of the
  stack is held by a Push (`HeldThere`), a Pop matches the last one below its level (`MatchIs`),
  and the items in force after the Pop are those that were in force at that Push
  (`EffectiveBack`).

`FieldsProofs` proves what is left of `TablesFollowDescriptor`, that fields follow each other and
that every variable keeps its range, and so `TablesFollow`, the property as a whole. The
hypothesis is `Countable` and two more. `Measured`: report sizes and counts are bytes and report
IDs are words, as the code keeps them so. `WellSized`: every report item has bits, and no type of
a report has more of them than a word can say. The first is needed because the code clears the
length of a report that is still the 8 bits of its ID, as one without items of that type.
TLC evaluates the three hypotheses to true for all 67 descriptors of the run.

- A place is a sum over the items before it, which `MapThenSumSet` folds over a set.
  `SumsAreTotals` says that the sum is the number of pairs of an item and one of its bits
  (`Total`), by the least set for which it would not be; from there on `TotalGrows` and
  `UsedGrows` are about cardinalities.
- `FieldsInv` is the invariant of the second pass: the reports that have been made have
  different IDs (`Distinct`), and for each type as many bits as the items before `at` in that report
  use (`Lengths`); the current globals and those of each Push on the stack lead to the report of
  the ID that was in force there (`Names`, `StackNames`), and each report item that has been made
  begins behind those before it (`Placed`). A Pop needs the names of the stack, as the code
  keeps the index of a report there and not its ID. `LaidInv` is what remains of it in
  the tables of a descriptor that is taken, when the lengths of empty reports have been cleared.
- `Sized` has the ranges. A nesting is taken one down without a conversion, and stays a byte
  because the first pass has refused descriptors that close what is not open (`Balanced`).

Proving showed four things about the model. That a matched descriptor has as many minima as
maxima is false when a bound is given twice, which is why `TakesOnlyMatched` and
`UsagesAreTheirOwn` speak of bounds given once, and `BoundsComeInPairs` became the property of
section 4. The tags of items had to be a closed set, as in the code's switch. The
history variable `elapsed` stopped at a bound that a note of the song could pass, and now counts
beyond every note. And a note can lose three ticks of its
sound, not two, which no song of the run showed.

What stays with TLC: all liveness properties (`ReaderSettles`, `AttachedDeviceSettles`,
`DetachIsNoticed`, `UnplugIsNoticed`, `ReportsAreProcessed`, `MouseIsRead`, `TransfersEnd`,
`ProgramsProgress`), as fairness and ENABLED are out of the provers' reach; what recursive
definitions compute (`FollowsScore`, which expands nested loops, and `AnswersAreRight`, which
compares two recursive readings of a line), as induction over data is. Of the report
descriptors: `UsagesAreFound` and `ReadsReports`, which spell out sequences of usages and sum the
bits of a field. And
`EndpointListIsSound`, as the nodes of a linked list are found by following its pointers; it is
also false for devices with an interface that has no setting 0, which section 2 excludes.

## 6. Not modelled

- The device side, OTG, the other client drivers and all other libraries of Microchip in
  `usbmouse`: not compiled into a lab. They are most of the lines of the repository, about nine
  in ten of its 97,642, so the share of it that is modelled stays small although the labs' own
  code is covered nearly whole.
- Labs 1 and 2: combinational decoding and a free-running divider; nothing that depends on history.
- In `usb_host.c`: bulk and isochronous transfers, the event queue and the OTG states, which the
  lab's configuration does not compile; USBHostSetNAKTimeout and the status flags of
  USBHostDeviceStatus, which nobody calls or which only read. A state that sends a command waits
  while a token is under way (1752); `Send` is the pass that sends. Nothing in the lab asks for
  CLEAR_FEATURE(ENDPOINT_HALT) (696): `ClearHalt` takes a caller that recovers from a stall, once
  the transfer is over; the code would clear the toggle in the middle of one as well.
- In the report parser: a last item that is cut short, which the code reads past; physical bounds
  and units, which nothing reads; the wrap of the word that holds the number of bytes to allocate
  (297), which takes tens of thousands of designators. In the calculator: numbers in decimal. In
  the display: colours and the race between the clocks of a word. In Lab 3: the display of the
  digits.
- Electrical behaviour (metastability of the keypad's columns, bus levels) and time in real units.

## 7. Plan

- Proofs: `UsagesAreTheirOwn`, for which `MatchInv` says already which bound makes an entry.
- Models: the endpoint list joined with UsbTransfer, so that a late token after a termination
  meets a new configuration; three interfaces in the HID driver, one of which is refused.
