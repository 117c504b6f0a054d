------------------------------ MODULE UsbTransfer ------------------------------
(***************************************************************************)
(* The transfers of the USB host stack of Lab 7 (usb_host.c): the calls    *)
(* that start one and ask for its result, and the interrupt handler that   *)
(* makes it of tokens, one at a time, chosen anew at each start of frame   *)
(* and at the end of each token.  A device answers a token, or does not,   *)
(* and its acknowledgement may be lost.                                    *)
(*                                                                         *)
(* The application's calls are interrupted between the steps where that    *)
(* matters; the interrupt handler is one step.  Module UsbHost decides     *)
(* which commands are sent; module UsbPipe is what both of them and the    *)
(* client driver may rely on.  Bulk and isochronous transfers are not in   *)
(* the build (usb_config.h).                                               *)
(***************************************************************************)
EXTENDS Integers, Sequences, FiniteSets

CONSTANTS
  Interrupts,     \* the interrupt endpoints, in the order of their list
  Ins,            \* those of them that are IN endpoints
  Interval,       \* frames between two tokens of an interrupt endpoint
  MaxPacket,      \* bytes in a packet
  Sizes,          \* bytes an application may ask for
  RetryAttempts,  \* USB_TRANSACTION_RETRY_ATTEMPTS
  ControlNaks,    \* USB_NUM_CONTROL_NAKS
  AppCalls,       \* the calls the application makes
  NoToken, NoResult

EP0 == "ep0"

Listed == {Interrupts[i] : i \in DOMAIN Interrupts}
Endpoints == {EP0} \cup Listed

\* The list holds the interrupt endpoints, endpoint 0 is not one; and NoResult is no result.
ASSUME EndpointsAssumption ==
  Interrupts \in Seq(Listed) /\ EP0 \notin Listed /\ Ins \subseteq Listed
ASSUME NoResultAssumption ==
  NoResult \notin [ep : Endpoints, pid : {"ACK", "DATA", "NAK", "STALL", "ERROR"}, size : Nat]
ASSUME SizesAssumption ==
  /\ MaxPacket \in Nat \ {0} /\ Interval \in Nat
  /\ Sizes \subseteq Nat
  /\ RetryAttempts \in 1 .. 30 /\ ControlNaks \in Nat

VARIABLES
  ep,      \* the fields of each USB_ENDPOINT_INFO
  bus,     \* usbBusInfo.flags; current: pCurrentEndpoint; setup: what pEP0Data asks for;
           \*  sof: SOFEN, frames are made; power: "awake", "suspended" or "resuming"
  wire,    \* the token that is under way: [ep, pid, dts, size]
  flags,   \* the interrupt flags, TRN with the descriptor of the token that ended
  call,    \* the call of the application that is under way, and its steps left
  device   \* each endpoint of the device: its toggle; taken: the other side has the
           \*  packet it is at already; halted; and on EP0, request: what it was asked,
           \*  bytes: those of its data that went by, accepted: the status stage too

vars == <<ep, bus, wire, flags, call, device>>

-------------------------------------------------------------------------------
(* transferState: a transfer in the upper four bits and its stage in the lower *)

IDLE == 0
NO_DATA_SETUP == 16
NO_DATA_ACK == 17
NO_DATA_COMPLETE == 18
READ_SETUP == 32
READ_DATA == 33
READ_ACK == 34
READ_COMPLETE == 35
WRITE_SETUP == 48
WRITE_DATA == 49
WRITE_ACK == 50
WRITE_COMPLETE == 51
INTERRUPT_READ_DATA == 64
INTERRUPT_READ_COMPLETE == 65
INTERRUPT_WRITE_DATA == 80
INTERRUPT_WRITE_COMPLETE == 81

\* Mutant: the status stage of a request with data is skipped.
MutNextTransferStateSkips(s) == IF s \in {33, 49} THEN s + 2 ELSE (s + 1) % 256

NextTransferState(s) == (s + 1) % 256
TransferErrorState(s) == (s \div 16) * 16 + 15

SetupStates == {NO_DATA_SETUP, READ_SETUP, WRITE_SETUP}
AckStates == {NO_DATA_ACK, READ_ACK, WRITE_ACK}
InStates == {NO_DATA_ACK, READ_DATA, WRITE_ACK, INTERRUPT_READ_DATA}
OutStates == {READ_ACK, WRITE_DATA, INTERRUPT_WRITE_DATA}

TokenOf(s) == IF s \in SetupStates THEN "SETUP" ELSE IF s \in InStates THEN "IN" ELSE "OUT"

-------------------------------------------------------------------------------
(* The interrupt handler, as functions of the host's variables *)

Host == [ep |-> ep, bus |-> bus, wire |-> wire, flags |-> flags]
SetHost(h) == ep' = h.ep /\ bus' = h.bus /\ wire' = h.wire /\ flags' = h.flags

PacketSize(p) ==
  LET left == p.dataCountMax - p.dataCount
  IN IF left > MaxPacket THEN MaxPacket ELSE left

\* _USB_SetBDT and _USB_SendToken for the current endpoint.  The whole SETUP packet is
\* one token, and counts no bytes.
SendToken(h) ==
  LET p == h.ep[h.bus.current]
      pid == TokenOf(p.transferState)
  IN [h EXCEPT
        !.wire = [ep |-> h.bus.current, pid |-> pid, dts |-> p.bfNextDATA01,
                  size |-> IF pid = "SETUP" THEN 0 ELSE PacketSize(p)],
        !.bus.bfTokenAlreadyWritten = TRUE]

Ended(p) == [p EXCEPT !.transferState = IDLE, !.bfTransferComplete = TRUE]

\* SETUP goes out with DATA0, the status stage with DATA1 and no data.
StageReady(p) ==
  IF p.transferState \in SetupStates THEN [p EXCEPT !.bfNextDATA01 = 0]
  ELSE IF p.transferState \in AckStates
  THEN [p EXCEPT !.bfNextDATA01 = 1, !.dataCountMax = p.dataCount]
  ELSE p

\* One control token a frame; then, or without one, there is none left to do.
ServeControl(h) ==
  LET p == h.ep[EP0]
      done == [h EXCEPT !.bus.bfControlTransfersDone = TRUE]
  IN IF p.bfTransferComplete THEN done
     ELSE IF p.transferState \in SetupStates \cup AckStates \cup {READ_DATA, WRITE_DATA}
     THEN SendToken([done EXCEPT !.bus.current = EP0, !.ep[EP0] = StageReady(p)])
     ELSE [done EXCEPT !.bus.current = EP0, !.ep[EP0] = Ended(p)]

\* The first interrupt endpoint with a transfer, and the endpoints after the search: those
\* before it begin a new interval when theirs is over, the ones after it are not looked at.
FindServiceEndpoint(h) ==
  LET pending == {i \in DOMAIN Interrupts : ~h.ep[Interrupts[i]].bfTransferComplete}
      first == IF pending = {} THEN Len(Interrupts) + 1
               ELSE CHOOSE i \in pending : \A j \in pending : i <= j
      passed == {Interrupts[i] : i \in 1 .. (first - 1)}
  IN [at |-> first,
      ep |-> [e \in Endpoints |->
                IF e \in passed /\ h.ep[e].wIntervalCount = 0
                THEN [h.ep[e] EXCEPT !.wIntervalCount = Interval] ELSE h.ep[e]]]

\* It is served when its interval is over.
ServeInterrupt(h) ==
  LET found == FindServiceEndpoint(h)
      e == Interrupts[found.at]
      p == h.ep[e]
      done == [h EXCEPT !.ep = found.ep, !.bus.bfInterruptTransfersDone = TRUE]
  IN IF found.at > Len(Interrupts) THEN done
     ELSE IF p.transferState \notin {INTERRUPT_READ_DATA, INTERRUPT_WRITE_DATA}
     THEN [done EXCEPT !.bus.current = e, !.ep[e] = Ended(p)]
     ELSE IF p.wIntervalCount # 0 THEN [done EXCEPT !.bus.current = e]
     ELSE SendToken([h EXCEPT !.bus.current = e,
                              !.ep = [found.ep EXCEPT ![e].wIntervalCount = Interval]])

\* Mutant: the token that is under way is not waited for.
MutFindNextTokenNow(h) ==
  LET c == IF h.bus.bfControlTransfersDone THEN h ELSE ServeControl(h)
  IN IF c.bus.bfInterruptTransfersDone THEN c ELSE ServeInterrupt(c)

\* _USB_FindNextToken.  Its test for a suspended device never holds.
FindNextToken(h) ==
  LET c == IF h.bus.bfControlTransfersDone THEN h ELSE ServeControl(h)
  IN IF h.bus.bfTokenAlreadyWritten THEN h
     ELSE IF c.bus.bfTokenAlreadyWritten \/ c.bus.bfInterruptTransfersDone THEN c
     ELSE ServeInterrupt(c)

\* Mutant: the transfer is complete at once, before its token's end is counted.
MutTransferErrorCompletes(p) ==
  [p EXCEPT !.bfError = TRUE, !.transferState = TransferErrorState(@),
            !.bfTransferComplete = TRUE]

TransferError(p) == [p EXCEPT !.bfError = TRUE, !.transferState = TransferErrorState(@)]

\* Data went through: the transfer goes on to its next stage with a short packet or
\* with the last byte.
AfterData(p, size) ==
  LET counted == [p EXCEPT !.dataCount = @ + size, !.countNAKs = 0, !.bfNextDATA01 = 1 - @]
  IN IF p.transferState \in SetupStates
     THEN [counted EXCEPT !.dataCount = 0, !.transferState = NextTransferState(@)]
     ELSE IF size < MaxPacket \/ counted.dataCount >= p.dataCountMax
     THEN [counted EXCEPT !.bfTransferSuccessful = TRUE,
                          !.transferState = NextTransferState(@)]
     ELSE counted

\* Mutant: the control endpoint, too, has no limit.
MutAfterNakForever(e, p) ==
  IF e \in Ins
  THEN [p EXCEPT !.bfTransferSuccessful = TRUE, !.transferState = NextTransferState(@)]
  ELSE p

\* NAKs have a limit, and are counted here, on endpoint 0 only: no other enables it.
AfterNak(e, p) ==
  LET counted == [p EXCEPT !.countNAKs = @ + 1]
  IN IF e \in Ins
     THEN [p EXCEPT !.bfTransferSuccessful = TRUE, !.transferState = NextTransferState(@)]
     ELSE IF e # EP0 THEN p
     ELSE IF counted.countNAKs > ControlNaks THEN TransferError(counted) ELSE counted

AfterStall(p) ==
  [p EXCEPT !.bfStalled = TRUE, !.transferState = TransferErrorState(@)]

\* bfErrorCount has five bits.
AfterError(p) ==
  LET counted == [p EXCEPT !.bfErrorCount = (@ + 1) % 32]
  IN IF counted.bfErrorCount >= RetryAttempts THEN TransferError(counted) ELSE counted

\* The end of a token, unless there is an error interrupt to deal with first.  The
\* transaction of another endpoint than the current one is discarded.
TransferDone(h) ==
  IF h.flags.TRN = NoResult \/ h.flags.UERR THEN h
  ELSE
  LET e == h.bus.current
      p == h.ep[e]
      r == h.flags.TRN
      q == CASE r.ep # e -> p
             [] r.ep = e /\ r.pid \in {"ACK", "DATA"} -> AfterData(p, r.size)
             [] r.ep = e /\ r.pid = "NAK" -> AfterNak(e, p)
             [] r.ep = e /\ r.pid = "STALL" -> AfterStall(p)
             [] OTHER -> AfterError(p)
  IN FindNextToken([h EXCEPT !.bus.bfTokenAlreadyWritten = FALSE,
                             !.flags.TRN = NoResult, !.ep[e] = q])

StartOfFrame(h) ==
  IF ~h.flags.SOF THEN h
  ELSE FindNextToken(
         [h EXCEPT !.flags.SOF = FALSE,
                   !.bus.bfControlTransfersDone = FALSE,
                   !.bus.bfInterruptTransfersDone = FALSE,
                   !.ep = [e \in Endpoints |->
                             IF e \in Listed /\ h.ep[e].wIntervalCount # 0
                             THEN [h.ep[e] EXCEPT !.wIntervalCount = @ - 1]
                             ELSE h.ep[e]]])

UsbError(h) ==
  IF ~h.flags.UERR THEN h
  ELSE [h EXCEPT !.flags.UERR = FALSE, !.bus.bfTokenAlreadyWritten = FALSE,
                 !.ep[h.bus.current] = AfterError(@)]

Interrupted == flags.TRN # NoResult \/ flags.SOF \/ flags.UERR

\* The parts of the handler come in this order, and each sees what the last one left.
USB1Interrupt ==
  /\ Interrupted
  /\ SetHost(UsbError(StartOfFrame(TransferDone(Host))))
  /\ UNCHANGED <<call, device>>

-------------------------------------------------------------------------------
(* The calls of the application.  One is made at a time, from the main loop. *)

NoCall == [op |-> "none", steps |-> <<>>]
MayCall(c) == c \in AppCalls /\ call.op = "none"

\* Mutants: the other way round.
MutInitOrder == <<"flag", "parameters">>
MutAskOrder == <<"error", "complete">>

\* "Set the flag last so all the parameters are set for an interrupt."
InitOrder == <<"parameters", "flag">>
\* "bfTransferComplete ... we'll grab it first, save it locally".
AskOrder == <<"complete", "error">>

Begin(e, state, size) ==
  call' = [op |-> "start", steps |-> InitOrder, ep |-> e, state |-> state, size |-> size]

\* _USB_InitControlRead, _USB_InitControlWrite, _USB_InitRead and _USB_InitWrite: a control
\* transfer forgets the errors of the last one.
Parameters(p) ==
  [p EXCEPT !.transferState = call.state, !.dataCount = 0, !.dataCountMax = call.size,
            !.bfTransferSuccessful = FALSE, !.bfErrorCount = 0, !.countNAKs = 0,
            !.bfStalled = @ /\ call.ep # EP0, !.bfError = @ /\ call.ep # EP0]

InitTransfer ==
  /\ call.op = "start"
  /\ ep' = [ep EXCEPT ![call.ep] =
              IF Head(call.steps) = "flag" THEN [@ EXCEPT !.bfTransferComplete = FALSE]
              ELSE Parameters(@)]
  /\ call' = IF Len(call.steps) = 1 THEN NoCall ELSE [call EXCEPT !.steps = Tail(@)]
  /\ UNCHANGED <<bus, wire, flags, device>>

\* What the eight bytes of pEP0Data ask for: data to the host or not, and an endpoint's
\* halt to be cleared, or none with EP0.
Request(reads, clears) == [reads |-> reads, clears |-> clears]

\* USBHostIssueDeviceRequest, for a request to the device.
IssueDeviceRequest(reads, n) ==
  /\ MayCall("request")
  /\ ep[EP0].bfTransferComplete
  /\ bus' = [bus EXCEPT !.setup = Request(reads, EP0)]
  /\ Begin(EP0, IF reads THEN READ_SETUP ELSE IF n = 0 THEN NO_DATA_SETUP ELSE WRITE_SETUP, n)
  /\ UNCHANGED <<ep, wire, flags, device>>

\* Mutant: the host's toggle is not reset with the device's.
MutClearHalt(e) ==
  /\ MayCall("clearHalt")
  /\ ep[EP0].bfTransferComplete /\ ep[e].bfTransferComplete /\ ep[e].bfStalled
  /\ bus' = [bus EXCEPT !.setup = Request(FALSE, e)]
  /\ Begin(EP0, NO_DATA_SETUP, 0)
  /\ UNCHANGED <<ep, wire, flags, device>>

\* The same, for CLEAR_FEATURE(ENDPOINT_HALT), of an endpoint known to have stalled.
ClearHalt(e) ==
  /\ MayCall("clearHalt")
  /\ ep[EP0].bfTransferComplete /\ ep[e].bfTransferComplete /\ ep[e].bfStalled
  /\ ep' = [ep EXCEPT ![e].bfNextDATA01 = 0]
  /\ bus' = [bus EXCEPT !.setup = Request(FALSE, e)]
  /\ Begin(EP0, NO_DATA_SETUP, 0)
  /\ UNCHANGED <<wire, flags, device>>

\* USBHostRead and USBHostWrite
Transfer(e, n) ==
  /\ MayCall(IF e \in Ins THEN "read" ELSE "write")
  /\ ~ep[e].bfStalled /\ ~ep[e].bfError /\ ep[e].bfTransferComplete
  /\ Begin(e, IF e \in Ins THEN INTERRUPT_READ_DATA ELSE INTERRUPT_WRITE_DATA, n)
  /\ UNCHANGED <<ep, bus, wire, flags, device>>

Status(p) == [f \in {"bfErrorCount", "bfStalled", "bfError", "bfTransferSuccessful",
                      "bfTransferComplete", "bfNextDATA01"} |-> p[f]]

ErrorOf(p) ==
  IF p.bfTransferSuccessful THEN "ok"
  ELSE IF p.bfStalled THEN "stalled"
  ELSE IF p.bfError THEN "error" ELSE "unresolved"

Ask(e) ==
  /\ MayCall("ask")
  /\ call' = [op |-> "ask", steps |-> AskOrder, ep |-> e,
              complete |-> FALSE, error |-> "unresolved"]
  /\ UNCHANGED <<ep, bus, wire, flags, device>>

\* What USBHostTransferIsComplete knows after its next read.
Answer ==
  IF Head(call.steps) = "complete"
  THEN [call EXCEPT !.complete = ep[call.ep].bfTransferComplete, !.steps = Tail(@)]
  ELSE [call EXCEPT !.error = ErrorOf(ep[call.ep]), !.steps = Tail(@)]

TransferIsComplete ==
  /\ call.op = "ask"
  /\ call' = IF Answer.steps = <<>> THEN NoCall ELSE Answer
  /\ UNCHANGED <<ep, bus, wire, flags, device>>

BeginTerminate(e) ==
  /\ MayCall("terminate")
  /\ call' = [op |-> "terminate", steps |-> <<"write">>, ep |-> e, saved |-> Status(ep[e])]
  /\ UNCHANGED <<ep, bus, wire, flags, device>>

\* USBHostTerminateTransfer sets a bit of the status by reading the whole of it and writing
\* it back: what an interrupt has changed in between is undone.
TerminateTransfer ==
  /\ call.op = "terminate"
  /\ ep' = [ep EXCEPT ![call.ep] =
              [f \in DOMAIN @ |-> IF f = "bfTransferComplete" THEN TRUE
                                  ELSE IF f \in DOMAIN call.saved THEN call.saved[f] ELSE @[f]]]
  /\ call' = NoCall
  /\ UNCHANGED <<bus, wire, flags, device>>

\* The application waits for its request before it goes on with the endpoint.
ClearEndpointErrors(e) ==
  /\ MayCall("clearErrors")
  /\ ep[e].bfTransferComplete /\ ep[EP0].bfTransferComplete
  /\ ep[e].bfStalled \/ ep[e].bfError
  /\ ep' = [ep EXCEPT ![e].bfStalled = FALSE, ![e].bfError = FALSE]
  /\ UNCHANGED <<bus, wire, flags, call, device>>

SuspendDevice ==
  /\ MayCall("suspend") /\ bus.power = "awake"
  /\ bus' = [bus EXCEPT !.power = "suspended", !.sof = FALSE]
  /\ UNCHANGED <<ep, wire, flags, call, device>>

\* USBHostResumeDevice, and the end of the resume signalling: frames are made again.
ResumeDevice ==
  /\ MayCall("suspend") /\ bus.power = "suspended"
  /\ bus' = [bus EXCEPT !.power = "resuming", !.sof = TRUE]
  /\ UNCHANGED <<ep, wire, flags, call, device>>

\* The recovery time is over.
ResumeComplete ==
  /\ bus.power = "resuming"
  /\ bus' = [bus EXCEPT !.power = "awake"]
  /\ UNCHANGED <<ep, wire, flags, call, device>>

Application ==
  \/ \E n \in Sizes : IssueDeviceRequest(FALSE, n) \/ (n > 0 /\ IssueDeviceRequest(TRUE, n))
  \/ \E e \in Listed : ClearHalt(e) \/ ClearEndpointErrors(e)
  \/ \E e \in Listed, n \in Sizes \ {0} : Transfer(e, n)
  \/ \E e \in Endpoints : Ask(e)
  \/ \E e \in Listed : BeginTerminate(e)
  \/ SuspendDevice \/ ResumeDevice

CallGoesOn == InitTransfer \/ TransferIsComplete \/ TerminateTransfer

-------------------------------------------------------------------------------
(* The bus and the device.  The host's hardware retries nothing. *)

Frame ==
  /\ bus.sof /\ ~flags.SOF
  /\ flags' = [flags EXCEPT !.SOF = TRUE]
  /\ UNCHANGED <<ep, bus, wire, call, device>>

\* The token ends, with a result for the interrupt handler.
EndsWith(result, size) ==
  /\ wire' = NoToken
  /\ flags' = [flags EXCEPT !.TRN = [ep |-> wire.ep, pid |-> result, size |-> size]]
  /\ UNCHANGED <<ep, bus, call>>

\* Nothing came back: the transaction ends with an error, an error interrupt, or both.
EndsInError ==
  /\ wire' = NoToken
  /\ \E how \in {"TRN", "UERR", "both"} :
       flags' = [flags EXCEPT
                  !.TRN = IF how = "UERR" THEN NoResult
                          ELSE [ep |-> wire.ep, pid |-> "ERROR", size |-> 0],
                  !.UERR = how # "TRN"]
  /\ UNCHANGED <<ep, bus, call>>

NotHeard == wire # NoToken /\ EndsInError /\ UNCHANGED device

Setup ==
  /\ wire # NoToken /\ wire.pid = "SETUP"
  /\ device' = [device EXCEPT ![EP0] = [toggle |-> 1, taken |-> FALSE, halted |-> FALSE,
                                        bytes |-> 0, accepted |-> FALSE,
                                        request |-> bus.setup]]
  /\ EndsWith("ACK", 0) \/ EndsInError

\* A token it may answer as it likes.
Asked == wire # NoToken /\ wire.pid # "SETUP" /\ ~device[wire.ep].halted

\* The status stage runs against the data, or to the host when there are none.
IsStatus == wire.ep = EP0 /\ (wire.pid = "IN") # device[EP0].request.reads

Restarted(d) == [d EXCEPT !.toggle = 0, !.taken = FALSE, !.halted = FALSE]

StatusStage ==
  /\ Asked /\ IsStatus
  /\ LET e == device[EP0].request.clears
         accepted == [device EXCEPT ![EP0].accepted = TRUE]
     IN device' = IF e = EP0 THEN accepted ELSE [accepted EXCEPT ![e] = Restarted(@)]
  /\ EndsWith(IF wire.pid = "IN" THEN "DATA" ELSE "ACK", 0) \/ EndsInError

CountBytes(d, n) == IF wire.ep = EP0 THEN [d EXCEPT !.bytes = @ + n] ELSE d

\* The device goes on to the next packet when it sees the acknowledgement, whether the
\* host took the packet or, its toggle being wrong, only said so.
DataIn ==
  /\ Asked /\ ~IsStatus /\ wire.pid = "IN"
  /\ \E n \in 0 .. wire.size, seen \in BOOLEAN :
       LET d == device[wire.ep]
           taken == d.taken \/ d.toggle = wire.dts
           counted == IF ~d.taken /\ (taken \/ seen) THEN CountBytes(d, n) ELSE d
       IN /\ device' = [device EXCEPT ![wire.ep] =
                         IF seen THEN [counted EXCEPT !.toggle = 1 - @, !.taken = FALSE]
                         ELSE [counted EXCEPT !.taken = taken]]
          /\ IF d.toggle = wire.dts THEN EndsWith("DATA", n) ELSE EndsWith("ERROR", 0)

\* The device acknowledges a packet again when it has it already.
DataOut ==
  /\ Asked /\ ~IsStatus /\ wire.pid = "OUT"
  /\ \E seen \in BOOLEAN :
       LET d == device[wire.ep]
           new == d.toggle = wire.dts
           got == IF new THEN CountBytes([d EXCEPT !.toggle = 1 - @], wire.size) ELSE d
       IN /\ device' = [device EXCEPT ![wire.ep] =
                         [got EXCEPT !.taken = ~seen /\ (new \/ d.taken)]]
          /\ IF seen THEN EndsWith("ACK", wire.size) ELSE EndsInError

Nak == Asked /\ EndsWith("NAK", 0) /\ UNCHANGED device

\* An endpoint that has stalled stays so until its halt is cleared, the control endpoint
\* until the next request.
Stall ==
  /\ wire # NoToken /\ wire.pid # "SETUP"
  /\ device' = [device EXCEPT ![wire.ep].halted = TRUE]
  /\ EndsWith("STALL", 0)

Answers == NotHeard \/ Setup \/ StatusStage \/ DataIn \/ DataOut \/ Nak \/ Stall

-------------------------------------------------------------------------------

Init ==
  /\ ep = [e \in Endpoints |->
             [transferState |-> IDLE, bfTransferComplete |-> TRUE,
              bfTransferSuccessful |-> FALSE, bfStalled |-> FALSE, bfError |-> FALSE,
              bfErrorCount |-> 0, bfNextDATA01 |-> 0, countNAKs |-> 0,
              dataCount |-> 0, dataCountMax |-> 0, wIntervalCount |-> Interval]]
  /\ bus = [bfTokenAlreadyWritten |-> FALSE, bfControlTransfersDone |-> FALSE,
            bfInterruptTransfersDone |-> FALSE, current |-> EP0, sof |-> TRUE,
            setup |-> Request(FALSE, EP0), power |-> "awake"]
  /\ wire = NoToken
  /\ flags = [TRN |-> NoResult, SOF |-> FALSE, UERR |-> FALSE]
  /\ call = NoCall
  /\ device = [e \in Endpoints |->
                 [toggle |-> 0, taken |-> FALSE, halted |-> FALSE, bytes |-> 0,
                  accepted |-> FALSE, request |-> Request(FALSE, EP0)]]

Next == USB1Interrupt \/ Application \/ CallGoesOn \/ ResumeComplete \/ Frame \/ Answers

Spec == Init /\ [][Next]_vars

\* Every token ends, frames are made, and the main loop and the interrupt handler run; the
\* last is WF_vars(USB1Interrupt), which is enabled when Interrupted holds.
Fairness ==
  /\ WF_vars(CallGoesOn) /\ WF_vars(Frame) /\ WF_vars(Answers)
  /\ []<>~Interrupted \/ []<><<USB1Interrupt>>_vars

FairSpec == Spec /\ Fairness
===============================================================================
