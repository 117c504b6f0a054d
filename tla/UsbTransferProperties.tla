------------------------- MODULE UsbTransferProperties -------------------------
(* What the transfers of the USB host stack must do, and what its comments say. *)
EXTENDS UsbTransfer

Bit == {0, 1}
States == {IDLE, NO_DATA_SETUP, NO_DATA_ACK, NO_DATA_COMPLETE, READ_SETUP, READ_DATA,
           READ_ACK, READ_COMPLETE, WRITE_SETUP, WRITE_DATA, WRITE_ACK, WRITE_COMPLETE,
           INTERRUPT_READ_DATA, INTERRUPT_READ_COMPLETE,
           INTERRUPT_WRITE_DATA, INTERRUPT_WRITE_COMPLETE}
           \cup {16 * t + 15 : t \in 1 .. 5}

(* Every variable has a value its C type and the code's constants allow. *)
TypeOK ==
  /\ \A e \in Endpoints :
       LET p == ep[e]
       IN /\ p.transferState \in States
          /\ {p.bfTransferComplete, p.bfTransferSuccessful, p.bfStalled, p.bfError}
               \subseteq BOOLEAN
          /\ p.bfErrorCount \in 0 .. 31 /\ p.bfNextDATA01 \in Bit
          /\ p.countNAKs \in 0 .. ControlNaks + 1 /\ p.wIntervalCount \in 0 .. Interval
          /\ p.dataCount \in Nat /\ p.dataCountMax \in Nat
          /\ device[e].toggle \in Bit /\ {device[e].taken, device[e].halted} \subseteq BOOLEAN
  /\ bus.current \in Endpoints /\ bus.power \in {"awake", "suspended", "resuming"}
  /\ wire = NoToken \/ (wire.ep \in Endpoints /\ wire.dts \in Bit)
  /\ flags.TRN = NoResult \/ flags.TRN.ep \in Endpoints

(* The toggle the host will have for the next packet of an endpoint, once the interrupt
   handler has seen the token that has ended. *)
HostToggle(e) ==
  IF flags.TRN # NoResult /\ flags.TRN.ep = e /\ flags.TRN.pid \in {"ACK", "DATA"}
  THEN 1 - ep[e].bfNextDATA01 ELSE ep[e].bfNextDATA01

(* usb_host.c's data toggles: host and device differ in theirs exactly while one of them
   has a packet whose acknowledgement the other has not seen.  So no report is lost and none
   is taken twice, whatever is lost on the wire, over any number of transfers, errors and
   halts that are cleared. *)
TogglesAgree ==
  \A e \in Listed :
    ~device[e].halted => (device[e].toggle # HostToggle(e) <=> device[e].taken)

(* A control transfer whose result is success, and which saw no error, moved each byte of
   its data once and had its status stage: its count is what the device counts. *)
SuccessfulRequestIsDone ==
  LET p == ep[EP0]
  IN p.bfTransferComplete /\ p.bfTransferSuccessful /\ ~p.bfStalled /\ ~p.bfError
     => device[EP0].accepted /\ p.dataCount = device[EP0].bytes

(* The record of an endpoint keeps to the widths of its fields, the error count of 5 bits
   too, and its success is one the device has seen. *)
RequestInvariant == TypeOK /\ SuccessfulRequestIsDone

(* bfTokenAlreadyWritten keeps a second token from being written over one that is under way
   or whose end the interrupt handler has not seen. *)
OneTokenAtATime ==
  wire # NoToken => /\ bus.bfTokenAlreadyWritten /\ wire.ep = bus.current
                    /\ flags.TRN = NoResult /\ ~flags.UERR

(* "bfTransferComplete: Transfer done, status obtained" (usb_host_local.h): no token of a
   complete transfer is under way or has an end that is still to be counted. *)
CompleteTransfersAreOver ==
  \A e \in Endpoints : ep[e].bfTransferComplete =>
    /\ wire # NoToken => wire.ep # e
    /\ flags.TRN # NoResult => flags.TRN.ep # e

(* "That way, we won't load up bad values and then say the transfer is complete": when
   USBHostTransferIsComplete returns TRUE its error code is that of the transfer's end. *)
AnswersAreFinal ==
  call.op = "ask" /\ Answer.steps = <<>> /\ Answer.complete
    => ep[call.ep].bfTransferComplete /\ Answer.error = ErrorOf(ep[call.ep])

Pipe == INSTANCE UsbPipe WITH
  Pipes <- Endpoints, Control <- {EP0}, MayAbort <- FALSE,
  status <- [e \in Endpoints |-> IF ep[e].bfTransferComplete THEN ErrorOf(ep[e]) ELSE "busy"]

(* Every endpoint is a pipe: a transfer that has been started ends once, with a result, which
   stays until the application asks for something else. *)
ImplementsPipes == Pipe!Spec

-------------------------------------------------------------------------------
(* What the comments say of the transfers, and they do not do *)

(* USBHostTransferIsComplete: a success is a transfer "completed successfully"; the device
   gave the status stage of a request that is told to have succeeded. *)
SuccessIsAccepted ==
  ep[EP0].bfTransferComplete /\ ErrorOf(ep[EP0]) = "ok" => device[EP0].accepted

(* "If the device is suspended or resuming, do not send any tokens." *)
SilentWhileSuspended ==
  [][wire = NoToken /\ wire' # NoToken => bus.power = "awake"]_vars

(* "If we've gone through all the endpoints, we do not have any more interrupt transfers":
   all that are pending have been served, so none waits for ever. *)
InterruptsAreServed ==
  \A e \in Listed : ~ep[e].bfTransferComplete ~> ep[e].bfTransferComplete

-------------------------------------------------------------------------------
(* Liveness *)

(* Every transfer that is started ends, however the device answers or fails to. *)
TransfersEnd ==
  \A e \in Endpoints : ~ep[e].bfTransferComplete ~> ep[e].bfTransferComplete
===============================================================================
