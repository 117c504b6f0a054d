---------------------------- MODULE UsbTransferProofs ----------------------------
(***************************************************************************)
(* Proofs about the transfers of the USB host stack, for any number of     *)
(* endpoints, sizes, retries and NAKs.                                     *)
(*                                                                         *)
(* The lock comes first: one token at a time, whatever is called.  On it   *)
(* rests the rest, for applications that terminate no transfer: what is    *)
(* known, in each stage of a transfer, of an endpoint, of the token that   *)
(* is under way or has ended, and of the device's side (Side); that the    *)
(* handler keeps it, part by part (...Knows); and so do the ends of tokens *)
(* and the calls.                                                          *)
(***************************************************************************)
EXTENDS UsbTransferProperties, WellFoundedInduction, TLAPS

\* The form of the host's variables, as far as these proofs need to know it.
BusRecord(b) ==
  b \in [bfTokenAlreadyWritten : BOOLEAN, bfControlTransfersDone : BOOLEAN,
         bfInterruptTransfersDone : BOOLEAN, current : {b.current}, sof : {b.sof},
         setup : {b.setup}, power : {b.power}]

Shape(h) ==
  /\ h \in [ep : {h.ep}, bus : {h.bus}, wire : {h.wire}, flags : {h.flags}]
  /\ BusRecord(h.bus)
  /\ h.flags \in [TRN : {h.flags.TRN}, SOF : BOOLEAN, UERR : BOOLEAN]

(***************************************************************************)
(* The lock is closed while a token is under way and until its error       *)
(* interrupt has been handled.  It may be open while a transfer interrupt  *)
(* waits, after the error interrupt of the same token: the handler then    *)
(* deals with that one before it looks for another token.                  *)
(***************************************************************************)
Locked(h) ==
  /\ Shape(h)
  /\ h.wire # NoToken => /\ h.bus.bfTokenAlreadyWritten /\ h.wire.ep = h.bus.current
                         /\ h.flags.TRN = NoResult /\ ~h.flags.UERR
  /\ h.flags.UERR => h.bus.bfTokenAlreadyWritten

\* A token may be written, or must not be.
MayServe(h) == h.bus.bfTokenAlreadyWritten \/ h.flags.TRN = NoResult

Open(h) == Locked(h) /\ ~h.bus.bfTokenAlreadyWritten /\ h.flags.TRN = NoResult

(* _USB_SendToken closes the lock. *)
LEMMA SendTokenLocks ==
  ASSUME NEW h, Open(h)
  PROVE  Locked(SendToken(h)) /\ SendToken(h).bus.bfTokenAlreadyWritten
<1> DEFINE p == h.ep[h.bus.current]
           w == [ep |-> h.bus.current, pid |-> TokenOf(p.transferState),
                 dts |-> p.bfNextDATA01,
                 size |-> IF TokenOf(p.transferState) = "SETUP" THEN 0 ELSE PacketSize(p)]
           g == [h EXCEPT !.wire = w, !.bus.bfTokenAlreadyWritten = TRUE]
<1>1. SendToken(h) = g
  BY DEF SendToken
<1>2. w.ep = h.bus.current
  OBVIOUS
<1> HIDE DEF w
<1>3. /\ g.wire = w /\ g.bus.bfTokenAlreadyWritten /\ g.bus.current = h.bus.current
      /\ g.flags = h.flags
  BY DEF Open, Locked, Shape, BusRecord
<1>4. Shape(g)
  BY DEF Open, Locked, Shape, BusRecord
<1>5. h.flags.TRN = NoResult /\ ~h.flags.UERR
  BY DEF Open, Locked
<1> HIDE DEF g
<1> QED BY <1>1, <1>2, <1>3, <1>4, <1>5 DEF Locked

\* Changes that concern neither the token nor the interrupts.
LEMMA KeepsOpen ==
  ASSUME NEW h, Open(h), NEW g, Shape(g),
         g.wire = h.wire, g.flags = h.flags,
         g.bus.bfTokenAlreadyWritten = h.bus.bfTokenAlreadyWritten
  PROVE  Open(g)
BY DEF Open, Locked

LEMMA ServeControlLocks ==
  ASSUME NEW h, Open(h)
  PROVE  LET c == ServeControl(h)
         IN Open(c) \/ (Locked(c) /\ c.bus.bfTokenAlreadyWritten)
<1> DEFINE p == h.ep[EP0]
           done == [h EXCEPT !.bus.bfControlTransfersDone = TRUE]
           Turn(q) == [done EXCEPT !.bus.current = EP0, !.ep[EP0] = q]
<1>1. Open(done)
  <2>1. /\ Shape(done) /\ done.wire = h.wire /\ done.flags = h.flags
        /\ done.bus.bfTokenAlreadyWritten = h.bus.bfTokenAlreadyWritten
    BY DEF Open, Locked, Shape, BusRecord
  <2> QED BY <2>1, KeepsOpen
<1>2. ASSUME NEW q PROVE Open(Turn(q))
  <2> HIDE DEF done
  <2>1. /\ Shape(Turn(q)) /\ Turn(q).wire = done.wire /\ Turn(q).flags = done.flags
        /\ Turn(q).bus.bfTokenAlreadyWritten = done.bus.bfTokenAlreadyWritten
    BY <1>1 DEF Open, Locked, Shape, BusRecord
  <2> HIDE DEF Turn
  <2> QED BY <1>1, <2>1, KeepsOpen
<1>3. \/ ServeControl(h) = done
      \/ ServeControl(h) = SendToken(Turn(StageReady(p)))
      \/ ServeControl(h) = Turn(Ended(p))
  BY DEF ServeControl
<1> HIDE DEF done, Turn
<1> QED BY <1>1, <1>2, <1>3, SendTokenLocks

LEMMA ServeInterruptLocks ==
  ASSUME NEW h, Open(h)
  PROVE  Locked(ServeInterrupt(h)) /\ MayServe(ServeInterrupt(h))
<1> DEFINE Done(f) == [h EXCEPT !.ep = f, !.bus.bfInterruptTransfersDone = TRUE]
           Turn(f, e) == [Done(f) EXCEPT !.bus.current = e]
           Idle(f, e, q) == [Done(f) EXCEPT !.bus.current = e, !.ep[e] = q]
           Serve(f, e) == [h EXCEPT !.bus.current = e, !.ep = f]
<1>1. ASSUME NEW f, NEW e, NEW q
      PROVE  Open(Done(f)) /\ Open(Turn(f, e)) /\ Open(Idle(f, e, q)) /\ Open(Serve(f, e))
  <2>1. Open(Done(f))
    <3>1. /\ Shape(Done(f)) /\ Done(f).wire = h.wire /\ Done(f).flags = h.flags
          /\ Done(f).bus.bfTokenAlreadyWritten = h.bus.bfTokenAlreadyWritten
      BY DEF Open, Locked, Shape, BusRecord
    <3> QED BY <3>1, KeepsOpen
  <2>2. Open(Serve(f, e))
    <3>1. /\ Shape(Serve(f, e)) /\ Serve(f, e).wire = h.wire /\ Serve(f, e).flags = h.flags
          /\ Serve(f, e).bus.bfTokenAlreadyWritten = h.bus.bfTokenAlreadyWritten
      BY DEF Open, Locked, Shape, BusRecord
    <3> QED BY <3>1, KeepsOpen
  <2> DEFINE d == Done(f)
  <2> HIDE DEF d
  <2>3. Open([d EXCEPT !.bus.current = e])
    <3>1. d = Done(f) BY DEF d
    <3>2. Open(d) BY <2>1, <3>1
    <3> DEFINE g == [d EXCEPT !.bus.current = e]
    <3>3. /\ Shape(g) /\ g.wire = d.wire /\ g.flags = d.flags
          /\ g.bus.bfTokenAlreadyWritten = d.bus.bfTokenAlreadyWritten
      BY <3>2 DEF Open, Locked, Shape, BusRecord
    <3> HIDE DEF g
    <3>4. Open(g) BY <3>2, <3>3, KeepsOpen
    <3> QED BY <3>4 DEF g
  <2>4. Open([d EXCEPT !.bus.current = e, !.ep[e] = q])
    <3>1. d = Done(f) BY DEF d
    <3>2. Open(d) BY <2>1, <3>1
    <3> DEFINE g == [d EXCEPT !.bus.current = e, !.ep[e] = q]
    <3>3. /\ Shape(g) /\ g.wire = d.wire /\ g.flags = d.flags
          /\ g.bus.bfTokenAlreadyWritten = d.bus.bfTokenAlreadyWritten
      BY <3>2 DEF Open, Locked, Shape, BusRecord
    <3> HIDE DEF g
    <3>4. Open(g) BY <3>2, <3>3, KeepsOpen
    <3> QED BY <3>4 DEF g
  <2> QED BY <2>1, <2>2, <2>3, <2>4 DEF d
<1>2. \E f, e, q : \/ ServeInterrupt(h) = Done(f)
                  \/ ServeInterrupt(h) = Turn(f, e)
                  \/ ServeInterrupt(h) = Idle(f, e, q)
                  \/ ServeInterrupt(h) = SendToken(Serve(f, e))
  BY DEF ServeInterrupt
<1> HIDE DEF Done, Turn, Idle, Serve
<1> QED BY <1>1, <1>2, SendTokenLocks DEF Open, MayServe
(* The search writes a token only when the lock is open. *)
LEMMA FindNextTokenLocks ==
  ASSUME NEW h, Locked(h), MayServe(h)
  PROVE  Locked(FindNextToken(h)) /\ MayServe(FindNextToken(h))
<1> DEFINE c == IF h.bus.bfControlTransfersDone THEN h ELSE ServeControl(h)
<1>1. CASE h.bus.bfTokenAlreadyWritten
  BY <1>1 DEF FindNextToken
<1>2. CASE ~h.bus.bfTokenAlreadyWritten
  <2>1. Open(h)
    BY <1>2 DEF Open, MayServe
  <2>2. Open(c) \/ (Locked(c) /\ c.bus.bfTokenAlreadyWritten)
    BY <2>1, ServeControlLocks
  <2>3. FindNextToken(h) = IF c.bus.bfTokenAlreadyWritten \/ c.bus.bfInterruptTransfersDone
                           THEN c ELSE ServeInterrupt(c)
    BY <1>2 DEF FindNextToken
  <2> HIDE DEF c
  <2>4. Locked(c) /\ MayServe(c)
    BY <2>2 DEF Open, MayServe
  <2>5. CASE c.bus.bfTokenAlreadyWritten \/ c.bus.bfInterruptTransfersDone
    BY <2>3, <2>4, <2>5
  <2>6. CASE ~(c.bus.bfTokenAlreadyWritten \/ c.bus.bfInterruptTransfersDone)
    BY <2>2, <2>3, <2>6, ServeInterruptLocks
  <2> QED BY <2>5, <2>6
<1> QED BY <1>1, <1>2

(* The end of a token opens the lock, and then there is no token under way. *)
LEMMA TransferDoneLocks ==
  ASSUME NEW h, Locked(h)
  PROVE  Locked(TransferDone(h)) /\ MayServe(TransferDone(h))
<1> DEFINE Over(q) == [h EXCEPT !.bus.bfTokenAlreadyWritten = FALSE,
                                !.flags.TRN = NoResult, !.ep[h.bus.current] = q]
<1>1. CASE h.flags.TRN = NoResult \/ h.flags.UERR
  BY <1>1 DEF TransferDone, MayServe, Locked
<1>2. CASE ~(h.flags.TRN = NoResult \/ h.flags.UERR)
  <2>1. ASSUME NEW q PROVE Open(Over(q))
    <3>1. Shape(Over(q))
      BY DEF Locked, Shape, BusRecord
    <3>2. /\ Over(q).wire = NoToken /\ ~Over(q).flags.UERR
          /\ Over(q).flags.TRN = NoResult /\ ~Over(q).bus.bfTokenAlreadyWritten
      BY <1>2 DEF Locked, Shape, BusRecord
    <3> HIDE DEF Over
    <3> QED BY <3>1, <3>2 DEF Open, Locked
  <2>2. \E q : TransferDone(h) = FindNextToken(Over(q))
    BY <1>2 DEF TransferDone
  <2> HIDE DEF Over
  <2> QED BY <2>1, <2>2, FindNextTokenLocks DEF Open, MayServe
<1> QED BY <1>1, <1>2

LEMMA StartOfFrameLocks ==
  ASSUME NEW h, Locked(h), MayServe(h)
  PROVE  Locked(StartOfFrame(h))
<1> DEFINE Begun(f) == [h EXCEPT !.flags.SOF = FALSE,
                                 !.bus.bfControlTransfersDone = FALSE,
                                 !.bus.bfInterruptTransfersDone = FALSE, !.ep = f]
<1>1. CASE ~h.flags.SOF
  BY <1>1 DEF StartOfFrame
<1>2. CASE h.flags.SOF
  <2>1. ASSUME NEW f PROVE Locked(Begun(f)) /\ MayServe(Begun(f))
    <3>1. Shape(Begun(f))
      BY DEF Locked, Shape, BusRecord
    <3>2. /\ Begun(f).wire = h.wire /\ Begun(f).bus.current = h.bus.current
          /\ Begun(f).bus.bfTokenAlreadyWritten = h.bus.bfTokenAlreadyWritten
          /\ Begun(f).flags.TRN = h.flags.TRN /\ Begun(f).flags.UERR = h.flags.UERR
      BY DEF Locked, Shape, BusRecord
    <3> HIDE DEF Begun
    <3> QED BY <3>1, <3>2 DEF Locked, MayServe
  <2>2. \E f : StartOfFrame(h) = FindNextToken(Begun(f))
    BY <1>2 DEF StartOfFrame
  <2> HIDE DEF Begun
  <2> QED BY <2>1, <2>2, FindNextTokenLocks
<1> QED BY <1>1, <1>2

LEMMA UsbErrorLocks ==
  ASSUME NEW h, Locked(h)
  PROVE  Locked(UsbError(h))
<1> DEFINE Opened(q) == [h EXCEPT !.flags.UERR = FALSE,
                                  !.bus.bfTokenAlreadyWritten = FALSE,
                                  !.ep[h.bus.current] = q]
<1>1. CASE ~h.flags.UERR
  BY <1>1 DEF UsbError
<1>2. CASE h.flags.UERR
  <2>1. ASSUME NEW q PROVE Locked(Opened(q))
    <3>1. Shape(Opened(q))
      BY DEF Locked, Shape, BusRecord
    <3>2. Opened(q).wire = NoToken /\ ~Opened(q).flags.UERR
      BY <1>2 DEF Locked, Shape, BusRecord
    <3> HIDE DEF Opened
    <3> QED BY <3>1, <3>2 DEF Locked
  <2>2. UsbError(h) = Opened(AfterError(h.ep[h.bus.current]))
    BY <1>2 DEF UsbError
  <2> HIDE DEF Opened
  <2> QED BY <2>1, <2>2
<1> QED BY <1>1, <1>2

-------------------------------------------------------------------------------
(* The inductive invariant: OneTokenAtATime, the records it reads, and the lock of a
   token whose error interrupt has not been handled. *)
LockHolds ==
  /\ BusRecord(bus)
  /\ flags \in [TRN : {flags.TRN}, SOF : BOOLEAN, UERR : BOOLEAN]
  /\ OneTokenAtATime
  /\ flags.UERR => bus.bfTokenAlreadyWritten

LEMMA InitLocks == Init => LockHolds
BY DEF Init, LockHolds, BusRecord, OneTokenAtATime

(* The whole of the interrupt handler. *)
LEMMA InterruptLocks ==
  ASSUME LockHolds, USB1Interrupt
  PROVE  LockHolds'
<1>1. Locked(Host)
  BY DEF LockHolds, Locked, Shape, Host, OneTokenAtATime
<1> DEFINE g == UsbError(StartOfFrame(TransferDone(Host)))
<1>2. Locked(g)
  BY <1>1, TransferDoneLocks, StartOfFrameLocks, UsbErrorLocks
<1>3. bus' = g.bus /\ wire' = g.wire /\ flags' = g.flags
  BY DEF USB1Interrupt, SetHost
<1> HIDE DEF g
<1> QED BY <1>2, <1>3 DEF Locked, Shape, BusRecord, LockHolds, OneTokenAtATime

(* The calls leave the token, the interrupts and the lock alone. *)
LEMMA CallsLock ==
  ASSUME LockHolds, Application \/ CallGoesOn \/ ResumeComplete
  PROVE  LockHolds'
<1>1. wire' = wire /\ flags' = flags
  BY DEF Application, CallGoesOn, ResumeComplete, IssueDeviceRequest, ClearHalt,
         ClearEndpointErrors, Transfer, Ask, BeginTerminate, SuspendDevice, ResumeDevice,
         InitTransfer, TransferIsComplete, TerminateTransfer
<1>2. \/ bus' = bus
      \/ \E r : bus' = [bus EXCEPT !.setup = r]
      \/ \E p, f : bus' = [bus EXCEPT !.power = p, !.sof = f]
      \/ \E p : bus' = [bus EXCEPT !.power = p]
  BY DEF Application, CallGoesOn, ResumeComplete, IssueDeviceRequest, ClearHalt,
         ClearEndpointErrors, Transfer, Ask, BeginTerminate, SuspendDevice, ResumeDevice,
         InitTransfer, TransferIsComplete, TerminateTransfer
<1>3. /\ BusRecord(bus') /\ bus'.current = bus.current
      /\ bus'.bfTokenAlreadyWritten = bus.bfTokenAlreadyWritten
  BY <1>2 DEF LockHolds, BusRecord
<1> QED BY <1>1, <1>3 DEF LockHolds, OneTokenAtATime

LEMMA FrameLocks ==
  ASSUME LockHolds, Frame
  PROVE  LockHolds'
BY DEF Frame, LockHolds, BusRecord, OneTokenAtATime

(* A token that ends was written under the lock, which its interrupt will open. *)
LEMMA AnswersLock ==
  ASSUME LockHolds, Answers
  PROVE  LockHolds'
<1>1. wire # NoToken /\ wire' = NoToken /\ bus' = bus
  BY DEF Answers, NotHeard, Setup, StatusStage, DataIn, DataOut, Nak, Stall, Asked,
         EndsWith, EndsInError
<1>2. \/ \E r : flags' = [flags EXCEPT !.TRN = r]
      \/ \E r, u : u \in BOOLEAN /\ flags' = [flags EXCEPT !.TRN = r, !.UERR = u]
  BY DEF Answers, NotHeard, Setup, StatusStage, DataIn, DataOut, Nak, Stall,
         EndsWith, EndsInError
<1>3. flags' \in [TRN : {flags'.TRN}, SOF : BOOLEAN, UERR : BOOLEAN]
  BY <1>2 DEF LockHolds
<1> QED BY <1>1, <1>3 DEF LockHolds, BusRecord, OneTokenAtATime

(* bfTokenAlreadyWritten does its work: whatever the endpoints, the device, the errors and
   the calls, no token is written while another is under way or has an interrupt that is
   still to be handled. *)
THEOREM TokenLock == Spec => []OneTokenAtATime
<1>1. LockHolds /\ [Next]_vars => LockHolds'
  <2> SUFFICES ASSUME LockHolds, [Next]_vars PROVE LockHolds'
    OBVIOUS
  <2>1. CASE USB1Interrupt
    BY <2>1, InterruptLocks
  <2>2. CASE Application \/ CallGoesOn \/ ResumeComplete
    BY <2>2, CallsLock
  <2>3. CASE Frame
    BY <2>3, FrameLocks
  <2>4. CASE Answers
    BY <2>4, AnswersLock
  <2>5. CASE UNCHANGED vars
    BY <2>5 DEF vars, LockHolds, BusRecord, OneTokenAtATime
  <2> QED BY <2>1, <2>2, <2>3, <2>4, <2>5 DEF Next
<1>2. LockHolds => OneTokenAtATime
  BY DEF LockHolds
<1> QED BY InitLocks, <1>1, <1>2, PTL DEF Spec
-------------------------------------------------------------------------------
(* Every endpoint, its device and what is known of them in each stage of a transfer *)

Pids == {"ACK", "DATA", "NAK", "STALL", "ERROR"}
Fields == {"transferState", "bfTransferComplete", "bfTransferSuccessful", "bfStalled", "bfError",
           "bfErrorCount", "bfNextDATA01", "countNAKs", "dataCount", "dataCountMax",
           "wIntervalCount"}
DataStates == {READ_DATA, WRITE_DATA}
ReadStates == {READ_SETUP, READ_DATA, READ_ACK}
CompleteStates == {NO_DATA_COMPLETE, READ_COMPLETE, WRITE_COMPLETE, INTERRUPT_READ_COMPLETE,
                   INTERRUPT_WRITE_COMPLETE}
ErrorStates == {16 * t + 15 : t \in 1 .. 5}

\* The stages of an endpoint's transfers that are served with tokens.
Active(e) == IF e = EP0 THEN SetupStates \cup AckStates \cup DataStates
             ELSE IF e \in Ins THEN {INTERRUPT_READ_DATA} ELSE {INTERRUPT_WRITE_DATA}

EndpointRecord(p) ==
  /\ p = [f \in Fields |-> p[f]]
  /\ p.bfTransferComplete \in BOOLEAN /\ p.bfTransferSuccessful \in BOOLEAN
  /\ p.bfStalled \in BOOLEAN /\ p.bfError \in BOOLEAN
  /\ p.transferState \in States /\ p.bfErrorCount \in 0 .. 31 /\ p.bfNextDATA01 \in Bit
  /\ p.countNAKs \in 0 .. ControlNaks + 1 /\ p.wIntervalCount \in 0 .. Interval
  /\ p.dataCount \in Nat /\ p.dataCountMax \in Nat /\ p.dataCount <= p.dataCountMax

(* A transfer that is not complete goes on, has failed and says how, or has ended well. *)
GoesOn(e, p) == /\ p.transferState \in Active(e) /\ p.countNAKs <= ControlNaks
                /\ ~p.bfStalled /\ ~p.bfError
HasFailed(p) == p.transferState \in ErrorStates /\ (p.bfStalled \/ p.bfError)
HasEnded(p) == p.transferState \in CompleteStates /\ p.bfTransferSuccessful
Stage(e, p) == p.bfTransferComplete \/ GoesOn(e, p) \/ HasFailed(p) \/ HasEnded(p)

\* A token for it may be under way.
Under(e, p) == /\ ~p.bfTransferComplete /\ GoesOn(e, p)
               /\ p.transferState \in SetupStates => p.bfNextDATA01 = 0
               /\ p.transferState \in AckStates => p.dataCountMax = p.dataCount
Fails(e, p) == ~p.bfTransferComplete /\ (Under(e, p) \/ HasFailed(p))

\* r: the result of a token of the endpoint that the handler has not seen; d: the device's side.
Result(e, p, r, d) ==
  r # NoResult =>
    /\ r \in [ep : {e}, pid : Pids, size : Nat]
    /\ Fails(e, p) /\ (r.pid # "ERROR" => Under(e, p))
    /\ r.pid \in {"ACK", "DATA"} => p.dataCount + r.size <= p.dataCountMax
    /\ r.pid = "STALL" => d.halted

Counts(r) == r # NoResult /\ r.pid \in {"ACK", "DATA"}
Toggle(p, r) == IF Counts(r) THEN 1 - p.bfNextDATA01 ELSE p.bfNextDATA01
InStep(p, r, d) == d.toggle # Toggle(p, r) <=> d.taken

DeviceRecord(d) ==
  /\ d = [f \in {"toggle", "taken", "halted", "bytes", "accepted", "request"} |-> d[f]]
  /\ d.toggle \in Bit /\ d.bytes \in Nat
  /\ d.taken \in BOOLEAN /\ d.halted \in BOOLEAN /\ d.accepted \in BOOLEAN

(* An interrupt endpoint that has stalled and was cleared starts again with DATA0. *)
ListedSide(p, r, d) ==
  ~d.halted => InStep(p, r, d) /\ (p.bfStalled => d.toggle = 0 /\ ~d.taken)

\* Bytes that have gone by and the host has not counted.
Halfway(p, r, d) ==
  IF Counts(r) THEN r.size
  ELSE IF p.transferState = WRITE_DATA /\ d.taken THEN PacketSize(p) ELSE 0

(* Behind its SETUP stage a control transfer has its request at the device; what it has
   counted is what the device has, and its status stage ends it. *)
ControlSide(p, r, d, s) ==
  /\ ~p.bfTransferComplete /\ p.transferState \in Active(EP0) =>
       /\ p.transferState \in ReadStates <=> s.reads
       /\ p.transferState \notin SetupStates \/ Counts(r) => d.request = s
       /\ p.transferState \in SetupStates /\ Counts(r) =>
            d.bytes = 0 /\ d.toggle = 1 /\ ~d.taken /\ r.size = 0
       /\ p.transferState \in DataStates =>
            /\ InStep(p, r, d)
            /\ d.bytes = p.dataCount + Halfway(p, r, d)
            /\ p.transferState = WRITE_DATA /\ Counts(r) => ~d.taken
       /\ p.transferState \in AckStates =>
            d.bytes = p.dataCount /\ (Counts(r) => d.accepted /\ r.size = 0)
  /\ p.bfTransferComplete \/ p.transferState \in CompleteStates =>
       (p.bfTransferSuccessful /\ ~p.bfStalled /\ ~p.bfError =>
         d.accepted /\ d.bytes = p.dataCount)

Side(e, p, r, d, s) ==
  /\ EndpointRecord(p) /\ Stage(e, p) /\ Result(e, p, r, d) /\ DeviceRecord(d)
  /\ IF e = EP0 THEN ControlSide(p, r, d, s) ELSE ListedSide(p, r, d)

-------------------------------------------------------------------------------
(* What the handler does to the record of an endpoint *)

USE DEF IDLE, NO_DATA_SETUP, NO_DATA_ACK, NO_DATA_COMPLETE, READ_SETUP, READ_DATA, READ_ACK,
  READ_COMPLETE, WRITE_SETUP, WRITE_DATA, WRITE_ACK, WRITE_COMPLETE, INTERRUPT_READ_DATA,
  INTERRUPT_READ_COMPLETE, INTERRUPT_WRITE_DATA, INTERRUPT_WRITE_COMPLETE,
  SetupStates, AckStates, DataStates, ReadStates, CompleteStates

LEMMA ErrorStatesAre == ErrorStates = {31, 47, 63, 79, 95}
BY DEF ErrorStates

LEMMA StatesAre ==
  States = {0, 16, 17, 18, 32, 33, 34, 35, 48, 49, 50, 51, 64, 65, 80, 81}
           \cup {31, 47, 63, 79, 95}
BY ErrorStatesAre DEF States, ErrorStates

LEMMA StateSteps ==
  ASSUME NEW e, NEW s
  PROVE  /\ s \in Active(e) =>
              \/ e = EP0 /\ s \in {16, 17, 32, 33, 34, 48, 49, 50}
              \/ e # EP0 /\ s \in {64, 80}
         /\ s \in Active(e) => NextTransferState(s) = s + 1
         /\ s \in Active(e) \cup ErrorStates => TransferErrorState(s) \in ErrorStates
<1>1. s \in Active(e) => s \in {16, 17, 32, 33, 34, 48, 49, 50, 64, 80}
  BY DEF Active
<1>2. s \in Active(e) => NextTransferState(s) = s + 1
  BY <1>1 DEF NextTransferState
<1>3. s \in Active(e) \cup ErrorStates => TransferErrorState(s) \in ErrorStates
  BY <1>1, ErrorStatesAre DEF TransferErrorState
<1> QED BY <1>1, <1>2, <1>3 DEF Active

LEMMA IntervalKeeps ==
  ASSUME NEW e, NEW p, NEW r, NEW d, NEW s, Side(e, p, r, d, s), NEW n \in 0 .. Interval
  PROVE  Side(e, [p EXCEPT !.wIntervalCount = n], r, d, s)
<1> DEFINE q == [p EXCEPT !.wIntervalCount = n]
<1>1. /\ q = [f \in Fields |-> q[f]] /\ q.wIntervalCount = n
      /\ \A f \in Fields \ {"wIntervalCount"} : q[f] = p[f]
  BY DEF Side, EndpointRecord, Fields
<1> HIDE DEF q
<1>2. /\ q.transferState = p.transferState /\ q.bfTransferComplete = p.bfTransferComplete
      /\ q.bfTransferSuccessful = p.bfTransferSuccessful /\ q.bfStalled = p.bfStalled
      /\ q.bfError = p.bfError /\ q.bfErrorCount = p.bfErrorCount
      /\ q.bfNextDATA01 = p.bfNextDATA01 /\ q.countNAKs = p.countNAKs
      /\ q.dataCount = p.dataCount /\ q.dataCountMax = p.dataCountMax
  BY <1>1 DEF Fields
<1>3. EndpointRecord(q) /\ Stage(e, q) /\ Result(e, q, r, d)
  BY <1>1, <1>2 DEF Side, EndpointRecord, Stage, GoesOn, HasFailed, HasEnded, Result, Under, Fails
<1>4. PacketSize(q) = PacketSize(p)
  BY <1>2 DEF PacketSize
<1>5. e = EP0 => ControlSide(q, r, d, s)
  BY <1>2, <1>4 DEF Side, ControlSide, InStep, Toggle, Halfway
<1>6. e # EP0 => ListedSide(q, r, d)
  BY <1>2 DEF Side, ListedSide, InStep, Toggle
<1> QED BY <1>3, <1>5, <1>6 DEF Side, q

(* A transfer whose stage is not served is over, and says how it ended. *)
LEMMA EndedKeeps ==
  ASSUME NEW e, NEW p, NEW d, NEW s, Side(e, p, NoResult, d, s),
         ~p.bfTransferComplete, p.transferState \notin Active(e)
  PROVE  /\ Side(e, Ended(p), NoResult, d, s)
         /\ Ended(p).bfTransferComplete /\ ErrorOf(Ended(p)) \in Pipe!Endings
<1> DEFINE q == Ended(p)
<1>1. /\ q = [f \in Fields |-> q[f]] /\ q.transferState = IDLE /\ q.bfTransferComplete
      /\ q.bfTransferSuccessful = p.bfTransferSuccessful /\ q.bfStalled = p.bfStalled
      /\ q.bfError = p.bfError /\ q.bfErrorCount = p.bfErrorCount
      /\ q.bfNextDATA01 = p.bfNextDATA01 /\ q.countNAKs = p.countNAKs
      /\ q.dataCount = p.dataCount /\ q.dataCountMax = p.dataCountMax
      /\ q.wIntervalCount = p.wIntervalCount
  BY DEF Side, EndpointRecord, Fields, Ended
<1>2. HasFailed(p) \/ HasEnded(p)
  BY DEF Side, Stage, GoesOn
<1> HIDE DEF q
<1>3. EndpointRecord(q) /\ Stage(e, q) /\ Result(e, q, NoResult, d)
  BY <1>1, StatesAre DEF Side, EndpointRecord, Stage, Result
<1>4. ErrorOf(q) \in Pipe!Endings
  BY <1>1, <1>2 DEF HasFailed, HasEnded, ErrorOf, Pipe!Endings, Side, EndpointRecord
<1>5. e = EP0 => ControlSide(q, NoResult, d, s)
  BY <1>1, <1>2 DEF Side, ControlSide, HasFailed, HasEnded
<1>6. e # EP0 => ListedSide(q, NoResult, d)
  BY <1>1 DEF Side, ListedSide, InStep, Toggle
<1> QED BY <1>1, <1>3, <1>4, <1>5, <1>6 DEF Side, q

LEMMA StageReadyKeeps ==
  ASSUME NEW p, NEW d, NEW s, Side(EP0, p, NoResult, d, s),
         ~p.bfTransferComplete, p.transferState \in Active(EP0)
  PROVE  Side(EP0, StageReady(p), NoResult, d, s) /\ Under(EP0, StageReady(p))
<1> DEFINE q == StageReady(p)
<1>1. /\ q = [f \in Fields |-> q[f]] /\ q.transferState = p.transferState
      /\ q.bfTransferComplete = p.bfTransferComplete
      /\ q.bfTransferSuccessful = p.bfTransferSuccessful /\ q.bfStalled = p.bfStalled
      /\ q.bfError = p.bfError /\ q.bfErrorCount = p.bfErrorCount
      /\ q.countNAKs = p.countNAKs
      /\ q.dataCount = p.dataCount /\ q.wIntervalCount = p.wIntervalCount
  BY DEF Side, EndpointRecord, Fields, StageReady
<1>2. /\ p.transferState \in SetupStates => q.bfNextDATA01 = 0 /\ q.dataCountMax = p.dataCountMax
      /\ p.transferState \in AckStates => q.bfNextDATA01 = 1 /\ q.dataCountMax = p.dataCount
      /\ p.transferState \in DataStates =>
           q.bfNextDATA01 = p.bfNextDATA01 /\ q.dataCountMax = p.dataCountMax
  BY DEF Side, EndpointRecord, Fields, StageReady
<1>3. p.transferState \in SetupStates \cup AckStates \cup DataStates
  BY DEF Active
<1> HIDE DEF q
<1>4. EndpointRecord(q) /\ Result(EP0, q, NoResult, d)
  BY <1>1, <1>2, <1>3 DEF Side, EndpointRecord, Result, Bit
<1>5. GoesOn(EP0, p)
  BY <1>3, ErrorStatesAre DEF Side, Stage, HasFailed, HasEnded
<1>6. Under(EP0, q) /\ Stage(EP0, q)
  BY <1>1, <1>2, <1>5 DEF GoesOn, Under, Stage
<1>7. p.transferState \in DataStates => PacketSize(q) = PacketSize(p)
  BY <1>1, <1>2 DEF PacketSize
<1>8. ControlSide(q, NoResult, d, s)
  BY <1>1, <1>2, <1>3, <1>7 DEF Side, ControlSide, InStep, Toggle, Halfway, Counts
<1> QED BY <1>4, <1>6, <1>8 DEF Side, q

LEMMA AfterStallKeeps ==
  ASSUME NEW e, NEW p, NEW r, NEW d, NEW s, Side(e, p, r, d, s), r # NoResult,
         r.pid = "STALL"
  PROVE  Side(e, AfterStall(p), NoResult, d, s) /\ ~AfterStall(p).bfTransferComplete
<1> DEFINE q == AfterStall(p)
<1>1. /\ q = [f \in Fields |-> q[f]] /\ q.transferState = TransferErrorState(p.transferState)
      /\ q.bfTransferComplete = p.bfTransferComplete /\ q.bfStalled
      /\ q.bfTransferSuccessful = p.bfTransferSuccessful
      /\ q.bfError = p.bfError /\ q.bfErrorCount = p.bfErrorCount
      /\ q.bfNextDATA01 = p.bfNextDATA01 /\ q.countNAKs = p.countNAKs
      /\ q.dataCount = p.dataCount /\ q.dataCountMax = p.dataCountMax
      /\ q.wIntervalCount = p.wIntervalCount
  BY DEF Side, EndpointRecord, Fields, AfterStall
<1>2. Under(e, p) /\ d.halted
  BY DEF Side, Result, Counts
<1>3. q.transferState \in ErrorStates
  BY <1>1, <1>2, StateSteps DEF Under, GoesOn
<1> HIDE DEF q
<1>4. EndpointRecord(q) /\ Stage(e, q) /\ Result(e, q, NoResult, d)
  BY <1>1, <1>3, StatesAre, ErrorStatesAre DEF Side, EndpointRecord, Stage, HasFailed, Result
<1>5. e = EP0 => ControlSide(q, NoResult, d, s)
  BY <1>1, <1>2, <1>3, ErrorStatesAre, StateSteps DEF ControlSide, Under
<1>6. e # EP0 => ListedSide(q, NoResult, d)
  BY <1>2 DEF ListedSide
<1> QED BY <1>1, <1>2, <1>4, <1>5, <1>6 DEF Side, Under, q

LEMMA AfterErrorKeeps ==
  ASSUME NEW e, NEW p, NEW r, NEW d, NEW s, Side(e, p, r, d, s), Fails(e, p),
         r # NoResult => r.pid = "ERROR"
  PROVE  /\ Side(e, AfterError(p), r, d, s) /\ Side(e, AfterError(p), NoResult, d, s)
         /\ ~AfterError(p).bfTransferComplete
<1> DEFINE q == AfterError(p)
           n == (p.bfErrorCount + 1) % 32
<1>0. n \in 0 .. 31
  BY DEF Side, EndpointRecord
<1> HIDE DEF n
<1> DEFINE c == [p EXCEPT !.bfErrorCount = n]
<1>1. /\ c = [f \in Fields |-> c[f]] /\ c.bfErrorCount = n
      /\ \A f \in Fields \ {"bfErrorCount"} : c[f] = p[f]
  BY DEF Side, EndpointRecord, Fields
<1>2. q = c \/ q = TransferError(c)
  BY DEF AfterError, n
<1> HIDE DEF c, q
<1>3. /\ c.transferState = p.transferState /\ c.bfTransferComplete = p.bfTransferComplete
      /\ c.bfTransferSuccessful = p.bfTransferSuccessful /\ c.bfStalled = p.bfStalled
      /\ c.bfError = p.bfError /\ c.bfErrorCount = n
      /\ c.bfNextDATA01 = p.bfNextDATA01 /\ c.countNAKs = p.countNAKs
      /\ c.dataCount = p.dataCount /\ c.dataCountMax = p.dataCountMax
      /\ c.wIntervalCount = p.wIntervalCount
  BY <1>1 DEF Fields
<1>4. CASE q = c
  <2>1. EndpointRecord(q) /\ Stage(e, q) /\ Fails(e, q)
    BY <1>0, <1>1, <1>3, <1>4
       DEF Side, EndpointRecord, Stage, GoesOn, HasFailed, HasEnded, Fails, Under
  <2>2. Result(e, q, r, d) /\ Result(e, q, NoResult, d)
    BY <2>1 DEF Side, Result
  <2>3. PacketSize(q) = PacketSize(p)
    BY <1>3, <1>4 DEF PacketSize
  <2>4. e = EP0 => ControlSide(q, r, d, s) /\ ControlSide(q, NoResult, d, s)
    BY <1>3, <1>4, <2>3 DEF Side, ControlSide, InStep, Toggle, Halfway, Counts
  <2>5. e # EP0 => ListedSide(q, r, d) /\ ListedSide(q, NoResult, d)
    BY <1>3, <1>4 DEF Side, ListedSide, InStep, Toggle, Counts
  <2> QED BY <1>3, <1>4, <2>1, <2>2, <2>4, <2>5 DEF Side, Fails, q
<1>5. CASE q = TransferError(c)
  <2>1. /\ q = [f \in Fields |-> q[f]] /\ q.transferState = TransferErrorState(p.transferState)
        /\ q.bfTransferComplete = p.bfTransferComplete /\ q.bfStalled = p.bfStalled
        /\ q.bfTransferSuccessful = p.bfTransferSuccessful
        /\ q.bfError /\ q.bfErrorCount = n
        /\ q.bfNextDATA01 = p.bfNextDATA01 /\ q.countNAKs = p.countNAKs
        /\ q.dataCount = p.dataCount /\ q.dataCountMax = p.dataCountMax
        /\ q.wIntervalCount = p.wIntervalCount
    BY <1>1, <1>3, <1>5 DEF Fields, TransferError
  <2>2. q.transferState \in ErrorStates
    BY <2>1, StateSteps DEF Fails, Under, GoesOn, HasFailed
  <2>3. EndpointRecord(q) /\ Stage(e, q) /\ Fails(e, q)
    BY <1>0, <2>1, <2>2, StatesAre, ErrorStatesAre
       DEF Side, EndpointRecord, Stage, HasFailed, Fails
  <2>4. Result(e, q, r, d) /\ Result(e, q, NoResult, d)
    BY <2>3 DEF Side, Result
  <2>5. e = EP0 => ControlSide(q, r, d, s) /\ ControlSide(q, NoResult, d, s)
    BY <2>1, <2>2, ErrorStatesAre, StateSteps DEF ControlSide, Fails
  <2>6. e # EP0 => ListedSide(q, r, d) /\ ListedSide(q, NoResult, d)
    BY <2>1 DEF Side, ListedSide, InStep, Toggle, Counts
  <2> QED BY <2>1, <2>3, <2>4, <2>5, <2>6 DEF Side, Fails, q
<1> QED BY <1>2, <1>4, <1>5

LEMMA AfterNakKeeps ==
  ASSUME NEW e, NEW p, NEW r, NEW d, NEW s, Side(e, p, r, d, s), r # NoResult, r.pid = "NAK"
  PROVE  Side(e, AfterNak(e, p), NoResult, d, s) /\ ~AfterNak(e, p).bfTransferComplete
<1> DEFINE q == AfterNak(e, p)
<1>1. Under(e, p) /\ GoesOn(e, p) /\ EndpointRecord(p) /\ ~p.bfTransferComplete
  BY DEF Side, Result, Under
<1>2. CASE e \in Ins
  <2>1. /\ q = [f \in Fields |-> q[f]] /\ q.transferState = NextTransferState(p.transferState)
        /\ q.bfTransferComplete = p.bfTransferComplete /\ q.bfStalled = p.bfStalled
        /\ q.bfTransferSuccessful
        /\ q.bfError = p.bfError /\ q.bfErrorCount = p.bfErrorCount
        /\ q.bfNextDATA01 = p.bfNextDATA01 /\ q.countNAKs = p.countNAKs
        /\ q.dataCount = p.dataCount /\ q.dataCountMax = p.dataCountMax
        /\ q.wIntervalCount = p.wIntervalCount
    BY <1>1, <1>2 DEF EndpointRecord, Fields, AfterNak
  <2>2. e # EP0 /\ p.transferState = INTERRUPT_READ_DATA
    BY <1>1, <1>2, EndpointsAssumption DEF GoesOn, Active
  <2>3. q.transferState = INTERRUPT_READ_COMPLETE
    BY <2>1, <2>2 DEF NextTransferState
  <2> HIDE DEF q
  <2>4. EndpointRecord(q) /\ Stage(e, q) /\ Result(e, q, NoResult, d)
    BY <1>1, <2>1, <2>3, StatesAre DEF EndpointRecord, Stage, HasEnded, Result
  <2>5. ListedSide(q, NoResult, d)
    BY <2>1, <2>2 DEF Side, ListedSide, InStep, Toggle, Counts
  <2> QED BY <1>1, <2>1, <2>2, <2>4, <2>5 DEF Side, q
<1>3. CASE e \notin Ins /\ e # EP0
  <2>1. q = p
    BY <1>3 DEF AfterNak
  <2>2. ListedSide(q, NoResult, d) /\ Result(e, q, NoResult, d)
    BY <1>3, <2>1 DEF Side, ListedSide, InStep, Toggle, Counts, Result
  <2> QED BY <1>1, <1>3, <2>1, <2>2 DEF Side
<1>4. CASE e \notin Ins /\ e = EP0
  <2> DEFINE c == [p EXCEPT !.countNAKs = @ + 1]
  <2>1. /\ c = [f \in Fields |-> c[f]] /\ c.countNAKs = p.countNAKs + 1
        /\ \A f \in Fields \ {"countNAKs"} : c[f] = p[f]
    BY <1>1 DEF EndpointRecord, Fields
  <2>2. q = IF c.countNAKs > ControlNaks THEN TransferError(c) ELSE c
    BY <1>4 DEF AfterNak
  <2> HIDE DEF c, q
  <2>3. /\ c.transferState = p.transferState /\ c.bfTransferComplete = p.bfTransferComplete
        /\ c.bfTransferSuccessful = p.bfTransferSuccessful /\ c.bfStalled = p.bfStalled
        /\ c.bfError = p.bfError /\ c.bfErrorCount = p.bfErrorCount
        /\ c.bfNextDATA01 = p.bfNextDATA01 /\ c.countNAKs \in 0 .. ControlNaks + 1
        /\ c.dataCount = p.dataCount /\ c.dataCountMax = p.dataCountMax
        /\ c.wIntervalCount = p.wIntervalCount
    BY <1>1, <2>1, SizesAssumption DEF Fields, EndpointRecord, GoesOn
  <2>4. Result(e, q, NoResult, d) /\ ~Counts(NoResult) /\ ~Counts(r)
    BY DEF Result, Counts
  <2>5. CASE c.countNAKs > ControlNaks
    <3>1. /\ q = [f \in Fields |-> q[f]]
          /\ q.transferState = TransferErrorState(p.transferState)
          /\ q.bfTransferComplete = p.bfTransferComplete /\ q.bfStalled = p.bfStalled
          /\ q.bfTransferSuccessful = p.bfTransferSuccessful
          /\ q.bfError /\ q.bfErrorCount = p.bfErrorCount
          /\ q.bfNextDATA01 = p.bfNextDATA01 /\ q.countNAKs = c.countNAKs
          /\ q.dataCount = p.dataCount /\ q.dataCountMax = p.dataCountMax
          /\ q.wIntervalCount = p.wIntervalCount
      BY <2>1, <2>2, <2>3, <2>5 DEF Fields, TransferError
    <3>2. q.transferState \in ErrorStates
      BY <1>1, <3>1, StateSteps DEF GoesOn
    <3>3. EndpointRecord(q) /\ Stage(e, q)
      BY <1>1, <2>3, <3>1, <3>2, StatesAre, ErrorStatesAre DEF EndpointRecord, Stage, HasFailed
    <3>4. ControlSide(q, NoResult, d, s)
      BY <1>1, <3>1, <3>2, ErrorStatesAre, StateSteps DEF ControlSide
    <3> QED BY <1>1, <1>4, <2>4, <3>1, <3>3, <3>4 DEF Side, q
  <2>6. CASE ~(c.countNAKs > ControlNaks)
    <3>1. q = c
      BY <2>2, <2>6
    <3>2. EndpointRecord(q) /\ Stage(e, q)
      BY <1>1, <2>1, <2>3, <2>6, <3>1, SizesAssumption DEF EndpointRecord, Stage, GoesOn
    <3>3. PacketSize(q) = PacketSize(p)
      BY <2>3, <3>1 DEF PacketSize
    <3>4. ControlSide(q, NoResult, d, s)
      BY <1>4, <2>3, <2>4, <3>1, <3>3 DEF Side, ControlSide, InStep, Toggle, Halfway
    <3> QED BY <1>1, <1>4, <2>3, <2>4, <3>1, <3>2, <3>4 DEF Side, q
  <2> QED BY <2>5, <2>6
<1> QED BY <1>2, <1>3, <1>4

LEMMA AfterDataKeeps ==
  ASSUME NEW e \in Endpoints, NEW p, NEW r, NEW d, NEW s, Side(e, p, r, d, s), Counts(r)
  PROVE  /\ Side(e, AfterData(p, r.size), NoResult, d, s)
         /\ ~AfterData(p, r.size).bfTransferComplete
<1> DEFINE q == AfterData(p, r.size)
           Last == r.size < MaxPacket \/ p.dataCount + r.size >= p.dataCountMax
           now == p.transferState
<1>1. /\ Under(e, p) /\ GoesOn(e, p) /\ EndpointRecord(p) /\ ~p.bfTransferComplete
      /\ r.size \in Nat /\ p.dataCount + r.size <= p.dataCountMax
  BY DEF Side, Result, Under, Counts
<1>2. /\ q = [f \in Fields |-> q[f]]
      /\ q.bfTransferComplete = p.bfTransferComplete /\ q.bfStalled = p.bfStalled
      /\ q.bfError = p.bfError /\ q.bfErrorCount = p.bfErrorCount
      /\ q.bfNextDATA01 = 1 - p.bfNextDATA01 /\ q.countNAKs = 0
      /\ q.dataCountMax = p.dataCountMax /\ q.wIntervalCount = p.wIntervalCount
  BY <1>1 DEF EndpointRecord, Fields, AfterData
<1>3. /\ now \in SetupStates =>
           /\ q.dataCount = 0 /\ q.bfTransferSuccessful = p.bfTransferSuccessful
           /\ q.transferState = NextTransferState(now)
      /\ now \notin SetupStates => q.dataCount = p.dataCount + r.size
  BY <1>1 DEF EndpointRecord, Fields, AfterData
<1>4. /\ now \notin SetupStates /\ Last =>
           q.bfTransferSuccessful /\ q.transferState = NextTransferState(now)
      /\ now \notin SetupStates /\ ~Last =>
           q.bfTransferSuccessful = p.bfTransferSuccessful /\ q.transferState = now
  BY <1>1 DEF EndpointRecord, Fields, AfterData
<1> HIDE DEF q, Last
<1>5. NextTransferState(now) = now + 1 /\ now \in Active(e)
  BY <1>1, StateSteps DEF GoesOn
<1>6. q.transferState \in {now, now + 1} /\ q.bfTransferSuccessful \in BOOLEAN
  BY <1>1, <1>3, <1>4, <1>5 DEF EndpointRecord
<1>7. q.transferState \in States
  BY <1>5, <1>6, StateSteps, StatesAre
<1>8. EndpointRecord(q) /\ Result(e, q, NoResult, d)
  BY <1>1, <1>2, <1>3, <1>6, <1>7, SizesAssumption DEF EndpointRecord, Bit, Result
<1>9. CASE e # EP0
  <2>1. now \in {64, 80} /\ Active(e) = {now}
    BY <1>5, <1>9 DEF Active
  <2>2. Stage(e, q)
    BY <1>1, <1>2, <1>4, <1>5, <2>1, SizesAssumption
       DEF Stage, GoesOn, HasEnded, EndpointRecord
  <2>3. ListedSide(q, NoResult, d)
    BY <1>1, <1>2, <1>9 DEF Side, ListedSide, InStep, Toggle, Counts
  <2> QED BY <1>1, <1>2, <1>8, <1>9, <2>2, <2>3 DEF Side, q
<1>10. CASE e = EP0
  <2>0. /\ now \in Active(EP0) /\ ControlSide(p, r, d, s) /\ MaxPacket \in Nat \ {0}
        /\ ControlNaks \in Nat
    BY <1>5, <1>10, SizesAssumption DEF Side
  <2>1. CASE now \in SetupStates
    <3>1. q.transferState \in {NO_DATA_ACK} \cup DataStates
          /\ (q.transferState \in ReadStates <=> now \in ReadStates)
      BY <1>3, <1>5, <2>1
    <3>2. Stage(e, q)
      BY <1>1, <1>2, <1>10, <2>0, <3>1 DEF Stage, GoesOn, Active
    <3>3. /\ d.request = s /\ d.bytes = 0 /\ d.toggle = 1 /\ ~d.taken
          /\ (now \in ReadStates <=> s.reads)
      BY <1>1, <2>0, <2>1 DEF ControlSide
    <3>4. q.bfNextDATA01 = 1 /\ q.dataCount = 0
      BY <1>1, <1>2, <1>3, <2>1 DEF Under
    <3>5. ControlSide(q, NoResult, d, s)
      BY <1>1, <1>2, <3>1, <3>3, <3>4 DEF ControlSide, InStep, Toggle, Halfway, Counts
    <3> QED BY <1>1, <1>2, <1>8, <1>10, <3>2, <3>5 DEF Side, q
  <2>2. CASE now \in DataStates
    <3>1. /\ q.transferState \in DataStates \cup {READ_ACK, WRITE_ACK}
          /\ (q.transferState \in ReadStates <=> now \in ReadStates)
      BY <1>4, <1>5, <2>2
    <3>2. Stage(e, q)
      BY <1>1, <1>2, <1>10, <2>0, <3>1 DEF Stage, GoesOn, Active
    <3>3. /\ d.request = s /\ d.bytes = q.dataCount
          /\ (now = WRITE_DATA => ~d.taken) /\ (d.toggle # q.bfNextDATA01 <=> d.taken)
          /\ (now \in ReadStates <=> s.reads)
      BY <1>1, <1>2, <1>3, <2>0, <2>2 DEF ControlSide, InStep, Toggle, Halfway
    <3>4. q.transferState = WRITE_DATA => now = WRITE_DATA
      BY <1>4, <1>5, <2>2
    <3>5. d.bytes = q.dataCount + 0
      BY <1>8, <3>3 DEF EndpointRecord
    <3>6. ControlSide(q, NoResult, d, s)
      BY <1>1, <1>2, <3>1, <3>3, <3>4, <3>5 DEF ControlSide, InStep, Toggle, Halfway, Counts
    <3> QED BY <1>1, <1>2, <1>8, <1>10, <3>2, <3>6 DEF Side, q
  <2>3. CASE now \in AckStates
    <3>1. d.accepted /\ r.size = 0 /\ d.bytes = p.dataCount
      BY <1>1, <2>0, <2>3 DEF ControlSide
    <3>2. q.transferState \in CompleteStates /\ q.bfTransferSuccessful /\ q.dataCount = p.dataCount
      BY <1>1, <1>3, <1>4, <1>5, <2>0, <2>3, <3>1 DEF EndpointRecord, Last
    <3>3. ControlSide(q, NoResult, d, s) /\ Stage(e, q)
      BY <1>1, <1>2, <3>1, <3>2, StateSteps DEF ControlSide, Stage, HasEnded
    <3> QED BY <1>1, <1>2, <1>8, <1>10, <3>3 DEF Side, q
  <2> QED BY <2>0, <2>1, <2>2, <2>3 DEF Active
<1> QED BY <1>9, <1>10

-------------------------------------------------------------------------------
(* What the handler does to the host's variables.  Less and Smallest: the first endpoint of
   the list that has a transfer exists. *)

HIDE DEF SetupStates, AckStates, DataStates, ReadStates, CompleteStates, READ_DATA, WRITE_DATA

Less == {pair \in Nat \X Nat : pair[1] < pair[2]}
LEMMA LessIsWellFounded == IsWellFoundedOn(Less, Nat)
BY NatLessThanWellFounded DEF OpToRel, Less

LEMMA Smallest ==
  ASSUME NEW S, S \subseteq Nat, S # {}
  PROVE  \E m \in S : \A k \in S : m <= k
<1>1. PICK m \in S : \A k \in S : <<k, m>> \notin Less
  BY LessIsWellFounded, WFMin
<1>2. \A k \in S : ~(k < m)
  BY <1>1 DEF Less
<1> QED BY <1>2

ResultOf(e, trn) == IF trn # NoResult /\ trn.ep = e THEN trn ELSE NoResult
Token(e, p) == [ep |-> e, pid |-> TokenOf(p.transferState), dts |-> p.bfNextDATA01,
                size |-> IF TokenOf(p.transferState) = "SETUP" THEN 0 ELSE PacketSize(p)]

SidesKnown(h) ==
  /\ h.ep = [e \in Endpoints |-> h.ep[e]]
  /\ \A e \in Endpoints :
       Side(e, h.ep[e], ResultOf(e, h.flags.TRN), device[e], h.bus.setup)

(* The token that is under way is that of the current endpoint as it is, and so is what is
   left of it in the interrupt flags. *)
TokenKnown(h) ==
  LET e == h.bus.current
  IN /\ e \in Endpoints
     /\ h.wire # NoToken => Under(e, h.ep[e]) /\ h.wire = Token(e, h.ep[e])
     /\ h.flags.TRN # NoResult => /\ h.flags.TRN.ep = e
                                  /\ h.flags.UERR => h.flags.TRN.pid = "ERROR"
     /\ h.flags.UERR => Fails(e, h.ep[e])

Known(h) == Locked(h) /\ SidesKnown(h) /\ TokenKnown(h)

(* A complete transfer is left alone, and one that becomes complete has a result. *)
Moves(p, q) ==
  /\ p.bfTransferComplete =>
       /\ q.bfTransferComplete
       /\ q.transferState = p.transferState /\ q.bfTransferSuccessful = p.bfTransferSuccessful
       /\ q.bfStalled = p.bfStalled /\ q.bfError = p.bfError
       /\ q.bfNextDATA01 = p.bfNextDATA01 /\ q.countNAKs = p.countNAKs
  /\ ~p.bfTransferComplete /\ q.bfTransferComplete => ErrorOf(q) \in Pipe!Endings
AllMove(h, g) ==
  /\ g.bus.setup = h.bus.setup /\ g.bus.power = h.bus.power
  /\ \A e \in Endpoints : Moves(h.ep[e], g.ep[e])

LEMMA StaysMove == ASSUME NEW p PROVE Moves(p, p)
BY DEF Moves

LEMMA MovesTwice ==
  ASSUME NEW h, NEW g, NEW k, AllMove(h, g), AllMove(g, k)
  PROVE  AllMove(h, k)
<1>1. ASSUME NEW p, NEW q, NEW t, Moves(p, q), Moves(q, t) PROVE Moves(p, t)
  BY <1>1 DEF Moves, ErrorOf
<1> QED BY <1>1 DEF AllMove

\* The lock is open: nothing is under way.
LEMMA OpenIsKnown ==
  ASSUME NEW g, Open(g), g.bus.current \in Endpoints, g.ep = [e \in Endpoints |-> g.ep[e]],
         \A e \in Endpoints : Side(e, g.ep[e], NoResult, device[e], g.bus.setup)
  PROVE  Known(g)
<1>1. g.wire = NoToken /\ g.flags.TRN = NoResult /\ ~g.flags.UERR
  BY DEF Open, Locked
<1> QED BY <1>1 DEF Open, Known, SidesKnown, TokenKnown, ResultOf

LEMMA OpenSides ==
  ASSUME NEW h, Known(h), Open(h)
  PROVE  /\ h.ep = [e \in Endpoints |-> h.ep[e]]
         /\ \A e \in Endpoints : Side(e, h.ep[e], NoResult, device[e], h.bus.setup)
BY DEF Open, Known, SidesKnown, ResultOf

LEMMA SendTokenKnows ==
  ASSUME NEW h, Known(h), Open(h), Under(h.bus.current, h.ep[h.bus.current])
  PROVE  /\ Known(SendToken(h)) /\ SendToken(h).bus.bfTokenAlreadyWritten
         /\ SendToken(h).ep = h.ep /\ SendToken(h).bus.setup = h.bus.setup
         /\ SendToken(h).bus.power = h.bus.power
<1> DEFINE e == h.bus.current
           w == Token(e, h.ep[e])
           g == [h EXCEPT !.wire = w, !.bus.bfTokenAlreadyWritten = TRUE]
<1>1. SendToken(h) = g
  BY DEF SendToken, Token
<1> HIDE DEF w
<1>2. /\ g.wire = w /\ g.bus.current = h.bus.current /\ g.bus.setup = h.bus.setup
      /\ g.bus.power = h.bus.power
      /\ g.flags = h.flags /\ g.ep = h.ep
  BY DEF Open, Locked, Shape, BusRecord
<1>3. Locked(g) /\ g.bus.bfTokenAlreadyWritten
  BY <1>1, SendTokenLocks
<1> HIDE DEF g
<1>4. h.flags.TRN = NoResult /\ ~h.flags.UERR
  BY DEF Open, Locked
<1>5. SidesKnown(g) /\ TokenKnown(g)
  BY <1>2, <1>4 DEF Known, SidesKnown, TokenKnown, w
<1> QED BY <1>1, <1>2, <1>3, <1>5 DEF Known

LEMMA ServeControlKnows ==
  ASSUME NEW h, Known(h), Open(h)
  PROVE  LET c == ServeControl(h)
         IN Known(c) /\ AllMove(h, c) /\ (Open(c) \/ c.bus.bfTokenAlreadyWritten)
<1> DEFINE p == h.ep[EP0]
           done == [h EXCEPT !.bus.bfControlTransfersDone = TRUE]
           Turn(q) == [done EXCEPT !.bus.current = EP0, !.ep[EP0] = q]
<1>0. EP0 \in Endpoints /\ h.bus.current \in Endpoints
  BY DEF Endpoints, Known, TokenKnown
<1>1. /\ done.ep = h.ep /\ done.bus.setup = h.bus.setup
      /\ done.bus.power = h.bus.power /\ done.bus.current = h.bus.current
      /\ Open(done)
  <2>1. /\ Shape(done) /\ done.wire = h.wire /\ done.flags = h.flags /\ done.ep = h.ep
        /\ done.bus.bfTokenAlreadyWritten = h.bus.bfTokenAlreadyWritten
        /\ done.bus.setup = h.bus.setup
        /\ done.bus.power = h.bus.power /\ done.bus.current = h.bus.current
    BY DEF Open, Locked, Shape, BusRecord
  <2> QED BY <2>1, KeepsOpen
<1> HIDE DEF done
<1>2. Known(done) /\ AllMove(h, done)
  BY <1>0, <1>1, OpenSides, OpenIsKnown, StaysMove DEF AllMove
<1>3. ASSUME NEW q, Side(EP0, q, NoResult, device[EP0], h.bus.setup), Moves(p, q)
      PROVE  /\ Open(Turn(q)) /\ Known(Turn(q)) /\ AllMove(h, Turn(q))
             /\ Turn(q).bus.current = EP0 /\ Turn(q).ep[EP0] = q
  <2>1. /\ Shape(Turn(q)) /\ Turn(q).wire = done.wire /\ Turn(q).flags = done.flags
        /\ Turn(q).bus.bfTokenAlreadyWritten = done.bus.bfTokenAlreadyWritten
        /\ Turn(q).bus.setup = done.bus.setup
        /\ Turn(q).bus.power = done.bus.power /\ Turn(q).bus.current = EP0
        /\ Turn(q).ep = [done.ep EXCEPT ![EP0] = q]
    BY <1>1 DEF Open, Locked, Shape, BusRecord
  <2> HIDE DEF Turn
  <2>2. Open(Turn(q))
    BY <1>1, <2>1, KeepsOpen
  <2>3. /\ Turn(q).ep = [e \in Endpoints |-> Turn(q).ep[e]] /\ Turn(q).ep[EP0] = q
        /\ \A e \in Endpoints \ {EP0} : Turn(q).ep[e] = h.ep[e]
    <3>1. h.ep = [e \in Endpoints |-> h.ep[e]]
      BY OpenSides
    <3> QED BY <1>0, <1>1, <2>1, <3>1
  <2>4. \A e \in Endpoints : Side(e, Turn(q).ep[e], NoResult, device[e], h.bus.setup)
    BY <1>3, <2>3, OpenSides
  <2>5. Known(Turn(q))
    BY <1>0, <1>1, <2>1, <2>2, <2>3, <2>4, OpenIsKnown
  <2>6. AllMove(h, Turn(q))
    BY <1>1, <1>3, <2>1, <2>3, StaysMove DEF AllMove
  <2> QED BY <2>1, <2>2, <2>3, <2>5, <2>6
<1>4. /\ Side(EP0, p, NoResult, device[EP0], h.bus.setup)
      /\ p.transferState \in Active(EP0) <=>
           p.transferState \in SetupStates \cup AckStates \cup {READ_DATA, WRITE_DATA}
  BY <1>0, OpenSides DEF Active, DataStates
<1>5. CASE p.bfTransferComplete
  <2>1. ServeControl(h) = done
    BY <1>5 DEF ServeControl, done
  <2> QED BY <1>1, <1>2, <2>1
<1>6. CASE ~p.bfTransferComplete /\ p.transferState \in Active(EP0)
  <2> DEFINE q == StageReady(p)
  <2>1. ServeControl(h) = SendToken(Turn(q))
    BY <1>4, <1>6 DEF ServeControl, done
  <2>2. Side(EP0, q, NoResult, device[EP0], h.bus.setup) /\ Under(EP0, q)
    BY <1>4, <1>6, StageReadyKeeps
  <2> HIDE DEF q
  <2>3. Moves(p, q)
    BY <1>6, <2>2 DEF Moves, Under
  <2> DEFINE t == Turn(q)
  <2>4. /\ Open(t) /\ Known(t) /\ AllMove(h, t) /\ t.bus.current = EP0 /\ t.ep[EP0] = q
    BY <1>3, <2>2, <2>3
  <2> HIDE DEF t
  <2>5. Known(SendToken(t)) /\ SendToken(t).bus.bfTokenAlreadyWritten /\ AllMove(h, SendToken(t))
    BY <2>2, <2>4, SendTokenKnows DEF AllMove
  <2> QED BY <2>1, <2>5 DEF t
<1>7. CASE ~p.bfTransferComplete /\ p.transferState \notin Active(EP0)
  <2> DEFINE q == Ended(p)
  <2>1. ServeControl(h) = Turn(q)
    BY <1>4, <1>7 DEF ServeControl, done
  <2>2. /\ Side(EP0, q, NoResult, device[EP0], h.bus.setup) /\ Moves(p, q)
    BY <1>4, <1>7, EndedKeeps DEF Moves
  <2> HIDE DEF q, Turn
  <2> QED BY <1>3, <2>1, <2>2
<1> QED BY <1>5, <1>6, <1>7

LEMMA FoundIs ==
  ASSUME NEW h
  PROVE  LET found == FindServiceEndpoint(h)
         IN /\ found.ep = [e \in Endpoints |-> found.ep[e]]
            /\ \A e \in Endpoints :
                 \/ found.ep[e] = h.ep[e]
                 \/ found.ep[e] = [h.ep[e] EXCEPT !.wIntervalCount = Interval]
            /\ ~(found.at > Len(Interrupts)) =>
                 /\ Interrupts[found.at] \in Listed
                 /\ ~h.ep[Interrupts[found.at]].bfTransferComplete
<1> DEFINE pending == {i \in DOMAIN Interrupts : ~h.ep[Interrupts[i]].bfTransferComplete}
           First == IF pending = {} THEN Len(Interrupts) + 1
                    ELSE CHOOSE i \in pending : \A j \in pending : i <= j
           passed == {Interrupts[i] : i \in 1 .. (First - 1)}
<1>1. /\ FindServiceEndpoint(h).at = First
      /\ FindServiceEndpoint(h).ep =
           [e \in Endpoints |-> IF e \in passed /\ h.ep[e].wIntervalCount = 0
                                THEN [h.ep[e] EXCEPT !.wIntervalCount = Interval] ELSE h.ep[e]]
  BY DEF FindServiceEndpoint
<1>2. DOMAIN Interrupts = 1 .. Len(Interrupts) /\ Len(Interrupts) \in Nat
  BY EndpointsAssumption
<1>3. pending # {} => First \in pending
  <2>1. pending \subseteq Nat
    BY <1>2
  <2> HIDE DEF pending
  <2> QED BY <2>1, Smallest
<1>4. ~(First > Len(Interrupts)) => pending # {}
  BY <1>2
<1> HIDE DEF First, passed
<1>5. ~(First > Len(Interrupts)) =>
        First \in DOMAIN Interrupts /\ ~h.ep[Interrupts[First]].bfTransferComplete
  BY <1>3, <1>4
<1> QED BY <1>1, <1>5 DEF Listed

\* The interval of an endpoint is of no account to its transfer.
LEMMA IntervalMoves ==
  ASSUME NEW e, NEW p, NEW r, NEW d, NEW s, Side(e, p, r, d, s), NEW n
  PROVE  LET q == [p EXCEPT !.wIntervalCount = n]
         IN /\ q.bfTransferComplete = p.bfTransferComplete /\ q.transferState = p.transferState
            /\ Moves(p, q) /\ (Under(e, p) <=> Under(e, q)) /\ (Fails(e, p) <=> Fails(e, q))
            /\ Token(e, q) = Token(e, p)
<1> DEFINE q == [p EXCEPT !.wIntervalCount = n]
<1>1. /\ q.transferState = p.transferState /\ q.bfTransferComplete = p.bfTransferComplete
      /\ q.bfTransferSuccessful = p.bfTransferSuccessful /\ q.bfStalled = p.bfStalled
      /\ q.bfError = p.bfError /\ q.bfNextDATA01 = p.bfNextDATA01 /\ q.countNAKs = p.countNAKs
      /\ q.dataCount = p.dataCount /\ q.dataCountMax = p.dataCountMax
  BY DEF Side, EndpointRecord, Fields
<1> HIDE DEF q
<1>2. Moves(p, q)
  BY <1>1 DEF Moves
<1>3. (Under(e, p) <=> Under(e, q)) /\ (Fails(e, p) <=> Fails(e, q))
  BY <1>1 DEF Under, Fails, GoesOn, HasFailed
<1>4. Token(e, q) = Token(e, p)
  BY <1>1 DEF Token, PacketSize
<1> QED BY <1>1, <1>2, <1>3, <1>4 DEF q

(* What a pass over the list of endpoints and a frame do to the records: intervals only. *)
IntervalsChange(f, g) ==
  /\ g = [e \in Endpoints |-> g[e]]
  /\ \A e \in Endpoints :
       \/ g[e] = f[e]
       \/ \E n \in 0 .. Interval : g[e] = [f[e] EXCEPT !.wIntervalCount = n]

LEMMA IntervalsAreFree ==
  ASSUME NEW h, SidesKnown(h), NEW f, IntervalsChange(h.ep, f), NEW e \in Endpoints
  PROVE  LET r == ResultOf(e, h.flags.TRN)
         IN /\ Side(e, f[e], r, device[e], h.bus.setup) /\ Moves(h.ep[e], f[e])
            /\ f[e].bfTransferComplete = h.ep[e].bfTransferComplete
            /\ f[e].transferState = h.ep[e].transferState
            /\ Under(e, h.ep[e]) <=> Under(e, f[e])
            /\ Fails(e, h.ep[e]) <=> Fails(e, f[e])
            /\ Token(e, f[e]) = Token(e, h.ep[e])
<1> DEFINE r == ResultOf(e, h.flags.TRN)
<1>1. Side(e, h.ep[e], r, device[e], h.bus.setup)
  BY DEF SidesKnown
<1>2. CASE f[e] = h.ep[e]
  BY <1>1, <1>2, StaysMove
<1>3. CASE \E n \in 0 .. Interval : f[e] = [h.ep[e] EXCEPT !.wIntervalCount = n]
  <2>1. PICK n \in 0 .. Interval : f[e] = [h.ep[e] EXCEPT !.wIntervalCount = n]
    BY <1>3
  <2>2. Side(e, f[e], r, device[e], h.bus.setup)
    BY <1>1, <2>1, IntervalKeeps
  <2> HIDE DEF r
  <2> QED BY <1>1, <2>1, <2>2, IntervalMoves DEF r
<1> QED BY <1>2, <1>3 DEF IntervalsChange

LEMMA ServeInterruptKnows ==
  ASSUME NEW h, Known(h), Open(h)
  PROVE  LET c == ServeInterrupt(h)
         IN Known(c) /\ AllMove(h, c)
<1> DEFINE found == FindServiceEndpoint(h)
           f == found.ep
           e == Interrupts[found.at]
           p == h.ep[e]
           Done(t) == [h EXCEPT !.ep = t, !.bus.bfInterruptTransfersDone = TRUE]
           Turn(t, u) == [Done(t) EXCEPT !.bus.current = u]
           Idle(t, u, q) == [Done(t) EXCEPT !.bus.current = u, !.ep[u] = q]
           Serve(t, u) == [h EXCEPT !.bus.current = u, !.ep = t]
           served == [f EXCEPT ![e].wIntervalCount = Interval]
<1>0. /\ Interval \in 0 .. Interval /\ h.bus.current \in Endpoints
      /\ h.flags.TRN = NoResult /\ SidesKnown(h)
  BY SizesAssumption DEF Known, TokenKnown, Open
<1>1. IntervalsChange(h.ep, f)
  BY <1>0, FoundIs DEF IntervalsChange
<1>2. ~(found.at > Len(Interrupts)) => e \in Listed /\ ~p.bfTransferComplete
  BY FoundIs
<1>3. \/ found.at > Len(Interrupts) /\ ServeInterrupt(h) = Done(f)
      \/ /\ ~(found.at > Len(Interrupts))
         /\ p.transferState \notin {INTERRUPT_READ_DATA, INTERRUPT_WRITE_DATA}
         /\ ServeInterrupt(h) = Idle(f, e, Ended(p))
      \/ ~(found.at > Len(Interrupts)) /\ ServeInterrupt(h) = Turn(f, e)
      \/ /\ ~(found.at > Len(Interrupts))
         /\ p.transferState \in {INTERRUPT_READ_DATA, INTERRUPT_WRITE_DATA}
         /\ ServeInterrupt(h) = SendToken(Serve(served, e))
  BY DEF ServeInterrupt
<1> HIDE DEF found, f
\* The fields of each form, and that the lock stays open in it.
<1>4. ASSUME NEW t
      PROVE  /\ Open(Done(t)) /\ Done(t).ep = t /\ Done(t).bus.current = h.bus.current
             /\ Done(t).bus.setup = h.bus.setup /\ Done(t).bus.power = h.bus.power
  <2>1. /\ Shape(Done(t)) /\ Done(t).wire = h.wire /\ Done(t).flags = h.flags
        /\ Done(t).bus.bfTokenAlreadyWritten = h.bus.bfTokenAlreadyWritten
        /\ Done(t).ep = t /\ Done(t).bus.current = h.bus.current
        /\ Done(t).bus.setup = h.bus.setup /\ Done(t).bus.power = h.bus.power
    BY DEF Open, Locked, Shape, BusRecord
  <2> HIDE DEF Done
  <2> QED BY <2>1, KeepsOpen
<1>5. ASSUME NEW t, NEW u
      PROVE  /\ Open(Serve(t, u)) /\ Serve(t, u).ep = t /\ Serve(t, u).bus.current = u
             /\ Serve(t, u).bus.setup = h.bus.setup /\ Serve(t, u).bus.power = h.bus.power
  <2>1. /\ Shape(Serve(t, u)) /\ Serve(t, u).wire = h.wire /\ Serve(t, u).flags = h.flags
        /\ Serve(t, u).bus.bfTokenAlreadyWritten = h.bus.bfTokenAlreadyWritten
        /\ Serve(t, u).ep = t /\ Serve(t, u).bus.current = u
        /\ Serve(t, u).bus.setup = h.bus.setup /\ Serve(t, u).bus.power = h.bus.power
    BY DEF Open, Locked, Shape, BusRecord
  <2> HIDE DEF Serve
  <2> QED BY <2>1, KeepsOpen
<1> HIDE DEF Done
<1>6. ASSUME NEW t, NEW u
      PROVE  /\ Open(Turn(t, u)) /\ Turn(t, u).ep = t /\ Turn(t, u).bus.current = u
             /\ Turn(t, u).bus.setup = h.bus.setup /\ Turn(t, u).bus.power = h.bus.power
  <2> DEFINE d == Done(t)
             g == [d EXCEPT !.bus.current = u]
  <2>1. Open(d) /\ d.ep = t /\ d.bus.setup = h.bus.setup /\ d.bus.power = h.bus.power
    BY <1>4
  <2> HIDE DEF d
  <2>2. /\ Shape(g) /\ g.wire = d.wire /\ g.flags = d.flags
        /\ g.bus.bfTokenAlreadyWritten = d.bus.bfTokenAlreadyWritten
        /\ g.ep = d.ep /\ g.bus.current = u /\ g.bus.setup = d.bus.setup
        /\ g.bus.power = d.bus.power
    BY <2>1 DEF Open, Locked, Shape, BusRecord
  <2>3. g = Turn(t, u)
    BY DEF d
  <2> HIDE DEF g, Turn
  <2> QED BY <2>1, <2>2, <2>3, KeepsOpen
<1>7. ASSUME NEW t, NEW u, NEW q
      PROVE  /\ Open(Idle(t, u, q)) /\ Idle(t, u, q).ep = [t EXCEPT ![u] = q]
             /\ Idle(t, u, q).bus.current = u /\ Idle(t, u, q).bus.setup = h.bus.setup
             /\ Idle(t, u, q).bus.power = h.bus.power
  <2> DEFINE d == Done(t)
             g == [d EXCEPT !.bus.current = u, !.ep[u] = q]
  <2>1. Open(d) /\ d.ep = t /\ d.bus.setup = h.bus.setup /\ d.bus.power = h.bus.power
    BY <1>4
  <2> HIDE DEF d
  <2>2. /\ Shape(g) /\ g.wire = d.wire /\ g.flags = d.flags
        /\ g.bus.bfTokenAlreadyWritten = d.bus.bfTokenAlreadyWritten
        /\ g.ep = [d.ep EXCEPT ![u] = q] /\ g.bus.current = u /\ g.bus.setup = d.bus.setup
        /\ g.bus.power = d.bus.power
    BY <2>1 DEF Open, Locked, Shape, BusRecord
  <2>3. g = Idle(t, u, q)
    BY DEF d
  <2> HIDE DEF g, Idle
  <2> QED BY <2>1, <2>2, <2>3, KeepsOpen
<1> HIDE DEF Turn, Idle, Serve
\* Records that change in their intervals, and one of them perhaps to an ended one.
<1>8. ASSUME NEW g, Open(g), g.bus.setup = h.bus.setup, g.bus.power = h.bus.power,
             g.bus.current \in Endpoints,
             g.ep = [u \in Endpoints |-> g.ep[u]],
             \A u \in Endpoints : /\ Side(u, g.ep[u], NoResult, device[u], h.bus.setup)
                                  /\ Moves(h.ep[u], g.ep[u])
      PROVE  Known(g) /\ AllMove(h, g)
  BY <1>8, OpenIsKnown DEF AllMove
<1>9. /\ f = [u \in Endpoints |-> f[u]]
      /\ \A u \in Endpoints : /\ Side(u, f[u], NoResult, device[u], h.bus.setup)
                              /\ Moves(h.ep[u], f[u])
                              /\ f[u].bfTransferComplete = h.ep[u].bfTransferComplete
                              /\ f[u].transferState = h.ep[u].transferState
  <2>1. \A u : ResultOf(u, h.flags.TRN) = NoResult
    BY <1>0 DEF ResultOf
  <2>2. ASSUME NEW u \in Endpoints
        PROVE  /\ Side(u, f[u], NoResult, device[u], h.bus.setup) /\ Moves(h.ep[u], f[u])
               /\ f[u].bfTransferComplete = h.ep[u].bfTransferComplete
               /\ f[u].transferState = h.ep[u].transferState
    BY <1>0, <1>1, <2>1, IntervalsAreFree
  <2> QED BY <1>1, <2>2 DEF IntervalsChange
<1>10. CASE found.at > Len(Interrupts)
  <2>1. ServeInterrupt(h) = Done(f)
    BY <1>3, <1>10
  <2> QED BY <1>0, <1>4, <1>8, <1>9, <2>1
<1>11. ASSUME ~(found.at > Len(Interrupts)), ServeInterrupt(h) = Turn(f, e)
       PROVE  Known(ServeInterrupt(h)) /\ AllMove(h, ServeInterrupt(h))
  <2>1. e \in Endpoints
    BY <1>2, <1>11 DEF Endpoints
  <2> HIDE DEF e
  <2> QED BY <1>6, <1>8, <1>9, <1>11, <2>1
<1>12. ASSUME ~(found.at > Len(Interrupts)), ServeInterrupt(h) = Idle(f, e, Ended(p)),
              p.transferState \notin {INTERRUPT_READ_DATA, INTERRUPT_WRITE_DATA}
       PROVE  Known(ServeInterrupt(h)) /\ AllMove(h, ServeInterrupt(h))
  <2> DEFINE q == Ended(p)
             g == Idle(f, e, q)
  <2>1. e \in Listed /\ e \in Endpoints /\ e # EP0 /\ ~p.bfTransferComplete
    BY <1>2, <1>12, EndpointsAssumption DEF Endpoints
  <2>2. p.transferState \notin Active(e)
    BY <1>12, <2>1 DEF Active
  <2>3. Side(e, p, NoResult, device[e], h.bus.setup)
    BY <2>1, OpenSides
  <2>4. Side(e, q, NoResult, device[e], h.bus.setup) /\ Moves(p, q)
    BY <2>1, <2>2, <2>3, EndedKeeps DEF Moves
  <2> HIDE DEF q, e
  <2>5. Open(g) /\ g.ep = [f EXCEPT ![e] = q] /\ g.bus.current = e /\ g.bus.setup = h.bus.setup
        /\ g.bus.power = h.bus.power
    BY <1>7
  <2> HIDE DEF g
  <2>6. /\ g.ep = [u \in Endpoints |-> g.ep[u]] /\ g.ep[e] = q
        /\ \A u \in Endpoints \ {e} : g.ep[u] = f[u]
    BY <1>9, <2>1, <2>5
  <2>7. \A u \in Endpoints : /\ Side(u, g.ep[u], NoResult, device[u], h.bus.setup)
                             /\ Moves(h.ep[u], g.ep[u])
    BY <1>9, <2>4, <2>6
  <2>8. Known(g) /\ AllMove(h, g)
    BY <1>8, <2>1, <2>5, <2>6, <2>7
  <2>9. ServeInterrupt(h) = g
    BY <1>12 DEF g, q
  <2> QED BY <2>8, <2>9
<1>13. ASSUME ~(found.at > Len(Interrupts)), ServeInterrupt(h) = SendToken(Serve(served, e)),
              p.transferState \in {INTERRUPT_READ_DATA, INTERRUPT_WRITE_DATA}
       PROVE  Known(ServeInterrupt(h)) /\ AllMove(h, ServeInterrupt(h))
  <2>1. e \in Listed /\ e \in Endpoints /\ e # EP0 /\ ~p.bfTransferComplete
    BY <1>2, <1>13, EndpointsAssumption DEF Endpoints
  <2>2. Side(e, p, NoResult, device[e], h.bus.setup)
    BY <2>1, OpenSides
  <2>3. Under(e, p)
    <3>1. ASSUME NEW x \in {INTERRUPT_READ_DATA, INTERRUPT_WRITE_DATA}
          PROVE  x \notin ErrorStates \cup CompleteStates \cup SetupStates \cup AckStates
      BY ErrorStatesAre DEF CompleteStates, SetupStates, AckStates
    <3>2. Stage(e, p)
      BY <2>2 DEF Side
    <3> HIDE DEF p
    <3> QED BY <1>13, <2>1, <3>1, <3>2 DEF Stage, HasFailed, HasEnded, Under
  <2> DEFINE g == Serve(served, e)
  <2> HIDE DEF e
  <2>4. /\ served = [u \in Endpoints |-> served[u]]
        /\ served[e] = [f[e] EXCEPT !.wIntervalCount = Interval]
        /\ \A u \in Endpoints \ {e} : served[u] = f[u]
    BY <1>9, <2>1
  <2> HIDE DEF served
  <2>5. IntervalsChange(h.ep, served)
    <3>1. f[e] = h.ep[e] \/ \E n \in 0 .. Interval : f[e] = [h.ep[e] EXCEPT !.wIntervalCount = n]
      BY <1>1, <2>1 DEF IntervalsChange
    <3>2. ASSUME NEW n PROVE
            [[h.ep[e] EXCEPT !.wIntervalCount = n] EXCEPT !.wIntervalCount = Interval]
              = [h.ep[e] EXCEPT !.wIntervalCount = Interval]
      BY <2>2 DEF Side, EndpointRecord, Fields
    <3>3. served[e] = [h.ep[e] EXCEPT !.wIntervalCount = Interval]
      BY <2>4, <3>1, <3>2
    <3> QED BY <1>0, <1>1, <2>4, <3>3 DEF IntervalsChange
  <2>6. \A u \in Endpoints : /\ Side(u, served[u], NoResult, device[u], h.bus.setup)
                             /\ Moves(h.ep[u], served[u])
                             /\ Under(u, h.ep[u]) <=> Under(u, served[u])
    <3>1. \A u : ResultOf(u, h.flags.TRN) = NoResult
      BY <1>0 DEF ResultOf
    <3> QED BY <1>0, <2>5, <3>1, IntervalsAreFree
  <2>7. Open(g) /\ g.ep = served /\ g.bus.current = e /\ g.bus.setup = h.bus.setup
        /\ g.bus.power = h.bus.power
    BY <1>5
  <2> HIDE DEF g
  <2>8. Known(g) /\ AllMove(h, g)
    BY <1>8, <2>1, <2>4, <2>6, <2>7
  <2>9. Under(g.bus.current, g.ep[g.bus.current])
    BY <2>1, <2>3, <2>6, <2>7
  <2>10. Known(SendToken(g)) /\ AllMove(h, SendToken(g))
    BY <2>7, <2>8, <2>9, SendTokenKnows DEF AllMove
  <2> QED BY <1>13, <2>10 DEF g
<1> HIDE DEF e, p, served
<1> QED BY <1>3, <1>10, <1>11, <1>12, <1>13

LEMMA FindNextTokenKnows ==
  ASSUME NEW h, Known(h), MayServe(h)
  PROVE  Known(FindNextToken(h)) /\ AllMove(h, FindNextToken(h))
<1> DEFINE c == IF h.bus.bfControlTransfersDone THEN h ELSE ServeControl(h)
<1>0. AllMove(h, h)
  BY StaysMove DEF AllMove
<1>1. CASE h.bus.bfTokenAlreadyWritten
  <2>1. FindNextToken(h) = h
    BY <1>1 DEF FindNextToken
  <2> QED BY <1>0, <2>1
<1>2. CASE ~h.bus.bfTokenAlreadyWritten
  <2>1. Open(h)
    BY <1>2 DEF Open, MayServe, Known
  <2>2. Known(c) /\ AllMove(h, c) /\ (Open(c) \/ c.bus.bfTokenAlreadyWritten)
    BY <1>0, <2>1, ServeControlKnows
  <2>3. FindNextToken(h) = IF c.bus.bfTokenAlreadyWritten \/ c.bus.bfInterruptTransfersDone
                           THEN c ELSE ServeInterrupt(c)
    BY <1>2 DEF FindNextToken
  <2> HIDE DEF c
  <2>4. CASE c.bus.bfTokenAlreadyWritten \/ c.bus.bfInterruptTransfersDone
    BY <2>2, <2>3, <2>4
  <2>5. CASE ~(c.bus.bfTokenAlreadyWritten \/ c.bus.bfInterruptTransfersDone)
    <3>1. Known(ServeInterrupt(c)) /\ AllMove(c, ServeInterrupt(c))
      BY <2>2, <2>5, ServeInterruptKnows
    <3> QED BY <2>2, <2>3, <2>5, <3>1, MovesTwice
  <2> QED BY <2>4, <2>5
<1> QED BY <1>1, <1>2

LEMMA TransferDoneKnows ==
  ASSUME NEW h, Known(h)
  PROVE  Known(TransferDone(h)) /\ AllMove(h, TransferDone(h))
<1> DEFINE e == h.bus.current
           p == h.ep[e]
           r == h.flags.TRN
           q == CASE r.ep # e -> p
                  [] r.ep = e /\ r.pid \in {"ACK", "DATA"} -> AfterData(p, r.size)
                  [] r.ep = e /\ r.pid = "NAK" -> AfterNak(e, p)
                  [] r.ep = e /\ r.pid = "STALL" -> AfterStall(p)
                  [] OTHER -> AfterError(p)
           Over(t) == [h EXCEPT !.bus.bfTokenAlreadyWritten = FALSE,
                                !.flags.TRN = NoResult, !.ep[e] = t]
<1>1. CASE r = NoResult \/ h.flags.UERR
  <2>1. TransferDone(h) = h
    BY <1>1 DEF TransferDone
  <2> QED BY <2>1, StaysMove DEF AllMove
<1>2. CASE ~(r = NoResult \/ h.flags.UERR)
  <2>1. TransferDone(h) = FindNextToken(Over(q))
    BY <1>2 DEF TransferDone
  <2>2. ASSUME NEW t
        PROVE  /\ Open(Over(t)) /\ Over(t).bus.setup = h.bus.setup
               /\ Over(t).bus.power = h.bus.power /\ Over(t).bus.current = e
               /\ Over(t).ep = [h.ep EXCEPT ![e] = t]
    <3>1. Shape(Over(t)) /\ Over(t).bus.setup = h.bus.setup
          /\ Over(t).bus.power = h.bus.power /\ Over(t).bus.current = e
      BY DEF Known, Locked, Shape, BusRecord
    <3>2. /\ Over(t).wire = NoToken /\ ~Over(t).flags.UERR
          /\ Over(t).flags.TRN = NoResult /\ ~Over(t).bus.bfTokenAlreadyWritten
          /\ Over(t).ep = [h.ep EXCEPT ![e] = t]
      BY <1>2 DEF Known, Locked, Shape, BusRecord
    <3> HIDE DEF Over
    <3> QED BY <3>1, <3>2 DEF Open, Locked
  <2>3. /\ e \in Endpoints /\ r.ep = e /\ ResultOf(e, r) = r
        /\ Side(e, p, r, device[e], h.bus.setup)
    BY <1>2 DEF Known, TokenKnown, SidesKnown, ResultOf
  <2>4. r.pid \in Pids /\ Fails(e, p) /\ ~p.bfTransferComplete
    BY <1>2, <2>3 DEF Side, Result, Fails
  <2>5. Side(e, q, NoResult, device[e], h.bus.setup) /\ ~q.bfTransferComplete
    <3> HIDE DEF e, p, r
    <3>1. CASE r.pid \in {"ACK", "DATA"}
      <4>1. q = AfterData(p, r.size)
        BY <2>3, <3>1
      <4>2. Counts(r)
        BY <1>2, <3>1 DEF Counts
      <4> QED BY <2>3, <4>1, <4>2, AfterDataKeeps
    <3>2. CASE r.pid = "NAK"
      <4>1. q = AfterNak(e, p)
        BY <2>3, <3>2
      <4> QED BY <1>2, <2>3, <3>2, <4>1, AfterNakKeeps
    <3>3. CASE r.pid = "STALL"
      <4>1. q = AfterStall(p)
        BY <2>3, <3>3
      <4> QED BY <1>2, <2>3, <3>3, <4>1, AfterStallKeeps
    <3>4. CASE r.pid = "ERROR"
      <4>1. q = AfterError(p)
        BY <2>3, <3>4
      <4> QED BY <1>2, <2>3, <2>4, <3>4, <4>1, AfterErrorKeeps
    <3> QED BY <2>4, <3>1, <3>2, <3>3, <3>4 DEF Pids
  <2>6. h.ep = [u \in Endpoints |-> h.ep[u]]
    BY DEF Known, SidesKnown
  <2>7. \A u \in Endpoints \ {e} : Side(u, h.ep[u], NoResult, device[u], h.bus.setup)
    BY <2>3 DEF Known, SidesKnown, ResultOf
  <2> DEFINE g == Over(q)
  <2>8. Open(g) /\ g.bus.setup = h.bus.setup
        /\ g.bus.power = h.bus.power /\ g.bus.current = e /\ g.ep = [h.ep EXCEPT ![e] = q]
    BY <2>2
  <2> HIDE DEF g, q
  <2>9. /\ g.ep = [u \in Endpoints |-> g.ep[u]] /\ g.ep[e] = q
        /\ \A u \in Endpoints \ {e} : g.ep[u] = h.ep[u]
    BY <2>3, <2>6, <2>8
  <2> HIDE DEF e, p, r
  <2>10. Known(g)
    BY <2>3, <2>5, <2>7, <2>8, <2>9, OpenIsKnown
  <2>11. Moves(p, q)
    BY <2>4, <2>5 DEF Moves
  <2>12. AllMove(h, g)
    BY <2>3, <2>8, <2>9, <2>11, StaysMove DEF AllMove, p
  <2>13. Known(FindNextToken(g)) /\ AllMove(g, FindNextToken(g))
    BY <2>8, <2>10, FindNextTokenKnows DEF Open, MayServe
  <2>14. AllMove(h, FindNextToken(g))
    BY <2>12, <2>13, MovesTwice
  <2> QED BY <2>1, <2>13, <2>14 DEF g
<1> QED BY <1>1, <1>2

LEMMA StartOfFrameKnows ==
  ASSUME NEW h, Known(h), MayServe(h)
  PROVE  Known(StartOfFrame(h)) /\ AllMove(h, StartOfFrame(h))
<1> DEFINE f == [e \in Endpoints |->
                   IF e \in Listed /\ h.ep[e].wIntervalCount # 0
                   THEN [h.ep[e] EXCEPT !.wIntervalCount = @ - 1] ELSE h.ep[e]]
           Begun(t) == [h EXCEPT !.flags.SOF = FALSE,
                                 !.bus.bfControlTransfersDone = FALSE,
                                 !.bus.bfInterruptTransfersDone = FALSE, !.ep = t]
<1>1. CASE ~h.flags.SOF
  <2>1. StartOfFrame(h) = h
    BY <1>1 DEF StartOfFrame
  <2> QED BY <2>1, StaysMove DEF AllMove
<1>2. CASE h.flags.SOF
  <2>1. StartOfFrame(h) = FindNextToken(Begun(f))
    BY <1>2 DEF StartOfFrame
  <2>2. IntervalsChange(h.ep, f)
    <3>1. ASSUME NEW e \in Endpoints
          PROVE  \/ f[e] = h.ep[e]
                 \/ \E n \in 0 .. Interval : f[e] = [h.ep[e] EXCEPT !.wIntervalCount = n]
      <4>1. h.ep[e].wIntervalCount \in 0 .. Interval /\ Interval \in Nat
        BY SizesAssumption DEF Known, SidesKnown, Side, EndpointRecord
      <4>2. h.ep[e].wIntervalCount # 0 => h.ep[e].wIntervalCount - 1 \in 0 .. Interval
        BY <4>1
      <4>3. \/ f[e] = h.ep[e]
            \/ /\ h.ep[e].wIntervalCount # 0
               /\ f[e] = [h.ep[e] EXCEPT !.wIntervalCount = h.ep[e].wIntervalCount - 1]
        OBVIOUS
      <4> HIDE DEF f
      <4> QED BY <4>2, <4>3
    <3> QED BY <3>1 DEF IntervalsChange
  <2> HIDE DEF f
  <2> DEFINE g == Begun(f)
  <2>3. /\ Shape(g) /\ g.wire = h.wire /\ g.bus.current = h.bus.current
        /\ g.bus.bfTokenAlreadyWritten = h.bus.bfTokenAlreadyWritten
        /\ g.bus.setup = h.bus.setup /\ g.bus.power = h.bus.power
    BY DEF Known, Locked, Shape, BusRecord
  <2>4. g.flags.TRN = h.flags.TRN /\ g.flags.UERR = h.flags.UERR /\ g.ep = f
    BY DEF Known, Locked, Shape, BusRecord
  <2> HIDE DEF g
  <2>5. Locked(g) /\ MayServe(g)
    BY <2>3, <2>4 DEF Known, Locked, MayServe
  <2>6. SidesKnown(g) /\ AllMove(h, g)
    <3>1. SidesKnown(h)
      BY DEF Known
    <3>2. ASSUME NEW e \in Endpoints
          PROVE  /\ Side(e, f[e], ResultOf(e, h.flags.TRN), device[e], h.bus.setup)
                 /\ Moves(h.ep[e], f[e])
      BY <2>2, <3>1, IntervalsAreFree
    <3>3. f = [e \in Endpoints |-> f[e]]
      BY <2>2 DEF IntervalsChange
    <3> QED BY <2>3, <2>4, <3>2, <3>3 DEF SidesKnown, AllMove
  <2>7. TokenKnown(g)
    <3> DEFINE e == h.bus.current
    <3>1. SidesKnown(h) /\ e \in Endpoints
      BY DEF Known, TokenKnown
    <3>2. /\ Under(e, h.ep[e]) <=> Under(e, f[e])
          /\ Fails(e, h.ep[e]) <=> Fails(e, f[e])
          /\ Token(e, f[e]) = Token(e, h.ep[e])
      BY <2>2, <3>1, IntervalsAreFree
    <3> QED BY <2>3, <2>4, <3>2 DEF Known, TokenKnown
  <2>8. Known(FindNextToken(g)) /\ AllMove(g, FindNextToken(g))
    BY <2>5, <2>6, <2>7, FindNextTokenKnows DEF Known
  <2> QED BY <2>1, <2>6, <2>8, MovesTwice DEF g
<1> QED BY <1>1, <1>2

LEMMA UsbErrorKnows ==
  ASSUME NEW h, Known(h)
  PROVE  Known(UsbError(h)) /\ AllMove(h, UsbError(h))
<1> DEFINE e == h.bus.current
           p == h.ep[e]
           r == ResultOf(e, h.flags.TRN)
           q == AfterError(p)
           Opened(t) == [h EXCEPT !.flags.UERR = FALSE,
                                  !.bus.bfTokenAlreadyWritten = FALSE, !.ep[e] = t]
<1>1. CASE ~h.flags.UERR
  <2>1. UsbError(h) = h
    BY <1>1 DEF UsbError
  <2> QED BY <2>1, StaysMove DEF AllMove
<1>2. CASE h.flags.UERR
  <2>1. UsbError(h) = Opened(q)
    BY <1>2 DEF UsbError
  <2>2. /\ e \in Endpoints /\ Side(e, p, r, device[e], h.bus.setup) /\ Fails(e, p)
        /\ (r # NoResult => r.pid = "ERROR") /\ ~p.bfTransferComplete /\ h.wire = NoToken
    BY <1>2 DEF Known, TokenKnown, SidesKnown, ResultOf, Fails, Locked
  <2>3. Side(e, q, r, device[e], h.bus.setup) /\ ~q.bfTransferComplete
    <3> HIDE DEF e, p, r
    <3> QED BY <2>2, AfterErrorKeeps
  <2>4. Locked(UsbError(h))
    BY UsbErrorLocks DEF Known
  <2> HIDE DEF q
  <2> DEFINE g == Opened(q)
  <2>5. /\ g.wire = h.wire /\ g.bus.current = e /\ g.bus.setup = h.bus.setup
        /\ g.bus.power = h.bus.power
        /\ g.flags.TRN = h.flags.TRN /\ ~g.flags.UERR /\ g.ep = [h.ep EXCEPT ![e] = q]
    BY DEF Known, Locked, Shape, BusRecord
  <2>6. h.ep = [u \in Endpoints |-> h.ep[u]]
    BY DEF Known, SidesKnown
  <2> HIDE DEF g
  <2>7. /\ g.ep = [u \in Endpoints |-> g.ep[u]] /\ g.ep[e] = q
        /\ \A u \in Endpoints \ {e} : g.ep[u] = h.ep[u]
    BY <2>2, <2>5, <2>6
  <2>8. SidesKnown(g)
    BY <2>3, <2>5, <2>7 DEF Known, SidesKnown
  <2>9. TokenKnown(g)
    BY <2>2, <2>5 DEF Known, TokenKnown
  <2>10. AllMove(h, g)
    <3>1. Moves(p, q)
      BY <2>2, <2>3 DEF Moves
    <3> QED BY <2>5, <2>7, <3>1, StaysMove DEF AllMove
  <2> QED BY <2>1, <2>4, <2>8, <2>9, <2>10 DEF Known, g
<1> QED BY <1>1, <1>2

-------------------------------------------------------------------------------
(* The inductive invariant, as long as no transfer is terminated *)

Sides ==
  /\ ep = [e \in Endpoints |-> ep[e]] /\ device = [e \in Endpoints |-> device[e]]
  /\ \A e \in Endpoints : Side(e, ep[e], ResultOf(e, flags.TRN), device[e], bus.setup)

TokenHeld ==
  LET e == bus.current
  IN /\ e \in Endpoints
     /\ wire # NoToken => Under(e, ep[e]) /\ wire = Token(e, ep[e])
     /\ flags.TRN # NoResult => flags.TRN.ep = e /\ (flags.UERR => flags.TRN.pid = "ERROR")
     /\ flags.UERR => Fails(e, ep[e])

(* A call finds its transfer complete until it sets the flag, and then its parameters are
   those it gave. *)
CallKnown ==
  /\ call.op \in {"none", "start", "ask"}
  /\ call.op = "start" =>
       /\ call = [f \in {"op", "steps", "ep", "state", "size"} |-> call[f]]
       /\ call.steps \in {InitOrder, <<"flag">>}
       /\ call.ep \in Endpoints /\ call.size \in Nat /\ call.state \in Active(call.ep)
       /\ call.ep = EP0 =>
            call.state \in SetupStates /\ (call.state = READ_SETUP <=> bus.setup.reads)
       /\ ep[call.ep].bfTransferComplete
       /\ call.ep # EP0 => ~ep[call.ep].bfStalled /\ ~ep[call.ep].bfError
       /\ call.steps = <<"flag">> =>
            /\ ep[call.ep].transferState = call.state /\ ep[call.ep].countNAKs = 0
            /\ ~ep[call.ep].bfStalled /\ ~ep[call.ep].bfError

(* An endpoint whose halt is being cleared waits for it with DATA0. *)
HaltKnown ==
  /\ bus.setup = [f \in {"reads", "clears"} |-> bus.setup[f]]
  /\ bus.setup.reads \in BOOLEAN /\ bus.setup.clears \in Endpoints
  /\ bus.setup.clears # EP0
     /\ (~ep[EP0].bfTransferComplete \/ (call.op = "start" /\ call.ep = EP0)) =>
       LET p == ep[bus.setup.clears]
       IN p.bfTransferComplete /\ p.bfStalled /\ p.bfNextDATA01 = 0
  /\ bus.power \in {"awake", "suspended", "resuming"}

(* A transfer that was found complete is still. *)
AskKnown ==
  call.op = "ask" =>
    /\ call = [f \in {"op", "steps", "ep", "complete", "error"} |-> call[f]]
    /\ call.ep \in Endpoints /\ call.steps \in {AskOrder, <<"error">>}
    /\ call.steps = <<"error">> /\ call.complete => ep[call.ep].bfTransferComplete

CallsKnown == CallKnown /\ HaltKnown /\ AskKnown
TransferInv == LockHolds /\ Sides /\ TokenHeld /\ CallsKnown

LEMMA InitTransfers == Init => TransferInv
<1> SUFFICES ASSUME Init PROVE TransferInv
  OBVIOUS
<1> DEFINE p == [transferState |-> IDLE, bfTransferComplete |-> TRUE,
                 bfTransferSuccessful |-> FALSE, bfStalled |-> FALSE, bfError |-> FALSE,
                 bfErrorCount |-> 0, bfNextDATA01 |-> 0, countNAKs |-> 0,
                 dataCount |-> 0, dataCountMax |-> 0, wIntervalCount |-> Interval]
           s == Request(FALSE, EP0)
           d == [toggle |-> 0, taken |-> FALSE, halted |-> FALSE, bytes |-> 0,
                 accepted |-> FALSE, request |-> s]
<1>1. ep = [e \in Endpoints |-> p] /\ device = [e \in Endpoints |-> d] /\ EP0 \in Endpoints
  BY DEF Init, Endpoints
<1>2. bus.setup = s /\ bus.current = EP0 /\ bus.power = "awake"
  BY DEF Init
<1>3. wire = NoToken /\ flags.TRN = NoResult /\ ~flags.UERR /\ call.op = "none"
  BY DEF Init, NoCall
<1>4. s = [f \in {"reads", "clears"} |-> s[f]] /\ s.reads = FALSE /\ s.clears = EP0
  BY DEF Request
<1>5. /\ p = [f \in Fields |-> p[f]] /\ p.transferState = 0
      /\ p.bfTransferComplete /\ ~p.bfTransferSuccessful /\ ~p.bfStalled /\ ~p.bfError
      /\ {p.bfTransferComplete, p.bfTransferSuccessful, p.bfStalled, p.bfError} \subseteq BOOLEAN
      /\ p.bfErrorCount = 0 /\ p.bfNextDATA01 = 0 /\ p.countNAKs = 0
      /\ p.dataCount = 0 /\ p.dataCountMax = 0 /\ p.wIntervalCount = Interval
  BY DEF Fields
<1> HIDE DEF s
<1>6. /\ d = [f \in {"toggle", "taken", "halted", "bytes", "accepted", "request"} |-> d[f]]
      /\ d.toggle = 0 /\ ~d.taken /\ ~d.halted /\ d.bytes = 0 /\ ~d.accepted
      /\ {d.taken, d.halted, d.accepted} \subseteq BOOLEAN
  OBVIOUS
<1> HIDE DEF p, d
<1>7. ASSUME NEW e \in Endpoints PROVE Side(e, p, NoResult, d, s)
  <2>1. 0 \notin CompleteStates /\ 0 \in States
    BY StatesAre DEF CompleteStates, READ_DATA, WRITE_DATA
  <2>2. EndpointRecord(p)
    BY <1>5, <2>1, SizesAssumption DEF EndpointRecord, Bit
  <2>3. Stage(e, p) /\ Result(e, p, NoResult, d) /\ DeviceRecord(d)
    BY <1>5, <1>6 DEF Stage, Result, DeviceRecord, Bit
  <2>4. ControlSide(p, NoResult, d, s) /\ ListedSide(p, NoResult, d)
    BY <1>5, <1>6 DEF ControlSide, ListedSide, InStep, Toggle, Counts
  <2> QED BY <2>2, <2>3, <2>4 DEF Side
<1>8. Sides
  BY <1>1, <1>2, <1>3, <1>7 DEF Sides, ResultOf
<1>9. TokenHeld
  BY <1>1, <1>2, <1>3 DEF TokenHeld
<1>10. CallsKnown
  BY <1>1, <1>2, <1>3, <1>4 DEF CallsKnown, CallKnown, HaltKnown, AskKnown
<1> QED BY <1>8, <1>9, <1>10, InitLocks DEF TransferInv

LEMMA HostIsKnown == TransferInv => Known(Host)
<1> SUFFICES ASSUME TransferInv PROVE Known(Host)
  OBVIOUS
<1>1. Locked(Host)
  BY DEF TransferInv, LockHolds, Locked, Shape, Host, OneTokenAtATime
<1>2. SidesKnown(Host) /\ TokenKnown(Host)
  BY DEF TransferInv, Sides, TokenHeld, SidesKnown, TokenKnown, Host
<1> QED BY <1>1, <1>2 DEF Known

\* What the records of the endpoints may do under a call.
LEMMA CallsStayKnown ==
  ASSUME TransferInv, UNCHANGED call, bus'.setup = bus.setup, bus'.power = bus.power,
         \A e \in Endpoints : Moves(ep[e], ep'[e])
  PROVE  CallsKnown'
<1>1. CallKnown'
  <2>1. CallKnown
    BY DEF TransferInv, CallsKnown
  <2> QED BY <2>1 DEF CallKnown, Moves
<1>2. HaltKnown'
  <2>1. HaltKnown /\ EP0 \in Endpoints
    BY DEF TransferInv, CallsKnown, Endpoints
  <2>2. ~ep'[EP0].bfTransferComplete => ~ep[EP0].bfTransferComplete
    BY <2>1 DEF Moves
  <2>3. ASSUME ep[bus.setup.clears].bfTransferComplete
        PROVE  /\ ep'[bus.setup.clears].bfTransferComplete
               /\ ep'[bus.setup.clears].bfStalled = ep[bus.setup.clears].bfStalled
               /\ ep'[bus.setup.clears].bfNextDATA01 = ep[bus.setup.clears].bfNextDATA01
    BY <2>1, <2>3 DEF HaltKnown, Moves
  <2> QED BY <2>1, <2>2, <2>3 DEF HaltKnown
<1>3. AskKnown'
  BY DEF TransferInv, CallsKnown, AskKnown, Moves
<1> QED BY <1>1, <1>2, <1>3 DEF CallsKnown

(* The whole of the interrupt handler: what is complete stays, and what it completes has
   a result. *)
LEMMA InterruptKnows ==
  ASSUME TransferInv, USB1Interrupt
  PROVE  TransferInv' /\ \A e \in Endpoints : Moves(ep[e], ep'[e])
<1> DEFINE t == TransferDone(Host)
           u == StartOfFrame(t)
           g == UsbError(u)
<1>1. Known(t) /\ AllMove(Host, t) /\ MayServe(t)
  BY HostIsKnown, TransferDoneKnows, TransferDoneLocks DEF Known
<1> HIDE DEF t
<1>2. Known(u) /\ AllMove(t, u)
  BY <1>1, StartOfFrameKnows
<1> HIDE DEF u
<1>3. Known(g) /\ AllMove(u, g)
  BY <1>2, UsbErrorKnows
<1>4. AllMove(Host, g)
  BY <1>1, <1>2, <1>3, MovesTwice
<1>5. /\ ep' = g.ep /\ bus' = g.bus /\ wire' = g.wire /\ flags' = g.flags
      /\ UNCHANGED <<call, device>>
  BY DEF USB1Interrupt, SetHost, t, u
<1> HIDE DEF g
<1>6. bus'.setup = bus.setup /\ bus'.power = bus.power /\ \A e \in Endpoints : Moves(ep[e], ep'[e])
  BY <1>4, <1>5 DEF AllMove, Host
<1>7. Sides' /\ TokenHeld'
  BY <1>3, <1>5 DEF TransferInv, Known, SidesKnown, TokenKnown, Sides, TokenHeld
<1>8. LockHolds'
  BY InterruptLocks DEF TransferInv
<1>9. CallsKnown'
  BY <1>5, <1>6, CallsStayKnown
<1> QED BY <1>6, <1>7, <1>8, <1>9 DEF TransferInv

-------------------------------------------------------------------------------
(* What the device does to its side of an endpoint, and the result of the token *)

Ends(e, pid, size) == [ep |-> e, pid |-> pid, size |-> size]

\* No answer, with or without a transfer interrupt, does not count.
LEMMA ErrorIsKnown ==
  ASSUME NEW e, NEW p, NEW d, NEW s, Side(e, p, NoResult, d, s), Under(e, p)
  PROVE  Side(e, p, Ends(e, "ERROR", 0), d, s)
<1> DEFINE r == Ends(e, "ERROR", 0)
<1>1. r \in [ep : {e}, pid : Pids, size : Nat] /\ r.pid = "ERROR"
  BY DEF Ends, Pids
<1> HIDE DEF r
<1>2. Result(e, p, r, d)
  BY <1>1 DEF Result, Fails, Under
<1>3. ~Counts(r) /\ ~Counts(NoResult)
  BY <1>1 DEF Counts
<1>4. /\ e = EP0 => ControlSide(p, r, d, s)
      /\ e # EP0 => ListedSide(p, r, d)
  BY <1>3 DEF Side, ControlSide, ListedSide, InStep, Toggle, Halfway
<1> QED BY <1>2, <1>4 DEF Side, r

LEMMA NakIsKnown ==
  ASSUME NEW e, NEW p, NEW d, NEW s, Side(e, p, NoResult, d, s), Under(e, p)
  PROVE  Side(e, p, Ends(e, "NAK", 0), d, s)
<1> DEFINE r == Ends(e, "NAK", 0)
<1>1. r \in [ep : {e}, pid : Pids, size : Nat] /\ r.pid = "NAK"
  BY DEF Ends, Pids
<1> HIDE DEF r
<1>2. Result(e, p, r, d)
  BY <1>1 DEF Result, Fails, Under
<1>3. ~Counts(r) /\ ~Counts(NoResult)
  BY <1>1 DEF Counts
<1>4. /\ e = EP0 => ControlSide(p, r, d, s)
      /\ e # EP0 => ListedSide(p, r, d)
  BY <1>3 DEF Side, ControlSide, ListedSide, InStep, Toggle, Halfway
<1> QED BY <1>2, <1>4 DEF Side, r

LEMMA StallIsKnown ==
  ASSUME NEW e, NEW p, NEW d, NEW s, Side(e, p, NoResult, d, s), Under(e, p)
  PROVE  Side(e, p, Ends(e, "STALL", 0), [d EXCEPT !.halted = TRUE], s)
<1> DEFINE r == Ends(e, "STALL", 0)
           c == [d EXCEPT !.halted = TRUE]
<1>1. r \in [ep : {e}, pid : Pids, size : Nat] /\ r.pid = "STALL"
  BY DEF Ends, Pids
<1>2. /\ DeviceRecord(c) /\ c.halted /\ c.toggle = d.toggle /\ c.taken = d.taken
      /\ c.bytes = d.bytes /\ c.accepted = d.accepted /\ c.request = d.request
  BY DEF Side, DeviceRecord
<1> HIDE DEF r, c
<1>3. Result(e, p, r, c)
  BY <1>1, <1>2 DEF Result, Fails, Under
<1>4. ~Counts(r) /\ ~Counts(NoResult)
  BY <1>1 DEF Counts
<1>5. /\ e = EP0 => ControlSide(p, r, c, s)
      /\ e # EP0 => ListedSide(p, r, c)
  BY <1>2, <1>4 DEF Side, ControlSide, ListedSide, InStep, Toggle, Halfway
<1> QED BY <1>2, <1>3, <1>5 DEF Side, r, c

LEMMA SetupIsKnown ==
  ASSUME NEW p, NEW d, NEW s, Side(EP0, p, NoResult, d, s), Under(EP0, p),
         p.transferState \in SetupStates
  PROVE  LET c == [toggle |-> 1, taken |-> FALSE, halted |-> FALSE, bytes |-> 0,
                   accepted |-> FALSE, request |-> s]
         IN Side(EP0, p, NoResult, c, s) /\ Side(EP0, p, Ends(EP0, "ACK", 0), c, s)
<1> DEFINE r == Ends(EP0, "ACK", 0)
           c == [toggle |-> 1, taken |-> FALSE, halted |-> FALSE, bytes |-> 0,
                 accepted |-> FALSE, request |-> s]
<1>1. r \in [ep : {EP0}, pid : Pids, size : Nat] /\ r.pid = "ACK" /\ r.size = 0
  BY DEF Ends, Pids
<1>2. DeviceRecord(c) /\ c.toggle = 1 /\ ~c.taken /\ c.bytes = 0 /\ c.request = s
  BY DEF DeviceRecord, Bit
<1> HIDE DEF r, c
<1>3. Result(EP0, p, r, c) /\ Result(EP0, p, NoResult, c)
  BY <1>1 DEF Result, Fails, Under, Side, EndpointRecord
<1>4. /\ p.transferState \notin DataStates \cup AckStates \cup CompleteStates
      /\ ~p.bfTransferComplete /\ ~Counts(NoResult)
  BY DEF SetupStates, DataStates, AckStates, CompleteStates, READ_DATA, WRITE_DATA, Under, Counts
<1>5. ControlSide(p, r, c, s) /\ ControlSide(p, NoResult, c, s)
  BY <1>1, <1>2, <1>4 DEF Side, ControlSide
<1> QED BY <1>2, <1>3, <1>5 DEF Side, r, c

LEMMA StatusIsKnown ==
  ASSUME NEW p, NEW d, NEW s, Side(EP0, p, NoResult, d, s), Under(EP0, p),
         p.transferState \in AckStates, NEW pid \in {"ACK", "DATA"}
  PROVE  LET c == [d EXCEPT !.accepted = TRUE]
         IN Side(EP0, p, NoResult, c, s) /\ Side(EP0, p, Ends(EP0, pid, 0), c, s)
<1> DEFINE r == Ends(EP0, pid, 0)
           c == [d EXCEPT !.accepted = TRUE]
<1>1. r \in [ep : {EP0}, pid : Pids, size : Nat] /\ r.pid = pid /\ r.size = 0
  BY DEF Ends, Pids
<1>2. /\ DeviceRecord(c) /\ c.accepted /\ c.toggle = d.toggle /\ c.taken = d.taken
      /\ c.bytes = d.bytes /\ c.halted = d.halted /\ c.request = d.request
  BY DEF Side, DeviceRecord
<1> HIDE DEF r, c
<1>3. Result(EP0, p, r, c) /\ Result(EP0, p, NoResult, c)
  BY <1>1 DEF Result, Fails, Under, Side, EndpointRecord
<1>4. /\ p.transferState \notin DataStates \cup SetupStates \cup CompleteStates
      /\ ~p.bfTransferComplete /\ ~Counts(NoResult)
  BY DEF SetupStates, DataStates, AckStates, CompleteStates, READ_DATA, WRITE_DATA, Under, Counts
<1>5. ControlSide(p, r, c, s) /\ ControlSide(p, NoResult, c, s)
  BY <1>1, <1>2, <1>4 DEF Side, ControlSide
<1> QED BY <1>2, <1>3, <1>5 DEF Side, r, c

(* A packet of data: the device's side before and after, c, where the toggles tell whether
   it has this packet already.  The result counts n bytes or does not count. *)
LEMMA DataIsKnown ==
  ASSUME NEW e, NEW p, NEW d, NEW s, Side(e, p, NoResult, d, s), Under(e, p),
         ~d.halted, e = EP0 => p.transferState \in DataStates,
         NEW c, DeviceRecord(c), c.halted = d.halted, c.request = d.request,
         NEW n \in Nat, n <= PacketSize(p), NEW pid \in {"ACK", "DATA", "ERROR"},
         LET r == Ends(e, pid, n)
         IN /\ InStep(p, r, c)
            /\ e = EP0 => /\ c.bytes = p.dataCount + Halfway(p, r, c)
                          /\ p.transferState = WRITE_DATA /\ Counts(r) => ~c.taken
  PROVE  Side(e, p, Ends(e, pid, n), c, s)
<1> DEFINE r == Ends(e, pid, n)
<1>1. r \in [ep : {e}, pid : Pids, size : Nat] /\ r.pid = pid /\ r.size = n
  BY DEF Ends, Pids
<1> HIDE DEF r
<1>2. PacketSize(p) \in Nat /\ PacketSize(p) <= p.dataCountMax - p.dataCount
  BY SizesAssumption DEF PacketSize, Side, EndpointRecord
<1>3. Result(e, p, r, c)
  <2>1. p.dataCount \in Nat /\ p.dataCountMax \in Nat /\ Fails(e, p)
    BY DEF Side, EndpointRecord, Fails, Under
  <2>2. p.dataCount + r.size <= p.dataCountMax
    BY <1>1, <1>2, <2>1
  <2> QED BY <1>1, <2>1, <2>2 DEF Result
<1>4. InStep(p, r, c)
  BY DEF r
<1>5. CASE e = EP0
  <2>1. /\ c.bytes = p.dataCount + Halfway(p, r, c)
        /\ p.transferState = WRITE_DATA /\ Counts(r) => ~c.taken
    BY <1>5 DEF r
  <2>2. /\ p.transferState \in DataStates
        /\ p.transferState \notin AckStates \cup SetupStates \cup CompleteStates
        /\ ~p.bfTransferComplete
    BY <1>5 DEF SetupStates, DataStates, AckStates, CompleteStates, READ_DATA, WRITE_DATA, Under
  <2>3. ControlSide(p, r, c, s)
    BY <1>4, <1>5, <2>1, <2>2 DEF Side, ControlSide
  <2> QED BY <1>3, <1>5, <2>3 DEF Side, r
<1>6. CASE e # EP0
  <2>1. ListedSide(p, r, c)
    BY <1>4, <1>6 DEF Side, ListedSide, Under, GoesOn
  <2> QED BY <1>3, <1>6, <2>1 DEF Side, r
<1> QED BY <1>5, <1>6

-------------------------------------------------------------------------------
(* The end of a token *)

LEMMA UnderWay ==
  ASSUME TransferInv, wire # NoToken
  PROVE  /\ wire.ep \in Endpoints /\ wire.ep = bus.current
         /\ Under(wire.ep, ep[wire.ep]) /\ wire = Token(wire.ep, ep[wire.ep])
         /\ flags.TRN = NoResult /\ ~flags.UERR
         /\ \A u \in Endpoints : Side(u, ep[u], NoResult, device[u], bus.setup)
BY DEF TransferInv, LockHolds, OneTokenAtATime, TokenHeld, Sides, ResultOf

\* The others have their sides still; r is what the handler will see of this token.
LEMMA AnswerKeeps ==
  ASSUME TransferInv, Answers, NEW r, flags'.TRN = r,
         r # NoResult => r.ep = wire.ep /\ (flags'.UERR => r.pid = "ERROR"),
         device' = [e \in Endpoints |-> device'[e]],
         Side(wire.ep, ep[wire.ep], r, device'[wire.ep], bus.setup),
         \A u \in Endpoints \ {wire.ep} : Side(u, ep[u], NoResult, device'[u], bus.setup)
  PROVE  TransferInv'
<1>1. wire # NoToken /\ wire' = NoToken /\ UNCHANGED <<ep, bus, call>>
  BY DEF Answers, NotHeard, Setup, StatusStage, DataIn, DataOut, Nak, Stall, Asked,
         EndsWith, EndsInError
<1>2. LockHolds'
  BY AnswersLock DEF TransferInv
<1>3. Sides'
  <2>1. ep = [e \in Endpoints |-> ep[e]]
    BY DEF TransferInv, Sides
  <2>2. ASSUME NEW e \in Endpoints
        PROVE  Side(e, ep[e], ResultOf(e, r), device'[e], bus.setup)
    <3>1. CASE e = wire.ep
      <4>1. ResultOf(e, r) = r
        BY <3>1 DEF ResultOf
      <4> QED BY <3>1, <4>1
    <3>2. CASE e # wire.ep
      <4>1. ResultOf(e, r) = NoResult
        BY <3>2 DEF ResultOf
      <4> QED BY <3>2, <4>1
    <3> QED BY <3>1, <3>2
  <2> QED BY <1>1, <2>1, <2>2 DEF Sides
<1>4. TokenHeld'
  BY <1>1, UnderWay DEF TokenHeld, Fails, Under
<1>5. CallsKnown'
  BY <1>1 DEF TransferInv, CallsKnown, CallKnown, HaltKnown, AskKnown
<1> QED BY <1>2, <1>3, <1>4, <1>5 DEF TransferInv

LEMMA AnsweredWith ==
  ASSUME TransferInv, Answers, NEW pid, NEW n, EndsWith(pid, n), wire # NoToken,
         device' = [e \in Endpoints |-> device'[e]],
         Side(wire.ep, ep[wire.ep], Ends(wire.ep, pid, n), device'[wire.ep], bus.setup),
         \A u \in Endpoints \ {wire.ep} : Side(u, ep[u], NoResult, device'[u], bus.setup)
  PROVE  TransferInv'
<1> DEFINE r == Ends(wire.ep, pid, n)
<1>1. flags'.TRN = r /\ ~flags'.UERR
  BY UnderWay DEF EndsWith, Ends, TransferInv, LockHolds
<1>2. r.ep = wire.ep
  BY DEF Ends
<1> HIDE DEF r
<1>3. Side(wire.ep, ep[wire.ep], r, device'[wire.ep], bus.setup)
  BY DEF r
<1> QED BY <1>1, <1>2, <1>3, AnswerKeeps

LEMMA NotAnswered ==
  ASSUME TransferInv, Answers, EndsInError, wire # NoToken,
         device' = [e \in Endpoints |-> device'[e]],
         Side(wire.ep, ep[wire.ep], NoResult, device'[wire.ep], bus.setup),
         \A u \in Endpoints \ {wire.ep} : Side(u, ep[u], NoResult, device'[u], bus.setup)
  PROVE  TransferInv'
<1> DEFINE r == flags'.TRN
<1>1. r \in {NoResult, Ends(wire.ep, "ERROR", 0)}
  BY DEF EndsInError, Ends, TransferInv, LockHolds
<1>2. /\ Ends(wire.ep, "ERROR", 0).ep = wire.ep
      /\ Ends(wire.ep, "ERROR", 0).pid = "ERROR"
  BY DEF Ends
<1>3. Side(wire.ep, ep[wire.ep], r, device'[wire.ep], bus.setup)
  BY <1>1, ErrorIsKnown, UnderWay
<1> HIDE DEF r
<1>4. r # NoResult => r.ep = wire.ep /\ r.pid = "ERROR"
  BY <1>1, <1>2
<1> QED BY <1>3, <1>4, AnswerKeeps DEF r

LEMMA NotHeardKnows ==
  ASSUME TransferInv, NotHeard
  PROVE  TransferInv'
<1>1. Answers /\ wire # NoToken /\ EndsInError /\ device' = device
  BY DEF Answers, NotHeard
<1>2. device = [e \in Endpoints |-> device[e]]
  BY DEF TransferInv, Sides
<1> QED BY <1>1, <1>2, UnderWay, NotAnswered

LEMMA NakKnows ==
  ASSUME TransferInv, Nak
  PROVE  TransferInv'
<1>1. Answers /\ wire # NoToken /\ EndsWith("NAK", 0) /\ device' = device
  BY DEF Answers, Nak, Asked
<1>2. device = [e \in Endpoints |-> device[e]]
  BY DEF TransferInv, Sides
<1>3. Side(wire.ep, ep[wire.ep], Ends(wire.ep, "NAK", 0), device[wire.ep], bus.setup)
  BY <1>1, UnderWay, NakIsKnown
<1> QED BY <1>1, <1>2, <1>3, UnderWay, AnsweredWith

\* The device's side of one endpoint changes, and of no other.
LEMMA OneSideChanges ==
  ASSUME TransferInv, wire # NoToken, NEW c, device' = [device EXCEPT ![wire.ep] = c]
  PROVE  /\ device' = [e \in Endpoints |-> device'[e]] /\ device'[wire.ep] = c
         /\ \A u \in Endpoints \ {wire.ep} : Side(u, ep[u], NoResult, device'[u], bus.setup)
BY UnderWay DEF TransferInv, Sides

LEMMA StallKnows ==
  ASSUME TransferInv, Stall
  PROVE  TransferInv'
<1> DEFINE c == [device[wire.ep] EXCEPT !.halted = TRUE]
<1>1. /\ Answers /\ wire # NoToken /\ EndsWith("STALL", 0)
      /\ device' = [device EXCEPT ![wire.ep] = c]
  BY DEF Answers, Stall
<1>2. Side(wire.ep, ep[wire.ep], Ends(wire.ep, "STALL", 0), c, bus.setup)
  BY <1>1, UnderWay, StallIsKnown
<1> HIDE DEF c
<1> QED BY <1>1, <1>2, OneSideChanges, AnsweredWith

LEMMA SetupKnows ==
  ASSUME TransferInv, Setup
  PROVE  TransferInv'
<1> DEFINE c == [toggle |-> 1, taken |-> FALSE, halted |-> FALSE, bytes |-> 0,
                 accepted |-> FALSE, request |-> bus.setup]
           p == ep[wire.ep]
<1>1. /\ Answers /\ wire # NoToken /\ wire.pid = "SETUP"
      /\ device' = [device EXCEPT ![EP0] = c] /\ (EndsWith("ACK", 0) \/ EndsInError)
  BY DEF Answers, Setup
<1>2. p.transferState \in SetupStates /\ wire.ep = EP0
  <2>1. wire.pid = TokenOf(p.transferState) /\ GoesOn(wire.ep, p)
    BY <1>1, UnderWay DEF Token, Under
  <2>2. p.transferState \in SetupStates
    BY <1>1, <2>1 DEF TokenOf
  <2> QED BY <2>1, <2>2 DEF GoesOn, Active, SetupStates
<1>3. /\ Side(EP0, p, NoResult, c, bus.setup)
      /\ Side(EP0, p, Ends(EP0, "ACK", 0), c, bus.setup)
  BY <1>1, <1>2, UnderWay, SetupIsKnown
<1> HIDE DEF c
<1>4. /\ device' = [e \in Endpoints |-> device'[e]] /\ device'[wire.ep] = c
      /\ \A u \in Endpoints \ {wire.ep} : Side(u, ep[u], NoResult, device'[u], bus.setup)
  BY <1>1, <1>2, OneSideChanges
<1>5. CASE EndsWith("ACK", 0)
  BY <1>1, <1>2, <1>3, <1>4, <1>5, AnsweredWith
<1>6. CASE EndsInError
  BY <1>1, <1>2, <1>3, <1>4, <1>6, NotAnswered
<1> QED BY <1>1, <1>5, <1>6

\* What the token of a data or status stage tells of the stage.
LEMMA StageOfToken ==
  ASSUME TransferInv, wire # NoToken, wire.pid # "SETUP"
  PROVE  LET now == ep[wire.ep].transferState
         IN /\ IsStatus => wire.ep = EP0 /\ now \in AckStates
            /\ IsStatus => device[EP0].request = bus.setup
            /\ ~IsStatus /\ wire.ep = EP0 => now \in DataStates
            /\ ~IsStatus /\ wire.ep = EP0 /\ wire.pid = "IN" => now = READ_DATA
            /\ ~IsStatus /\ wire.ep = EP0 /\ wire.pid = "OUT" => now = WRITE_DATA
            /\ wire.pid \in {"IN", "OUT"}
            /\ wire.dts = ep[wire.ep].bfNextDATA01 /\ wire.size = PacketSize(ep[wire.ep])
<1> DEFINE now == ep[wire.ep].transferState
<1>1. wire.pid = TokenOf(now) /\ now \in Active(wire.ep) /\ ~ep[wire.ep].bfTransferComplete
  BY UnderWay DEF Token, Under, GoesOn
<1>2. wire.dts = ep[wire.ep].bfNextDATA01 /\ wire.size = PacketSize(ep[wire.ep])
  BY <1>1, UnderWay DEF Token
<1>3. wire.pid = IF now \in InStates THEN "IN" ELSE "OUT"
  BY <1>1 DEF TokenOf
<1>4. now \notin SetupStates
  BY <1>1 DEF TokenOf
<1>5. CASE wire.ep = EP0
  <2>1. /\ now \in ReadStates <=> bus.setup.reads
        /\ device[EP0].request = bus.setup
    BY <1>1, <1>4, <1>5, UnderWay DEF Side, ControlSide
  <2>2. bus.setup.reads \in BOOLEAN
    BY DEF TransferInv, CallsKnown, HaltKnown
  <2>3. now \in AckStates \cup DataStates
    BY <1>1, <1>4, <1>5 DEF Active
  <2>4. /\ now \in ReadStates <=> now \in {READ_DATA, READ_ACK}
        /\ now \in InStates <=> now \in {NO_DATA_ACK, READ_DATA, WRITE_ACK}
        /\ now \in {NO_DATA_ACK, READ_DATA, READ_ACK, WRITE_DATA, WRITE_ACK}
        /\ now \in AckStates <=> now \notin {READ_DATA, WRITE_DATA}
    BY <2>3 DEF AckStates, DataStates, InStates, ReadStates, READ_DATA, WRITE_DATA
  <2>5. IsStatus <=> ((wire.pid = "IN") # bus.setup.reads)
    BY <1>5, <2>1 DEF IsStatus
  <2>6. IsStatus <=> now \in AckStates
    BY <1>3, <2>1, <2>2, <2>4, <2>5 DEF READ_DATA, WRITE_DATA
  <2>7. now \in {READ_DATA, WRITE_DATA} => (now = READ_DATA <=> wire.pid = "IN")
    BY <1>3, <2>4 DEF READ_DATA, WRITE_DATA
  <2> QED BY <1>2, <1>3, <1>5, <2>1, <2>3, <2>6, <2>7 DEF DataStates
<1>6. CASE wire.ep # EP0
  BY <1>2, <1>3, <1>6 DEF IsStatus
<1> QED BY <1>5, <1>6

\* An endpoint whose halt was cleared starts again on both sides.
LEMMA RestartedIsKnown ==
  ASSUME NEW e, NEW p, NEW d, NEW s, Side(e, p, NoResult, d, s), e # EP0,
         p.bfTransferComplete, p.bfNextDATA01 = 0
  PROVE  Side(e, p, NoResult, Restarted(d), s)
<1> DEFINE c == Restarted(d)
<1>1. DeviceRecord(c) /\ c.toggle = 0 /\ ~c.taken
  BY DEF Side, DeviceRecord, Restarted, Bit
<1> HIDE DEF c
<1>2. ListedSide(p, NoResult, c) /\ Result(e, p, NoResult, c)
  BY <1>1 DEF ListedSide, InStep, Toggle, Counts, Result
<1> QED BY <1>1, <1>2 DEF Side, c

LEMMA StatusStageKnows ==
  ASSUME TransferInv, StatusStage
  PROVE  TransferInv'
<1> DEFINE p == ep[EP0]
           d == device[EP0]
           c == [d EXCEPT !.accepted = TRUE]
           h == d.request.clears
           pid == IF wire.pid = "IN" THEN "DATA" ELSE "ACK"
           accepted == [device EXCEPT ![EP0] = c]
<1>1. /\ Answers /\ wire # NoToken /\ wire.pid # "SETUP" /\ IsStatus
      /\ device' = IF h = EP0 THEN accepted ELSE [accepted EXCEPT ![h] = Restarted(@)]
      /\ EndsWith(pid, 0) \/ EndsInError
  BY DEF Answers, StatusStage, Asked
<1>2. wire.ep = EP0 /\ p.transferState \in AckStates /\ h = bus.setup.clears
  BY <1>1, StageOfToken
<1>3. /\ Under(EP0, p) /\ EP0 \in Endpoints
      /\ \A u \in Endpoints : Side(u, ep[u], NoResult, device[u], bus.setup)
  BY <1>1, <1>2, UnderWay
<1>4. pid \in {"ACK", "DATA"}
  OBVIOUS
<1> HIDE DEF pid
<1>5. /\ Side(EP0, p, NoResult, c, bus.setup)
      /\ Side(EP0, p, Ends(EP0, pid, 0), c, bus.setup)
  BY <1>2, <1>3, <1>4, StatusIsKnown
<1>6. device = [e \in Endpoints |-> device[e]] /\ HaltKnown
  BY DEF TransferInv, Sides, CallsKnown
<1> HIDE DEF c
<1>7. /\ device' = [e \in Endpoints |-> device'[e]] /\ device'[EP0] = c
      /\ \A u \in Endpoints \ {EP0} :
           device'[u] = device[u] \/ (u = h /\ device'[u] = Restarted(device[u]))
  <2>1. CASE h = EP0
    BY <1>1, <1>3, <1>6, <2>1
  <2>2. CASE h # EP0
    BY <1>1, <1>2, <1>3, <1>6, <2>2 DEF HaltKnown
  <2> QED BY <2>1, <2>2
<1>8. ASSUME NEW u \in Endpoints \ {EP0}
      PROVE  Side(u, ep[u], NoResult, device'[u], bus.setup)
  <2>1. CASE device'[u] = device[u]
    BY <1>3, <2>1
  <2>2. CASE u = h /\ device'[u] = Restarted(device[u])
    <3>1. ep[u].bfTransferComplete /\ ep[u].bfNextDATA01 = 0
      BY <1>2, <1>3, <1>6, <2>2 DEF HaltKnown, Under
    <3> QED BY <1>3, <2>2, <3>1, RestartedIsKnown
  <2> QED BY <1>7, <2>1, <2>2
<1> HIDE DEF h
<1>9. CASE EndsWith(pid, 0)
  <2>1. Side(wire.ep, ep[wire.ep], Ends(wire.ep, pid, 0), device'[wire.ep], bus.setup)
    BY <1>2, <1>5, <1>7
  <2>2. \A u \in Endpoints \ {wire.ep} : Side(u, ep[u], NoResult, device'[u], bus.setup)
    BY <1>2, <1>8
  <2> QED BY <1>1, <1>7, <1>9, <2>1, <2>2, AnsweredWith
<1>10. CASE EndsInError
  BY <1>1, <1>2, <1>5, <1>7, <1>8, <1>10, NotAnswered
<1> QED BY <1>1, <1>9, <1>10

LEMMA DataInKnows ==
  ASSUME TransferInv, DataIn
  PROVE  TransferInv'
<1> DEFINE e == wire.ep
           p == ep[e]
           d == device[e]
           same == d.toggle = wire.dts
           taken == d.taken \/ same
           Counted(seen, n) == IF ~d.taken /\ (taken \/ seen) THEN CountBytes(d, n) ELSE d
           After(seen, n) ==
             IF seen THEN [Counted(seen, n) EXCEPT !.toggle = 1 - @, !.taken = FALSE]
             ELSE [Counted(seen, n) EXCEPT !.taken = taken]
<1>1. /\ Answers /\ wire # NoToken /\ wire.pid = "IN" /\ ~IsStatus /\ ~d.halted
      /\ \E n \in 0 .. wire.size, seen \in BOOLEAN :
           /\ device' = [device EXCEPT ![e] = After(seen, n)]
           /\ IF same THEN EndsWith("DATA", n) ELSE EndsWith("ERROR", 0)
  BY DEF Answers, DataIn, Asked
<1>2. /\ Under(e, p) /\ Side(e, p, NoResult, d, bus.setup) /\ e \in Endpoints
      /\ wire.dts = p.bfNextDATA01 /\ wire.size = PacketSize(p)
      /\ e = EP0 => p.transferState = READ_DATA
  BY <1>1, UnderWay, StageOfToken
<1>3. PICK n \in 0 .. wire.size :
        \E seen \in BOOLEAN :
          /\ device' = [device EXCEPT ![e] = After(seen, n)]
          /\ IF same THEN EndsWith("DATA", n) ELSE EndsWith("ERROR", 0)
  BY <1>1
<1>4. PICK seen \in BOOLEAN :
          /\ device' = [device EXCEPT ![e] = After(seen, n)]
          /\ IF same THEN EndsWith("DATA", n) ELSE EndsWith("ERROR", 0)
  BY <1>3
<1> DEFINE c == After(seen, n)
           pid == IF same THEN "DATA" ELSE "ERROR"
           m == IF same THEN n ELSE 0
           r == Ends(e, pid, m)
<1>5. /\ DeviceRecord(d) /\ p.bfNextDATA01 \in Bit /\ p.dataCount \in Nat
      /\ PacketSize(p) \in Nat /\ n \in Nat /\ n <= PacketSize(p)
  <2>1. DeviceRecord(d) /\ EndpointRecord(p)
    BY <1>2 DEF Side
  <2>2. PacketSize(p) \in Nat
    BY <2>1, SizesAssumption DEF EndpointRecord, PacketSize
  <2> QED BY <1>2, <1>3, <2>1, <2>2 DEF EndpointRecord
<1>6. /\ d.toggle \in Bit /\ d.taken \in BOOLEAN /\ d.bytes \in Nat
      /\ d = [f \in {"toggle", "taken", "halted", "bytes", "accepted", "request"} |-> d[f]]
  BY <1>5 DEF DeviceRecord
<1>7. (d.toggle # p.bfNextDATA01 <=> d.taken) /\ (e = EP0 => d.bytes = p.dataCount)
  <2>1. InStep(p, NoResult, d)
    BY <1>1, <1>2 DEF Side, ListedSide, ControlSide, Under, GoesOn, DataStates
  <2>2. e = EP0 => d.bytes = p.dataCount + Halfway(p, NoResult, d)
    BY <1>1, <1>2 DEF Side, ControlSide, Under, GoesOn, DataStates
  <2> QED BY <1>2, <1>5, <1>6, <2>1, <2>2
          DEF InStep, Toggle, Counts, Halfway, READ_DATA, WRITE_DATA
<1>8. /\ c = [f \in {"toggle", "taken", "halted", "bytes", "accepted", "request"} |-> c[f]]
      /\ c.halted = d.halted /\ c.accepted = d.accepted /\ c.request = d.request
      /\ c.toggle = IF seen THEN 1 - d.toggle ELSE d.toggle
      /\ c.taken <=> ~seen /\ (d.taken \/ same)
      /\ c.taken \in BOOLEAN
      /\ c.bytes = IF e = EP0 /\ ~d.taken /\ (same \/ seen) THEN d.bytes + n ELSE d.bytes
  BY <1>6 DEF CountBytes
<1>9. same <=> ~d.taken
  BY <1>2, <1>7
<1>10. /\ same => pid = "DATA" /\ m = n
       /\ ~same => pid = "ERROR" /\ m = 0
  OBVIOUS
<1> HIDE DEF c, pid, m, same, d, p
<1>11. pid \in {"ACK", "DATA", "ERROR"} /\ m \in Nat /\ m <= PacketSize(p)
  BY <1>5, <1>10
<1>12. DeviceRecord(c)
  BY <1>5, <1>6, <1>8 DEF DeviceRecord, Bit
<1>13. r # NoResult /\ r.size = m /\ r.pid = pid
  BY <1>2, <1>11, NoResultAssumption DEF Ends
<1> HIDE DEF r
<1>14. (Counts(r) <=> same) /\ r.size = m
  BY <1>10, <1>13 DEF Counts
<1>15. InStep(p, r, c)
  BY <1>2, <1>4, <1>5, <1>6, <1>7, <1>8, <1>9, <1>14 DEF InStep, Toggle, Bit
<1>16. e = EP0 => c.bytes = p.dataCount + Halfway(p, r, c) /\ p.transferState # WRITE_DATA
  BY <1>2, <1>5, <1>6, <1>7, <1>8, <1>9, <1>10, <1>14 DEF Halfway, READ_DATA, WRITE_DATA
<1>17. Side(e, p, Ends(e, pid, m), c, bus.setup)
  BY <1>1, <1>2, <1>8, <1>11, <1>12, <1>15, <1>16, DataIsKnown DEF DataStates, r, d
<1>18. EndsWith(pid, m) /\ device' = [device EXCEPT ![e] = c]
  BY <1>4, <1>10 DEF c
<1> QED BY <1>1, <1>17, <1>18, OneSideChanges, AnsweredWith DEF p

LEMMA DataOutKnows ==
  ASSUME TransferInv, DataOut
  PROVE  TransferInv'
<1> DEFINE e == wire.ep
           p == ep[e]
           d == device[e]
           new == d.toggle = wire.dts
           got == IF new THEN CountBytes([d EXCEPT !.toggle = 1 - @], wire.size) ELSE d
           After(seen) == [got EXCEPT !.taken = ~seen /\ (new \/ d.taken)]
<1>1. /\ Answers /\ wire # NoToken /\ wire.pid = "OUT" /\ ~IsStatus /\ ~d.halted
      /\ \E seen \in BOOLEAN :
           /\ device' = [device EXCEPT ![e] = After(seen)]
           /\ IF seen THEN EndsWith("ACK", wire.size) ELSE EndsInError
  BY DEF Answers, DataOut, Asked
<1>2. /\ Under(e, p) /\ Side(e, p, NoResult, d, bus.setup) /\ e \in Endpoints
      /\ wire.dts = p.bfNextDATA01 /\ wire.size = PacketSize(p)
      /\ e = EP0 => p.transferState = WRITE_DATA
  BY <1>1, UnderWay, StageOfToken
<1>3. PICK seen \in BOOLEAN :
        /\ device' = [device EXCEPT ![e] = After(seen)]
        /\ IF seen THEN EndsWith("ACK", wire.size) ELSE EndsInError
  BY <1>1
<1> DEFINE c == After(seen)
           n == PacketSize(p)
<1>4. DeviceRecord(d) /\ p.bfNextDATA01 \in Bit /\ p.dataCount \in Nat /\ n \in Nat
  BY <1>2, SizesAssumption DEF Side, EndpointRecord, PacketSize
<1>5. /\ d.toggle \in Bit /\ d.taken \in BOOLEAN /\ d.bytes \in Nat
      /\ d = [f \in {"toggle", "taken", "halted", "bytes", "accepted", "request"} |-> d[f]]
  BY <1>4 DEF DeviceRecord
<1>6. /\ d.toggle # p.bfNextDATA01 <=> d.taken
      /\ e = EP0 => d.bytes = p.dataCount + (IF d.taken THEN n ELSE 0)
  <2>1. InStep(p, NoResult, d)
    BY <1>1, <1>2 DEF Side, ListedSide, ControlSide, Under, GoesOn, DataStates
  <2>2. e = EP0 => d.bytes = p.dataCount + Halfway(p, NoResult, d)
    BY <1>1, <1>2 DEF Side, ControlSide, Under, GoesOn, DataStates
  <2> QED BY <1>2, <1>4, <1>5, <2>1, <2>2 DEF InStep, Toggle, Counts, Halfway
<1> HIDE DEF n
<1>7. new <=> ~d.taken
  BY <1>2, <1>6
<1>8. /\ c = [f \in {"toggle", "taken", "halted", "bytes", "accepted", "request"} |-> c[f]]
      /\ c.halted = d.halted /\ c.accepted = d.accepted /\ c.request = d.request
      /\ c.toggle = IF new THEN 1 - d.toggle ELSE d.toggle
      /\ c.taken <=> ~seen /\ (new \/ d.taken)
      /\ c.taken \in BOOLEAN
      /\ c.bytes = IF e = EP0 /\ new THEN d.bytes + n ELSE d.bytes
  BY <1>2, <1>5 DEF CountBytes, n
<1> HIDE DEF c, new, d, p
<1>9. DeviceRecord(c)
  BY <1>4, <1>5, <1>8 DEF DeviceRecord, Bit
<1>10. c.toggle = 1 - p.bfNextDATA01 /\ (c.taken <=> ~seen)
       /\ (e = EP0 => c.bytes = p.dataCount + n)
  BY <1>4, <1>5, <1>6, <1>7, <1>8 DEF Bit
<1>11. CASE seen
  <2> DEFINE r == Ends(e, "ACK", n)
  <2>1. r # NoResult /\ r.size = n /\ r.pid = "ACK"
    BY <1>2, <1>4, NoResultAssumption DEF Ends
  <2> HIDE DEF r
  <2>2. Counts(r) /\ InStep(p, r, c)
    BY <1>4, <1>10, <1>11, <2>1 DEF Counts, InStep, Toggle, Bit
  <2>3. e = EP0 => c.bytes = p.dataCount + Halfway(p, r, c) /\ ~c.taken
    BY <1>10, <1>11, <2>1, <2>2 DEF Halfway
  <2>4. Side(e, p, Ends(e, "ACK", n), c, bus.setup)
    <3>1. n \in Nat /\ n <= PacketSize(p)
      BY <1>4 DEF n
    <3> QED BY <1>1, <1>2, <1>8, <1>9, <2>2, <2>3, <3>1, DataIsKnown DEF DataStates, r, d
  <2>5. EndsWith("ACK", n) /\ device' = [device EXCEPT ![e] = c]
    BY <1>2, <1>3, <1>11 DEF c, n
  <2> QED BY <1>1, <2>4, <2>5, OneSideChanges, AnsweredWith DEF p
<1>12. CASE ~seen
  <2>1. InStep(p, NoResult, c)
    BY <1>4, <1>10, <1>12 DEF InStep, Toggle, Counts, Bit
  <2>2. e = EP0 => c.bytes = p.dataCount + Halfway(p, NoResult, c)
    BY <1>2, <1>10, <1>12 DEF Halfway, Counts, n
  <2>3. Side(e, p, NoResult, c, bus.setup)
    <3>1. CASE e = EP0
      <4>1. /\ p.transferState \in DataStates /\ ~p.bfTransferComplete
            /\ p.transferState \notin AckStates \cup SetupStates \cup CompleteStates
        BY <1>2, <3>1
           DEF SetupStates, DataStates, AckStates, CompleteStates, READ_DATA, WRITE_DATA, Under
      <4>2. ControlSide(p, NoResult, c, bus.setup)
        BY <1>2, <1>8, <2>1, <2>2, <3>1, <4>1 DEF Side, ControlSide, Counts
      <4> QED BY <1>2, <1>9, <3>1, <4>2 DEF Side, Result
    <3>2. CASE e # EP0
      <4>1. ListedSide(p, NoResult, c)
        BY <1>2, <2>1, <3>2 DEF ListedSide, Under, GoesOn
      <4> QED BY <1>2, <1>9, <3>2, <4>1 DEF Side, Result
    <3> QED BY <3>1, <3>2
  <2>4. EndsInError /\ device' = [device EXCEPT ![e] = c]
    BY <1>3, <1>12 DEF c
  <2> QED BY <1>1, <2>3, <2>4, OneSideChanges, NotAnswered DEF p
<1> QED BY <1>3, <1>11, <1>12

LEMMA AnswersKnow ==
  ASSUME TransferInv, Answers
  PROVE  TransferInv' /\ UNCHANGED ep
<1>1. UNCHANGED ep
  BY DEF Answers, NotHeard, Setup, StatusStage, DataIn, DataOut, Nak, Stall, EndsWith, EndsInError
<1> QED BY <1>1, NotHeardKnows, SetupKnows, StatusStageKnows, DataInKnows, DataOutKnows,
           NakKnows, StallKnows DEF Answers

-------------------------------------------------------------------------------
(* The calls *)

\* What a request asks for is read of the request under way only.
LEMMA RequestIsRead ==
  ASSUME NEW e, NEW p, NEW r, NEW d, NEW s, Side(e, p, r, d, s), NEW t,
         e # EP0 \/ p.bfTransferComplete
  PROVE  Side(e, p, r, d, t)
BY DEF Side, ControlSide

\* The record of a complete transfer changes, and what EP0 is to ask for, perhaps.
LEMMA CompleteChanges ==
  ASSUME TransferInv, NEW e \in Endpoints, ep[e].bfTransferComplete,
         NEW q, ep' = [ep EXCEPT ![e] = q], Side(e, q, NoResult, device[e], bus'.setup),
         UNCHANGED <<wire, flags, device>>, bus'.current = bus.current,
         bus'.setup = bus.setup \/ ep[EP0].bfTransferComplete
  PROVE  Sides' /\ TokenHeld'
<1>1. /\ ep = [u \in Endpoints |-> ep[u]] /\ device = [u \in Endpoints |-> device[u]]
      /\ \A u \in Endpoints : Side(u, ep[u], ResultOf(u, flags.TRN), device[u], bus.setup)
  BY DEF TransferInv, Sides
<1>2. ResultOf(e, flags.TRN) = NoResult
  BY <1>1 DEF Side, Result, Fails
<1>3. ASSUME NEW u \in Endpoints
      PROVE  Side(u, ep'[u], ResultOf(u, flags.TRN), device[u], bus'.setup)
  <2>1. CASE u = e
    BY <1>1, <1>2, <2>1
  <2>2. CASE u # e
    <3>1. ep'[u] = ep[u]
      BY <1>1, <2>2
    <3>2. CASE bus'.setup = bus.setup
      BY <1>1, <3>1, <3>2
    <3>3. CASE ep[EP0].bfTransferComplete
      BY <1>1, <3>1, <3>3, RequestIsRead
    <3> QED BY <3>2, <3>3
  <2> QED BY <2>1, <2>2
<1>4. Sides'
  BY <1>1, <1>3 DEF Sides
<1>5. TokenHeld'
  <2>1. TokenHeld
    BY DEF TransferInv
  <2>2. CASE bus.current = e
    BY <1>1, <1>2, <2>1, <2>2 DEF TokenHeld, Under, Fails, ResultOf
  <2>3. CASE bus.current # e
    <3>1. ep'[bus.current] = ep[bus.current]
      BY <1>1, <2>1, <2>3 DEF TokenHeld
    <3> QED BY <2>1, <3>1 DEF TokenHeld
  <2> QED BY <2>2, <2>3
<1> QED BY <1>4, <1>5

LEMMA NothingChanges ==
  ASSUME TransferInv, UNCHANGED <<ep, wire, flags, device>>, bus'.current = bus.current,
         bus'.setup = bus.setup \/ ep[EP0].bfTransferComplete
  PROVE  Sides' /\ TokenHeld'
<1>1. Sides'
  BY RequestIsRead DEF TransferInv, Sides
<1>2. TokenHeld'
  BY DEF TransferInv, TokenHeld
<1> QED BY <1>1, <1>2

LEMMA Orders ==
  /\ Head(InitOrder) = "parameters" /\ Len(InitOrder) = 2 /\ Tail(InitOrder) = <<"flag">>
  /\ Head(<<"flag">>) = "flag" /\ Len(<<"flag">>) = 1 /\ InitOrder # <<"flag">>
  /\ Head(AskOrder) = "complete" /\ Tail(AskOrder) = <<"error">> /\ AskOrder # <<"error">>
  /\ Head(<<"error">>) = "error" /\ Tail(<<"error">>) = <<>> /\ <<"error">> # <<>>
BY DEF InitOrder, AskOrder

LEMMA BeginIs ==
  ASSUME NEW e, NEW state, NEW size, Begin(e, state, size)
  PROVE  /\ call' = [f \in {"op", "steps", "ep", "state", "size"} |-> call'[f]]
         /\ call'.op = "start" /\ call'.steps = InitOrder /\ call'.ep = e
         /\ call'.state = state /\ call'.size = size
BY DEF Begin

LEMMA IssueDeviceRequestKnows ==
  ASSUME TransferInv, NEW reads \in BOOLEAN, NEW n \in Nat, IssueDeviceRequest(reads, n)
  PROVE  TransferInv'
<1> DEFINE s == Request(reads, EP0)
           state == IF reads THEN READ_SETUP ELSE IF n = 0 THEN NO_DATA_SETUP ELSE WRITE_SETUP
<1>1. /\ ep[EP0].bfTransferComplete /\ UNCHANGED <<ep, wire, flags, device>>
      /\ bus' = [bus EXCEPT !.setup = s] /\ Begin(EP0, state, n) /\ EP0 \in Endpoints
  BY DEF IssueDeviceRequest, Endpoints
<1>2. /\ s = [f \in {"reads", "clears"} |-> s[f]] /\ s.reads = reads /\ s.clears = EP0
  BY DEF Request
<1>3. state \in SetupStates /\ (state = READ_SETUP <=> reads) /\ SetupStates \subseteq Active(EP0)
  BY DEF SetupStates, Active
<1> HIDE DEF s, state
<1>4. bus'.setup = s /\ bus'.current = bus.current /\ bus'.power = bus.power /\ BusRecord(bus')
      /\ bus'.bfTokenAlreadyWritten = bus.bfTokenAlreadyWritten
  BY <1>1 DEF TransferInv, LockHolds, BusRecord
<1>5. LockHolds'
  BY <1>1, <1>4 DEF TransferInv, LockHolds, OneTokenAtATime
<1>6. CallKnown'
  BY <1>1, <1>2, <1>3, <1>4, BeginIs, Orders DEF CallKnown
<1>7. HaltKnown' /\ AskKnown'
  BY <1>1, <1>2, <1>4, BeginIs DEF TransferInv, CallsKnown, HaltKnown, AskKnown
<1> QED BY <1>1, <1>4, <1>5, <1>6, <1>7, NothingChanges DEF TransferInv, CallsKnown

LEMMA ClearHaltKnows ==
  ASSUME TransferInv, NEW e \in Listed, ClearHalt(e)
  PROVE  TransferInv'
<1> DEFINE s == Request(FALSE, e)
           p == ep[e]
           q == [p EXCEPT !.bfNextDATA01 = 0]
<1>1. /\ ep[EP0].bfTransferComplete /\ p.bfTransferComplete /\ p.bfStalled
      /\ ep' = [ep EXCEPT ![e] = q] /\ UNCHANGED <<wire, flags, device>>
      /\ bus' = [bus EXCEPT !.setup = s] /\ Begin(EP0, NO_DATA_SETUP, 0)
      /\ EP0 \in Endpoints /\ e \in Endpoints /\ e # EP0
  BY EndpointsAssumption DEF ClearHalt, Endpoints
<1>2. /\ s = [f \in {"reads", "clears"} |-> s[f]] /\ ~s.reads /\ s.reads \in BOOLEAN /\ s.clears = e
  BY DEF Request
<1>3. NO_DATA_SETUP \in SetupStates /\ SetupStates \subseteq Active(EP0)
  BY DEF SetupStates, Active
<1> HIDE DEF s
<1>4. bus'.setup = s /\ bus'.current = bus.current /\ bus'.power = bus.power /\ BusRecord(bus')
      /\ bus'.bfTokenAlreadyWritten = bus.bfTokenAlreadyWritten
  BY <1>1 DEF TransferInv, LockHolds, BusRecord
<1>5. LockHolds'
  BY <1>1, <1>4 DEF TransferInv, LockHolds, OneTokenAtATime
<1>6. Side(e, p, NoResult, device[e], s)
  <2>1. Side(e, p, ResultOf(e, flags.TRN), device[e], bus.setup)
    BY <1>1 DEF TransferInv, Sides
  <2>2. ResultOf(e, flags.TRN) = NoResult
    BY <1>1, <2>1 DEF Side, Result, Fails
  <2> QED BY <1>1, <2>1, <2>2, RequestIsRead
<1>7. /\ q = [f \in Fields |-> q[f]] /\ q.transferState = p.transferState
      /\ q.bfTransferComplete = p.bfTransferComplete
      /\ q.bfTransferSuccessful = p.bfTransferSuccessful /\ q.bfStalled = p.bfStalled
      /\ q.bfError = p.bfError /\ q.bfErrorCount = p.bfErrorCount
      /\ q.bfNextDATA01 = 0 /\ q.countNAKs = p.countNAKs
      /\ q.dataCount = p.dataCount /\ q.dataCountMax = p.dataCountMax
      /\ q.wIntervalCount = p.wIntervalCount
  BY <1>6 DEF Side, EndpointRecord, Fields
<1> HIDE DEF q, p
<1>8. Side(e, q, NoResult, device[e], s)
  <2>1. EndpointRecord(q) /\ Stage(e, q) /\ Result(e, q, NoResult, device[e])
    BY <1>1, <1>6, <1>7 DEF Side, EndpointRecord, Stage, Result, Bit
  <2>2. ListedSide(q, NoResult, device[e])
    BY <1>1, <1>6, <1>7 DEF Side, ListedSide, InStep, Toggle, Counts, DeviceRecord
  <2> QED BY <1>1, <1>6, <2>1, <2>2 DEF Side
<1>9. ep'[e] = q /\ ep'[EP0] = ep[EP0]
  BY <1>1 DEF TransferInv, Sides
<1>10. CallKnown'
  BY <1>1, <1>2, <1>3, <1>4, <1>9, BeginIs, Orders DEF CallKnown
<1>11. HaltKnown' /\ AskKnown'
  <2>1. AskKnown'
    BY <1>1, BeginIs DEF AskKnown
  <2>2. q.bfTransferComplete /\ q.bfStalled /\ q.bfNextDATA01 = 0
    BY <1>1, <1>7 DEF p
  <2>3. HaltKnown
    BY DEF TransferInv, CallsKnown
  <2> QED BY <1>1, <1>2, <1>4, <1>9, <2>1, <2>2, <2>3 DEF HaltKnown
<1>12. Sides' /\ TokenHeld'
  BY <1>1, <1>4, <1>8, CompleteChanges DEF p
<1> QED BY <1>5, <1>10, <1>11, <1>12 DEF TransferInv, CallsKnown

LEMMA TransferKnows ==
  ASSUME TransferInv, NEW e \in Listed, NEW n \in Nat, Transfer(e, n)
  PROVE  TransferInv'
<1> DEFINE state == IF e \in Ins THEN INTERRUPT_READ_DATA ELSE INTERRUPT_WRITE_DATA
<1>1. /\ ~ep[e].bfStalled /\ ~ep[e].bfError /\ ep[e].bfTransferComplete
      /\ Begin(e, state, n) /\ UNCHANGED <<ep, bus, wire, flags, device>>
      /\ call.op = "none" /\ e \in Endpoints /\ e # EP0 /\ state \in Active(e)
  BY EndpointsAssumption DEF Transfer, MayCall, Endpoints, Active
<1> HIDE DEF state
<1>2. CallKnown'
  BY <1>1, BeginIs, Orders DEF CallKnown
<1>3. HaltKnown' /\ AskKnown'
  BY <1>1, BeginIs DEF TransferInv, CallsKnown, HaltKnown, AskKnown
<1>4. LockHolds'
  BY <1>1 DEF TransferInv, LockHolds, OneTokenAtATime, BusRecord
<1> QED BY <1>1, <1>2, <1>3, <1>4, NothingChanges DEF TransferInv, CallsKnown

LEMMA AskKnows ==
  ASSUME TransferInv, NEW e \in Endpoints, Ask(e)
  PROVE  TransferInv'
<1>1. /\ call.op = "none" /\ UNCHANGED <<ep, bus, wire, flags, device>>
      /\ call' = [op |-> "ask", steps |-> AskOrder, ep |-> e,
                  complete |-> FALSE, error |-> "unresolved"]
  BY DEF Ask, MayCall
<1>2. /\ call' = [f \in {"op", "steps", "ep", "complete", "error"} |-> call'[f]]
      /\ call'.op = "ask" /\ call'.steps = AskOrder /\ call'.ep = e /\ ~call'.complete
  BY <1>1
<1>3. CallKnown' /\ HaltKnown' /\ AskKnown'
  BY <1>1, <1>2 DEF TransferInv, CallsKnown, CallKnown, HaltKnown, AskKnown
<1>4. LockHolds'
  BY <1>1 DEF TransferInv, LockHolds, OneTokenAtATime, BusRecord
<1> QED BY <1>1, <1>3, <1>4, NothingChanges DEF TransferInv, CallsKnown

LEMMA TransferIsCompleteKnows ==
  ASSUME TransferInv, TransferIsComplete
  PROVE  TransferInv' /\ UNCHANGED ep
<1>1. /\ call.op = "ask" /\ UNCHANGED <<ep, bus, wire, flags, device>>
      /\ call' = IF Answer.steps = <<>> THEN NoCall ELSE Answer
  BY DEF TransferIsComplete
<1>2. /\ call = [f \in {"op", "steps", "ep", "complete", "error"} |-> call[f]]
      /\ call.ep \in Endpoints /\ call.steps \in {AskOrder, <<"error">>}
  BY <1>1 DEF TransferInv, CallsKnown, AskKnown
<1>3. CASE call.steps = AskOrder
  <2>1. Answer = [call EXCEPT !.complete = ep[call.ep].bfTransferComplete, !.steps = <<"error">>]
    BY <1>2, <1>3, Orders DEF Answer
  <2>2. /\ call' = [f \in {"op", "steps", "ep", "complete", "error"} |-> call'[f]]
        /\ call'.op = "ask" /\ call'.steps = <<"error">> /\ call'.ep = call.ep
        /\ call'.complete = ep[call.ep].bfTransferComplete
    BY <1>1, <1>2, <2>1, Orders
  <2>3. CallKnown' /\ HaltKnown' /\ AskKnown'
    BY <1>1, <1>2, <2>2 DEF TransferInv, CallsKnown, CallKnown, HaltKnown, AskKnown
  <2>4. LockHolds'
    BY <1>1 DEF TransferInv, LockHolds, OneTokenAtATime, BusRecord
  <2> QED BY <1>1, <2>3, <2>4, NothingChanges DEF TransferInv, CallsKnown
<1>4. CASE call.steps = <<"error">>
  <2>1. Answer.steps = <<>>
    BY <1>2, <1>4, Orders DEF Answer
  <2>2. call'.op = "none"
    BY <1>1, <2>1 DEF NoCall
  <2>3. CallKnown' /\ HaltKnown' /\ AskKnown'
    BY <1>1, <2>2 DEF TransferInv, CallsKnown, CallKnown, HaltKnown, AskKnown
  <2>4. LockHolds'
    BY <1>1 DEF TransferInv, LockHolds, OneTokenAtATime, BusRecord
  <2> QED BY <1>1, <2>3, <2>4, NothingChanges DEF TransferInv, CallsKnown
<1> QED BY <1>1, <1>2, <1>3, <1>4

LEMMA CompleteHasNoResult ==
  ASSUME TransferInv, NEW e \in Endpoints, ep[e].bfTransferComplete
  PROVE  /\ Side(e, ep[e], NoResult, device[e], bus.setup)
         /\ ep = [u \in Endpoints |-> ep[u]]
<1>1. /\ Side(e, ep[e], ResultOf(e, flags.TRN), device[e], bus.setup)
      /\ ep = [u \in Endpoints |-> ep[u]]
  BY DEF TransferInv, Sides
<1>2. ResultOf(e, flags.TRN) = NoResult
  BY <1>1 DEF Side, Result, Fails
<1> QED BY <1>1, <1>2

\* The parameters of a transfer, and then its flag.
LEMMA ParametersKnow ==
  ASSUME TransferInv, InitTransfer, call.steps = InitOrder
  PROVE  TransferInv'
<1> DEFINE e == call.ep
           p == ep[e]
           q == Parameters(p)
<1>1. /\ call.op = "start" /\ ep' = [ep EXCEPT ![e] = q]
      /\ call' = [call EXCEPT !.steps = <<"flag">>] /\ UNCHANGED <<bus, wire, flags, device>>
  <2>1. /\ Head(call.steps) # "flag" /\ Len(call.steps) # 1
        /\ Tail(call.steps) = <<"flag">>
    BY Orders
  <2>2. [ep EXCEPT ![e] = IF Head(call.steps) = "flag" THEN [@ EXCEPT !.bfTransferComplete = FALSE]
                          ELSE Parameters(@)]
          = [ep EXCEPT ![e] = q]
    BY <2>1
  <2> QED BY <2>1, <2>2 DEF InitTransfer
<1>2. /\ call = [f \in {"op", "steps", "ep", "state", "size"} |-> call[f]]
      /\ e \in Endpoints /\ call.size \in Nat /\ call.state \in Active(e)
      /\ p.bfTransferComplete /\ (e # EP0 => ~p.bfStalled /\ ~p.bfError)
      /\ e = EP0 => call.state \in SetupStates /\ (call.state = READ_SETUP <=> bus.setup.reads)
  BY <1>1 DEF TransferInv, CallsKnown, CallKnown
<1>3. /\ call' = [f \in {"op", "steps", "ep", "state", "size"} |-> call'[f]]
      /\ call'.op = "start" /\ call'.steps = <<"flag">> /\ call'.ep = e
      /\ call'.state = call.state /\ call'.size = call.size
  BY <1>1, <1>2
<1>4. Side(e, p, NoResult, device[e], bus.setup) /\ ep = [u \in Endpoints |-> ep[u]]
  BY <1>2, CompleteHasNoResult
<1>5. /\ q = [f \in Fields |-> q[f]] /\ q.transferState = call.state
      /\ q.bfTransferComplete = p.bfTransferComplete
      /\ ~q.bfTransferSuccessful /\ q.bfTransferSuccessful \in BOOLEAN
      /\ q.bfErrorCount = 0 /\ q.countNAKs = 0 /\ q.dataCount = 0 /\ q.dataCountMax = call.size
      /\ q.bfNextDATA01 = p.bfNextDATA01 /\ q.wIntervalCount = p.wIntervalCount
  BY <1>4 DEF Side, EndpointRecord, Fields, Parameters
<1>6. /\ q.bfStalled <=> p.bfStalled /\ e # EP0
      /\ q.bfError <=> p.bfError /\ e # EP0
      /\ q.bfStalled \in BOOLEAN /\ q.bfError \in BOOLEAN
  BY <1>4 DEF Side, EndpointRecord, Fields, Parameters
<1> HIDE DEF q, p
<1>7. call.state \in States
  BY <1>2, StateSteps, StatesAre
<1>8. Side(e, q, NoResult, device[e], bus.setup)
  <2>1. EndpointRecord(q) /\ Stage(e, q) /\ Result(e, q, NoResult, device[e])
    <3>1. EndpointRecord(p)
      BY <1>4 DEF Side
    <3>2. /\ q.transferState \in States /\ q.countNAKs \in 0 .. ControlNaks + 1
          /\ q.bfErrorCount \in 0 .. 31 /\ q.dataCount <= q.dataCountMax
      BY <1>2, <1>5, <1>7, SizesAssumption
    <3>3. /\ q.wIntervalCount \in 0 .. Interval /\ q.bfNextDATA01 \in Bit
          /\ q.bfTransferComplete \in BOOLEAN
      BY <1>5, <3>1 DEF EndpointRecord
    <3>4. EndpointRecord(q)
      BY <1>2, <1>5, <1>6, <3>2, <3>3 DEF EndpointRecord
    <3> QED BY <1>2, <1>5, <3>4 DEF Stage, Result
  <2>2. e = EP0 => ControlSide(q, NoResult, device[e], bus.setup)
    BY <1>2, <1>5 DEF ControlSide
  <2>3. e # EP0 => ListedSide(q, NoResult, device[e])
    BY <1>4, <1>5, <1>6 DEF Side, ListedSide, InStep, Toggle, Counts
  <2> QED BY <1>4, <2>1, <2>2, <2>3 DEF Side
<1>9. Sides' /\ TokenHeld'
  BY <1>1, <1>2, <1>8, CompleteChanges DEF p
<1>10. LockHolds'
  BY <1>1 DEF TransferInv, LockHolds, OneTokenAtATime, BusRecord
<1>11. ep'[e] = q /\ \A u \in Endpoints \ {e} : ep'[u] = ep[u]
  BY <1>1, <1>2, <1>4
<1>12. CallKnown'
  <2>1. /\ q.bfTransferComplete /\ q.transferState = call.state /\ q.countNAKs = 0
        /\ ~q.bfStalled /\ ~q.bfError
    BY <1>2, <1>5, <1>6
  <2> QED BY <1>1, <1>2, <1>3, <1>11, <2>1 DEF CallKnown
<1>13. HaltKnown'
  <2>1. HaltKnown /\ EP0 \in Endpoints
    BY DEF TransferInv, CallsKnown, Endpoints
  <2>2. ep'[EP0].bfTransferComplete = ep[EP0].bfTransferComplete
    BY <1>5, <1>11, <2>1 DEF p
  <2>3. bus.setup.clears # EP0 /\ (~ep[EP0].bfTransferComplete \/ e = EP0)
          => ep'[bus.setup.clears] = ep[bus.setup.clears]
    BY <1>1, <1>2, <1>11, <2>1 DEF HaltKnown, p
  <2> QED BY <1>1, <1>3, <2>1, <2>2, <2>3 DEF HaltKnown
<1>14. AskKnown'
  BY <1>3 DEF AskKnown
<1> QED BY <1>9, <1>10, <1>12, <1>13, <1>14 DEF TransferInv, CallsKnown

LEMMA FlagKnows ==
  ASSUME TransferInv, InitTransfer, call.steps = <<"flag">>
  PROVE  TransferInv'
<1> DEFINE e == call.ep
           p == ep[e]
           q == [p EXCEPT !.bfTransferComplete = FALSE]
<1>1. /\ call.op = "start" /\ ep' = [ep EXCEPT ![e] = q]
      /\ call' = NoCall /\ UNCHANGED <<bus, wire, flags, device>>
  BY Orders DEF InitTransfer
<1>2. /\ e \in Endpoints /\ call.state \in Active(e)
      /\ p.bfTransferComplete /\ p.transferState = call.state /\ p.countNAKs = 0
      /\ ~p.bfStalled /\ ~p.bfError
      /\ e = EP0 => call.state \in SetupStates /\ (call.state = READ_SETUP <=> bus.setup.reads)
  BY <1>1 DEF TransferInv, CallsKnown, CallKnown
<1>3. call'.op = "none"
  BY <1>1 DEF NoCall
<1>4. Side(e, p, NoResult, device[e], bus.setup) /\ ep = [u \in Endpoints |-> ep[u]]
  BY <1>2, CompleteHasNoResult
<1>5. /\ q = [f \in Fields |-> q[f]] /\ q.transferState = p.transferState
      /\ ~q.bfTransferComplete /\ q.bfTransferComplete \in BOOLEAN
      /\ q.bfTransferSuccessful = p.bfTransferSuccessful /\ q.bfStalled = p.bfStalled
      /\ q.bfError = p.bfError /\ q.bfErrorCount = p.bfErrorCount
      /\ q.bfNextDATA01 = p.bfNextDATA01 /\ q.countNAKs = p.countNAKs
      /\ q.dataCount = p.dataCount /\ q.dataCountMax = p.dataCountMax
      /\ q.wIntervalCount = p.wIntervalCount
  BY <1>4 DEF Side, EndpointRecord, Fields
<1> HIDE DEF q, p
<1>6. Side(e, q, NoResult, device[e], bus.setup)
  <2>1. EndpointRecord(q) /\ GoesOn(e, q) /\ Stage(e, q) /\ Result(e, q, NoResult, device[e])
    BY <1>2, <1>4, <1>5, SizesAssumption DEF Side, EndpointRecord, GoesOn, Stage, Result
  <2>2. ASSUME e = EP0 PROVE ControlSide(q, NoResult, device[e], bus.setup)
    <3>1. /\ q.transferState \in SetupStates
          /\ q.transferState \notin DataStates \cup AckStates \cup CompleteStates
          /\ (q.transferState \in ReadStates <=> bus.setup.reads)
      BY <1>2, <1>5, <2>2 DEF SetupStates, DataStates, AckStates, CompleteStates, ReadStates,
         READ_DATA, WRITE_DATA
    <3> QED BY <1>5, <3>1 DEF ControlSide, Counts
  <2>3. e # EP0 => ListedSide(q, NoResult, device[e])
    BY <1>4, <1>5 DEF Side, ListedSide, InStep, Toggle, Counts
  <2> QED BY <1>4, <2>1, <2>2, <2>3 DEF Side
<1>7. Sides' /\ TokenHeld'
  BY <1>1, <1>2, <1>6, CompleteChanges DEF p
<1>8. LockHolds'
  BY <1>1 DEF TransferInv, LockHolds, OneTokenAtATime, BusRecord
<1>9. ep'[e] = q /\ \A u \in Endpoints \ {e} : ep'[u] = ep[u]
  BY <1>1, <1>2, <1>4
<1>10. HaltKnown'
  <2>1. HaltKnown /\ EP0 \in Endpoints
    BY DEF TransferInv, CallsKnown, Endpoints
  <2>2. bus.setup.clears # EP0 /\ ~ep'[EP0].bfTransferComplete
          => ep'[bus.setup.clears] = ep[bus.setup.clears]
             /\ (~ep[EP0].bfTransferComplete \/ e = EP0)
    BY <1>1, <1>2, <1>9, <2>1 DEF HaltKnown, p
  <2> QED BY <1>1, <1>3, <2>1, <2>2 DEF HaltKnown
<1>11. CallKnown' /\ AskKnown'
  BY <1>3 DEF AskKnown, CallKnown
<1> QED BY <1>7, <1>8, <1>10, <1>11 DEF TransferInv, CallsKnown

LEMMA ClearEndpointErrorsKnows ==
  ASSUME TransferInv, NEW e \in Listed, ClearEndpointErrors(e)
  PROVE  TransferInv'
<1> DEFINE p == ep[e]
           q == [p EXCEPT !.bfStalled = FALSE, !.bfError = FALSE]
<1>1. /\ call.op = "none" /\ p.bfTransferComplete /\ ep[EP0].bfTransferComplete
      /\ ep' = [ep EXCEPT ![e].bfStalled = FALSE, ![e].bfError = FALSE]
      /\ UNCHANGED <<bus, wire, flags, call, device>>
      /\ EP0 \in Endpoints /\ e \in Endpoints /\ e # EP0
  BY EndpointsAssumption DEF ClearEndpointErrors, MayCall, Endpoints
<1>2. Side(e, p, NoResult, device[e], bus.setup) /\ ep = [u \in Endpoints |-> ep[u]]
  BY <1>1, CompleteHasNoResult
<1>3. ep' = [ep EXCEPT ![e] = q]
  BY <1>1, <1>2
<1>4. /\ q = [f \in Fields |-> q[f]] /\ q.transferState = p.transferState
      /\ q.bfTransferComplete = p.bfTransferComplete
      /\ q.bfTransferSuccessful = p.bfTransferSuccessful
      /\ ~q.bfStalled /\ ~q.bfError /\ q.bfStalled \in BOOLEAN /\ q.bfError \in BOOLEAN
      /\ q.bfErrorCount = p.bfErrorCount
      /\ q.bfNextDATA01 = p.bfNextDATA01 /\ q.countNAKs = p.countNAKs
      /\ q.dataCount = p.dataCount /\ q.dataCountMax = p.dataCountMax
      /\ q.wIntervalCount = p.wIntervalCount
  BY <1>2 DEF Side, EndpointRecord, Fields
<1> HIDE DEF q, p
<1>5. Side(e, q, NoResult, device[e], bus.setup)
  <2>1. EndpointRecord(q) /\ Stage(e, q) /\ Result(e, q, NoResult, device[e])
    BY <1>1, <1>2, <1>4 DEF Side, EndpointRecord, Stage, Result
  <2>2. ListedSide(q, NoResult, device[e])
    BY <1>1, <1>2, <1>4 DEF Side, ListedSide, InStep, Toggle, Counts
  <2> QED BY <1>1, <1>2, <2>1, <2>2 DEF Side
<1>6. Sides' /\ TokenHeld'
  BY <1>1, <1>3, <1>5, CompleteChanges DEF p
<1>7. LockHolds'
  BY <1>1 DEF TransferInv, LockHolds, OneTokenAtATime, BusRecord
<1>8. CallKnown' /\ AskKnown'
  BY <1>1 DEF CallKnown, AskKnown
<1>9. ep'[EP0] = ep[EP0]
  BY <1>1, <1>2, <1>3
<1>10. HaltKnown'
  BY <1>1, <1>9 DEF TransferInv, CallsKnown, HaltKnown
<1> QED BY <1>6, <1>7, <1>8, <1>10 DEF TransferInv, CallsKnown

LEMMA PowerKnows ==
  ASSUME TransferInv, SuspendDevice \/ ResumeDevice \/ ResumeComplete
  PROVE  TransferInv' /\ UNCHANGED ep
<1>1. /\ UNCHANGED <<ep, wire, flags, call, device>>
      /\ \E p \in {"awake", "suspended", "resuming"} :
           bus' = [bus EXCEPT !.power = p] \/ \E f : bus' = [bus EXCEPT !.power = p, !.sof = f]
  BY DEF SuspendDevice, ResumeDevice, ResumeComplete
<1>2. /\ bus'.setup = bus.setup /\ bus'.current = bus.current /\ BusRecord(bus')
      /\ bus'.power \in {"awake", "suspended", "resuming"}
      /\ bus'.bfTokenAlreadyWritten = bus.bfTokenAlreadyWritten
  BY <1>1 DEF TransferInv, LockHolds, BusRecord
<1>3. CallsKnown'
  <2>1. CallKnown'
    BY <1>1, <1>2 DEF TransferInv, CallsKnown, CallKnown
  <2>2. HaltKnown' /\ AskKnown'
    BY <1>1, <1>2 DEF TransferInv, CallsKnown, HaltKnown, AskKnown
  <2> QED BY <2>1, <2>2 DEF CallsKnown
<1>4. LockHolds'
  BY <1>1, <1>2 DEF TransferInv, LockHolds, OneTokenAtATime
<1> QED BY <1>1, <1>2, <1>3, <1>4, NothingChanges DEF TransferInv

LEMMA FrameKnows ==
  ASSUME TransferInv, Frame
  PROVE  TransferInv' /\ UNCHANGED ep
<1>1. /\ UNCHANGED <<ep, bus, wire, call, device>>
      /\ flags'.TRN = flags.TRN /\ flags'.UERR = flags.UERR
  BY DEF Frame, TransferInv, LockHolds
<1>2. LockHolds'
  BY FrameLocks DEF TransferInv
<1>3. CallsKnown'
  BY <1>1 DEF TransferInv, CallsKnown, CallKnown, HaltKnown, AskKnown
<1>4. Sides' /\ TokenHeld'
  BY <1>1 DEF TransferInv, Sides, TokenHeld
<1> QED BY <1>1, <1>2, <1>3, <1>4 DEF TransferInv

LEMMA StutterKnows ==
  ASSUME TransferInv, UNCHANGED vars
  PROVE  TransferInv' /\ UNCHANGED ep
<1>1. UNCHANGED <<ep, bus, wire, flags, call, device>>
  BY DEF vars
<1>2. LockHolds'
  BY <1>1 DEF TransferInv, LockHolds, OneTokenAtATime, BusRecord
<1>3. CallsKnown' /\ Sides' /\ TokenHeld'
  BY <1>1 DEF TransferInv, CallsKnown, CallKnown, HaltKnown, AskKnown, Sides, TokenHeld
<1> QED BY <1>1, <1>2, <1>3 DEF TransferInv

-------------------------------------------------------------------------------
(* The invariant holds *)

\* USBHostTerminateTransfer is not called.
NoTermination == "terminate" \notin AppCalls

LEMMA ApplicationKnows ==
  ASSUME TransferInv, Application, NoTermination
  PROVE  TransferInv'
<1>1. ASSUME NEW n \in Sizes, IssueDeviceRequest(FALSE, n) \/ (n > 0 /\ IssueDeviceRequest(TRUE, n))
      PROVE  TransferInv'
  BY <1>1, IssueDeviceRequestKnows, SizesAssumption
<1>2. ASSUME NEW e \in Listed, NEW n \in Sizes \ {0}, Transfer(e, n)
      PROVE  TransferInv'
  BY <1>2, TransferKnows, SizesAssumption
<1>3. ASSUME NEW e \in Listed, BeginTerminate(e) PROVE FALSE
  BY <1>3 DEF BeginTerminate, MayCall, NoTermination
<1> QED BY <1>1, <1>2, <1>3, ClearHaltKnows, ClearEndpointErrorsKnows, AskKnows, PowerKnows
        DEF Application

LEMMA CallGoesOnKnows ==
  ASSUME TransferInv, CallGoesOn
  PROVE  TransferInv'
<1>1. ~TerminateTransfer
  BY DEF TransferInv, CallsKnown, CallKnown, TerminateTransfer
<1>2. InitTransfer => call.steps = InitOrder \/ call.steps = <<"flag">>
  BY DEF TransferInv, CallsKnown, CallKnown, InitTransfer
<1> QED BY <1>1, <1>2, ParametersKnow, FlagKnows, TransferIsCompleteKnows DEF CallGoesOn

LEMMA StepKnows == TransferInv /\ [Next]_vars /\ NoTermination => TransferInv'
<1> SUFFICES ASSUME TransferInv, [Next]_vars, NoTermination PROVE TransferInv'
  OBVIOUS
<1> QED BY InterruptKnows, ApplicationKnows, CallGoesOnKnows, PowerKnows, FrameKnows,
           AnswersKnow, StutterKnows DEF Next

LEMMA TransfersKnown == ASSUME NoTermination PROVE Spec => []TransferInv
<1>1. TransferInv /\ [Next]_vars => TransferInv'
  BY StepKnows, NoTermination
<1> QED BY InitTransfers, <1>1, PTL DEF Spec

(* A control transfer that ended in success, with no error on the way, is one that the
   device has accepted and whose bytes it counts the same; and the records keep to their
   widths.  USBHostTerminateTransfer would break it: it writes back what it read. *)
THEOREM RequestsAreDone == ASSUME NoTermination PROVE Spec => []RequestInvariant
<1>1. TransferInv => RequestInvariant
  <2> SUFFICES ASSUME TransferInv PROVE RequestInvariant
    OBVIOUS
  <2>1. /\ EP0 \in Endpoints /\ bus.power \in {"awake", "suspended", "resuming"}
        /\ bus.current \in Endpoints
        /\ flags.TRN # NoResult => flags.TRN.ep \in Endpoints
        /\ \A e \in Endpoints : Side(e, ep[e], ResultOf(e, flags.TRN), device[e], bus.setup)
    BY DEF TransferInv, Sides, TokenHeld, CallsKnown, HaltKnown, Endpoints
  <2>2. wire # NoToken => wire.ep \in Endpoints /\ wire.dts \in Bit
    <3>1. ASSUME wire # NoToken
          PROVE  wire.dts = ep[wire.ep].bfNextDATA01 /\ wire.ep \in Endpoints
      BY <3>1, UnderWay DEF Token
    <3> QED BY <2>1, <3>1 DEF Side, EndpointRecord
  <2>3. TypeOK
    BY <2>1, <2>2 DEF TypeOK, Side, EndpointRecord, DeviceRecord
  <2>4. SuccessfulRequestIsDone
    BY <2>1 DEF SuccessfulRequestIsDone, Side, ControlSide
  <2> QED BY <2>3, <2>4 DEF RequestInvariant
<1> QED BY <1>1, TransfersKnown, PTL

(* Host and device differ in the toggle of an interrupt endpoint exactly while one of them
   has a packet whose acknowledgement the other has not seen. *)
THEOREM TogglesInStep == ASSUME NoTermination PROVE Spec => []TogglesAgree
<1>1. TransferInv => TogglesAgree
  <2> SUFFICES ASSUME TransferInv, NEW e \in Listed, ~device[e].halted
               PROVE  device[e].toggle # HostToggle(e) <=> device[e].taken
    BY DEF TogglesAgree
  <2> DEFINE r == ResultOf(e, flags.TRN)
  <2>1. Side(e, ep[e], r, device[e], bus.setup) /\ e # EP0
    BY EndpointsAssumption DEF TransferInv, Sides, Endpoints
  <2>2. HostToggle(e) = Toggle(ep[e], r)
    BY DEF HostToggle, Toggle, Counts, ResultOf
  <2> QED BY <2>1, <2>2 DEF Side, ListedSide, InStep
<1> QED BY <1>1, TransfersKnown, PTL

(* No token of a complete transfer is under way, and none has an end that is still to be
   counted. *)
THEOREM CompleteIsOver == ASSUME NoTermination PROVE Spec => []CompleteTransfersAreOver
<1>1. TransferInv => CompleteTransfersAreOver
  <2> SUFFICES ASSUME TransferInv, NEW e \in Endpoints, ep[e].bfTransferComplete
               PROVE  /\ wire # NoToken => wire.ep # e
                      /\ flags.TRN # NoResult => flags.TRN.ep # e
    BY DEF CompleteTransfersAreOver
  <2>1. wire # NoToken => wire.ep # e
    BY UnderWay DEF Under
  <2>2. flags.TRN # NoResult => flags.TRN.ep # e
    BY DEF TransferInv, Sides, Side, Result, ResultOf, Fails
  <2> QED BY <2>1, <2>2
<1> QED BY <1>1, TransfersKnown, PTL

(* USBHostTransferIsComplete reads bfTransferComplete first: when it says that the transfer
   is complete, the error code it gives is that of the transfer's end. *)
THEOREM AnswersHold == ASSUME NoTermination PROVE Spec => []AnswersAreFinal
<1>1. TransferInv => AnswersAreFinal
  <2> SUFFICES ASSUME TransferInv, call.op = "ask", Answer.steps = <<>>, Answer.complete
               PROVE  ep[call.ep].bfTransferComplete /\ Answer.error = ErrorOf(ep[call.ep])
    BY DEF AnswersAreFinal
  <2>1. /\ call = [f \in {"op", "steps", "ep", "complete", "error"} |-> call[f]]
        /\ call.steps \in {AskOrder, <<"error">>}
        /\ call.steps = <<"error">> /\ call.complete => ep[call.ep].bfTransferComplete
    BY DEF TransferInv, CallsKnown, AskKnown
  <2>2. call.steps = <<"error">>
    <3>1. CASE call.steps = AskOrder
      <4>1. Answer.steps = <<"error">>
        BY <2>1, <3>1, Orders DEF Answer
      <4> QED BY <4>1, Orders
    <3> QED BY <2>1, <3>1
  <2>3. Answer.complete = call.complete /\ Answer.error = ErrorOf(ep[call.ep])
    BY <2>1, <2>2, Orders DEF Answer
  <2> QED BY <2>1, <2>2, <2>3
<1> QED BY <1>1, TransfersKnown, PTL

-------------------------------------------------------------------------------
(* The endpoints are pipes *)

StatusOf(p) == IF p.bfTransferComplete THEN ErrorOf(p) ELSE "busy"

PipeMoves(e, p, q) ==
  \/ StatusOf(q) = StatusOf(p)
  \/ StatusOf(p) # "busy" /\ StatusOf(q) = "unresolved"
  \/ StatusOf(p) \in {"ok", "unresolved"} /\ StatusOf(q) = "busy"
  \/ StatusOf(p) = "busy" /\ StatusOf(q) \in Pipe!Endings
PipesMove == \A e \in Endpoints : PipeMoves(e, ep[e], ep'[e])

LEMMA HandlerMovesPipes ==
  ASSUME TransferInv, \A e \in Endpoints : Moves(ep[e], ep'[e])
  PROVE  PipesMove
BY DEF Moves, PipesMove, PipeMoves, StatusOf, ErrorOf

LEMMA CallMovesPipes ==
  ASSUME TransferInv, NEW e \in Endpoints, NEW q, ep' = [ep EXCEPT ![e] = q],
         PipeMoves(e, ep[e], q)
  PROVE  PipesMove
BY DEF TransferInv, Sides, PipesMove, PipeMoves

LEMMA InitTransferMovesPipes ==
  ASSUME TransferInv, InitTransfer
  PROVE  PipesMove
<1> DEFINE e == call.ep
           p == ep[e]
           q == IF Head(call.steps) = "flag" THEN [p EXCEPT !.bfTransferComplete = FALSE]
                ELSE Parameters(p)
<1>1. /\ call.op = "start" /\ ep' = [ep EXCEPT ![e] = q]
  BY DEF InitTransfer
<1>2. /\ e \in Endpoints /\ p.bfTransferComplete
      /\ call.steps \in {InitOrder, <<"flag">>}
      /\ call.steps = <<"flag">> => ~p.bfStalled /\ ~p.bfError
      /\ e # EP0 => ~p.bfStalled /\ ~p.bfError
  BY <1>1 DEF TransferInv, CallsKnown, CallKnown
<1>3. EndpointRecord(p)
  BY <1>2, CompleteHasNoResult DEF Side
<1>4. CASE call.steps = <<"flag">>
  <2>1. q = [p EXCEPT !.bfTransferComplete = FALSE]
    BY <1>4, Orders
  <2>2. ~q.bfTransferComplete
    BY <1>3, <2>1 DEF EndpointRecord, Fields
  <2> HIDE DEF q, p
  <2>3. PipeMoves(e, p, q)
    BY <1>2, <1>4, <2>2 DEF PipeMoves, StatusOf, ErrorOf
  <2> QED BY <1>1, <1>2, <2>3, CallMovesPipes DEF p
<1>5. CASE call.steps = InitOrder
  <2>1. q = Parameters(p)
    BY <1>5, Orders
  <2>2. q.bfTransferComplete /\ ~q.bfTransferSuccessful /\ ~q.bfStalled /\ ~q.bfError
    BY <1>2, <1>3, <2>1 DEF EndpointRecord, Fields, Parameters
  <2> HIDE DEF q, p
  <2>3. PipeMoves(e, p, q)
    BY <1>2, <2>2 DEF PipeMoves, StatusOf, ErrorOf
  <2> QED BY <1>1, <1>2, <2>3, CallMovesPipes DEF p
<1> QED BY <1>2, <1>4, <1>5

LEMMA ClearsMovePipes ==
  ASSUME TransferInv, NEW e \in Listed, ClearHalt(e) \/ ClearEndpointErrors(e)
  PROVE  PipesMove
<1> DEFINE p == ep[e]
<1>1. e \in Endpoints /\ p.bfTransferComplete
  BY DEF ClearHalt, ClearEndpointErrors, Endpoints
<1>2. EndpointRecord(p) /\ ep = [u \in Endpoints |-> ep[u]]
  BY <1>1, CompleteHasNoResult DEF Side
<1>3. CASE ClearHalt(e)
  <2> DEFINE q == [p EXCEPT !.bfNextDATA01 = 0]
  <2>1. ep' = [ep EXCEPT ![e] = q]
    BY <1>3 DEF ClearHalt
  <2>2. /\ q.bfTransferComplete = p.bfTransferComplete /\ q.bfStalled = p.bfStalled
        /\ q.bfTransferSuccessful = p.bfTransferSuccessful /\ q.bfError = p.bfError
    BY <1>2 DEF EndpointRecord, Fields
  <2> HIDE DEF q, p
  <2>3. PipeMoves(e, p, q)
    BY <2>2 DEF PipeMoves, StatusOf, ErrorOf
  <2> QED BY <1>1, <2>1, <2>3, CallMovesPipes DEF p
<1>4. CASE ClearEndpointErrors(e)
  <2> DEFINE q == [p EXCEPT !.bfStalled = FALSE, !.bfError = FALSE]
  <2>1. ep' = [ep EXCEPT ![e] = q]
    BY <1>1, <1>2, <1>4 DEF ClearEndpointErrors
  <2>2. /\ q.bfTransferComplete = p.bfTransferComplete /\ ~q.bfStalled /\ ~q.bfError
        /\ q.bfTransferSuccessful = p.bfTransferSuccessful
    BY <1>2 DEF EndpointRecord, Fields
  <2> HIDE DEF q, p
  <2>3. PipeMoves(e, p, q)
    BY <1>1, <2>2 DEF PipeMoves, StatusOf, ErrorOf
  <2> QED BY <1>1, <2>1, <2>3, CallMovesPipes DEF p
<1> QED BY <1>3, <1>4

LEMMA SameRecordsMovePipes == ASSUME UNCHANGED ep PROVE PipesMove
BY DEF PipesMove, PipeMoves

LEMMA StepMovesPipes ==
  ASSUME TransferInv, [Next]_vars, NoTermination
  PROVE  PipesMove
<1>1. CASE USB1Interrupt
  BY <1>1, InterruptKnows, HandlerMovesPipes
<1>2. CASE Application
  <2>1. \/ UNCHANGED ep
        \/ \E e \in Listed : ClearHalt(e) \/ ClearEndpointErrors(e)
    BY <1>2 DEF Application, IssueDeviceRequest, Transfer, Ask, BeginTerminate, SuspendDevice,
                ResumeDevice
  <2> QED BY <2>1, ClearsMovePipes, SameRecordsMovePipes
<1>3. CASE CallGoesOn
  <2>1. ~TerminateTransfer
    BY DEF TransferInv, CallsKnown, CallKnown, TerminateTransfer
  <2> QED BY <1>3, <2>1, InitTransferMovesPipes, TransferIsCompleteKnows, SameRecordsMovePipes
          DEF CallGoesOn
<1>4. CASE ResumeComplete \/ Frame \/ Answers \/ UNCHANGED vars
  BY <1>4, PowerKnows, FrameKnows, AnswersKnow, StutterKnows, SameRecordsMovePipes
<1> QED BY <1>1, <1>2, <1>3, <1>4 DEF Next

LEMMA PipesMoveAsPipes ==
  ASSUME PipesMove
  PROVE  [Pipe!Next]_([e \in Endpoints |->
                         IF ep[e].bfTransferComplete THEN ErrorOf(ep[e]) ELSE "busy"])
<1> DEFINE status == [e \in Endpoints |->
                        IF ep[e].bfTransferComplete THEN ErrorOf(ep[e]) ELSE "busy"]
<1>1. \A e \in Endpoints : status[e] = StatusOf(ep[e]) /\ status'[e] = StatusOf(ep'[e])
  BY DEF StatusOf, ErrorOf
<1>2. ASSUME NEW e \in Endpoints
      PROVE  \/ status'[e] = status[e]
             \/ Pipe!Prepare(e) \/ Pipe!Start(e) \/ Pipe!End(e) \/ Pipe!Abort(e)
  BY <1>1 DEF PipesMove, PipeMoves, Pipe!Prepare, Pipe!Start, Pipe!End
<1> QED BY <1>2 DEF Pipe!Next

(* Every endpoint is a pipe: a transfer that was started ends once, in a result, and that
   stays until the application asks for something else. *)
THEOREM EndpointsArePipes == ASSUME NoTermination PROVE Spec => ImplementsPipes
<1>1. Init => Pipe!Init
  BY DEF Init, Pipe!Init, ErrorOf
<1>2. TransferInv /\ [Next]_vars =>
        [Pipe!Next]_([e \in Endpoints |->
                        IF ep[e].bfTransferComplete THEN ErrorOf(ep[e]) ELSE "busy"])
  BY StepMovesPipes, PipesMoveAsPipes, NoTermination
<1> QED BY <1>1, <1>2, TransfersKnown, PTL DEF Spec, ImplementsPipes, Pipe!Spec
===============================================================================
