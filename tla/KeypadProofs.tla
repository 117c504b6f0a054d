----------------------------- MODULE KeypadProofs -----------------------------
(***************************************************************************)
(* Proofs about the keypad reader for every counter width and every set of *)
(* touches.                                                                *)
(***************************************************************************)
EXTENDS KeypadDebounce, TLAPS

\* Every label of the matrix is a hexadecimal digit.
LEMMA LabelsAreHex == ASSUME NEW k \in Keys PROVE hex_value[k] \in Hex
<1>1. k + 1 \in 1 .. 16
  BY DEF Keys
<1>2. hex_value[k] = <<1, 2, 3, 10, 4, 5, 6, 11, 7, 8, 9, 12, 14, 0, 15, 13>>[k + 1]
  BY DEF hex_value
<1> QED BY <1>1, <1>2 DEF Hex

\* Every register keeps to its width through clocks, resets and touches.
THEOREM TypeCorrect == Spec => []TypeOK
<1>1. ASSUME Init PROVE TypeOK
  <2>1. closed \in Touches
    BY <1>1, TouchesAssumption DEF TouchesAssumption, Init
  <2>2. inactivity_counter \in 0 .. CounterMax
    BY <1>1, CountdownAssumption DEF CountdownAssumption, Init
  <2>3. reset \in BOOLEAN /\ tracking \in BOOLEAN
    BY <1>1 DEF Init
  <2>4. /\ key_index \in Keys /\ read_signal \in {0, 1} /\ read_hex \in Hex
        /\ tracked_hex \in Hex /\ tracked_signal \in {0, 1}
        /\ left_hex \in Hex /\ right_hex \in Hex
    BY <1>1 DEF Init, Keys, Hex
  <2> QED BY <2>1, <2>2, <2>3, <2>4 DEF TypeOK
<1>2. ASSUME TypeOK, [Next]_vars PROVE TypeOK'
  <2> USE <1>2 DEF TypeOK, scanVars, trackVars, recordVars
  <2>1. CASE Clock
    <3>1. key_index' \in Keys /\ read_hex' \in Hex /\ read_signal' \in {0, 1}
      BY <2>1, LabelsAreHex DEF Clock, Scan, Keys, Bit
    <3>2. tracking' \in BOOLEAN /\ tracked_hex' \in Hex /\ tracked_signal' \in {0, 1}
      BY <2>1 DEF Clock, Track, activate
    <3>3. inactivity_counter' \in 0 .. CounterMax
      BY <2>1, CountdownAssumption DEF CountdownAssumption, Clock, CountQuiet
    <3>4. left_hex' \in Hex /\ right_hex' \in Hex
      BY <2>1 DEF Clock, Record
    <3> QED BY <2>1, <3>1, <3>2, <3>3, <3>4 DEF Clock
  <2>2. CASE PressReset
    <3> USE <2>2 DEF PressReset, ResetRegisters
    <3>1. closed' \in Touches
      OBVIOUS
    <3>2. inactivity_counter' \in 0 .. CounterMax
      BY CountdownAssumption DEF CountdownAssumption
    <3>3. reset' \in BOOLEAN /\ tracking' \in BOOLEAN
      OBVIOUS
    <3>4. /\ key_index' \in Keys /\ read_signal' \in {0, 1} /\ read_hex' \in Hex
          /\ tracked_hex' \in Hex /\ tracked_signal' \in {0, 1}
          /\ left_hex' \in Hex /\ right_hex' \in Hex
      BY DEF Keys, Hex
    <3> QED BY <3>1, <3>2, <3>3, <3>4
  <2>3. CASE ReleaseReset
    BY <2>3 DEF ReleaseReset
  <2>4. CASE Touch
    BY <2>4 DEF Touch
  <2>5. CASE UNCHANGED vars
    BY <2>5 DEF vars
  <2> QED BY <2>1, <2>2, <2>3, <2>4, <2>5 DEF Next
<1> QED BY <1>1, <1>2, PTL DEF Spec

-------------------------------------------------------------------------------
(* The history variables only observe. *)

\* A behaviour with the history variables is a behaviour of the reader.
LEMMA HistoryObserves == HSpec => Spec
<1>1. HInit => Init
  BY DEF HInit
<1>2. [HNext]_hvars => [Next]_vars
  BY DEF HNext, HClock, HPressReset, HReleaseReset, HTouch, Next, hvars
<1> QED BY <1>1, <1>2, PTL DEF HSpec, Spec

\* The registers keep to their widths with the history variables beside them.
LEMMA TypeCorrectH == HSpec => []TypeOK
BY HistoryObserves, TypeCorrect, PTL

-------------------------------------------------------------------------------
(* The count runs only while a press is tracked. *)

CountsOnlyWhileTracking == inactivity_counter > 0 => tracking

\* The countdown is never running, hence never at its end, without a press.
THEOREM CountdownNeedsPress == HSpec => [](CountsOnlyWhileTracking /\ ReleaseIsOfATrackedPress)
<1> USE DEF CountsOnlyWhileTracking
<1>1. HInit => CountsOnlyWhileTracking
  BY DEF HInit, Init
<1>2. ASSUME TypeOK, CountsOnlyWhileTracking, [HNext]_hvars
      PROVE  CountsOnlyWhileTracking'
  <2> USE <1>2 DEF scanVars, trackVars, recordVars
  <2>1. CASE HClock
    <3> USE <2>1 DEF HClock, Clock, Track, CountQuiet
    <3>1. inactivity_counter \in 0 .. CounterMax
      BY DEF TypeOK
    <3>2. CASE deactivate
      <4>1. inactivity_counter = CounterMax
        BY <3>2 DEF deactivate
      <4>2. (CounterMax + 1) % (CounterMax + 1) = 0
        BY CountdownAssumption DEF CountdownAssumption
      <4> QED BY <4>1, <4>2
    <3>3. CASE ~deactivate
      BY <3>3, <3>1 DEF TypeOK
    <3> QED BY <3>2, <3>3
  <2>2. CASE HPressReset
    BY <2>2 DEF HPressReset, PressReset, ResetRegisters
  <2>3. CASE HReleaseReset
    BY <2>3 DEF HReleaseReset, ReleaseReset
  <2>4. CASE HTouch
    BY <2>4 DEF HTouch, Touch
  <2>5. CASE UNCHANGED hvars
    BY <2>5 DEF hvars, vars
  <2> QED BY <2>1, <2>2, <2>3, <2>4, <2>5 DEF HNext
<1>3. CountsOnlyWhileTracking => ReleaseIsOfATrackedPress
  BY CountdownAssumption DEF CountdownAssumption, ReleaseIsOfATrackedPress, deactivate
<1> QED BY <1>1, <1>2, <1>3, TypeCorrectH, PTL DEF HSpec

-------------------------------------------------------------------------------

(***************************************************************************)
(* The reader implements KeyPress: a clock that activates is a Press, one  *)
(* that deactivates is LetGo, and, as the two never coincide, every other  *)
(* clock changes nothing that KeyPress sees.                               *)
(***************************************************************************)
THEOREM Refinement == HSpec => ImplementsKeyPress
<1>1. HInit => Held!Init
  BY DEF HInit, Init, Held!Init, Held!Cleared
<1>2. ASSUME TypeOK, ReleaseIsOfATrackedPress, [HNext]_hvars
      PROVE  [Held!Next]_(Held!vars)
  <2> USE <1>2 DEF scanVars, trackVars, recordVars
  <2>1. CASE HClock
    <3> USE <2>1 DEF HClock, Clock, Track, Record
    <3>1. CASE activate
      <4>1. ~deactivate
        BY <3>1 DEF activate, ReleaseIsOfATrackedPress
      <4>2. Held!Press(read_hex)
        BY <3>1, <4>1 DEF activate, Held!Press
      <4>3. read_hex \in 0 .. 15
        BY DEF TypeOK, Hex
      <4> QED BY <4>2, <4>3 DEF Held!Next
    <3>2. CASE ~activate /\ deactivate
      <4>1. tracking /\ ~tracking' /\ UNCHANGED <<left_hex, right_hex>>
        BY <3>2 DEF ReleaseIsOfATrackedPress
      <4>2. tracked_hex # None
        BY NoneAssumption DEF NoneAssumption, TypeOK
      <4>3. Held!LetGo
        BY <4>1, <4>2 DEF Held!LetGo
      <4> QED BY <4>3 DEF Held!Next
    <3>3. CASE ~activate /\ ~deactivate
      <4>1. UNCHANGED <<tracked_hex, left_hex, right_hex>>
        BY <3>3
      <4>2. tracking' <=> tracking
        BY <3>3
      <4>3. UNCHANGED IF tracking THEN tracked_hex ELSE None
        BY ONLY <4>1, <4>2
      <4> QED BY ONLY <4>1, <4>3 DEF Held!vars
    <3> QED BY <3>1, <3>2, <3>3
  <2>2. CASE HPressReset
    BY <2>2 DEF HPressReset, PressReset, ResetRegisters, Held!Next, Held!Reset
  <2>3. CASE HReleaseReset
    BY <2>3 DEF HReleaseReset, ReleaseReset, Held!vars
  <2>4. CASE HTouch
    BY <2>4 DEF HTouch, Touch, Held!vars
  <2>5. CASE UNCHANGED hvars
    BY <2>5 DEF hvars, vars, Held!vars
  <2> QED BY <2>1, <2>2, <2>3, <2>4, <2>5 DEF HNext
<1> QED BY <1>1, <1>2, TypeCorrectH, CountdownNeedsPress, PTL
        DEF HSpec, ImplementsKeyPress, Held!Spec

-------------------------------------------------------------------------------
(* Quiet before release. *)

(***************************************************************************)
(* What the count says of the past: without contact in the register the    *)
(* key has been quiet for as long as the count, and in any case it had     *)
(* been quiet for one less a clock ago.                                    *)
(***************************************************************************)
CountMeasuresQuiet ==
  /\ quiet \in 0 .. QuietBound
  /\ tracking /\ tracked_signal = 0 => quiet >= inactivity_counter
  /\ tracking => quietBefore >= inactivity_counter - 1

\* A press is let go of only after its key was quiet for the whole countdown,
\* whatever the width of the counter.
THEOREM QuietCorrect == HSpec => QuietBeforeRelease
<1>1. HInit => CountMeasuresQuiet
  BY CountdownAssumption
     DEF CountdownAssumption, HInit, Init, CountMeasuresQuiet, QuietBound
<1>2. ASSUME TypeOK, CountsOnlyWhileTracking, CountMeasuresQuiet, [HNext]_hvars
      PROVE  CountMeasuresQuiet'
  <2> USE <1>2, CountdownAssumption
      DEF CountdownAssumption, CountMeasuresQuiet, QuietBound,
          scanVars, trackVars, recordVars, history
  <2>1. CASE HClock
    <3> USE <2>1 DEF HClock, Clock
    <3>1. inactivity_counter \in 0 .. CounterMax /\ inactivity_counter' \in 0 .. CounterMax
      BY DEF TypeOK, CountQuiet
    <3>2. quiet' \in 0 .. QuietBound
      OBVIOUS
    <3>3. \/ inactivity_counter' = 0
          \/ /\ tracking /\ tracked_signal = 0
             /\ inactivity_counter' = inactivity_counter + 1
      BY <3>1 DEF CountQuiet
    <3>4. ASSUME tracked_signal' = 0 PROVE quiet' >= inactivity_counter'
      <4>1. CASE inactivity_counter' = 0
        BY <4>1, <3>2
      <4>2. CASE /\ tracking /\ tracked_signal = 0
                 /\ inactivity_counter' = inactivity_counter + 1
        <5>1. ~activate
          BY <4>2 DEF activate
        <5>2. ~TrackedContact
          BY <3>4 DEF Track, TrackedContact
        <5>3. quiet >= inactivity_counter
          BY <4>2
        <5> QED BY <5>1, <5>2, <5>3, <4>2, <3>1
      <4> QED BY <4>1, <4>2, <3>3
    <3>5. quietBefore' >= inactivity_counter' - 1
      <4>1. quietBefore' = quiet
        OBVIOUS
      <4>2. CASE inactivity_counter' = 0
        BY <4>1, <4>2
      <4>3. CASE /\ tracking /\ tracked_signal = 0
                 /\ inactivity_counter' = inactivity_counter + 1
        <5>1. quiet >= inactivity_counter
          BY <4>3
        <5> QED BY <4>1, <4>3, <5>1, <3>1
      <4> QED BY <4>2, <4>3, <3>3
    <3> QED BY <3>2, <3>4, <3>5
  <2>2. CASE HPressReset
    BY <2>2 DEF HPressReset, PressReset, ResetRegisters
  <2>3. CASE HReleaseReset
    BY <2>3 DEF HReleaseReset, ReleaseReset
  <2>4. CASE HTouch
    BY <2>4 DEF HTouch, Touch
  <2>5. CASE UNCHANGED hvars
    BY <2>5 DEF hvars, vars
  <2> QED BY <2>1, <2>2, <2>3, <2>4, <2>5 DEF HNext
<1>3. ASSUME TypeOK, CountMeasuresQuiet, [HNext]_hvars
      PROVE  [StopsTracking => quietBefore >= CounterMax - 1]_hvars
  <2> SUFFICES ASSUME HNext, StopsTracking PROVE quietBefore >= CounterMax - 1
    BY <1>3
  <2>1. HClock
    BY DEF HNext, HPressReset, PressReset, HReleaseReset, ReleaseReset,
           HTouch, Touch, StopsTracking, trackVars
  <2>2. inactivity_counter = CounterMax
    BY <2>1 DEF HClock, Clock, Track, deactivate, StopsTracking
  <2> QED BY <1>3, <2>2 DEF CountMeasuresQuiet, StopsTracking
<1> QED BY <1>1, <1>2, <1>3, TypeCorrectH, CountdownNeedsPress, PTL
        DEF HSpec, QuietBeforeRelease

-------------------------------------------------------------------------------
(* The label travels with the contact it belongs to. *)

\* The key whose contact and label are in the registers of key_synchronizer.
ReadKey == (key_index + 15) % 16

\* The fingers close no rectangle's fourth corner: current reaches a column
\* only through a key that is closed.
NoPhantomKeys ==
  \A touch \in Touches : \A a, b, c \in touch, k \in Keys :
    Row(a) = Row(k) /\ Col(a) = Col(b) /\ Row(b) = Row(c) /\ Col(c) = Col(k)
      => k \in touch

\* Fingers that hold at most two keys never do.
LEMMA TwoKeysHaveNoPhantom ==
  ASSUME \A touch \in Touches : \E x, y \in Keys : touch \subseteq {x, y}
  PROVE  NoPhantomKeys
<1> SUFFICES ASSUME NEW touch \in Touches,
                    NEW a \in touch, NEW b \in touch, NEW c \in touch, NEW k \in Keys,
                    Row(a) = Row(k), Col(a) = Col(b), Row(b) = Row(c), Col(c) = Col(k)
             PROVE  k \in touch
  BY DEF NoPhantomKeys
<1>1. PICK x \in Keys : \E y \in Keys : touch \subseteq {x, y}
  OBVIOUS
<1>2. PICK y \in Keys : touch \subseteq {x, y}
  BY <1>1
<1>3. a \in Keys /\ b \in Keys /\ c \in Keys
  BY <1>2
<1>4. a = b \/ b = c \/ a = c
  BY <1>2
<1>5. \/ Row(c) = Row(k) /\ Col(c) = Col(k)
      \/ Row(a) = Row(k) /\ Col(a) = Col(k)
  BY <1>4
<1>6. c = k \/ a = k
  BY <1>3, <1>5 DEF Row, Col, Keys
<1> QED BY <1>6

\* A contact in the register is one that a closed key made at the last clock.
ContactIsOfScannedKey ==
  read_signal = 1 => \E k \in scanned : hex_value[k] = read_hex

\* A digit enters the display only if its key was closed when it was sampled:
\* for every counter and all touches without a phantom key.
THEOREM RecordingIsOfPressedKey == ASSUME NoPhantomKeys PROVE HSpec => RecordsPressedKey
<1>1. HInit => ContactIsOfScannedKey
  BY DEF HInit, Init, ContactIsOfScannedKey
<1>2. ASSUME TypeOK, ContactIsOfScannedKey, [HNext]_hvars
      PROVE  ContactIsOfScannedKey'
  <2> USE <1>2 DEF ContactIsOfScannedKey, scanVars, trackVars, recordVars, history
  <2>1. CASE HClock
    <3> SUFFICES ASSUME read_signal' = 1
                 PROVE  \E k \in scanned' : hex_value[k] = read_hex'
      OBVIOUS
    <3>1. scanned' = closed /\ read_hex' = hex_value[key_index]
      BY <2>1 DEF HClock, Clock, Scan
    <3>2. raw_signal(key_index)
      BY <2>1 DEF HClock, Clock, Scan, Bit
    <3>3. closed \in Touches /\ key_index \in Keys
      BY DEF TypeOK
    <3>4. key_index \in closed
      BY <3>2, <3>3, NoPhantomKeys DEF raw_signal, NoPhantomKeys
    <3> QED BY <3>1, <3>4
  <2>2. CASE HPressReset
    BY <2>2 DEF HPressReset, PressReset, ResetRegisters
  <2>3. CASE HReleaseReset
    BY <2>3 DEF HReleaseReset, ReleaseReset
  <2>4. CASE HTouch
    BY <2>4 DEF HTouch, Touch
  <2>5. CASE UNCHANGED hvars
    BY <2>5 DEF hvars, vars
  <2> QED BY <2>1, <2>2, <2>3, <2>4, <2>5 DEF HNext
<1>3. ASSUME ContactIsOfScannedKey, [HNext]_hvars
      PROVE  [~reset' /\ <<left_hex, right_hex>> # <<left_hex', right_hex'>>
                => \E k \in scanned : hex_value[k] = right_hex']_hvars
  <2> SUFFICES ASSUME HNext, ~reset', <<left_hex, right_hex>> # <<left_hex', right_hex'>>
               PROVE  \E k \in scanned : hex_value[k] = right_hex'
    BY <1>3
  <2>1. HClock
    BY DEF HNext, HPressReset, PressReset, HReleaseReset, ReleaseReset,
           HTouch, Touch, recordVars
  <2>2. activate /\ right_hex' = read_hex
    BY <2>1 DEF HClock, Clock, Record, recordVars
  <2> QED BY <1>3, <2>2 DEF ContactIsOfScannedKey, activate
<1> QED BY <1>1, <1>2, <1>3, TypeCorrectH, PTL DEF HSpec, RecordsPressedKey

-------------------------------------------------------------------------------
(* A counter that outlasts a scan keeps a held key. *)

\* No two keys have the same label.
LEMMA LabelsDiffer ==
  ASSUME NEW j \in Keys, NEW k \in Keys, hex_value[j] = hex_value[k] PROVE j = k
BY DEF Keys, hex_value

\* KeyOf undoes the labelling.
LEMMA KeyOfLabel == ASSUME NEW k \in Keys PROVE KeyOf(hex_value[k]) = k
<1>1. \A j \in Keys : hex_value[j] = hex_value[k] <=> j = k
  BY LabelsDiffer
<1> QED BY <1>1 DEF KeyOf

TrackedKey == KeyOf(tracked_hex)

\* Clocks since the tracked key was the one read.
SinceRead == (key_index + 15 - TrackedKey) % 16

\* The registers hold the label of the key that was scanned last, the tracked
\* label is one of the matrix, and a key that stayed is closed.
LabelsInStep ==
  /\ tracking \/ read_signal = 1 => read_hex = hex_value[ReadKey]
  /\ tracking => TrackedKey \in Keys /\ hex_value[TrackedKey] = tracked_hex
  /\ tracking /\ stayed => TrackedKey \in closed

(***************************************************************************)
(* While the tracked key stays closed the count is at most the clocks      *)
(* since its contact passed the two registers: contact is read once in a   *)
(* scan, marks the key as tracked one clock later and clears the count     *)
(* with the clock after that.  The first clock of a press is the exception *)
(* that has no mark, and no count, yet.                                    *)
(***************************************************************************)
CountFollowsScan ==
  tracking /\ stayed =>
    /\ SinceRead = 0 => read_signal = 1 /\ inactivity_counter <= 15
    /\ SinceRead = 1 => /\ inactivity_counter <= 16
                        /\ tracked_signal = 1 \/ inactivity_counter = 0
    /\ SinceRead >= 2 => inactivity_counter <= SinceRead - 1

HeldInv == LabelsInStep /\ CountFollowsScan

\* The key read is the one before the key scanned, and stays one behind it.
LEMMA ReadIsOneBehind ==
  ASSUME NEW i \in Keys
  PROVE  /\ (i + 15) % 16 \in Keys
         /\ (((i + 1) % 16) + 15) % 16 = i
         /\ (((i + 1) % 16) + 15 - ((i + 15) % 16)) % 16 = 1
BY DEF Keys

\* A clock moves the scan one place on from key k.
LEMMA ScanMovesOn ==
  ASSUME NEW i \in Keys, NEW k \in Keys
  PROVE  /\ (i + 15 - k) % 16 \in 0 .. 15
         /\ (((i + 1) % 16) + 15 - k) % 16 = (((i + 15 - k) % 16) + 1) % 16
         /\ (i + 15 - k) % 16 = 15 => i = k
         /\ (i + 15 - k) % 16 = 0 => (i + 15) % 16 = k
BY DEF Keys

\* A key that stays closed is recorded once, however long it is held, by every
\* reader whose counter is longer than a scan (16 clocks are not enough).
THEOREM HeldKeyIsKept == ASSUME CounterMax > 16 PROVE HSpec => HeldKeyRecordedOnce
<1>1. HInit => HeldInv
  BY DEF HInit, Init, HeldInv, LabelsInStep, CountFollowsScan
<1>2. ASSUME TypeOK, CountsOnlyWhileTracking, HeldInv, [HNext]_hvars
      PROVE  HeldInv'
  <2> USE <1>2
  <2>1. CASE HClock
    <3> DEFINE K == TrackedKey
               d == SinceRead
    <3>1. /\ key_index \in Keys /\ key_index' = (key_index + 1) % 16
          /\ read_signal' = Bit(raw_signal(key_index))
          /\ read_hex' = hex_value[key_index]
          /\ closed' = closed
      BY <2>1 DEF HClock, Clock, Scan, TypeOK
    <3>2. ReadKey' = key_index /\ read_hex' = hex_value[ReadKey']
      BY <3>1, ReadIsOneBehind DEF ReadKey
    <3>3. CASE activate
      <4>1. read_hex = hex_value[ReadKey] /\ ReadKey \in Keys
        BY <3>1, <3>3, ReadIsOneBehind DEF HeldInv, LabelsInStep, activate, ReadKey
      <4>2. tracked_hex' = hex_value[ReadKey] /\ TrackedKey' = ReadKey
        BY <2>1, <3>3, <4>1, KeyOfLabel DEF HClock, Clock, Track, TrackedKey
      <4>3. SinceRead' = 1
        BY <3>1, <4>2, ReadIsOneBehind DEF SinceRead, ReadKey
      <4>4. stayed' => TrackedKey' \in closed'
        BY <2>1, <3>1, <3>3, <4>1, <4>2, KeyOfLabel DEF HClock
      <4>5. inactivity_counter' = 0
        BY <2>1, <3>3 DEF HClock, Clock, CountQuiet, activate
      <4>6. LabelsInStep'
        BY <3>2, <4>1, <4>2, <4>4 DEF LabelsInStep
      <4>7. CountFollowsScan'
        BY <4>3, <4>5 DEF CountFollowsScan
      <4> QED BY <4>6, <4>7 DEF HeldInv
    <3>4. CASE ~activate
      <4>1. /\ tracked_hex' = tracked_hex /\ TrackedKey' = TrackedKey
            /\ tracking' => tracking
            /\ stayed' = stayed
        BY <2>1, <3>4 DEF HClock, Clock, Track, TrackedKey
      <4>2. LabelsInStep'
        BY <3>1, <3>2, <4>1 DEF HeldInv, LabelsInStep
      <4>3. ASSUME tracking', stayed' PROVE CountFollowsScan'
        <5>1. tracking /\ stayed /\ K \in Keys /\ K \in closed /\ hex_value[K] = tracked_hex
          BY <4>1, <4>3 DEF HeldInv, LabelsInStep
        <5>2. d \in 0 .. 15 /\ SinceRead' = (d + 1) % 16
          BY <3>1, <4>1, <5>1, ScanMovesOn DEF SinceRead
        <5>3. inactivity_counter \in 0 .. CounterMax /\ inactivity_counter <= 16
          BY <5>1, <5>2 DEF TypeOK, HeldInv, CountFollowsScan
        <5>4. inactivity_counter' = IF tracked_signal = 0 THEN inactivity_counter + 1 ELSE 0
          BY <2>1, <5>1, <5>3, CountdownAssumption
             DEF HClock, Clock, CountQuiet, CountdownAssumption
        <5>5. CASE d = 0
          <6>1. read_hex = tracked_hex /\ read_signal = 1
            BY <3>1, <5>1, <5>5, ScanMovesOn
               DEF SinceRead, ReadKey, HeldInv, LabelsInStep, CountFollowsScan
          <6>2. tracked_signal' = 1
            BY <2>1, <6>1 DEF HClock, Clock, Track
          <6>3. inactivity_counter' <= 16 /\ SinceRead' = 1
            BY <5>1, <5>2, <5>3, <5>4, <5>5 DEF HeldInv, CountFollowsScan
          <6> QED BY <6>2, <6>3 DEF CountFollowsScan
        <5>6. CASE d = 1
          <6>1. SinceRead' = 2 /\ inactivity_counter' <= 1
            BY <5>1, <5>2, <5>4, <5>6 DEF HeldInv, CountFollowsScan
          <6> QED BY <6>1 DEF CountFollowsScan
        <5>7. CASE d \in 2 .. 14
          <6>1. SinceRead' = d + 1 /\ inactivity_counter <= d - 1
            BY <5>1, <5>2, <5>7 DEF HeldInv, CountFollowsScan
          <6>2. inactivity_counter' <= (d + 1) - 1
            BY <5>2, <5>3, <5>4, <5>7, <6>1
          <6>3. d + 1 >= 2 /\ d + 1 # 0 /\ d + 1 # 1
            BY <5>7
          <6> QED BY <6>1, <6>2, <6>3 DEF CountFollowsScan
        <5>8. CASE d = 15
          <6>1. SinceRead' = 0 /\ inactivity_counter <= 14
            BY <5>1, <5>2, <5>8 DEF HeldInv, CountFollowsScan
          <6>2. K = key_index
            BY <3>1, <5>1, <5>8, ScanMovesOn DEF SinceRead
          <6>3. read_signal' = 1
            BY <3>1, <5>1, <6>2 DEF raw_signal, Bit
          <6>4. inactivity_counter' <= 15
            BY <5>3, <5>4, <6>1
          <6> QED BY <6>1, <6>3, <6>4 DEF CountFollowsScan
        <5>9. d = 0 \/ d = 1 \/ d \in 2 .. 14 \/ d = 15
          BY <5>2
        <5> QED BY <5>5, <5>6, <5>7, <5>8, <5>9
      <4> QED BY <4>2, <4>3 DEF HeldInv, CountFollowsScan
    <3> QED BY <3>3, <3>4
  <2>2. CASE HPressReset
    BY <2>2 DEF HPressReset, PressReset, ResetRegisters,
                HeldInv, LabelsInStep, CountFollowsScan
  <2>3. CASE HReleaseReset
    <3>1. UNCHANGED <<closed, key_index, read_signal, read_hex, tracking, tracked_hex,
                      tracked_signal, inactivity_counter, stayed>>
      BY <2>3 DEF HReleaseReset, ReleaseReset, scanVars, trackVars, history
    <3> QED BY <3>1 DEF HeldInv, LabelsInStep, CountFollowsScan,
                        TrackedKey, SinceRead, ReadKey
  <2>4. CASE HTouch
    <3>1. /\ UNCHANGED <<key_index, read_signal, read_hex, tracking, tracked_hex,
                         tracked_signal, inactivity_counter>>
          /\ stayed' => stayed /\ TrackedKey \in closed'
      BY <2>4 DEF HTouch, Touch, scanVars, trackVars, TrackedKey
    <3>2. UNCHANGED <<TrackedKey, SinceRead, ReadKey>>
      BY <3>1 DEF TrackedKey, SinceRead, ReadKey
    <3> QED BY <3>1, <3>2 DEF HeldInv, LabelsInStep, CountFollowsScan
  <2>5. CASE UNCHANGED hvars
    BY <2>5 DEF hvars, vars, scanVars, trackVars, history, HeldInv, LabelsInStep,
                CountFollowsScan, TrackedKey, SinceRead, ReadKey
  <2> QED BY <2>1, <2>2, <2>3, <2>4, <2>5 DEF HNext
<1>3. ASSUME TypeOK, HeldInv, [HNext]_hvars
      PROVE  [StopsTracking => ~stayed]_hvars
  <2> SUFFICES ASSUME HNext, StopsTracking, stayed PROVE FALSE
    BY <1>3
  <2>1. HClock
    BY DEF HNext, HPressReset, PressReset, HReleaseReset, ReleaseReset,
           HTouch, Touch, StopsTracking, trackVars
  <2>2. inactivity_counter = CounterMax
    BY <2>1 DEF HClock, Clock, Track, deactivate, StopsTracking
  <2>3. TrackedKey \in Keys /\ key_index \in Keys
    BY <1>3 DEF HeldInv, LabelsInStep, StopsTracking, TypeOK
  <2>4. SinceRead \in 0 .. 15
    BY <2>3, ScanMovesOn DEF SinceRead
  <2>5. inactivity_counter <= 16
    BY <1>3, <2>4 DEF HeldInv, CountFollowsScan, StopsTracking, TypeOK
  <2> QED BY <2>2, <2>5, CountdownAssumption DEF CountdownAssumption
<1> QED BY <1>1, <1>2, <1>3, TypeCorrectH, CountdownNeedsPress, PTL
        DEF HSpec, HeldKeyRecordedOnce
===============================================================================
