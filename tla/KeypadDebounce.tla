----------------------------- MODULE KeypadDebounce ----------------------------
(***************************************************************************)
(* The keypad reader (module Keypad) with history variables, and the       *)
(* properties of its debouncing.  The history variables only observe.      *)
(***************************************************************************)
EXTENDS Keypad

CONSTANT None  \* no press is held

ASSUME NoneAssumption == None \notin Hex

VARIABLES
  scanned,  \* the keys that were closed at the last clock edge
  quiet,    \* clocks since contact of the tracked key was last read
  quietBefore,  \* the same, one clock ago
  stayed    \* the tracked key has been closed ever since it was recorded

history == <<scanned, quiet, quietBefore, stayed>>
hvars   == <<vars, history>>

\* Beyond this the exact number of quiet clocks tells nothing more.
QuietBound == CounterMax + 2

\* Contact of the tracked key is read in this clock.
TrackedContact == read_signal = 1 /\ read_hex = tracked_hex

\* The key whose label is h.
KeyOf(h) == CHOOSE k \in Keys : hex_value[k] = h

HInit == Init /\ scanned = {} /\ quiet = 0 /\ quietBefore = 0 /\ stayed = FALSE

HClock ==
  /\ Clock
  /\ scanned' = closed
  /\ quiet' = IF activate \/ TrackedContact THEN 0
              ELSE IF quiet < QuietBound THEN quiet + 1 ELSE quiet
  /\ quietBefore' = quiet
  /\ stayed' = IF activate THEN KeyOf(read_hex) \in closed ELSE stayed

HPressReset ==
  /\ PressReset
  /\ scanned' = {} /\ quiet' = 0 /\ quietBefore' = 0 /\ stayed' = FALSE

HReleaseReset == ReleaseReset /\ UNCHANGED history

HTouch ==
  /\ Touch
  /\ stayed' = (stayed /\ KeyOf(tracked_hex) \in closed')
  /\ UNCHANGED <<scanned, quiet, quietBefore>>

HNext == HClock \/ HPressReset \/ HReleaseReset \/ HTouch

HSpec == HInit /\ [][HNext]_hvars

\* The clock never stops while reset is low; nothing forces fingers to move.
FairHSpec == HSpec /\ WF_hvars(HClock)

-------------------------------------------------------------------------------

\* The debouncer starts to track a press / lets go of it.
StartsTracking == ~tracking /\ tracking'
StopsTracking  == tracking /\ ~tracking' /\ ~reset'

(***************************************************************************)
(* A press is only let go of after its key has shown no contact for        *)
(* CounterMax - 1 clocks: a shorter bounce never makes a new press         *)
(* (key_deactivator, which restarts its count at every contact).  Contact  *)
(* passes two registers before it clears the count, so what is read in the *)
(* last two clocks of the countdown comes too late to keep the press: the  *)
(* quiet is the one seen a clock earlier.                                  *)
(***************************************************************************)
QuietBeforeRelease == [][StopsTracking => quietBefore >= CounterMax - 1]_hvars

(***************************************************************************)
(* A key that stays closed is never let go of, so it is recorded once      *)
(* however long it is held.  Contact is read once in a scan of 16 clocks,  *)
(* so this needs a counter that outlasts a scan (key_tracker and           *)
(* key_deactivator #(20)).                                                 *)
(***************************************************************************)
HeldKeyRecordedOnce == [][StopsTracking => ~stayed]_hvars

(***************************************************************************)
(* A digit enters the display only if its key was closed at the clock edge *)
(* that sampled it: the label travels with the signal through              *)
(* key_synchronizer.                                                       *)
(***************************************************************************)
RecordsPressedKey ==
  [][~reset' /\ <<left_hex, right_hex>> # <<left_hex', right_hex'>>
       => \E k \in scanned : hex_value[k] = right_hex']_hvars

(***************************************************************************)
(* The counter reaches its end only while a press is tracked, so the       *)
(* release of one press never coincides with the start of another          *)
(* (key_trigger and key_deactivator look at the same tracking register).   *)
(***************************************************************************)
ReleaseIsOfATrackedPress == deactivate => tracking

(***************************************************************************)
(* Once the fingers stay on exactly one key and the reset is not used, the *)
(* reader ends up tracking that key, with it as the last digit shown.      *)
(***************************************************************************)
HeldKeyIsShown ==
  \A k \in Keys :
    <>[](closed = {k} /\ ~reset)
      => <>[](tracking /\ tracked_hex = hex_value[k] /\ right_hex = hex_value[k])

\* Once the fingers stay off and the reset is not used, the reader becomes
\* ready for the next press.
ReadyAfterRelease == <>[](closed = {} /\ ~reset) => <>[]~tracking

\* Wherever the fingers come to rest, on one key or on none, the reader comes to rest with
\* them: key_tracker is neither stuck on an old key nor on its own counter.
ReaderSettles == HeldKeyIsShown /\ ReadyAfterRelease

-------------------------------------------------------------------------------

Held == INSTANCE KeyPress WITH
  held  <- IF tracking THEN tracked_hex ELSE None,
  left  <- left_hex,
  right <- right_hex

\* The reader implements the abstract specification of a key press.
ImplementsKeyPress == Held!Spec
===============================================================================
