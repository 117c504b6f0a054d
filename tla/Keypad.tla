-------------------------------- MODULE Keypad --------------------------------
(***************************************************************************)
(* The keypad reader of Lab 3 (lab3_hh.sv): a 4 x 4 matrix keypad is       *)
(* scanned one key per clock, debounced by tracking one key until it has   *)
(* been quiet for CounterMax clocks, and the last two presses              *)
(* are recorded for the display.                                           *)
(*                                                                         *)
(* All registers are clocked by the same edge, so one Clock action updates *)
(* them together from the values they had before it.  The fingers on the   *)
(* keypad and the reset button act between clocks.                         *)
(***************************************************************************)
EXTENDS Integers, FiniteSets

CONSTANTS
  CounterMax,  \* inactivity_counter with all bits set: 2^COUNTDOWN_BITS - 1
  Touches      \* the sets of keys that fingers may hold closed together

\* A key is named by its position in the scan: row = key \div 4, col = key % 4.
Keys == 0 .. 15
Hex  == 0 .. 15

ASSUME CountdownAssumption == CounterMax \in Nat \ {0}
ASSUME TouchesAssumption   == Touches \subseteq SUBSET Keys /\ {} \in Touches

VARIABLES
  closed,              \* the keys whose contact is closed now
  reset,               \* the level of the asynchronous reset
  key_index,           \* hex_generator: the key being scanned
  read_signal,         \* key_synchronizer: contact of the key scanned last
  read_hex,            \*   and its label
  tracking,            \* key_tracker: a press is being tracked
  tracked_hex,         \*   the label of its key
  tracked_signal,      \*   contact of that key, when it was the one scanned
  inactivity_counter,  \* key_deactivator: clocks without contact
  left_hex, right_hex  \* key_record: the last two presses

scanVars   == <<key_index, read_signal, read_hex>>
trackVars  == <<tracking, tracked_hex, tracked_signal, inactivity_counter>>
recordVars == <<left_hex, right_hex>>
vars == <<closed, reset, scanVars, trackVars, recordVars>>

Bit(b) == IF b THEN 1 ELSE 0

\* The label of each key of the matrix.
hex_value ==
  [k \in Keys |-> <<1, 2, 3, 10, 4, 5, 6, 11, 7, 8, 9, 12, 14, 0, 15, 13>>[k + 1]]

Row(k) == k \div 4
Col(k) == k % 4

(***************************************************************************)
(* col_values[output_col] while input_row is driven high.  The other rows  *)
(* float, so current reaches the column directly or, when three corners of *)
(* a rectangle are closed, around it.                                      *)
(***************************************************************************)
raw_signal(k) ==
  \/ k \in closed
  \/ \E a, b, c \in closed : /\ Row(a) = Row(k) /\ Col(a) = Col(b)
                             /\ Row(b) = Row(c) /\ Col(c) = Col(k)

\* The scanned key has contact and no press is being tracked.
activate == read_signal = 1 /\ ~tracking

\* Mutant of deactivate: the end of the count is one past its last value.
MutDeactivateLate == inactivity_counter = CounterMax + 1

deactivate == inactivity_counter = CounterMax

-------------------------------------------------------------------------------

ResetRegisters ==
  /\ key_index' = 0
  /\ read_signal' = 0 /\ read_hex' = 0
  /\ tracking' = FALSE /\ tracked_hex' = 0 /\ tracked_signal' = 0
  /\ inactivity_counter' = 0
  /\ left_hex' = 4 /\ right_hex' = 2

\* Mutant of Scan: the label is not delayed with its signal.
MutScanLabelNotDelayed ==
  /\ key_index' = (key_index + 1) % 16
  /\ read_signal' = Bit(raw_signal(key_index))
  /\ read_hex' = hex_value[(key_index + 1) % 16]

Scan ==
  /\ key_index' = (key_index + 1) % 16
  /\ read_signal' = Bit(raw_signal(key_index))
  /\ read_hex' = hex_value[key_index]

\* Mutant of Track: the tracked key is only marked by its first contact.
MutTrackNoContact ==
  /\ tracking' = IF deactivate THEN FALSE ELSE activate \/ tracking
  /\ tracked_hex' = IF activate THEN read_hex ELSE tracked_hex
  /\ tracked_signal' = IF activate THEN read_signal ELSE 0

Track ==
  /\ tracking' = IF deactivate THEN FALSE ELSE activate \/ tracking
  /\ tracked_hex' = IF activate THEN read_hex ELSE tracked_hex
  /\ tracked_signal' = IF read_hex = tracked_hex THEN read_signal ELSE 0

\* Mutant of CountQuiet: contact pauses the count instead of clearing it.
MutCountPauses ==
  inactivity_counter' = IF ~tracking THEN 0
                        ELSE IF tracked_signal = 0
                        THEN (inactivity_counter + 1) % (CounterMax + 1)
                        ELSE inactivity_counter

CountQuiet ==
  inactivity_counter' = IF tracking /\ tracked_signal = 0
                        THEN (inactivity_counter + 1) % (CounterMax + 1)
                        ELSE 0

\* Mutant of Record: contact is recorded while a press is tracked.
MutRecordEveryContact ==
  IF read_signal = 1 THEN left_hex' = right_hex /\ right_hex' = read_hex
                     ELSE UNCHANGED recordVars

Record ==
  IF activate THEN left_hex' = right_hex /\ right_hex' = read_hex
              ELSE UNCHANGED recordVars

\* A rising clock edge with reset low.
Clock ==
  /\ ~reset
  /\ Scan /\ Track /\ CountQuiet /\ Record
  /\ UNCHANGED <<closed, reset>>

\* The reset is asynchronous: its rising edge clears every register at once,
\* and clock edges change nothing while it is held.
PressReset ==
  /\ ~reset
  /\ reset' = TRUE
  /\ ResetRegisters
  /\ UNCHANGED closed

ReleaseReset ==
  /\ reset
  /\ reset' = FALSE
  /\ UNCHANGED <<closed, scanVars, trackVars, recordVars>>

\* Fingers press, release and bounce keys at any time.
Touch ==
  /\ closed' \in Touches \ {closed}
  /\ UNCHANGED <<reset, scanVars, trackVars, recordVars>>

\* The lab is used from its reset state: an FPGA register has no other
\* defined value before it.
Init ==
  /\ closed = {} /\ reset = TRUE
  /\ key_index = 0
  /\ read_signal = 0 /\ read_hex = 0
  /\ tracking = FALSE /\ tracked_hex = 0 /\ tracked_signal = 0
  /\ inactivity_counter = 0
  /\ left_hex = 4 /\ right_hex = 2

Next == Clock \/ PressReset \/ ReleaseReset \/ Touch

Spec == Init /\ [][Next]_vars

-------------------------------------------------------------------------------

\* Every register stays within its width.
TypeOK ==
  /\ closed \in Touches
  /\ reset \in BOOLEAN
  /\ key_index \in Keys
  /\ read_signal \in {0, 1} /\ read_hex \in Hex
  /\ tracking \in BOOLEAN /\ tracked_hex \in Hex /\ tracked_signal \in {0, 1}
  /\ inactivity_counter \in 0 .. CounterMax
  /\ left_hex \in Hex /\ right_hex \in Hex
===============================================================================
