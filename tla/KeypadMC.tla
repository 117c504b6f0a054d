------------------------------- MODULE KeypadMC -------------------------------
(* Two keys in different rows and columns, pressed together or alone; one   *)
(* of them has the label that the tracker holds after a reset.              *)
EXTENDS KeypadDebounce

TwoKeys == SUBSET {0, 13}
===============================================================================
