---------------------------------- MODULE HidMC ----------------------------------
(* A boot mouse, a keyboard with a mouse on its second interface, and devices that are
   not what they seem. *)
EXTENDS HidProperties

Good == [hid |-> TRUE, in |-> TRUE, out |-> FALSE, described |-> TRUE, parses |-> TRUE,
         collects |-> TRUE, size |-> 3]
Mouse     == <<Good>>
Combo     == <<[Good EXCEPT !.out = TRUE], [Good EXCEPT !.collects = FALSE]>>
Composite == <<Good, [Good EXCEPT !.hid = FALSE]>>
Joystick  == <<[Good EXCEPT !.collects = FALSE]>>
Garbled   == <<Good, [Good EXCEPT !.parses = FALSE]>>
Mute      == <<[Good EXCEPT !.in = FALSE]>>

WellFormed == {Mouse, Combo, Composite}
Mixed      == {Mouse, Combo, Joystick, Garbled}
Refused    == {Mouse, Joystick}
Leftover   == {Mouse, Mute}
AnyResult  == {"ok", "stalled", "error"}
Always     == {TRUE}
YesOrNo    == {TRUE, FALSE}
EveryCall  == {"read", "write", "reset", "terminate"}
Reads      == {"read"}
Resets     == {"read", "reset"}
NoCalls    == {}
================================================================================
