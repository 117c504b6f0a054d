-------------------------------- MODULE KeyPress -------------------------------
(***************************************************************************)
(* What the keypad reader promises, without the scan or the timing: at     *)
(* most one press is held at a time, a press enters the display exactly    *)
(* once, when it becomes held, and no other press enters before it is let  *)
(* go of.                                                                  *)
(***************************************************************************)
EXTENDS Integers

CONSTANT None  \* no press is held: not a digit

VARIABLES held, left, right
vars == <<held, left, right>>

Cleared == held = None /\ left = 4 /\ right = 2

Init == Cleared

Press(h) ==
  /\ held = None
  /\ held' = h
  /\ left' = right /\ right' = h

LetGo ==
  /\ held # None
  /\ held' = None
  /\ UNCHANGED <<left, right>>

Reset == held' = None /\ left' = 4 /\ right' = 2

Next == (\E h \in 0 .. 15 : Press(h)) \/ LetGo \/ Reset

Spec == Init /\ [][Next]_vars
===============================================================================
