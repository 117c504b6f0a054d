-------------------------------- MODULE UsbPipe --------------------------------
(***************************************************************************)
(* What the endpoints of the USB host stack are to its users, as           *)
(* USBHostTransferIsComplete tells it: a transfer that was started ends    *)
(* once, in a result, which stays until the next transfer or until the     *)
(* errors are cleared.  Module UsbTransfer implements it and module        *)
(* HidHost relies on it.                                                   *)
(***************************************************************************)
CONSTANTS
  Pipes,    \* the endpoints
  Control,  \* those whose errors need not be cleared before the next transfer
  MayAbort  \* may a transfer be given up: terminated, or its device detached?

VARIABLE status  \* of each pipe

Endings == {"ok", "stalled", "error"}

Init == status = [p \in Pipes |-> "unresolved"]

Prepare(p) == status[p] # "busy" /\ status'[p] = "unresolved"
Start(p) == /\ status[p] \in {"ok", "unresolved"} \/ (p \in Control /\ status[p] # "busy")
            /\ status'[p] = "busy"
End(p) == status[p] = "busy" /\ status'[p] \in Endings
Abort(p) == MayAbort /\ status'[p] = "unresolved"

\* The interrupt handler may end the transfers of several pipes at once.
Next ==
  /\ DOMAIN status' = Pipes
  /\ \A p \in Pipes : \/ status'[p] = status[p]
                      \/ Prepare(p) \/ Start(p) \/ End(p) \/ Abort(p)

Spec == Init /\ [][Next]_status
================================================================================
