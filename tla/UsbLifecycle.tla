----------------------------- MODULE UsbLifecycle ------------------------------
(***************************************************************************)
(* What the USB host stack promises of a device, as USBHostDeviceStatus    *)
(* tells it: it is enumerated before it is attached or refused, it runs    *)
(* only with its client driver, a refused one stays refused until it is    *)
(* detached, and no device is looked at before the client driver has been  *)
(* told that the last one is gone.                                         *)
(***************************************************************************)
CONSTANTS Errors   \* the reasons a device is refused for

VARIABLES status, client

Statuses == {"DETACHED", "ENUMERATING", "ATTACHED", "SUSPENDED"} \cup Errors

Init == status = "DETACHED" /\ client = FALSE

Connect == status = "DETACHED" /\ ~client /\ status' = "ENUMERATING" /\ UNCHANGED client
Accept  == status = "ENUMERATING" /\ status' = "ATTACHED" /\ client' = TRUE
Refuse  == status = "ENUMERATING" /\ status' \in Errors /\ (client' = TRUE \/ UNCHANGED client)
Suspend == status = "ATTACHED" /\ status' = "SUSPENDED" /\ UNCHANGED client
Resume  == status = "SUSPENDED" /\ status' = "ATTACHED" /\ UNCHANGED client
Detach  == status' = "DETACHED" /\ (client' = FALSE \/ UNCHANGED client)

Next == Connect \/ Accept \/ Refuse \/ Suspend \/ Resume \/ Detach

Spec == Init /\ [][Next]_<<status, client>>
================================================================================
