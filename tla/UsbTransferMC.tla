----------------------------- MODULE UsbTransferMC -----------------------------
(* A mouse, with one IN endpoint; a device with an OUT endpoint; one with two IN ones. *)
EXTENDS UsbTransferProperties

Mouse == <<"in1">>
Lights == <<"out1">>
TwoInputs == <<"in1", "in2">>
None == <<>>
In == {"in1"}
TwoIn == {"in1", "in2"}
NoIn == {}

Bytes == {0, 1, 3}
Packets == {1, 2, 3}
OneByte == {1}

InputCalls == {"read", "clearHalt", "clearErrors"}
OutputCalls == {"write", "clearHalt", "clearErrors", "suspend", "terminate"}
RequestCalls == {"request", "ask"}
ReadCalls == {"read"}
RequestOnly == {"request"}
SleepCalls == {"read", "suspend"}
StopCalls == {"read", "terminate"}
===============================================================================
