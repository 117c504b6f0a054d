------------------------------- MODULE UsbHostMC -------------------------------
(* A mouse, a full-speed device with two configurations, a hub, a device that is
   not supported and one without configurations. *)
EXTENDS UsbHostProperties

Mouse   == [hub |-> FALSE, low |-> TRUE,  configs |-> 1, supported |-> {1}]
Combo   == [hub |-> FALSE, low |-> FALSE, configs |-> 2, supported |-> {2}]
Hub     == [hub |-> TRUE,  low |-> FALSE, configs |-> 1, supported |-> {}]
Unknown == [hub |-> FALSE, low |-> FALSE, configs |-> 1, supported |-> {}]
Bare    == [hub |-> FALSE, low |-> TRUE,  configs |-> 0, supported |-> {}]

AllDevices   == {Mouse, Combo, Hub, Unknown, Bare}
Usual        == {Mouse, Combo, Unknown}
FullSpeed    == {Combo}
EveryCall    == {"reset", "suspend", "resume", "overcurrent", "powerAvailable"}
Configuring  == {"setConfiguration"}
PowerCalls   == {"overcurrent", "powerAvailable"}
WakeCalls    == {"suspend", "resume", "setConfiguration"}
Configuration == {1}
UnknownConfiguration == {3}
Always       == {TRUE}
YesOrNo      == {TRUE, FALSE}
NoCalls      == {}
================================================================================
