----------------------------- MODULE DescriptorsMC -----------------------------
(***************************************************************************)
(* Bounded instances of the two parsers of descriptors and what uses their *)
(* results: the report descriptor parser of the HID driver, and the        *)
(* configuration descriptor parser of the USB host stack.  Each behaviour  *)
(* runs one of them; the other waits.                                      *)
(***************************************************************************)
EXTENDS HidReportProperties, UsbConfiguration

VARIABLE program
descriptorVars == <<program, importVars, configVars>>

Sized(tag, n, bytes) == <<[tag |-> tag, data |-> n, size |-> bytes, kind |-> "usage"]>>
Of(tag, n) == Sized(tag, n, 1)
Local(kind, tag, n) == <<[tag |-> tag, data |-> n, size |-> 1, kind |-> kind]>>
In(d) == Of("Collection", 1) \o d \o Of("EndCollection", 0)

Fld(modes, size, count) == Of("ReportSize", size) \o Of("ReportCount", count) \o Of("Input", modes)

Buttons ==
  Of("UsagePage", 9) \o Of("Minimum", 1) \o Of("Maximum", 3)
    \o Of("LogicalMaximum", 1) \o Fld(2, 1, 3) \o Fld(1, 5, 1)
Axes == Of("Index", 3) \o Sized("Index", 65536 + 4, 4)
XY8 == Of("UsagePage", 1) \o Axes \o Of("LogicalMinimum", 129) \o Fld(6, 8, 2)
XY12 ==
  Of("UsagePage", 1) \o Axes \o Sized("LogicalMinimum", 63488, 2)
    \o Sized("LogicalMaximum", 2047, 2) \o Fld(6, 12, 2)
Output == Of("Index", 2) \o Of("ReportSize", 3) \o Of("ReportCount", 2) \o Of("Output", 2)

Twice == Of("Minimum", 1) \o Of("Minimum", 2) \o Of("Maximum", 3)

\* What comes first in a descriptor.
First == {
  <<>>,
  Buttons,
  Of("Index", 1) \o In(Buttons) \o In(<<>>),
  Of("ReportID", 1) \o Buttons \o Of("ReportID", 2) \o Output \o Of("ReportID", 1),
  Of("ReportID", 1) \o Of("Push", 0) \o Of("ReportID", 3) \o Buttons \o Of("Pop", 0),
  Of("ReportCount", 2) \o Of("Push", 0) \o Of("Push", 0) \o Buttons \o Of("Pop", 0)
    \o Of("Pop", 0) \o Of("Other", 0),
  Local("string", "Index", 4) \o Local("designator", "Maximum", 5)
    \o Local("designator", "Minimum", 2) \o Buttons \o Local("string", "Minimum", 1)
    \o Local("string", "Maximum", 3),
  Of("UsagePage", 9) \o Of("Minimum", 2) \o Of("Maximum", 3) \o Of("Index", 3) \o Of("Index", 1)
    \o Fld(2, 2, 4),
  Of("EndCollection", 0) \o Buttons,
  Of("Pop", 0) \o Of("Push", 0),
  In(Of("ReportSize", 0)),
  In(Of("ReportCount", 0)),
  Of("ReportID", 0),
  Of("Maximum", 3) \o Of("Minimum", 1),
  Of("Minimum", 3) \o Of("Maximum", 1),
  Of("Minimum", 1) \o Output \o Of("Maximum", 1),
  Local("string", "Minimum", 1),
  Twice \o Output \o Twice,
  Local("designator", "Maximum", 1) \o Output \o Local("designator", "Minimum", 1),
  Fld(2, 32, 1),
  Sized("Index", -16777215, 4) \o Sized("LogicalMinimum", -32769, 4)
    \o Sized("LogicalMaximum", 127, 4) \o Fld(6, 8, 1)}

Last == {XY8, XY12, Output \o In(In(Output)) \o In(XY8)}

MCDescriptors ==
  {In(f \o l) : f \in First, l \in Last}
    \union {In(Buttons) \o In(XY8), Buttons, In(<<>>), In(Buttons) \o Of("Collection", 1)}

\* Configurations: what follows the first descriptor of each.
Desc(type, number, alt, endpoints, supported, address) ==
  <<[type |-> type, number |-> number, alt |-> alt, endpoints |-> endpoints,
     supported |-> supported, address |-> address]>>
Driven(number, alt, endpoints) == Desc("interface", number, alt, endpoints, TRUE, 0)
Foreign(number, alt, endpoints) == Desc("interface", number, alt, endpoints, FALSE, 0)
Endpoint(address) == Desc("endpoint", 0, 0, 0, FALSE, address)
HidDescriptor == Desc("other", 0, 0, 0, FALSE, 0)

OneInterface == Driven(0, 0, 1) \o HidDescriptor \o Endpoint(129)
TwoInterfaces == OneInterface \o Driven(1, 0, 1) \o HidDescriptor \o Endpoint(130)
TwoSettings ==
  OneInterface \o Driven(1, 0, 0) \o Driven(1, 1, 2) \o Endpoint(130) \o Endpoint(2)
NotDriven == Foreign(0, 0, 1) \o Endpoint(129)
EndpointMissing == Driven(0, 0, 2) \o Endpoint(129)

MCConfigured == {
  <<OneInterface>>, <<NotDriven>>, <<EndpointMissing, TwoInterfaces>>,
  <<NotDriven, Foreign(1, 0, 1) \o Endpoint(130) \o OneInterface>>,
  <<TwoSettings, OneInterface>>}

MCReports == {SubSeq(r, 1, n) : r \in {<<165, 60, 129, 210>>, <<2, 255, 128, 1>>}, n \in 1 .. 4}

DescriptorsInit == ImportInit /\ ConfigInit /\ program \in {"hid", "usb"}
DescriptorsNext ==
  \/ program = "hid" /\ ImportNext /\ UNCHANGED <<program, configVars>>
  \/ program = "usb" /\ ConfigNext /\ UNCHANGED <<program, importVars>>
DescriptorsSpec == DescriptorsInit /\ [][DescriptorsNext]_descriptorVars
===============================================================================
