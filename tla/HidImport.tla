------------------------------- MODULE HidImport -------------------------------
(***************************************************************************)
(* What is done with the tables of HidReport: the interface of the HID     *)
(* client driver that finds a usage in them and takes a field out of a     *)
(* report (usb_host_hid.c), and the mouse application, which collects      *)
(* where the buttons and the movements are and reads them from each        *)
(* report (Mouse_demo.c).                                                  *)
(***************************************************************************)
EXTENDS HidReport

CONSTANTS
  Reports,      \* the reports that devices send, as sequences of bytes
  JunkSizes,    \* sizes that a report index may lead to that has not been set
  MaxParses     \* bound: the descriptors that are parsed

ASSUME ReportAssumption ==
  /\ Reports \subseteq Seq(0 .. 255) /\ JunkSizes \subseteq Nat /\ MaxParses \in Nat

VARIABLES
  taken,            \* whether the driver took every descriptor of the device so far
  collected,        \* breportDataCollected
  details,          \* Appl_XY_Axis_Details and Appl_Mouse_Buttons_Details
  ReportSize,       \* of Appl_raw_report_buffer
  report,           \* ReportData of Appl_raw_report_buffer
  buffer,           \* Appl_XY_report_buffer and Appl_Button_report_buffer
  leds,             \* PORTD, as the set of the bits that are 1
  parses            \* how many descriptors have been parsed

appVars == <<taken, collected, details, ReportSize, report, buffer, leds>>
importVars == <<parserVars, appVars, parses>>

Fields == {"XY", "Buttons"}
HIDData_Variable == 2
HIDData_Relative == 4
VariableBit(modes) == (modes \div HIDData_Variable) % 2 = 1
BytesOf(bits) == (bits + 7) \div 8

-------------------------------------------------------------------------------
(* The interface of the driver. *)

\* A usage item: whether it has the usage, and how many it has.
HasIt(u, page, usage) ==
  /\ page \in {0, u.usagePage}
  /\ IF u.isRange THEN u.minimum <= usage /\ usage <= u.maximum ELSE usage = u.index
\* How many is a SHORT: a negative one is negated, and made a word again.
SizeOf(u) ==
  LET n == Word(u.maximum - u.minimum + 1) IN
  IF ~u.isRange THEN 1 ELSE IF n < 32768 THEN n ELSE 65536 - n

UsageItem(r, n) == itemList["usage"][Byte(r.first["usage"] + n)]

\* usageIndex when the item n of the report item is reached.
IndexOf(r, n) ==
  LET index[m \in 0 .. n] == IF m = 0 THEN 0 ELSE Word(index[m - 1] + SizeOf(UsageItem(r, m - 1)))
  IN index[n]

\* HasUsage: the index of the usage in a report item, if it is there.
UsageIndexes(r, page, usage) ==
  LET has == {n \in 0 .. r.items["usage"] - 1 : HasIt(UsageItem(r, n), page, usage)}
      n == CHOOSE n \in has : \A m \in has : n <= m
      u == UsageItem(r, n) IN
  IF has = {} THEN {}
  ELSE {Word(IndexOf(r, n) + (IF u.isRange THEN usage - u.minimum ELSE 0))}

\* The first of some report items that has the usage.
Found(page, usage, eligible) ==
  LET has == {i \in eligible : UsageIndexes(reportItemList[i], page, usage) # {}} IN
  {i \in has : \A j \in has : i <= j}

Location(i, type, start, bits) ==
  LET r == reportItemList[i]
      l == reportList[r.globals.reportIndex] IN
  [Report_ID |-> Byte(l.reportID), Report_Length |-> Byte(BytesOf(l[type])),
   Start_Bit |-> Byte(start), Bit_Length |-> bits]

ReportItems(type) == {i \in 0 .. info.reportItems - 1 : reportItemList[i].reportType = type}

ApiFindBit(page, usage, type) ==
  UNION {{Location(i, type, reportItemList[i].startBit + index, 1) :
            index \in UsageIndexes(reportItemList[i], page, usage)} :
           i \in Found(page, usage, ReportItems(type))}

ApiFindValue(page, usage, type) ==
  LET values == {i \in ReportItems(type) : VariableBit(reportItemList[i].dataModes)
                                            /\ reportItemList[i].globals.reportsize # 1} IN
  UNION {LET r == reportItemList[i] IN
         {Location(i, type, r.startBit + index * r.globals.reportsize, r.globals.reportsize) :
            index \in UsageIndexes(r, page, usage)} :
           i \in Found(page, usage, values)}

\* The bytes from first to last of a report, shifted into a word from the last one on.
Gathered(data, first, last) ==
  LET word[b \in first .. last] ==
        Word((IF b = last THEN 0 ELSE 256 * word[b + 1]) + data[b + 1])
  IN word[first]

\* One value of ImportData.
Extracted(data, start, length, signExtend) ==
  LET w == Gathered(data, start \div 8, (start + length - 1) \div 8) \div 2^(start % 8)
      masked == w % 2^length IN
  IF length >= 16 THEN w
  ELSE IF signExtend /\ masked >= 2^(length - 1) THEN masked + 65536 - 2^length ELSE masked

\* ApiImportData: whether the report is the one that d is of, and long enough.
Imports(data, d) ==
  /\ d.reportID # 0 => d.reportID = data[1]
  /\ d.reportLength = Len(data)
  /\ (d.bitOffset + d.bitLength * d.count - 1) \div 8 <= Len(data)

\* The buffer has bytes for the values.
Imported(data, d, old) ==
  IF ~Imports(data, d) THEN old
  ELSE [k \in 0 .. 2 |-> IF k >= d.count THEN old[k]
                         ELSE Byte(Extracted(data, d.bitOffset + k * d.bitLength, d.bitLength, FALSE))]

-------------------------------------------------------------------------------
(* The application. *)

NoDetails == [reportLength |-> 0, reportID |-> 0, bitOffset |-> 0, bitLength |-> 0, count |-> 0]

ImportInit ==
  /\ ParserInit
  /\ taken = FALSE /\ collected = FALSE /\ details = [f \in Fields |-> NoDetails] /\ ReportSize = 0
  /\ report = <<>> /\ buffer = [f \in Fields |-> [k \in 0 .. 2 |-> 0]] /\ leds = {} /\ parses = 0

\* The report items that the application takes for a field: of the page of the generic
\* desktop, relative, and of that of the buttons, absolute.
Matching(f) ==
  {i \in 0 .. info.reportItems - 1 :
     LET r == reportItemList[i] IN
     /\ r.reportType = "Input"
     /\ r.dataModes = (IF f = "XY" THEN HIDData_Variable + HIDData_Relative ELSE HIDData_Variable)
     /\ r.globals.usagePage = (IF f = "XY" THEN 1 ELSE 9)}

LastOf(S) == CHOOSE i \in S : \A j \in S : j <= i

LengthOf(i) == BytesOf(reportList[reportItemList[i].globals.reportIndex].Input)

\* A bug: the offset in the report is not kept.
MutCollected(f) ==
  IF Matching(f) = {} THEN details[f]
  ELSE LET i == LastOf(Matching(f))
           r == reportItemList[i] IN
       [reportLength |-> LengthOf(i), reportID |-> r.globals.reportID, bitOffset |-> 0,
        bitLength |-> r.globals.reportsize, count |-> r.globals.reportCount]

Collected(f) ==
  IF Matching(f) = {} THEN details[f]
  ELSE LET i == LastOf(Matching(f))
           r == reportItemList[i] IN
       [reportLength |-> LengthOf(i), reportID |-> r.globals.reportID, bitOffset |-> r.startBit,
        bitLength |-> r.globals.reportsize, count |-> r.globals.reportCount]

\* The details of the device before stay where an item is missing, and with both missing
\* the report index is not set.
DataCollectionHandler ==
  /\ phase = "parsed"
  /\ details' = [f \in Fields |-> Collected(f)]
  /\ taken' = TRUE
  /\ LET all == Matching("XY") \union Matching("Buttons") IN
     IF info.reports # 1 THEN UNCHANGED <<collected, ReportSize>>
     ELSE /\ collected' = TRUE
          /\ IF all = {} THEN ReportSize' \in JunkSizes ELSE ReportSize' = LengthOf(LastOf(all))
  /\ phase' = "idle"
  /\ UNCHANGED <<descriptor, at, lhidError, info, tables, found, report, buffer, leds, parses>>

\* The descriptor of the next interface, or of the next device.
Parse ==
  /\ parses < MaxParses /\ ParseReport
  /\ parses' = parses + 1
  /\ UNCHANGED appVars

\* The parser goes on; the driver holds the device when a descriptor is refused.
ParseOn ==
  /\ CountItem \/ Allocate \/ FillItem \/ Parsed
  /\ taken' = (taken /\ phase' # "idle")
  /\ UNCHANGED <<collected, details, ReportSize, report, buffer, leds, parses>>

\* The flag is that of any device so far: nothing clears it.
Run ==
  /\ phase = "idle" /\ taken /\ collected
  /\ phase' = "running"
  /\ UNCHANGED <<descriptor, at, lhidError, info, tables, found, appVars, parses>>

Detach ==
  /\ taken /\ phase \in {"idle", "running"}
  /\ phase' = "idle" /\ taken' = FALSE
  /\ UNCHANGED <<descriptor, at, lhidError, info, tables, found, collected, details, ReportSize,
                 report, buffer, leds, parses>>

\* PORTD: the first button, the second a bit higher, and the third.
LedsOf(b) == {j \in 0 .. 9 : \E k \in 0 .. 2 : j >= k /\ (b[k] \div 2^(j - k)) % 2 = 1}

\* A report has come; its 4 bytes, and the 3 of each buffer, may be too few.
ProcessInputReport ==
  /\ phase = "running"
  /\ \E data \in Reports :
       /\ Len(data) = ReportSize
       /\ IF Len(data) > 4 \/ \E f \in Fields : Imports(data, details[f]) /\ details[f].count > 3
          THEN phase' = "overflow" /\ UNCHANGED <<report, buffer, leds>>
          ELSE /\ report' = data
               /\ buffer' = [f \in Fields |-> Imported(data, details[f], buffer[f])]
               /\ leds' = LedsOf(buffer'["Buttons"])
               /\ UNCHANGED phase
  /\ UNCHANGED <<descriptor, at, lhidError, info, tables, found, taken, collected, details,
                 ReportSize, parses>>

ImportNext ==
  \/ Parse \/ ParseOn \/ DataCollectionHandler
  \/ Run \/ ProcessInputReport \/ Detach

ImportSpec == ImportInit /\ [][ImportNext]_importVars
===============================================================================
