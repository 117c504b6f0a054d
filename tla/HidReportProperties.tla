-------------------------- MODULE HidReportProperties --------------------------
(***************************************************************************)
(* What the tables of HidReport and the values of HidImport have to be,    *)
(* told from the descriptor as a whole: which items it has before and      *)
(* after others.                                                           *)
(***************************************************************************)
EXTENDS HidImport, FiniteSetsExt

D == descriptor
Positions(tags) == {p \in DOMAIN D : D[p].tag \in tags}
Before(p, tags) == {q \in Positions(tags) : q < p}
Number(p, tags) == Cardinality(Before(p, tags))

\* The collections that are open at a position, and the number of the innermost.
Depth(p) == Number(p, {"Collection"}) - Number(p, {"EndCollection"})
Around(p) == {q \in Before(p, {"Collection"}) : \A r \in q + 1 .. p : Depth(r) > Depth(q)}
CollectionNumber(p) == 1 + Number(p, {"Collection"})
Parent(p) == IF Around(p) = {} THEN 0 ELSE CollectionNumber(Max(Around(p)))

\* What a global item is at a position: the last one before it that no Pop has undone.
Pushed(p) == Number(p, {"Push"}) - Number(p, {"Pop"})
Undone(q, p) ==
  \E r \in Before(p, {"Pop"}) :
    /\ r > q
    /\ Max({m \in Before(r, {"Push"}) : Pushed(m) = Pushed(r) - 1}) < q
InForce(tag, p) == {q \in Before(p, {tag}) : ~Undone(q, p)}
Global(tag, p) == IF InForce(tag, p) = {} THEN 0 ELSE D[Max(InForce(tag, p))].data

\* The fields of the reports: a field begins where those before it of the same report end.
ReportOf(p) == Global("ReportID", p)
Bits(p) == Global("ReportSize", p) * Global("ReportCount", p)
SameReport(p) == {q \in Positions({D[p].tag}) : ReportOf(q) = ReportOf(p)}
Begin(p) == (IF ReportOf(p) = 0 THEN 0 ELSE 8) + MapThenSumSet(Bits, {q \in SameReport(p) : q < p})
Length(p) == (IF ReportOf(p) = 0 THEN 0 ELSE 8) + MapThenSumSet(Bits, SameReport(p))
ItemNumber(p) == Number(p, DataTags)

\* The local items of one kind that belong to a position: those since the last item that
\* took them.  Of a range, the bound that comes second makes the entry.
Takers(k) == IF k = "usage" THEN DataTags \union {"Collection"} ELSE DataTags
Bounds(k, p) == {q \in Before(p, {"Minimum", "Maximum"}) : D[q].kind = k}

\* The minima less the maxima: out of -1 .. 1 at some position only if a bound was given
\* again before the other one came.
Waiting(k, p) ==
  Cardinality({q \in Bounds(k, p) : D[q].tag = "Minimum"})
    - Cardinality({q \in Bounds(k, p) : D[q].tag = "Maximum"})
GivenOnce(k, p) == \A q \in 1 .. p : Waiting(k, q) \in -1 .. 1
Entries(k) ==
  {q \in Positions({"Index"}) : D[q].kind = k}
    \union {q \in Positions({"Minimum", "Maximum"}) :
              D[q].kind = k /\ Cardinality(Bounds(k, q)) % 2 = 1}
Own(k, p) == {q \in Entries(k) : q < p /\ Before(p, Takers(k)) \subseteq 1 .. q}

\* What an entry says: one number, or the lowest and the highest.
SaysIndex(q, entry) == ~entry.isRange /\ entry.index = D[q].data % 65536
SaysRange(k, q, entry) ==
  LET both == {D[q], D[Max(Bounds(k, q))]} IN
  /\ entry.isRange
  /\ \E x, y \in both : /\ x.tag = "Minimum" /\ x.data % 65536 = entry.minimum
                        /\ y.tag = "Maximum" /\ y.data % 65536 = entry.maximum
Says(k, q, entry) ==
  /\ IF D[q].tag = "Index" THEN SaysIndex(q, entry) ELSE SaysRange(k, q, entry)
  /\ k = "usage" => entry.usagePage = (IF D[q].size = 4 THEN (D[q].data \div 65536) % 65536
                                       ELSE Global("UsagePage", q))

-------------------------------------------------------------------------------
Words == {n \in Nat : n <= 65535}

\* The variables of the parser stay in their ranges.
ParserTypeOK ==
  /\ phase \in {"idle", "count", "fill", "parsed", "running", "overrun", "overflow"}
  /\ at \in 1 .. Len(D) + 1
  /\ {info.collections, info.collectionNesting, info.reportItems, info.reports,
      info.globalsNesting, info.parent, info.sibling} \subseteq 0 .. 255
  /\ \A k \in Kinds : info.items[k] \in 0 .. 255 /\ info.first[k] \in 0 .. 255
  /\ \A i \in DOMAIN reportItemList : reportItemList[i].startBit \in 0 .. 255
  /\ \A i \in DOMAIN reportList : \A t \in DataTags : reportList[i][t] \in Words

\* "First parse to calculate the space required for all the items"
\* (usb_host_hid_parser.c:183): the second pass, which numbers items by other rules than
\* the first, needs no more room than the first has counted, provided that it began with
\* the variables that are not reset as they were when the program started.
FitsRoom ==
  phase = "overrun" =>
    \/ found.parent # 0
    \/ \E k \in {"string", "designator"} : found.items[k] # 0

\* A descriptor is taken only if its collections are closed as they were opened, each Pop
\* has its Push, and no bound is missing when a report item needs it, provided that none was
\* given twice.
TakesOnlyMatched ==
  phase = "parsed" =>
    /\ Depth(Len(D) + 1) = 0 /\ \A p \in DOMAIN D : Depth(p) >= 0
    /\ \A p \in Positions({"Pop"}) : Pushed(p) > 0
    /\ \A p \in Positions(DataTags) : \A k \in Kinds : GivenOnce(k, p) => Waiting(k, p) = 0

\* The report item of each Input, Output and Feature item has the global items that are in
\* force there, with Push and Pop and whatever report IDs come between: of the page a word,
\* of the size and the count a byte.
GlobalsInForce ==
  phase = "parsed" =>
    \A p \in Positions(DataTags) :
      LET r == reportItemList[ItemNumber(p)] IN
      /\ r.reportType = D[p].tag
      /\ r.globals.usagePage = Global("UsagePage", p) % 65536
      /\ r.globals.reportsize = Global("ReportSize", p) % 256
      /\ r.globals.reportCount = Global("ReportCount", p) % 256

\* Each report item begins where the item before it in the same report ends, and each report
\* is as long as its items.
FieldsFollow ==
  phase = "parsed" =>
    \A p \in Positions(DataTags) :
      LET r == reportItemList[ItemNumber(p)]
          l == reportList[r.globals.reportIndex] IN
      /\ r.startBit = Begin(p) % 256
      /\ l.reportID = ReportOf(p) /\ l[D[p].tag] = Length(p)

\* "convert to signed val" (usb_host_hid_parser.c:416): the bounds of a report item are
\* the numbers that their bytes, one, two or four, are as signed numbers of that size.
BoundsAreSigned ==
  phase = "parsed" =>
    \A p \in Positions(DataTags) : \A tag \in {"LogicalMinimum", "LogicalMaximum"} :
      LET g == reportItemList[ItemNumber(p)].globals
          v == IF tag = "LogicalMinimum" THEN g.logicalMinimum ELSE g.logicalMaximum
          q == Max(InForce(tag, p)) IN
      InForce(tag, p) # {} =>
        /\ D[q].size \in {1, 2} =>
             /\ (v - D[q].data) % Span(D[q]) = 0
             /\ -(Span(D[q]) \div 2) <= v /\ v < Span(D[q]) \div 2
        /\ D[q].size \in {0, 4} => v = D[q].data

\* What the driver is given of a descriptor that is taken: the fields of each report as the
\* descriptor as a whole has them, through all counters, stacks and conversions.
TablesFollowDescriptor ==
  ParserTypeOK /\ TakesOnlyMatched /\ GlobalsInForce /\ FieldsFollow /\ BoundsAreSigned

\* Every report item has the usages, designators and strings that stand before it, and
\* none of another item, provided that no bound of a range is given twice and the first item
\* that takes any has not been given those that the descriptor before left.
UsagesAreTheirOwn ==
  phase = "parsed" =>
    \A p \in Positions(DataTags) : \A k \in Kinds :
      LET r == reportItemList[ItemNumber(p)] IN
      GivenOnce(k, p) /\ (Before(p, Takers(k)) # {} \/ found.first[k] = 0) =>
        /\ k = "usage" \/ found.items[k] = 0 => r.items[k] = Cardinality(Own(k, p))
        /\ \A q \in Own(k, p) :
             Says(k, q, itemList[k][r.first[k] + Cardinality({o \in Own(k, p) : o < q})])

\* The tree: from a collection, its first child and then the siblings lead to the
\* collections in it and to no other; its report items are those in it.
Children(c) ==
  LET from[d \in DOMAIN collectionList] ==
        IF d = 0 THEN {} ELSE {d} \union from[collectionList[d].nextSibling]
  IN from[collectionList[c].firstChild]
CollectionsFormTree ==
  phase = "parsed" /\ found.sibling = 0 /\ found.parent = 0 =>
    /\ \A c \in DOMAIN collectionList :
         Children(c) = {CollectionNumber(p) : p \in {q \in Positions({"Collection"}) : Parent(q) = c}}
    /\ \A p \in Positions({"Collection"}) :
         LET c == collectionList[CollectionNumber(p)] IN
         /\ c.parent = Parent(p)
         /\ c.firstReportItem = ItemNumber(p)
         /\ c.reportItems = Cardinality({q \in Positions(DataTags) : p \in Around(q)})
    /\ \A p \in Positions(DataTags) : reportItemList[ItemNumber(p)].parent = Parent(p)

\* The usages of a report item in their order, each range spelled out.
Usages(r) ==
  LET spelled(u) == IF u.isRange THEN [n \in 1 .. u.maximum - u.minimum + 1 |->
                                         <<u.usagePage, u.minimum + n - 1>>]
                    ELSE <<<<u.usagePage, u.index>>>>
      upTo[n \in 0 .. r.items["usage"]] ==
        IF n = 0 THEN <<>> ELSE upTo[n - 1] \o spelled(UsageItem(r, n - 1))
  IN upTo[r.items["usage"]]

\* "locate the usage in a report descriptor" (usb_host_hid_parser.c:1000): a usage is found
\* at the field of the first item that can have it, at its place among the usages there.
FindsUsages ==
  phase = "parsed" /\ found.first["usage"] = 0 =>
    \A type \in {"Input", "Output"}, page \in {1, 9}, usage \in 0 .. 4 :
      LET items == {p \in Positions({type}) :
                      \E n \in DOMAIN Usages(reportItemList[ItemNumber(p)]) :
                        Usages(reportItemList[ItemNumber(p)])[n] = <<page, usage>>}
          values == {p \in items : VariableBit(D[p].data) /\ Global("ReportSize", p) # 1}
          place(p) == Min({n \in DOMAIN Usages(reportItemList[ItemNumber(p)]) :
                             Usages(reportItemList[ItemNumber(p)])[n] = <<page, usage>>}) - 1 IN
      /\ {l.Start_Bit : l \in ApiFindBit(page, usage, type)}
           = {(Begin(p) + place(p)) % 256 : p \in {q \in items : \A o \in items : q <= o}}
      /\ {<<l.Start_Bit, l.Bit_Length, l.Report_Length>> : l \in ApiFindValue(page, usage, type)}
           = {<<(Begin(p) + place(p) * Global("ReportSize", p)) % 256, Global("ReportSize", p),
                BytesOf(Length(p))>> : p \in {q \in values : \A o \in values : q <= o}}

\* From the usages of the descriptor to the fields that a client finds by them.
UsagesAreFound == UsagesAreTheirOwn /\ FindsUsages

-------------------------------------------------------------------------------
\* The number that some bits of a report are, the least significant first.
Bit(data, j) == (data[j \div 8 + 1] \div 2^(j % 8)) % 2
Field(data, start, length) ==
  LET weight(j) == Bit(data, start + j) * 2^j IN MapThenSumSet(weight, 0 .. length - 1)

\* Bytes are gathered from the last one down and shifted: a field of up to 16 bits that
\* lies within two bytes is its bits, and with its sign extended the signed number.
ExtractsFields ==
  phase = "running" => \A start \in 0 .. 8 * Len(report) - 1, length \in 1 .. 16 :
    (start % 8) + length <= 16 /\ start + length <= 8 * Len(report) =>
      LET f == Field(report, start, length)
          negative == Bit(report, start + length - 1) = 1 IN
      /\ Extracted(report, start, length, FALSE) = f
      /\ Extracted(report, start, length, TRUE) = Word(IF negative THEN f - 2^length ELSE f)

\* The field that the application takes, as the descriptor has it.
Taken(f) ==
  {p \in Positions({"Input"}) :
     /\ D[p].data = (IF f = "XY" THEN 6 ELSE 2)
     /\ Global("UsagePage", p) = (IF f = "XY" THEN 1 ELSE 9)}

\* From the descriptor to the values: after a report each value is the low byte of the bits
\* that the descriptor gives it, whatever devices came before.  A descriptor with report IDs,
\* which the application refuses, has no such field: the details are taken from it all the
\* same, but the size of the reports is still that of another interface.
ReadsFields ==
  [][(report' # report \/ buffer' # buffer) /\ Positions({"ReportID"}) = {} =>
       \A f \in Fields : Taken(f) # {} =>
         LET p == Max(Taken(f))
             size == Global("ReportSize", p) IN
         Begin(p) < 256 =>
           \A k \in 0 .. Global("ReportCount", p) - 1 :
             ((Begin(p) + k * size) % 8) + size <= 16 =>
               buffer'[f][k] = Field(report', Begin(p) + k * size, size) % 256]_importVars

\* The LEDs show the buttons of a report, the first one lowest.
LedsShowButtons ==
  [][leds' # leds /\ Positions({"ReportID"}) = {} =>
       \A p \in {Max(P) : P \in {Taken("Buttons")} \ {{}}} : Global("ReportSize", p) = 1 =>
         \A k \in 0 .. Global("ReportCount", p) - 1 :
           k \in leds' <=> Bit(report', Begin(p) + k) = 1]_importVars

\* From the bytes of a report to the LEDs: each step takes the bits that the one before it
\* and the descriptor mean.
ReadsReports == []ExtractsFields /\ ReadsFields /\ LedsShowButtons

\* "to Initialize report information to default value before every parse"
\* (usb_host_hid_parser.c:726-727): what a pass finds does not depend on earlier descriptors.
StartsAfresh == phase = "fill" /\ at = 1 => info = InitDeviceRptInfo(ZeroInfo)

\* "Either Minimum or Maximum for usage range missing" (usb_host_hid_parser.h:419): of a
\* descriptor that is taken, every report item has as many of the one as of the other.
BoundsComeInPairs ==
  phase = "parsed" => \A p \in Positions(DataTags) : Waiting("usage", p) = 0
===============================================================================
