------------------------------- MODULE HidReport -------------------------------
(***************************************************************************)
(* The report descriptor parser of the HID client driver                   *)
(* (usb_host_hid_parser.c).  A descriptor is parsed twice: the first pass  *)
(* counts its items, then memory is allocated for as many, and the second  *)
(* pass fills the tables.  Everything is kept in global variables, which   *)
(* the next descriptor, of another interface or device, finds as they are. *)
(* An item is [tag, data, size, kind]: kind tells the usage, designator    *)
(* and string items, which are called Index, Minimum and Maximum here,     *)
(* from each other.  The data of up to two bytes are the unsigned number   *)
(* that they are, of four bytes the signed one: the code keeps 32 bits, of *)
(* which a byte, a word and the upper word are the same for both.          *)
(***************************************************************************)
EXTENDS Integers, Sequences

CONSTANT Descriptors   \* the descriptors that devices have, as sequences of items

Kinds == {"usage", "designator", "string"}
DataTags == {"Input", "Output", "Feature"}

Tags ==
  DataTags \union
  {"Collection", "EndCollection", "UsagePage", "LogicalMinimum", "LogicalMaximum", "ReportSize",
   "ReportCount", "ReportID", "Push", "Pop", "Index", "Minimum", "Maximum", "Other"}

\* How many numbers one or two bytes hold, as many as which an item has.
Span(x) == IF x.size = 1 THEN 256 ELSE 65536
Items ==
  {x \in [tag : Tags, data : Int, size : {0, 1, 2, 4}, kind : Kinds] :
     /\ x.size = 0 => x.data = 0
     /\ x.size \in {1, 2} => 0 <= x.data /\ x.data < Span(x)
     /\ x.size = 4 => -2147483647 - 1 <= x.data /\ x.data <= 2147483647}

ASSUME DescriptorAssumption == Descriptors \subseteq Seq(Items) \ {<<>>}

VARIABLES
  phase,        \* idle, or the pass; overrun: the memory was written outside the
                \* tables, and what follows is undefined
  descriptor, at,                         \* the descriptor, and the item that is next
  lhidError,
  info,                                   \* deviceRptInfo
  collectionList, reportItemList, reportList, collectionStack, globalsStack,
  itemList,                               \* usageItemList, designatorItemList, stringItemList
  found                                   \* history: info when the parse began

tables == <<collectionList, reportItemList, reportList, collectionStack, globalsStack, itemList>>
parserVars == <<phase, descriptor, at, lhidError, info, tables, found>>

Byte(n) == n % 256
Word(n) == n % 65536
Larger(m, n) == IF m >= n THEN m ELSE n

NoGlobals ==
  [usagePage |-> 0, logicalMinimum |-> 0, logicalMaximum |-> 0, reportsize |-> 0,
   reportCount |-> 0, reportID |-> 0, reportIndex |-> 0]

None == [k \in Kinds |-> 0]
No == [k \in Kinds |-> FALSE]

\* deviceRptInfo when the program starts: all zero.
ZeroInfo ==
  [collections |-> 0, collectionNesting |-> 0, maxCollectionNesting |-> 0,
   reportItems |-> 0, reports |-> 0, globalsNesting |-> 0, maxGlobalsNesting |-> 0,
   indices |-> None, ranges |-> None, items |-> None, first |-> None,
   haveMin |-> No, haveMax |-> No, minimum |-> None, maximum |-> None,
   rangeUsagePage |-> 0, parent |-> 0, sibling |-> 0, globals |-> NoGlobals]

\* What is reset before each pass: not parent, sibling, the first items, and of the
\* numbers of items only that of the usages.
InitDeviceRptInfo(i) ==
  [i EXCEPT !.collectionNesting = 0, !.collections = 1, !.globalsNesting = 0,
            !.maxCollectionNesting = 0, !.maxGlobalsNesting = 0, !.reportItems = 0,
            !.reports = 1, !.indices = None, !.ranges = None, !.items.usage = 0,
            !.haveMin = No, !.haveMax = No, !.globals = NoGlobals]

Empty == [j \in {} |-> NoGlobals]

ParserInit ==
  /\ phase = "idle" /\ descriptor = <<>> /\ at = 1 /\ lhidError = "none"
  /\ info = ZeroInfo /\ found = info
  /\ collectionList = Empty /\ reportItemList = Empty /\ reportList = Empty
  /\ collectionStack = Empty /\ globalsStack = Empty /\ itemList = [k \in Kinds |-> Empty]

item == descriptor[at]
atEnd == at > Len(descriptor)

Return(error) == phase' = (IF error = "none" THEN "parsed" ELSE "idle") /\ lhidError' = error

\* The driver asks for no descriptor that is empty.
ParseReport ==
  /\ phase = "idle"
  /\ descriptor' \in Descriptors /\ at' = 1 /\ found' = info
  /\ phase' = "count" /\ lhidError' = "none" /\ info' = InitDeviceRptInfo(info)
  /\ UNCHANGED tables

-------------------------------------------------------------------------------
(* The first pass. *)

Counted(i, x) ==
  LET one(tags) == IF x.tag \in tags THEN 1 ELSE 0
      nesting == Byte(i.collectionNesting + one({"Collection"}) - one({"EndCollection"}))
      pushed == Byte(i.globalsNesting + one({"Push"}) - one({"Pop"})) IN
  [i EXCEPT
     !.collections = Byte(@ + one({"Collection"})),
     !.collectionNesting = nesting,
     !.maxCollectionNesting = IF x.tag = "Collection" THEN Larger(@, nesting) ELSE @,
     !.reportItems = Byte(@ + one(DataTags)),
     !.reports = Byte(@ + one({"ReportID"})),
     !.globalsNesting = pushed,
     !.maxGlobalsNesting = IF x.tag = "Push" THEN Larger(@, pushed) ELSE @,
     !.indices[x.kind] = @ + one({"Index"}),
     !.ranges[x.kind] = Word(@ + one({"Minimum", "Maximum"}))]

\* An error does not end the first pass; the last one is reported.
CountItem ==
  /\ phase = "count" /\ ~atEnd
  /\ info' = Counted(info, item)
  /\ lhidError' =
       IF item.tag = "EndCollection" /\ info.collectionNesting = 0
         THEN "UnexpectedEndCollection"
       ELSE IF item.tag = "Pop" /\ info'.globalsNesting > info'.maxGlobalsNesting
         THEN "UnexpectedPop"
       ELSE lhidError
  /\ at' = at + 1
  /\ UNCHANGED <<phase, descriptor, tables, found>>

FirstPassError ==
  LET Unmatched(k) == info.ranges[k] % 2 = 1 IN
  IF lhidError # "none" THEN lhidError
  ELSE IF info.collectionNesting # 0 THEN "MissingEndCollection"
  ELSE IF info.collections = 1 THEN "MissingTopLevelCollection"
  ELSE IF info.reportItems = 0 THEN "NoReports"
  ELSE IF Unmatched("usage") THEN "UnmatchedUsageRange"
  ELSE IF Unmatched("string") THEN "UnmatchedStringRange"
  ELSE IF Unmatched("designator") THEN "UnmatchedDesignatorRange"
  ELSE "none"

NewCollection ==
  [data |-> 0, usagePage |-> 0, firstUsageItem |-> 0, usageItems |-> 0,
   firstReportItem |-> 0, reportItems |-> 0, parent |-> 0, firstChild |-> 0, nextSibling |-> 0]
NewReportItem ==
  [reportType |-> "Unknown", globals |-> NoGlobals, startBit |-> 0, parent |-> 0,
   dataModes |-> 0, first |-> None, items |-> None]
NewReport == [reportID |-> 0, Input |-> 0, Output |-> 0, Feature |-> 0]
NewItem == [isRange |-> FALSE, usagePage |-> 0, index |-> 0, minimum |-> 0, maximum |-> 0]

Room(n, new) == [j \in 0 .. n - 1 |-> new]

\* A bug: a range is counted once for both its bounds, and halved all the same.
MutItemsRequired(k) == info.indices[k] + info.ranges[k] \div 4

\* usages and strings are bytes, designators a word.
ItemsRequired(k) ==
  LET n == info.indices[k] + info.ranges[k] \div 2 IN
  IF k = "designator" THEN Word(n) ELSE Byte(n)

\* The memory holds what was there before: the entries are made anew here, as none is
\* read before it is written.  The collection 0, which holds the others, and the report 0,
\* of the items without a report ID, are initialised.
Allocate ==
  /\ phase = "count" /\ atEnd
  /\ IF FirstPassError # "none" THEN Return(FirstPassError) /\ UNCHANGED <<at, info, tables>>
     ELSE \/ Return("NotEnoughMemory") /\ UNCHANGED <<at, info, tables>>
          \/ /\ phase' = "fill" /\ at' = 1 /\ info' = InitDeviceRptInfo(info)
             /\ collectionList' = Room(info.collections, NewCollection)
             /\ reportItemList' = Room(info.reportItems, NewReportItem)
             /\ reportList' = Room(info.reports, NewReport)
             /\ itemList' = [k \in Kinds |-> Room(ItemsRequired(k), NewItem)]
             /\ collectionStack' = Room(info.maxCollectionNesting, 0)
             /\ globalsStack' = Room(info.maxGlobalsNesting, NoGlobals)
             /\ UNCHANGED lhidError
  /\ UNCHANGED <<descriptor, found>>

-------------------------------------------------------------------------------
(* The second pass. *)

Filling(tags) == phase = "fill" /\ ~atEnd /\ item.tag \in tags

\* To the next item, or back with an error; an entry outside its table overruns it.
Proceed(error) ==
  IF error = "none" THEN at' = at + 1 /\ UNCHANGED <<phase, lhidError>>
  ELSE Return(error) /\ UNCHANGED at
Overrun == phase' = "overrun" /\ UNCHANGED <<at, lhidError, info, tables>>

\* ConvertDataToSigned extends the sign of one or two bytes; four are a LONG as they are.
Signed(x) ==
  IF x.size \in {1, 2} /\ x.data >= Span(x) \div 2 THEN x.data - Span(x) ELSE x.data

GlobalItem ==
  /\ Filling({"UsagePage", "LogicalMinimum", "LogicalMaximum", "ReportSize", "ReportCount"})
  /\ info' = [info EXCEPT !.globals =
       CASE item.tag = "UsagePage" -> [@ EXCEPT !.usagePage = Word(item.data)]
         [] item.tag = "LogicalMinimum" -> [@ EXCEPT !.logicalMinimum = Signed(item)]
         [] item.tag = "LogicalMaximum" -> [@ EXCEPT !.logicalMaximum = Signed(item)]
         [] item.tag = "ReportSize" -> [@ EXCEPT !.reportsize = Byte(item.data)]
         [] item.tag = "ReportCount" /\ item.data = 0 -> @
         [] OTHER -> [@ EXCEPT !.reportCount = Byte(item.data)]]
  /\ Proceed(IF item.tag = "ReportSize" /\ info'.globals.reportsize = 0 THEN "ZeroReportSize"
             ELSE IF item.tag = "ReportCount" /\ item.data = 0 THEN "ZeroReportCount"
             ELSE "none")
  /\ UNCHANGED tables

\* The report that item.data names, or the place for a new one.
ReportIndex ==
  LET known == {j \in 0 .. info.reports - 1 \cap DOMAIN reportList :
                  reportList[j].reportID = item.data} IN
  IF known = {} THEN info.reports ELSE CHOOSE j \in known : \A k \in known : j <= k

\* A new report begins with the 8 bits of its ID.
ReportIDItem ==
  /\ Filling({"ReportID"})
  /\ IF item.data = 0 THEN Proceed("ZeroReportID") /\ UNCHANGED <<info, tables>>
     ELSE IF ReportIndex = info.reports /\ info.reports \notin DOMAIN reportList THEN Overrun
     ELSE /\ info' = [info EXCEPT !.reports = IF ReportIndex = @ THEN Byte(@ + 1) ELSE @,
                        !.globals.reportID = Byte(item.data), !.globals.reportIndex = ReportIndex]
          /\ IF ReportIndex # info.reports THEN UNCHANGED reportList
             ELSE reportList' = [reportList EXCEPT ![info.reports] =
                    [reportID |-> Word(item.data), Input |-> 8, Output |-> 8, Feature |-> 8]]
          /\ Proceed("none")
          /\ UNCHANGED <<collectionList, reportItemList, collectionStack, globalsStack, itemList>>

Push ==
  /\ Filling({"Push"})
  /\ IF info.globalsNesting \notin DOMAIN globalsStack THEN Overrun
     ELSE /\ globalsStack' = [globalsStack EXCEPT ![info.globalsNesting] = info.globals]
          /\ info' = [info EXCEPT !.globalsNesting = Byte(@ + 1)]
          /\ Proceed("none")
          /\ UNCHANGED <<collectionList, reportItemList, reportList, collectionStack, itemList>>

\* A bug: the report is not gone back to with the other globals.
MutPop ==
  /\ Filling({"Pop"})
  /\ info' = [info EXCEPT
       !.globals = [globalsStack[info.globalsNesting - 1] EXCEPT
                     !.reportIndex = info.globals.reportIndex],
       !.globalsNesting = @ - 1]
  /\ Proceed("none")
  /\ UNCHANGED tables

Pop ==
  /\ Filling({"Pop"})
  /\ info' = [info EXCEPT !.globals = globalsStack[info.globalsNesting - 1],
                          !.globalsNesting = @ - 1]
  /\ Proceed("none")
  /\ UNCHANGED tables

\* The page of a usage: its own if it has four bytes, otherwise the one that is set.
PageOf(x) ==
  IF x.kind # "usage" THEN 0
  ELSE IF x.size = 4 THEN Word(x.data \div 65536) ELSE info.globals.usagePage
\* Of a usage of four bytes only the low byte is taken.
ValueOf(x) == IF x.kind = "usage" /\ x.size = 4 THEN x.data % 256 ELSE Word(x.data)

\* The entry goes to the end of the list of its kind.
AddItem(entry, newInfo, error) ==
  LET k == item.kind
      i == info.items[k] IN
  IF i \notin DOMAIN itemList[k] THEN Overrun
  ELSE /\ itemList' = [itemList EXCEPT ![k] = [@ EXCEPT ![i] = entry]]
       /\ info' = [newInfo EXCEPT !.items[k] = Byte(@ + 1)]
       /\ Proceed(error)
       /\ UNCHANGED <<collectionList, reportItemList, reportList, collectionStack, globalsStack>>

Index ==
  /\ Filling({"Index"})
  /\ AddItem([NewItem EXCEPT !.usagePage = PageOf(item), !.index = ValueOf(item)], info, "none")

\* The two bounds of a range, when the second has come.
AddRange(low, high, error) ==
  AddItem(
    [NewItem EXCEPT !.isRange = TRUE, !.usagePage = PageOf(item), !.minimum = low, !.maximum = high],
    [info EXCEPT !.haveMin[item.kind] = FALSE, !.haveMax[item.kind] = FALSE],
    IF item.kind # "usage" THEN "none" ELSE IF high < low THEN "BadUsageRange" ELSE error)

RangePage == IF item.kind = "usage" THEN PageOf(item) ELSE info.rangeUsagePage

\* A semicolon after the comparison of the pages makes a usage range whose maximum came
\* first an error whatever its page is.
Minimum ==
  /\ Filling({"Minimum"})
  /\ IF info.haveMax[item.kind]
     THEN AddRange(ValueOf(item), info.maximum[item.kind], "BadUsageRangePage")
     ELSE /\ info' = [info EXCEPT !.minimum[item.kind] = ValueOf(item),
                        !.haveMin[item.kind] = TRUE, !.rangeUsagePage = RangePage]
          /\ Proceed("none")
          /\ UNCHANGED tables

Maximum ==
  /\ Filling({"Maximum"})
  /\ IF info.haveMin[item.kind]
     THEN AddRange(info.minimum[item.kind], ValueOf(item),
                   IF PageOf(item) # info.rangeUsagePage THEN "BadUsageRangePage" ELSE "none")
     ELSE /\ info' = [info EXCEPT !.maximum[item.kind] = ValueOf(item),
                        !.haveMax[item.kind] = TRUE, !.rangeUsagePage = RangePage]
          /\ Proceed("none")
          /\ UNCHANGED tables

\* A bug: the usages of the collection are left to the item that comes next.
MutUsagesTaken == info.first

\* The usages since the last collection or report item.
UsagesTaken == [info.first EXCEPT !.usage = info.items.usage]

Collection ==
  LET i == info.collections
      parent == info.parent
      level == info.collectionNesting IN
  /\ Filling({"Collection"})
  /\ IF ~ ({i, parent} \subseteq DOMAIN collectionList /\ level \in DOMAIN collectionStack)
     THEN Overrun
     ELSE /\ collectionList' =
               [collectionList EXCEPT
                  ![i] = [data |-> item.data, usagePage |-> info.globals.usagePage,
                          firstUsageItem |-> info.first.usage,
                          usageItems |-> Byte(info.items.usage - info.first.usage),
                          firstReportItem |-> info.reportItems, reportItems |-> 0,
                          parent |-> parent, firstChild |-> 0, nextSibling |-> info.sibling],
                  ![parent].firstChild = i]
          /\ collectionStack' = [collectionStack EXCEPT ![level] = parent]
          /\ info' = [info EXCEPT !.collections = Byte(@ + 1), !.first = UsagesTaken,
                        !.sibling = 0, !.collectionNesting = Byte(@ + 1), !.parent = i]
          /\ Proceed("none")
          /\ UNCHANGED <<reportItemList, reportList, globalsStack, itemList>>

\* A bug: the sibling is not the collection that ends.
MutEndCollection ==
  /\ Filling({"EndCollection"})
  /\ collectionList' = [collectionList EXCEPT
       ![info.parent].reportItems = Byte(info.reportItems - collectionList[info.parent].firstReportItem)]
  /\ info' = [info EXCEPT !.collectionNesting = @ - 1,
                !.parent = collectionStack[info.collectionNesting - 1]]
  /\ Proceed("none")
  /\ UNCHANGED <<reportItemList, reportList, collectionStack, globalsStack, itemList>>

EndCollection ==
  /\ Filling({"EndCollection"})
  /\ collectionList' = [collectionList EXCEPT
       ![info.parent].reportItems = Byte(info.reportItems - collectionList[info.parent].firstReportItem)]
  /\ info' = [info EXCEPT !.collectionNesting = @ - 1, !.sibling = info.parent,
                !.parent = collectionStack[info.collectionNesting - 1]]
  /\ Proceed("none")
  /\ UNCHANGED <<reportItemList, reportList, collectionStack, globalsStack, itemList>>

\* limit >= (LONG)1 << reportsize: with 31 bits the shift gives the least number, with
\* more it is undefined.
ExceedsSize(limit) ==
  LET n == info.globals.reportsize IN
  IF n < 31 THEN {limit >= 2^n} ELSE IF n = 31 THEN {TRUE} ELSE BOOLEAN

HaveBound(k) == info.haveMin[k] \/ info.haveMax[k]

\* The errors of a report item: the first check that fails.
ReportTypeErrors ==
  {IF low THEN "BadLogicalMin" ELSE IF high THEN "BadLogicalMax"
   ELSE IF HaveBound("usage") THEN "UnmatchedUsageRange"
   ELSE IF HaveBound("string") THEN "UnmatchedStringRange"
   ELSE IF HaveBound("designator") THEN "UnmatchedDesignatorRange" ELSE "none" :
     low \in ExceedsSize(info.globals.logicalMinimum),
     high \in ExceedsSize(info.globals.logicalMaximum)}

FieldBits == info.globals.reportsize * info.globals.reportCount

\* Input, Output or Feature.
ReportType(error) ==
  LET i == info.reportItems
      r == info.globals.reportIndex IN
  /\ Filling(DataTags)
  /\ IF error # "none" THEN Proceed(error) /\ UNCHANGED <<info, tables>>
     ELSE IF i \notin DOMAIN reportItemList THEN Overrun
     ELSE /\ reportItemList' = [reportItemList EXCEPT ![i] =
               [reportType |-> item.tag, globals |-> info.globals, parent |-> info.parent,
                startBit |-> Byte(reportList[r][item.tag]), dataModes |-> item.data,
                first |-> info.first,
                items |-> [k \in Kinds |-> Byte(info.items[k] - info.first[k])]]]
          /\ reportList' = [reportList EXCEPT ![r][item.tag] = Word(@ + FieldBits)]
          /\ info' = [info EXCEPT !.reportItems = Byte(@ + 1), !.first = info.items]
          /\ Proceed("none")
          /\ UNCHANGED <<collectionList, collectionStack, globalsStack, itemList>>

ReportItem == \E error \in ReportTypeErrors : ReportType(error)

\* Units, physical bounds, delimiters and long items: nothing that is kept here.
OtherItem ==
  /\ Filling({"Other"})
  /\ Proceed("none")
  /\ UNCHANGED <<info, tables>>

\* Reports of which only the ID has been counted have no bits.
Cleared(r) ==
  [r EXCEPT !.Input = IF @ = 8 THEN 0 ELSE @, !.Output = IF @ = 8 THEN 0 ELSE @,
            !.Feature = IF @ = 8 THEN 0 ELSE @]

Parsed ==
  /\ phase = "fill" /\ atEnd
  /\ reportList' = [r \in DOMAIN reportList |->
       IF r \in 1 .. info.reports - 1 THEN Cleared(reportList[r]) ELSE reportList[r]]
  /\ Return("none")
  /\ UNCHANGED <<descriptor, at, info, collectionList, reportItemList, collectionStack,
                 globalsStack, itemList, found>>

FillItem ==
  /\ GlobalItem \/ ReportIDItem \/ Push \/ Pop \/ Index \/ Minimum \/ Maximum
     \/ Collection \/ EndCollection \/ ReportItem \/ OtherItem
  /\ UNCHANGED <<descriptor, found>>

ParserNext == ParseReport \/ CountItem \/ Allocate \/ FillItem \/ Parsed
===============================================================================
