--------------------------- MODULE DescriptorsProofs ---------------------------
(***************************************************************************)
(* Proofs about the report descriptor parser of the HID driver, for all    *)
(* descriptors that its counters can count.                                *)
(***************************************************************************)
EXTENDS HidReportProperties, FiniteSetTheorems, WellFoundedInduction, TLAPS

-------------------------------------------------------------------------------
(* Counting the items of a descriptor. *)

Cut(S, p) == {q \in S : q < p}
Upto(S, p) == Cardinality(Cut(S, p))
At(d, tags) == {q \in DOMAIN d : d[q].tag \in tags}
Local(d, tags, k) == {q \in DOMAIN d : d[q].tag \in tags /\ d[q].kind = k}
Num(d, tags, p) == Upto(At(d, tags), p)
Deep(d, p) == Num(d, {"Collection"}, p) - Num(d, {"EndCollection"}, p)
Stacked(d, p) == Num(d, {"Push"}, p) - Num(d, {"Pop"}, p)
RangeTags == {"Minimum", "Maximum"}

\* Positions are counted one by one.
LEMMA UptoGrows ==
  ASSUME NEW n \in Nat, NEW S \in SUBSET (1 .. n), NEW p \in 1 .. n
  PROVE  /\ Upto(S, p) \in Nat /\ Upto(S, p + 1) \in Nat
         /\ p \in S => Upto(S, p + 1) = Upto(S, p) + 1
         /\ p \notin S => Upto(S, p + 1) = Upto(S, p)
<1>0. \A q \in S : q \in 1 .. n /\ q \in Int
  OBVIOUS
<1>1. Cut(S, p) \in SUBSET (1 .. n) /\ Cut(S, p + 1) \in SUBSET (1 .. n)
  BY DEF Cut
<1>2. IsFiniteSet(Cut(S, p)) /\ IsFiniteSet(Cut(S, p + 1))
  <2>1. IsFiniteSet(1 .. n)
    BY FS_Interval
  <2> QED BY <1>1, <2>1, FS_Subset
<1>3. Upto(S, p) \in Nat /\ Upto(S, p + 1) \in Nat
  BY <1>2, FS_CardinalityType DEF Upto
<1>4. CASE p \in S
  <2>1. Cut(S, p + 1) = Cut(S, p) \cup {p} /\ p \notin Cut(S, p)
    <3>1. \A q \in S : q < p + 1 <=> (q < p \/ q = p)
      BY <1>0
    <3>2. ~(p < p)
      OBVIOUS
    <3> QED BY <1>4, <3>1, <3>2 DEF Cut
  <2>2. Cardinality(Cut(S, p) \cup {p}) = Cardinality(Cut(S, p)) + 1
    BY <1>2, <2>1, FS_AddElement
  <2> QED BY <1>3, <1>4, <2>1, <2>2 DEF Upto
<1>5. CASE p \notin S
  <2>1. Cut(S, p + 1) = Cut(S, p)
    <3>1. \A q \in S : q < p + 1 <=> q < p
      BY <1>0, <1>5
    <3> QED BY <3>1 DEF Cut
  <2> QED BY <1>3, <1>5, <2>1 DEF Upto
<1> QED BY <1>3, <1>4, <1>5

\* None is before the first position, and all are before the end.
LEMMA UptoEnds ==
  ASSUME NEW n \in Nat, NEW S \in SUBSET (1 .. n)
  PROVE  /\ Upto(S, 1) = 0 /\ Upto(S, n + 1) = Cardinality(S) /\ Cardinality(S) \in Nat
         /\ IsFiniteSet(S)
<1>0. \A q \in S : q \in 1 .. n /\ q \in Int
  OBVIOUS
<1>1. Cut(S, 1) = {} /\ Cut(S, n + 1) = S
  <2>1. \A q \in S : ~(q < 1) /\ q < n + 1
    BY <1>0
  <2> QED BY <2>1 DEF Cut
<1>2. IsFiniteSet(S)
  <2>1. IsFiniteSet(1 .. n)
    BY FS_Interval
  <2> QED BY <2>1, FS_Subset
<1> QED BY <1>1, <1>2, FS_EmptySet, FS_CardinalityType DEF Upto

\* There are no more before a position than before a later one.
LEMMA UptoRises ==
  ASSUME NEW n \in Nat, NEW S \in SUBSET (1 .. n), NEW p \in 1 .. n + 1, NEW q \in p .. n + 1
  PROVE  Upto(S, p) <= Upto(S, q) /\ Upto(S, p) \in Nat /\ Upto(S, q) \in Nat
<1>0. \A r \in S : r \in 1 .. n /\ r \in Int
  OBVIOUS
<1>1. Cut(S, p) \in SUBSET Cut(S, q) /\ Cut(S, q) \in SUBSET (1 .. n)
  <2>1. \A r \in S : r < p => r < q
    BY <1>0
  <2> QED BY <2>1 DEF Cut
<1>2. IsFiniteSet(Cut(S, q))
  <2>1. IsFiniteSet(1 .. n)
    BY FS_Interval
  <2> QED BY <1>1, <2>1, FS_Subset
<1> QED BY <1>1, <1>2, FS_Subset, FS_CardinalityType DEF Upto

\* What a descriptor is, and its sets of positions.
LEMMA Descriptor ==
  ASSUME NEW d \in Descriptors
  PROVE  /\ Len(d) \in Nat \ {0} /\ DOMAIN d = 1 .. Len(d)
         /\ \A p \in 1 .. Len(d) : /\ d[p].tag \in Tags /\ d[p].data \in Int
                                   /\ d[p].size \in {0, 1, 2, 4} /\ d[p].kind \in Kinds
         /\ \A tags : At(d, tags) \in SUBSET (1 .. Len(d))
         /\ \A tags, k : Local(d, tags, k) \in SUBSET (1 .. Len(d))
<1>1. d \in Seq(Items) /\ d # <<>>
  BY DescriptorAssumption DEF DescriptorAssumption
<1>2. Len(d) \in Nat \ {0} /\ DOMAIN d = 1 .. Len(d)
  BY <1>1
<1>3. \A p \in 1 .. Len(d) : d[p] \in Items
  BY <1>1
<1>4. \A p \in 1 .. Len(d) : /\ d[p].tag \in Tags /\ d[p].data \in Int
                             /\ d[p].size \in {0, 1, 2, 4} /\ d[p].kind \in Kinds
  BY <1>3 DEF Items
<1> QED BY <1>2, <1>4 DEF At, Local

\* The counts at the next item.
LEMMA CountsGrow ==
  ASSUME NEW d \in Descriptors, NEW p \in 1 .. Len(d)
  PROVE  /\ \A tags : /\ Num(d, tags, p) \in Nat /\ Num(d, tags, p + 1) \in Nat
                      /\ Num(d, tags, p + 1) = Num(d, tags, p) + (IF d[p].tag \in tags THEN 1 ELSE 0)
         /\ \A tags, k :
              /\ Upto(Local(d, tags, k), p) \in Nat /\ Upto(Local(d, tags, k), p + 1) \in Nat
              /\ Upto(Local(d, tags, k), p + 1)
                   = Upto(Local(d, tags, k), p)
                       + (IF d[p].tag \in tags /\ d[p].kind = k THEN 1 ELSE 0)
<1>1. p \in DOMAIN d /\ Len(d) \in Nat
  BY Descriptor
<1>0. ASSUME NEW S \in SUBSET (1 .. Len(d))
      PROVE  /\ Upto(S, p) \in Nat /\ Upto(S, p + 1) \in Nat
             /\ p \in S => Upto(S, p + 1) = Upto(S, p) + 1
             /\ p \notin S => Upto(S, p + 1) = Upto(S, p)
  <2>1. Len(d) \in Nat /\ S \in SUBSET (1 .. Len(d)) /\ p \in 1 .. Len(d)
    BY <1>1
  <2> QED BY <2>1, UptoGrows
<1>2. ASSUME NEW tags
      PROVE  /\ Num(d, tags, p) \in Nat /\ Num(d, tags, p + 1) \in Nat
             /\ Num(d, tags, p + 1) = Num(d, tags, p) + (IF d[p].tag \in tags THEN 1 ELSE 0)
  <2>1. At(d, tags) \in SUBSET (1 .. Len(d))
    BY Descriptor
  <2>2. p \in At(d, tags) <=> d[p].tag \in tags
    BY <1>1 DEF At
  <2> QED BY <1>0, <2>1, <2>2 DEF Num
<1>3. ASSUME NEW tags, NEW k
      PROVE  /\ Upto(Local(d, tags, k), p) \in Nat /\ Upto(Local(d, tags, k), p + 1) \in Nat
             /\ Upto(Local(d, tags, k), p + 1)
                  = Upto(Local(d, tags, k), p)
                      + (IF d[p].tag \in tags /\ d[p].kind = k THEN 1 ELSE 0)
  <2>1. Local(d, tags, k) \in SUBSET (1 .. Len(d))
    BY Descriptor
  <2>2. p \in Local(d, tags, k) <=> d[p].tag \in tags /\ d[p].kind = k
    BY <1>1 DEF Local
  <2> QED BY <1>0, <2>1, <2>2
<1> QED BY <1>2, <1>3

\* The counts at a position are at most those of the whole descriptor.
LEMMA CountsBelow ==
  ASSUME NEW d \in Descriptors, NEW p \in 1 .. Len(d) + 1
  PROVE  /\ \A tags : Num(d, tags, p) \in 0 .. Cardinality(At(d, tags))
         /\ \A tags, k : Upto(Local(d, tags, k), p) \in 0 .. Cardinality(Local(d, tags, k))
<1>1. Len(d) \in Nat /\ Len(d) + 1 \in p .. Len(d) + 1
  BY Descriptor
<1>2. ASSUME NEW S \in SUBSET (1 .. Len(d))
      PROVE  Upto(S, p) \in 0 .. Cardinality(S)
  BY <1>1, UptoRises, UptoEnds
<1> QED BY <1>2, Descriptor DEF Num

\* The counts at the ends.
LEMMA CountsEnd ==
  ASSUME NEW d \in Descriptors
  PROVE  /\ \A tags : /\ Num(d, tags, 1) = 0 /\ Num(d, tags, Len(d) + 1) = Cardinality(At(d, tags))
                      /\ Cardinality(At(d, tags)) \in Nat
         /\ \A tags, k : /\ Upto(Local(d, tags, k), 1) = 0
                         /\ Upto(Local(d, tags, k), Len(d) + 1) = Cardinality(Local(d, tags, k))
                         /\ Cardinality(Local(d, tags, k)) \in Nat
<1>1. Len(d) \in Nat
  BY Descriptor
<1>2. ASSUME NEW S \in SUBSET (1 .. Len(d))
      PROVE  /\ Upto(S, 1) = 0 /\ Upto(S, Len(d) + 1) = Cardinality(S) /\ Cardinality(S) \in Nat
  BY <1>1, UptoEnds
<1> QED BY <1>2, Descriptor DEF Num
-------------------------------------------------------------------------------
(* The invariant of the two passes. *)

\* A descriptor whose items the counters, which are bytes, can count.
Countable(d) ==
  /\ \A tags \in {{"Collection"}, DataTags, {"ReportID"}, {"Push"}} :
       Cardinality(At(d, tags)) <= 254
  /\ \A k \in Kinds :
       Cardinality(Local(d, {"Index"}, k)) + Cardinality(Local(d, RangeTags, k)) <= 254

InfoFields ==
  {"collections", "collectionNesting", "maxCollectionNesting", "reportItems", "reports",
   "globalsNesting", "maxGlobalsNesting", "indices", "ranges", "items", "first", "haveMin",
   "haveMax", "minimum", "maximum", "rangeUsagePage", "parent", "sibling", "globals"}
OfKinds(f) == f = [k \in Kinds |-> f[k]]

\* The fields there are.
InfoShape ==
  /\ info = [f \in InfoFields |-> info[f]]
  /\ OfKinds(info.indices) /\ OfKinds(info.ranges) /\ OfKinds(info.items) /\ OfKinds(info.first)
  /\ OfKinds(info.haveMin) /\ OfKinds(info.haveMax)
  /\ OfKinds(info.minimum) /\ OfKinds(info.maximum)

AtItem ==
  /\ phase \in {"idle", "count", "fill", "parsed", "running", "overrun", "overflow"}
  /\ phase \in {"count", "fill", "parsed"} =>
       descriptor \in Descriptors /\ at \in 1 .. Len(descriptor) + 1
  /\ phase = "parsed" => atEnd

\* The first pass counts what comes before the item that is next; nothing that is open is
\* closed more often than it was opened, or there is an error.
CountsItems ==
  /\ info.collections = 1 + Num(descriptor, {"Collection"}, at)
  /\ info.reportItems = Num(descriptor, DataTags, at)
  /\ info.reports = 1 + Num(descriptor, {"ReportID"}, at)
  /\ \A k \in Kinds : /\ info.indices[k] = Upto(Local(descriptor, {"Index"}, k), at)
                      /\ info.ranges[k] = Upto(Local(descriptor, RangeTags, k), at)

CountsNesting ==
  lhidError = "none" =>
    /\ info.collectionNesting = Deep(descriptor, at)
    /\ info.globalsNesting = Stacked(descriptor, at)
    /\ info.maxCollectionNesting \in Nat
    /\ info.maxGlobalsNesting \in 0 .. Num(descriptor, {"Push"}, at)
    /\ \A q \in 1 .. at : /\ Deep(descriptor, q) \in 0 .. info.maxCollectionNesting
                          /\ Stacked(descriptor, q) \in 0 .. info.maxGlobalsNesting

\* What the first pass leaves alone.
KeepsFound ==
  /\ info.parent = found.parent /\ info.sibling = found.sibling
  /\ \A k \in {"string", "designator"} : info.items[k] = found.items[k]

CountInv == phase = "count" => CountsItems /\ CountsNesting /\ KeepsFound

LEMMA InitShape ==
  ASSUME InfoShape
  PROVE  LET i == InitDeviceRptInfo(info) IN
         /\ i = [f \in InfoFields |-> i[f]]
         /\ i.collectionNesting = 0 /\ i.collections = 1 /\ i.globalsNesting = 0
         /\ i.maxCollectionNesting = 0 /\ i.maxGlobalsNesting = 0 /\ i.reportItems = 0
         /\ i.reports = 1 /\ i.indices = None /\ i.ranges = None
         /\ i.items = [info.items EXCEPT !["usage"] = 0]
         /\ i.haveMin = No /\ i.haveMax = No /\ i.parent = info.parent
         /\ i.first = info.first /\ i.minimum = info.minimum /\ i.maximum = info.maximum
         /\ i.sibling = info.sibling /\ i.globals = NoGlobals
<1> DEFINE i == InitDeviceRptInfo(info)
           items == [info.items EXCEPT !["usage"] = 0]
<1>1. i = [info EXCEPT !.collectionNesting = 0, !.collections = 1, !.globalsNesting = 0,
             !.maxCollectionNesting = 0, !.maxGlobalsNesting = 0, !.reportItems = 0,
             !.reports = 1, !.indices = None, !.ranges = None, !.items = items,
             !.haveMin = No, !.haveMax = No, !.globals = NoGlobals]
  BY DEF InitDeviceRptInfo
<1> HIDE DEF i, items
<1>2. /\ i = [f \in InfoFields |-> i[f]]
      /\ i.collectionNesting = 0 /\ i.collections = 1 /\ i.globalsNesting = 0
      /\ i.maxCollectionNesting = 0 /\ i.maxGlobalsNesting = 0 /\ i.reportItems = 0
      /\ i.reports = 1 /\ i.indices = None /\ i.ranges = None /\ i.items = items
      /\ i.haveMin = No /\ i.haveMax = No /\ i.parent = info.parent
      /\ i.first = info.first /\ i.minimum = info.minimum /\ i.maximum = info.maximum
      /\ i.sibling = info.sibling /\ i.globals = NoGlobals
  BY <1>1 DEF InfoShape, InfoFields
<1> QED BY <1>2 DEF i, items

\* What Counted makes of the fields, one by one.
CountedFields(i, x) ==
  /\ i = [f \in InfoFields |-> i[f]]
  /\ i.collections = Byte(info.collections + (IF x.tag = "Collection" THEN 1 ELSE 0))
  /\ i.collectionNesting = Byte(info.collectionNesting
                                  + (IF x.tag = "Collection" THEN 1 ELSE 0)
                                  - (IF x.tag = "EndCollection" THEN 1 ELSE 0))
  /\ i.maxCollectionNesting = IF x.tag = "Collection"
                              THEN Larger(info.maxCollectionNesting, i.collectionNesting)
                              ELSE info.maxCollectionNesting
  /\ i.reportItems = Byte(info.reportItems + (IF x.tag \in DataTags THEN 1 ELSE 0))
  /\ i.reports = Byte(info.reports + (IF x.tag = "ReportID" THEN 1 ELSE 0))
  /\ i.globalsNesting = Byte(info.globalsNesting + (IF x.tag = "Push" THEN 1 ELSE 0)
                               - (IF x.tag = "Pop" THEN 1 ELSE 0))
  /\ i.maxGlobalsNesting = IF x.tag = "Push"
                           THEN Larger(info.maxGlobalsNesting, i.globalsNesting)
                           ELSE info.maxGlobalsNesting
  /\ i.indices = [info.indices EXCEPT ![x.kind] = @ + (IF x.tag = "Index" THEN 1 ELSE 0)]
  /\ i.ranges = [info.ranges EXCEPT
                   ![x.kind] = Word(@ + (IF x.tag \in RangeTags THEN 1 ELSE 0))]
  /\ i.items = info.items /\ i.first = info.first /\ i.haveMin = info.haveMin
  /\ i.haveMax = info.haveMax /\ i.minimum = info.minimum /\ i.maximum = info.maximum
  /\ i.parent = info.parent /\ i.sibling = info.sibling /\ i.globals = info.globals

LEMMA CountedShape ==
  ASSUME InfoShape, NEW x
  PROVE  CountedFields(Counted(info, x), x)
<1> DEFINE i == Counted(info, x)
<1> SUFFICES CountedFields(i, x)
  OBVIOUS
<1> DEFINE coll == Byte(info.collections + (IF x.tag = "Collection" THEN 1 ELSE 0))
           nest == Byte(info.collectionNesting + (IF x.tag = "Collection" THEN 1 ELSE 0)
                          - (IF x.tag = "EndCollection" THEN 1 ELSE 0))
           maxn == IF x.tag = "Collection" THEN Larger(info.maxCollectionNesting, nest)
                   ELSE info.maxCollectionNesting
           items == Byte(info.reportItems + (IF x.tag \in DataTags THEN 1 ELSE 0))
           reps == Byte(info.reports + (IF x.tag = "ReportID" THEN 1 ELSE 0))
           push == Byte(info.globalsNesting + (IF x.tag = "Push" THEN 1 ELSE 0)
                          - (IF x.tag = "Pop" THEN 1 ELSE 0))
           maxg == IF x.tag = "Push" THEN Larger(info.maxGlobalsNesting, push)
                   ELSE info.maxGlobalsNesting
           ind == [info.indices EXCEPT ![x.kind] = @ + (IF x.tag = "Index" THEN 1 ELSE 0)]
           rng == [info.ranges EXCEPT
                     ![x.kind] = Word(@ + (IF x.tag \in RangeTags THEN 1 ELSE 0))]
<1>1. i = [info EXCEPT !.collections = coll, !.collectionNesting = nest,
             !.maxCollectionNesting = maxn, !.reportItems = items, !.reports = reps,
             !.globalsNesting = push, !.maxGlobalsNesting = maxg, !.indices = ind, !.ranges = rng]
  BY DEF Counted, RangeTags
<1> HIDE DEF i, coll, nest, maxn, items, reps, push, maxg, ind, rng
<1>2. /\ i = [f \in InfoFields |-> i[f]]
      /\ i.collections = coll /\ i.collectionNesting = nest /\ i.maxCollectionNesting = maxn
      /\ i.reportItems = items /\ i.reports = reps /\ i.globalsNesting = push
      /\ i.maxGlobalsNesting = maxg /\ i.indices = ind /\ i.ranges = rng
      /\ i.items = info.items /\ i.first = info.first /\ i.haveMin = info.haveMin
      /\ i.haveMax = info.haveMax /\ i.minimum = info.minimum /\ i.maximum = info.maximum
      /\ i.parent = info.parent /\ i.sibling = info.sibling /\ i.globals = info.globals
  BY <1>1 DEF InfoShape, InfoFields
<1> QED BY <1>2 DEF CountedFields, coll, nest, maxn, items, reps, push, maxg, ind, rng

\* A byte and a word are what they are given, as long as it fits.
LEMMA Fits ==
  ASSUME NEW n \in Nat
  PROVE  (n <= 255 => Byte(n) = n) /\ (n <= 65535 => Word(n) = n)
BY DEF Byte, Word

\* A byte that goes below 0 starts again from the top.
LEMMA Borrows ==
  ASSUME NEW n \in Int, n = 0
  PROVE  Byte(n - 1) = 255
<1>1. PICK m \in Int : m = n - 1
  OBVIOUS
<1>2. m < 0 /\ m > 0 - 2
  BY <1>1
<1>3. m = 256 * (m \div 256) + (m % 256) /\ m % 256 \in 0 .. 255 /\ m \div 256 \in Int
  OBVIOUS
<1> QED BY <1>1, <1>2, <1>3 DEF Byte

LEMMA CountKept ==
  ASSUME AtItem, InfoShape, CountInv, CountItem, Countable(descriptor)
  PROVE  InfoShape' /\ CountInv'
<1> DEFINE d == descriptor
           x == d[at]
<1>1. phase = "count" /\ d \in Descriptors /\ at \in 1 .. Len(d) /\ Len(d) \in Nat
  BY Descriptor DEF CountItem, AtItem, atEnd
<1>2. /\ descriptor' = d /\ at' = at + 1 /\ phase' = "count" /\ found' = found
      /\ info' = Counted(info, x)
      /\ lhidError' =
           IF x.tag = "EndCollection" /\ info.collectionNesting = 0
             THEN "UnexpectedEndCollection"
           ELSE IF x.tag = "Pop" /\ info'.globalsNesting > info'.maxGlobalsNesting
             THEN "UnexpectedPop"
           ELSE lhidError
  BY <1>1 DEF CountItem, item
<1>0. CountedFields(info', x)
  BY <1>2, CountedShape
<1>3. CountsItems /\ CountsNesting /\ KeepsFound
  BY <1>1 DEF CountInv
<1>4. x.tag \in Tags /\ x.kind \in Kinds
  BY <1>1, Descriptor
<1>5. InfoShape'
  <2>1. info' = [f \in InfoFields |-> info'[f]]
    BY <1>0 DEF CountedFields
  <2>2. /\ info'.indices = [info.indices EXCEPT ![x.kind] = @ + (IF x.tag = "Index" THEN 1 ELSE 0)]
        /\ info'.ranges = [info.ranges EXCEPT
                             ![x.kind] = Word(@ + (IF x.tag \in RangeTags THEN 1 ELSE 0))]
        /\ info'.items = info.items /\ info'.first = info.first /\ info'.haveMin = info.haveMin
        /\ info'.haveMax = info.haveMax /\ info'.minimum = info.minimum
        /\ info'.maximum = info.maximum
    BY <1>0 DEF CountedFields
  <2> QED BY <2>1, <2>2 DEF InfoShape, OfKinds
<1>6. /\ \A tags : Num(d, tags, at + 1) = Num(d, tags, at) + (IF x.tag \in tags THEN 1 ELSE 0)
      /\ \A tags, k : Upto(Local(d, tags, k), at + 1)
                        = Upto(Local(d, tags, k), at)
                            + (IF x.tag \in tags /\ x.kind = k THEN 1 ELSE 0)
  BY <1>1, CountsGrow
<1>7. /\ \A tags : /\ Num(d, tags, at) \in 0 .. Cardinality(At(d, tags))
                   /\ Num(d, tags, at + 1) \in 0 .. Cardinality(At(d, tags))
      /\ \A tags, k : /\ Upto(Local(d, tags, k), at) \in 0 .. Cardinality(Local(d, tags, k))
                      /\ Upto(Local(d, tags, k), at + 1) \in 0 .. Cardinality(Local(d, tags, k))
                      /\ Cardinality(Local(d, tags, k)) \in Nat
  BY <1>1, CountsBelow, CountsEnd
<1>11. /\ Cardinality(At(d, {"Collection"})) <= 254 /\ Cardinality(At(d, DataTags)) <= 254
       /\ Cardinality(At(d, {"ReportID"})) <= 254 /\ Cardinality(At(d, {"Push"})) <= 254
       /\ \A tags : Cardinality(At(d, tags)) \in Nat
  BY <1>1, CountsEnd DEF Countable
<1> HIDE DEF d
<1>8. CountsItems'
  <2>1. info'.collections = 1 + Num(d, {"Collection"}, at + 1)
    <3>1. info'.collections = Byte(info.collections + (IF x.tag = "Collection" THEN 1 ELSE 0))
      BY <1>0 DEF CountedFields
    <3>2. Num(d, {"Collection"}, at + 1) \in 0 .. 254
      BY <1>7, <1>11
    <3> QED BY <1>3, <1>6, <1>7, <3>1, <3>2, Fits DEF CountsItems, d
  <2>2. info'.reportItems = Num(d, DataTags, at + 1)
    <3>1. info'.reportItems = Byte(info.reportItems + (IF x.tag \in DataTags THEN 1 ELSE 0))
      BY <1>0 DEF CountedFields
    <3>2. Num(d, DataTags, at + 1) \in 0 .. 254
      BY <1>7, <1>11
    <3> QED BY <1>3, <1>6, <1>7, <3>1, <3>2, Fits DEF CountsItems, d
  <2>3. info'.reports = 1 + Num(d, {"ReportID"}, at + 1)
    <3>1. info'.reports = Byte(info.reports + (IF x.tag = "ReportID" THEN 1 ELSE 0))
      BY <1>0 DEF CountedFields
    <3>2. Num(d, {"ReportID"}, at + 1) \in 0 .. 254
      BY <1>7, <1>11
    <3> QED BY <1>3, <1>6, <1>7, <3>1, <3>2, Fits DEF CountsItems, d
  <2>4. ASSUME NEW k \in Kinds
        PROVE  /\ info'.indices[k] = Upto(Local(d, {"Index"}, k), at + 1)
               /\ info'.ranges[k] = Upto(Local(d, RangeTags, k), at + 1)
    <3>1. /\ info'.indices = [info.indices EXCEPT ![x.kind] = @ + (IF x.tag = "Index" THEN 1 ELSE 0)]
          /\ info'.ranges = [info.ranges EXCEPT
                               ![x.kind] = Word(@ + (IF x.tag \in RangeTags THEN 1 ELSE 0))]
      BY <1>0 DEF CountedFields
    <3>2. /\ info.indices[k] = Upto(Local(d, {"Index"}, k), at)
          /\ info.ranges[k] = Upto(Local(d, RangeTags, k), at)
      BY <1>3 DEF CountsItems, d
    <3>3. /\ info'.indices[k] = info.indices[k] + (IF x.tag = "Index" /\ x.kind = k THEN 1 ELSE 0)
          /\ x.kind = k => info'.ranges[k]
                             = Word(info.ranges[k] + (IF x.tag \in RangeTags THEN 1 ELSE 0))
          /\ x.kind # k => info'.ranges[k] = info.ranges[k]
      <4>1. OfKinds(info.indices) /\ OfKinds(info.ranges) /\ info.indices[k] \in Nat
        BY <1>7, <3>2 DEF InfoShape
      <4> QED BY <3>1, <4>1, <1>4 DEF OfKinds
    <3>4. Upto(Local(d, RangeTags, k), at + 1) \in 0 .. 254
      <4>1. /\ Cardinality(Local(d, RangeTags, k)) \in Nat
            /\ Cardinality(Local(d, {"Index"}, k)) \in Nat
            /\ Cardinality(Local(d, {"Index"}, k)) + Cardinality(Local(d, RangeTags, k)) <= 254
        BY <1>7 DEF Countable, d
      <4>2. Upto(Local(d, RangeTags, k), at + 1) \in 0 .. Cardinality(Local(d, RangeTags, k))
        BY <1>7
      <4> QED BY <4>1, <4>2
    <3>5. /\ Upto(Local(d, {"Index"}, k), at + 1)
               = Upto(Local(d, {"Index"}, k), at) + (IF x.tag = "Index" /\ x.kind = k THEN 1 ELSE 0)
          /\ Upto(Local(d, RangeTags, k), at + 1)
               = Upto(Local(d, RangeTags, k), at)
                   + (IF x.tag \in RangeTags /\ x.kind = k THEN 1 ELSE 0)
      BY <1>6
    <3>6. Upto(Local(d, RangeTags, k), at) \in Nat
      BY <1>7
    <3> QED BY <3>2, <3>3, <3>4, <3>5, <3>6, Fits
  <2> QED BY <1>2, <2>1, <2>2, <2>3, <2>4 DEF CountsItems, d
<1>9. KeepsFound'
  <2>1. info'.parent = info.parent /\ info'.sibling = info.sibling /\ info'.items = info.items
    BY <1>0 DEF CountedFields
  <2> QED BY <1>2, <1>3, <2>1 DEF KeepsFound
<1>10. CountsNesting'
  <2> SUFFICES ASSUME lhidError' = "none"
               PROVE  /\ info'.collectionNesting = Deep(d, at + 1)
                      /\ info'.globalsNesting = Stacked(d, at + 1)
                      /\ info'.maxCollectionNesting \in Nat
                      /\ info'.maxGlobalsNesting \in 0 .. Num(d, {"Push"}, at + 1)
                      /\ \A q \in 1 .. at + 1 :
                           /\ Deep(d, q) \in 0 .. info'.maxCollectionNesting
                           /\ Stacked(d, q) \in 0 .. info'.maxGlobalsNesting
    BY <1>2 DEF CountsNesting, d
  <2>1. /\ lhidError = "none"
        /\ ~(x.tag = "EndCollection" /\ info.collectionNesting = 0)
        /\ ~(x.tag = "Pop" /\ info'.globalsNesting > info'.maxGlobalsNesting)
    BY <1>2
  <2>2. /\ info.collectionNesting = Deep(d, at)
        /\ info.globalsNesting = Stacked(d, at)
        /\ info.maxCollectionNesting \in Nat
        /\ info.maxGlobalsNesting \in 0 .. Num(d, {"Push"}, at)
        /\ \A q \in 1 .. at : /\ Deep(d, q) \in 0 .. info.maxCollectionNesting
                              /\ Stacked(d, q) \in 0 .. info.maxGlobalsNesting
    BY <1>3, <2>1 DEF CountsNesting, d
  <2>3. /\ Num(d, {"Collection"}, at) \in Nat /\ Num(d, {"EndCollection"}, at) \in Nat
        /\ Num(d, {"Push"}, at) \in Nat /\ Num(d, {"Pop"}, at) \in Nat
        /\ Num(d, {"Collection"}, at + 1) \in 0 .. 254 /\ Num(d, {"Push"}, at + 1) \in 0 .. 254
    BY <1>7, <1>11
  <2>4. /\ Deep(d, at) \in Nat /\ Stacked(d, at) \in Nat
        /\ Deep(d, at) <= info.maxCollectionNesting /\ Stacked(d, at) <= info.maxGlobalsNesting
        /\ Deep(d, at) <= Num(d, {"Collection"}, at) /\ Stacked(d, at) <= Num(d, {"Push"}, at)
    <3>1. at \in 1 .. at
      BY <1>1
    <3> QED BY <2>2, <2>3, <3>1 DEF Deep, Stacked
  <2>5. /\ info'.collectionNesting = Byte(info.collectionNesting
                                           + (IF x.tag = "Collection" THEN 1 ELSE 0)
                                           - (IF x.tag = "EndCollection" THEN 1 ELSE 0))
        /\ info'.maxCollectionNesting = IF x.tag = "Collection"
                                        THEN Larger(info.maxCollectionNesting, info'.collectionNesting)
                                        ELSE info.maxCollectionNesting
        /\ info'.globalsNesting = Byte(info.globalsNesting + (IF x.tag = "Push" THEN 1 ELSE 0)
                                        - (IF x.tag = "Pop" THEN 1 ELSE 0))
        /\ info'.maxGlobalsNesting = IF x.tag = "Push"
                                     THEN Larger(info.maxGlobalsNesting, info'.globalsNesting)
                                     ELSE info.maxGlobalsNesting
    BY <1>0 DEF CountedFields
  <2>6. /\ Deep(d, at + 1) = Deep(d, at) + (IF x.tag = "Collection" THEN 1 ELSE 0)
                               - (IF x.tag = "EndCollection" THEN 1 ELSE 0)
        /\ Stacked(d, at + 1) = Stacked(d, at) + (IF x.tag = "Push" THEN 1 ELSE 0)
                                  - (IF x.tag = "Pop" THEN 1 ELSE 0)
        /\ Num(d, {"Push"}, at + 1) = Num(d, {"Push"}, at) + (IF x.tag = "Push" THEN 1 ELSE 0)
        /\ Num(d, {"Collection"}, at + 1)
             = Num(d, {"Collection"}, at) + (IF x.tag = "Collection" THEN 1 ELSE 0)
    <3>1. /\ Num(d, {"Collection"}, at + 1)
               = Num(d, {"Collection"}, at) + (IF x.tag = "Collection" THEN 1 ELSE 0)
          /\ Num(d, {"EndCollection"}, at + 1)
               = Num(d, {"EndCollection"}, at) + (IF x.tag = "EndCollection" THEN 1 ELSE 0)
          /\ Num(d, {"Push"}, at + 1) = Num(d, {"Push"}, at) + (IF x.tag = "Push" THEN 1 ELSE 0)
          /\ Num(d, {"Pop"}, at + 1) = Num(d, {"Pop"}, at) + (IF x.tag = "Pop" THEN 1 ELSE 0)
      BY <1>6
    <3> QED BY <2>3, <3>1 DEF Deep, Stacked
  <2>7. /\ Deep(d, at + 1) \in 0 .. 254
        /\ info'.collectionNesting = Deep(d, at + 1)
        /\ info'.maxCollectionNesting \in Nat
        /\ info'.maxCollectionNesting >= info.maxCollectionNesting
        /\ Deep(d, at + 1) <= info'.maxCollectionNesting
    <3>1. Deep(d, at + 1) \in 0 .. 254
      BY <2>1, <2>2, <2>3, <2>4, <2>6, SMTT(30)
    <3>2. info'.collectionNesting = Deep(d, at + 1)
      BY <2>2, <2>5, <2>6, <3>1, Fits
    <3> QED BY <2>2, <2>4, <2>5, <2>6, <3>1, <3>2 DEF Larger
  <2>8. /\ Stacked(d, at + 1) \in 0 .. 254
        /\ info'.globalsNesting = Stacked(d, at + 1)
        /\ info'.maxGlobalsNesting \in 0 .. Num(d, {"Push"}, at + 1)
        /\ info'.maxGlobalsNesting >= info.maxGlobalsNesting
        /\ Stacked(d, at + 1) <= info'.maxGlobalsNesting
    <3>1. CASE x.tag = "Pop" /\ Stacked(d, at) = 0
      <4>1. info'.globalsNesting = Byte(info.globalsNesting - 1) /\ info.globalsNesting = 0
        BY <2>2, <2>5, <3>1
      <4>2. info'.globalsNesting = 255
        BY <4>1, Borrows
      <4>3. info'.maxGlobalsNesting = info.maxGlobalsNesting /\ info.maxGlobalsNesting <= 254
        BY <2>2, <2>3, <2>5, <2>6, <3>1
      <4> QED BY <2>1, <2>2, <2>3, <3>1, <4>1, <4>2, <4>3
    <3>2. CASE ~(x.tag = "Pop" /\ Stacked(d, at) = 0)
      <4>1. Stacked(d, at + 1) \in 0 .. 254
        BY <2>3, <2>4, <2>6, <3>2
      <4>2. info'.globalsNesting = Stacked(d, at + 1)
        BY <2>2, <2>5, <2>6, <4>1, Fits
      <4> QED BY <2>2, <2>3, <2>4, <2>5, <2>6, <4>1, <4>2 DEF Larger
    <3> QED BY <3>1, <3>2
  <2>9. ASSUME NEW q \in 1 .. at + 1
        PROVE  /\ Deep(d, q) \in 0 .. info'.maxCollectionNesting
               /\ Stacked(d, q) \in 0 .. info'.maxGlobalsNesting
    <3>1. CASE q \in 1 .. at
      BY <2>2, <2>7, <2>8, <3>1
    <3>2. CASE q = at + 1
      BY <2>7, <2>8, <3>2
    <3> QED BY <1>1, <3>1, <3>2
  <2> QED BY <2>7, <2>8, <2>9
<1> QED BY <1>5, <1>8, <1>9, <1>10 DEF CountInv

-------------------------------------------------------------------------------
(* The second pass. *)

\* The variables that no parse resets are as they were when the program started.
Fresh ==
  found.parent = 0 /\ found.items["string"] = 0 /\ found.items["designator"] = 0

RoomFor(d, k) == Cardinality(Local(d, {"Index"}, k)) + Cardinality(Local(d, RangeTags, k)) \div 2

\* What is open or pushed is never less than nothing, and nothing is open at the end.
Balanced(d) ==
  /\ \A q \in 1 .. Len(d) + 1 : Deep(d, q) \in Nat /\ Stacked(d, q) \in Nat
  /\ Deep(d, Len(d) + 1) = 0

\* The tables have the room that the first pass has counted.
Rooms ==
  /\ Balanced(descriptor)
  /\ DOMAIN collectionList = 0 .. Cardinality(At(descriptor, {"Collection"}))
  /\ DOMAIN reportItemList = 0 .. Cardinality(At(descriptor, DataTags)) - 1
  /\ DOMAIN reportList = 0 .. Cardinality(At(descriptor, {"ReportID"}))
  /\ OfKinds(itemList) /\ \A k \in Kinds : DOMAIN itemList[k] = 0 .. RoomFor(descriptor, k) - 1
  /\ \A q \in 1 .. Len(descriptor) + 1 :
       /\ \A j \in 0 .. Deep(descriptor, q) - 1 : j \in DOMAIN collectionStack
       /\ \A j \in 0 .. Stacked(descriptor, q) - 1 : j \in DOMAIN globalsStack

\* The counters are where the first pass was at the item that is next; of the reports, those
\* with an ID that was there before are not counted.
FillCounts ==
  /\ info.collections = 1 + Num(descriptor, {"Collection"}, at)
  /\ info.reportItems = Num(descriptor, DataTags, at)
  /\ info.reports \in 1 .. 1 + Num(descriptor, {"ReportID"}, at)
  /\ info.collectionNesting = Deep(descriptor, at)
  /\ info.globalsNesting = Stacked(descriptor, at)

\* The collection that is open, and those around it, are in the list.
ParentsThere ==
  /\ info.parent \in 0 .. info.collections - 1
  /\ \A j \in 0 .. info.collectionNesting - 1 : collectionStack[j] \in 0 .. info.collections - 1

\* A range takes two bounds, the first of which waits for the second.
Waits(k) == IF info.haveMin[k] \/ info.haveMax[k] THEN 1 ELSE 0
ItemsBelow(k) ==
  /\ info.items[k] \in Nat /\ info.haveMin[k] \in BOOLEAN /\ info.haveMax[k] \in BOOLEAN
  /\ 2 * info.items[k] + Waits(k)
       <= 2 * Upto(Local(descriptor, {"Index"}, k), at) + Upto(Local(descriptor, RangeTags, k), at)

FillInv ==
  phase = "fill" => Rooms /\ FillCounts /\ (Fresh => ParentsThere /\ \A k \in Kinds : ItemsBelow(k))

OverrunInv == phase = "overrun" => ~Fresh

\* The second pass begins with room for what the first has counted.
LEMMA AllocateKept ==
  ASSUME AtItem, InfoShape, CountInv, Allocate, Countable(descriptor)
  PROVE  AtItem' /\ InfoShape' /\ CountInv' /\ FillInv' /\ OverrunInv'
<1> DEFINE d == descriptor
<1>1. phase = "count" /\ atEnd /\ d \in Descriptors /\ at = Len(d) + 1 /\ Len(d) \in Nat \ {0}
      /\ descriptor' = d /\ found' = found
  BY Descriptor DEF Allocate, AtItem, atEnd
<1>2. CASE phase' # "fill"
  <2>1. UNCHANGED info /\ phase' \in {"idle", "parsed"} /\ UNCHANGED at
    BY <1>2 DEF Allocate, Return
  <2>2. phase' = "parsed" => FALSE
    BY <1>2 DEF Allocate, Return
  <2> QED BY <1>1, <2>1, <2>2 DEF AtItem, InfoShape, CountInv, FillInv, OverrunInv
<1>3. CASE phase' = "fill"
  <2>1. /\ FirstPassError = "none" /\ at' = 1 /\ info' = InitDeviceRptInfo(info)
        /\ collectionList' = Room(info.collections, NewCollection)
        /\ reportItemList' = Room(info.reportItems, NewReportItem)
        /\ reportList' = Room(info.reports, NewReport)
        /\ itemList' = [k \in Kinds |-> Room(ItemsRequired(k), NewItem)]
        /\ collectionStack' = Room(info.maxCollectionNesting, 0)
        /\ globalsStack' = Room(info.maxGlobalsNesting, NoGlobals)
    BY <1>3 DEF Allocate, Return
  <2>2. CountsItems /\ CountsNesting /\ KeepsFound
    BY <1>1 DEF CountInv
  <2>3. lhidError = "none" /\ info.collectionNesting = 0
    BY <2>1 DEF FirstPassError
  <2>4. \A n : \A new : DOMAIN Room(n, new) = 0 .. n - 1
    BY DEF Room
  <2>5. AtItem'
    BY <1>1, <1>3, <2>1 DEF AtItem
  <2>6. /\ info' = [f \in InfoFields |-> info'[f]]
        /\ info'.collectionNesting = 0 /\ info'.collections = 1 /\ info'.globalsNesting = 0
        /\ info'.reportItems = 0 /\ info'.reports = 1
        /\ info'.indices = None /\ info'.ranges = None
        /\ info'.items = [info.items EXCEPT !["usage"] = 0]
        /\ info'.haveMin = No /\ info'.haveMax = No /\ info'.parent = info.parent
        /\ info'.first = info.first /\ info'.minimum = info.minimum
        /\ info'.maximum = info.maximum
    BY <2>1, InitShape
  <2>7. InfoShape'
    BY <2>6 DEF InfoShape, OfKinds, None, No
  <2>8. CountInv' /\ OverrunInv'
    BY <1>3 DEF CountInv, OverrunInv
  <2>9. /\ \A tags : Cardinality(At(d, tags)) \in Nat
        /\ \A tags, k : Cardinality(Local(d, tags, k)) \in Nat
        /\ info.collections = 1 + Cardinality(At(d, {"Collection"}))
        /\ info.reportItems = Cardinality(At(d, DataTags))
        /\ info.reports = 1 + Cardinality(At(d, {"ReportID"}))
        /\ \A k \in Kinds : /\ info.indices[k] = Cardinality(Local(d, {"Index"}, k))
                            /\ info.ranges[k] = Cardinality(Local(d, RangeTags, k))
    BY <1>1, <2>2, CountsEnd DEF CountsItems
  <2>10. Rooms'
    <3>1. /\ \A q \in 1 .. Len(d) + 1 : /\ Deep(d, q) \in 0 .. info.maxCollectionNesting
                                        /\ Stacked(d, q) \in 0 .. info.maxGlobalsNesting
          /\ info.maxCollectionNesting \in Nat /\ info.maxGlobalsNesting \in Nat
          /\ Deep(d, Len(d) + 1) = 0
      <4>1. Num(d, {"Push"}, at) \in Nat
        BY <1>1, CountsBelow, CountsEnd
      <4> QED BY <1>1, <2>2, <2>3, <4>1 DEF CountsNesting
    <3>2. /\ DOMAIN collectionList' = 0 .. Cardinality(At(d, {"Collection"}))
          /\ DOMAIN reportItemList' = 0 .. Cardinality(At(d, DataTags)) - 1
          /\ DOMAIN reportList' = 0 .. Cardinality(At(d, {"ReportID"}))
      <4>1. /\ (1 + Cardinality(At(d, {"Collection"}))) - 1 = Cardinality(At(d, {"Collection"}))
            /\ (1 + Cardinality(At(d, {"ReportID"}))) - 1 = Cardinality(At(d, {"ReportID"}))
        BY <2>9
      <4> QED BY <2>1, <2>4, <2>9, <4>1
    <3>3. ASSUME NEW k \in Kinds
          PROVE  DOMAIN itemList'[k] = 0 .. RoomFor(d, k) - 1
      <4>1. itemList'[k] = Room(ItemsRequired(k), NewItem)
        BY <2>1
      <4>2. ItemsRequired(k) = RoomFor(d, k)
        <5>1. RoomFor(d, k) \in 0 .. 254
          <6>1. /\ Cardinality(Local(d, {"Index"}, k)) + Cardinality(Local(d, RangeTags, k)) <= 254
                /\ Cardinality(Local(d, {"Index"}, k)) \in Nat
                /\ Cardinality(Local(d, RangeTags, k)) \in Nat
            BY <2>9 DEF Countable
          <6> QED BY <6>1, SMTT(30) DEF RoomFor
        <5>2. info.indices[k] + info.ranges[k] \div 2 = RoomFor(d, k)
          BY <2>9 DEF RoomFor
        <5> QED BY <5>1, <5>2, Fits DEF ItemsRequired
      <4> QED BY <2>4, <4>1, <4>2
    <3>4. OfKinds(itemList')
      BY <2>1 DEF OfKinds
    <3>5. ASSUME NEW q \in 1 .. Len(d) + 1
          PROVE  /\ \A j \in 0 .. Deep(d, q) - 1 : j \in DOMAIN collectionStack'
                 /\ \A j \in 0 .. Stacked(d, q) - 1 : j \in DOMAIN globalsStack'
      <4>1. /\ DOMAIN collectionStack' = 0 .. info.maxCollectionNesting - 1
            /\ DOMAIN globalsStack' = 0 .. info.maxGlobalsNesting - 1
        BY <2>1, <2>4
      <4>2. /\ Deep(d, q) \in 0 .. info.maxCollectionNesting
            /\ Stacked(d, q) \in 0 .. info.maxGlobalsNesting
        BY <3>1
      <4> QED BY <3>1, <4>1, <4>2
    <3>6. Balanced(d)
      BY <3>1 DEF Balanced
    <3> HIDE DEF d
    <3>7. descriptor' = d
      BY <1>1 DEF d
    <3> QED BY <3>2, <3>3, <3>4, <3>5, <3>6, <3>7 DEF Rooms
  <2>11. FillCounts'
    <3>1. \A tags : Num(d, tags, 1) = 0
      BY <1>1, CountsEnd
    <3> QED BY <1>1, <2>1, <2>6, <3>1 DEF FillCounts, Deep, Stacked
  <2>12. ASSUME Fresh'
         PROVE  ParentsThere' /\ \A k \in Kinds : ItemsBelow(k)'
    <3>1. /\ found.parent = 0 /\ found.items["string"] = 0 /\ found.items["designator"] = 0
      BY <1>1, <2>12 DEF Fresh
    <3>2. info'.parent = 0
      BY <2>2, <2>6, <3>1 DEF KeepsFound
    <3>3. ParentsThere'
      BY <2>6, <3>2 DEF ParentsThere
    <3>4. ASSUME NEW k \in Kinds
          PROVE  info'.items[k] = 0 /\ info'.haveMin[k] = FALSE /\ info'.haveMax[k] = FALSE
      <4>1. OfKinds(info.items)
        BY DEF InfoShape
      <4>2. k # "usage" => info.items[k] = 0
        BY <2>2, <3>1 DEF KeepsFound, Kinds
      <4> QED BY <2>6, <4>1, <4>2 DEF OfKinds, No, Kinds
    <3>5. ASSUME NEW k \in Kinds PROVE ItemsBelow(k)'
      <4>1. /\ Upto(Local(d, {"Index"}, k), 1) = 0 /\ Upto(Local(d, RangeTags, k), 1) = 0
        BY <1>1, CountsEnd
      <4>2. Waits(k)' = 0
        BY <3>4 DEF Waits
      <4>3. info'.haveMin[k] \in BOOLEAN /\ info'.haveMax[k] \in BOOLEAN /\ info'.items[k] = 0
        BY <3>4
      <4>4. descriptor' = d /\ at' = 1
        BY <1>1, <2>1
      <4> HIDE DEF d
      <4> QED BY <4>1, <4>2, <4>3, <4>4 DEF ItemsBelow
    <3> QED BY <3>3, <3>5
  <2> QED BY <2>5, <2>7, <2>8, <2>10, <2>11, <2>12 DEF FillInv
<1> QED BY <1>2, <1>3

\* The step to the next item, which leaves the tables as large as they are and all but some
\* fields as they are.
NextItem == phase' = "fill" /\ at' = at + 1 /\ descriptor' = descriptor /\ found' = found
Keeps(fields) ==
  /\ info' = [f \in InfoFields |-> info'[f]]
  /\ \A f \in InfoFields \ fields : info'[f] = info[f]
SameRooms ==
  /\ DOMAIN collectionList' = DOMAIN collectionList
  /\ DOMAIN reportItemList' = DOMAIN reportItemList
  /\ DOMAIN reportList' = DOMAIN reportList
  /\ DOMAIN collectionStack' = DOMAIN collectionStack
  /\ DOMAIN globalsStack' = DOMAIN globalsStack
  /\ OfKinds(itemList') /\ \A k \in Kinds : DOMAIN itemList'[k] = DOMAIN itemList[k]
CountersOn ==
  /\ info'.collections = IF item.tag = "Collection" THEN Byte(info.collections + 1)
                         ELSE info.collections
  /\ info'.reportItems = IF item.tag \in DataTags THEN Byte(info.reportItems + 1)
                         ELSE info.reportItems
  /\ \/ info'.reports = info.reports
     \/ item.tag = "ReportID" /\ info'.reports = Byte(info.reports + 1)
  /\ info'.collectionNesting = IF item.tag = "Collection" THEN Byte(info.collectionNesting + 1)
                               ELSE IF item.tag = "EndCollection" THEN info.collectionNesting - 1
                               ELSE info.collectionNesting
  /\ info'.globalsNesting = IF item.tag = "Push" THEN Byte(info.globalsNesting + 1)
                            ELSE IF item.tag = "Pop" THEN info.globalsNesting - 1
                            ELSE info.globalsNesting

\* What is known of the item that is next.
LEMMA ItemThere ==
  ASSUME AtItem, FillInv, phase = "fill", ~atEnd
  PROVE  /\ descriptor \in Descriptors /\ at \in 1 .. Len(descriptor) /\ Len(descriptor) \in Nat
         /\ at + 1 \in 1 .. Len(descriptor) + 1
         /\ item.tag \in Tags /\ item.kind \in Kinds /\ Rooms /\ FillCounts
         /\ Fresh => ParentsThere /\ \A k \in Kinds : ItemsBelow(k)
         /\ \A tags : Num(descriptor, tags, at) \in Nat
         /\ \A tags : item.tag \in tags =>
              Num(descriptor, tags, at) < Cardinality(At(descriptor, tags))
         /\ \A tags : Cardinality(At(descriptor, tags)) \in Nat
<1>1. descriptor \in Descriptors /\ at \in 1 .. Len(descriptor) + 1 /\ Len(descriptor) \in Nat
  BY Descriptor DEF AtItem
<1>2. at \in 1 .. Len(descriptor) /\ at + 1 \in 1 .. Len(descriptor) + 1
  BY <1>1 DEF atEnd
<1>3. item.tag \in Tags /\ item.kind \in Kinds
  BY <1>1, <1>2, Descriptor DEF item
<1>4. \A tags : Num(descriptor, tags, at) \in Nat /\ Cardinality(At(descriptor, tags)) \in Nat
  BY <1>1, CountsBelow, CountsEnd
<1>5. ASSUME NEW tags, item.tag \in tags
      PROVE  Num(descriptor, tags, at) < Cardinality(At(descriptor, tags))
  <2>1. Num(descriptor, tags, at + 1) = Num(descriptor, tags, at) + 1
    BY <1>1, <1>2, <1>5, CountsGrow DEF item
  <2>2. Num(descriptor, tags, at + 1) \in 0 .. Cardinality(At(descriptor, tags))
    BY <1>1, <1>2, CountsBelow
  <2> QED BY <1>4, <2>1, <2>2
<1> QED BY <1>1, <1>2, <1>3, <1>4, <1>5 DEF FillInv

\* The counters of the second pass go on as those of the first did.
LEMMA FillCountsKept ==
  ASSUME AtItem, FillInv, Countable(descriptor), phase = "fill", ~atEnd,
         NextItem, SameRooms, CountersOn
  PROVE  AtItem' /\ Rooms' /\ FillCounts'
<1> DEFINE d == descriptor
           x == d[at]
<1>1. /\ d \in Descriptors /\ at \in 1 .. Len(d) /\ Len(d) \in Nat /\ at + 1 \in 1 .. Len(d) + 1
      /\ Rooms /\ FillCounts /\ item = x
  BY ItemThere DEF item
<1>2. AtItem'
  BY <1>1 DEF NextItem, AtItem
<1>3. Rooms'
  BY <1>1 DEF Rooms, SameRooms, NextItem
<1>4. \A tags : /\ Num(d, tags, at) \in Nat /\ Num(d, tags, at + 1) \in Nat
                /\ Num(d, tags, at + 1) = Num(d, tags, at) + (IF x.tag \in tags THEN 1 ELSE 0)
                /\ Num(d, tags, at + 1) <= Cardinality(At(d, tags))
                /\ Cardinality(At(d, tags)) \in Nat
  BY <1>1, CountsGrow, CountsBelow, CountsEnd
<1>5. /\ Cardinality(At(d, {"Collection"})) <= 254 /\ Cardinality(At(d, DataTags)) <= 254
      /\ Cardinality(At(d, {"ReportID"})) <= 254 /\ Cardinality(At(d, {"Push"})) <= 254
  BY DEF Countable
<1>6. Deep(d, at) \in Nat /\ Stacked(d, at) \in Nat /\ Deep(d, at + 1) \in Nat
      /\ Stacked(d, at + 1) \in Nat
  BY <1>1 DEF Rooms, Balanced
<1>7. /\ Num(d, {"Collection"}, at + 1)
           = Num(d, {"Collection"}, at) + (IF x.tag = "Collection" THEN 1 ELSE 0)
      /\ Num(d, {"EndCollection"}, at + 1)
           = Num(d, {"EndCollection"}, at) + (IF x.tag = "EndCollection" THEN 1 ELSE 0)
      /\ Num(d, DataTags, at + 1) = Num(d, DataTags, at) + (IF x.tag \in DataTags THEN 1 ELSE 0)
      /\ Num(d, {"ReportID"}, at + 1)
           = Num(d, {"ReportID"}, at) + (IF x.tag = "ReportID" THEN 1 ELSE 0)
      /\ Num(d, {"Push"}, at + 1) = Num(d, {"Push"}, at) + (IF x.tag = "Push" THEN 1 ELSE 0)
      /\ Num(d, {"Pop"}, at + 1) = Num(d, {"Pop"}, at) + (IF x.tag = "Pop" THEN 1 ELSE 0)
  BY <1>4
<1>8. /\ Deep(d, at + 1) = IF x.tag = "Collection" THEN Deep(d, at) + 1
                           ELSE IF x.tag = "EndCollection" THEN Deep(d, at) - 1 ELSE Deep(d, at)
      /\ Stacked(d, at + 1) = IF x.tag = "Push" THEN Stacked(d, at) + 1
                              ELSE IF x.tag = "Pop" THEN Stacked(d, at) - 1 ELSE Stacked(d, at)
      /\ Deep(d, at) <= Num(d, {"Collection"}, at) /\ Stacked(d, at) <= Num(d, {"Push"}, at)
  BY <1>4, <1>6, <1>7 DEF Deep, Stacked
<1> HIDE DEF d
<1>9. /\ info.collections = 1 + Num(d, {"Collection"}, at)
      /\ info.reportItems = Num(d, DataTags, at)
      /\ info.reports \in 1 .. 1 + Num(d, {"ReportID"}, at)
      /\ info.collectionNesting = Deep(d, at) /\ info.globalsNesting = Stacked(d, at)
  BY <1>1 DEF FillCounts, d
<1>10. info'.collections = 1 + Num(d, {"Collection"}, at + 1)
  <2>1. 1 + Num(d, {"Collection"}, at + 1) \in 0 .. 255 /\ Num(d, {"Collection"}, at) \in Nat
    BY <1>4, <1>5
  <2>2. CASE x.tag = "Collection"
    <3>1. info'.collections = Byte(info.collections + 1)
      BY <1>1, <2>2 DEF CountersOn
    <3>2. info.collections + 1 = 1 + Num(d, {"Collection"}, at + 1)
      BY <1>7, <1>9, <2>1, <2>2
    <3> QED BY <2>1, <3>1, <3>2, Fits
  <2>3. CASE x.tag # "Collection"
    <3>1. info'.collections = info.collections
      BY <1>1, <2>3 DEF CountersOn
    <3> QED BY <1>7, <1>9, <2>1, <2>3, <3>1
  <2> QED BY <2>2, <2>3
<1>11. info'.reportItems = Num(d, DataTags, at + 1)
  <2>1. Num(d, DataTags, at + 1) \in 0 .. 255 /\ Num(d, DataTags, at) \in Nat
    BY <1>4, <1>5
  <2>2. CASE x.tag \in DataTags
    <3>1. info'.reportItems = Byte(info.reportItems + 1)
      BY <1>1, <2>2 DEF CountersOn
    <3>2. info.reportItems + 1 = Num(d, DataTags, at + 1)
      BY <1>7, <1>9, <2>1, <2>2
    <3> QED BY <2>1, <3>1, <3>2, Fits
  <2>3. CASE x.tag \notin DataTags
    <3>1. info'.reportItems = info.reportItems
      BY <1>1, <2>3 DEF CountersOn
    <3> QED BY <1>7, <1>9, <2>1, <2>3, <3>1
  <2> QED BY <2>2, <2>3
<1>12. info'.reports \in 1 .. 1 + Num(d, {"ReportID"}, at + 1)
  <2>1. Num(d, {"ReportID"}, at + 1) \in 0 .. 254 /\ Num(d, {"ReportID"}, at) \in Nat
    BY <1>4, <1>5
  <2>2. CASE info'.reports = info.reports
    BY <1>7, <1>9, <2>1, <2>2
  <2>3. CASE x.tag = "ReportID" /\ info'.reports = Byte(info.reports + 1)
    <3>1. info.reports + 1 \in 0 .. 255
      BY <1>7, <1>9, <2>1, <2>3
    <3> QED BY <1>7, <1>9, <2>1, <2>3, <3>1, Fits
  <2> QED BY <1>1, <2>2, <2>3 DEF CountersOn
<1>13. info'.collectionNesting = Deep(d, at + 1)
  <2>1. x.tag = "Collection" => Deep(d, at) + 1 \in 0 .. 255
    <3>1. Num(d, {"Collection"}, at) \in Nat /\ Num(d, {"Collection"}, at + 1) \in 0 .. 254
      BY <1>4, <1>5
    <3> QED BY <1>6, <1>7, <1>8, <3>1
  <2>2. CASE x.tag = "Collection"
    <3>1. info'.collectionNesting = Byte(info.collectionNesting + 1)
      BY <1>1, <2>2 DEF CountersOn
    <3> QED BY <1>8, <1>9, <2>1, <2>2, <3>1, Fits
  <2>3. CASE x.tag # "Collection"
    <3>1. info'.collectionNesting = IF x.tag = "EndCollection" THEN info.collectionNesting - 1
                                 ELSE info.collectionNesting
      BY <1>1, <2>3 DEF CountersOn
    <3> QED BY <1>8, <1>9, <2>3, <3>1
  <2> QED BY <2>2, <2>3
<1>14. info'.globalsNesting = Stacked(d, at + 1)
  <2>1. x.tag = "Push" => Stacked(d, at) + 1 \in 0 .. 255
    <3>1. Num(d, {"Push"}, at) \in Nat /\ Num(d, {"Push"}, at + 1) \in 0 .. 254
      BY <1>4, <1>5
    <3> QED BY <1>6, <1>7, <1>8, <3>1
  <2>2. CASE x.tag = "Push"
    <3>1. info'.globalsNesting = Byte(info.globalsNesting + 1)
      BY <1>1, <2>2 DEF CountersOn
    <3> QED BY <1>8, <1>9, <2>1, <2>2, <3>1, Fits
  <2>3. CASE x.tag # "Push"
    <3>1. info'.globalsNesting = IF x.tag = "Pop" THEN info.globalsNesting - 1
                                 ELSE info.globalsNesting
      BY <1>1, <2>3 DEF CountersOn
    <3> QED BY <1>8, <1>9, <2>3, <3>1
  <2> QED BY <2>2, <2>3
<1>15. FillCounts'
  BY <1>10, <1>11, <1>12, <1>13, <1>14 DEF FillCounts, NextItem, d
<1> QED BY <1>2, <1>3, <1>15

\* An item that adds no entry of a kind leaves room for those that will.
LEMMA ItemsBelowKept ==
  ASSUME AtItem, FillInv, phase = "fill", ~atEnd, NextItem, NEW k \in Kinds, ItemsBelow(k),
         info'.items[k] = info.items[k], info'.haveMin[k] = info.haveMin[k],
         info'.haveMax[k] = info.haveMax[k]
  PROVE  ItemsBelow(k)'
<1> DEFINE d == descriptor
<1>1. d \in Descriptors /\ at \in 1 .. Len(d)
  BY ItemThere
<1>2. /\ Upto(Local(d, {"Index"}, k), at) \in Nat
      /\ Upto(Local(d, {"Index"}, k), at + 1) \in Nat
      /\ Upto(Local(d, {"Index"}, k), at) <= Upto(Local(d, {"Index"}, k), at + 1)
      /\ Upto(Local(d, RangeTags, k), at) \in Nat
      /\ Upto(Local(d, RangeTags, k), at + 1) \in Nat
      /\ Upto(Local(d, RangeTags, k), at) <= Upto(Local(d, RangeTags, k), at + 1)
  BY <1>1, CountsGrow
<1>3. Waits(k)' = Waits(k) /\ Waits(k) \in {0, 1}
  BY DEF Waits
<1>4. descriptor' = d /\ at' = at + 1
  BY DEF NextItem
<1>5. /\ info'.items[k] \in Nat /\ info'.haveMin[k] \in BOOLEAN /\ info'.haveMax[k] \in BOOLEAN
      /\ 2 * info'.items[k] + Waits(k)
           <= 2 * Upto(Local(d, {"Index"}, k), at) + Upto(Local(d, RangeTags, k), at)
  BY DEF ItemsBelow
<1> HIDE DEF d
<1>6. 2 * info'.items[k] + Waits(k)
        <= 2 * Upto(Local(d, {"Index"}, k), at + 1) + Upto(Local(d, RangeTags, k), at + 1)
  BY <1>2, <1>3, <1>5
<1> QED BY <1>3, <1>4, <1>5, <1>6 DEF ItemsBelow

\* An item that opens and closes no collection leaves those that are open.
LEMMA ParentsKept ==
  ASSUME ParentsThere, info'.parent = info.parent, info'.collections = info.collections,
         info'.collectionNesting = info.collectionNesting, collectionStack' = collectionStack
  PROVE  ParentsThere'
BY DEF ParentsThere

\* The invariant of the parser.
ParserInv == AtItem /\ InfoShape /\ CountInv /\ FillInv /\ OverrunInv

\* A step of the second pass to the next item, once its collections and local items are right.
LEMMA NextItemKept ==
  ASSUME ParserInv, Countable(descriptor), phase = "fill", ~atEnd, NextItem, SameRooms, CountersOn,
         InfoShape', Fresh => ParentsThere' /\ \A k \in Kinds : ItemsBelow(k)'
  PROVE  ParserInv'
<1>1. AtItem' /\ Rooms' /\ FillCounts'
  BY FillCountsKept DEF ParserInv
<1>2. phase' = "fill" /\ Fresh' = Fresh
  BY DEF NextItem, Fresh
<1> QED BY <1>1, <1>2 DEF ParserInv, CountInv, FillInv, OverrunInv

\* A step that has nothing to do with collections and local items.
LEMMA QuietKept ==
  ASSUME ParserInv, Countable(descriptor), phase = "fill", ~atEnd, NextItem, SameRooms, CountersOn,
         InfoShape', info'.parent = info.parent, info'.collections = info.collections,
         info'.collectionNesting = info.collectionNesting, collectionStack' = collectionStack,
         info'.items = info.items, info'.haveMin = info.haveMin, info'.haveMax = info.haveMax
  PROVE  ParserInv'
<1>1. AtItem /\ FillInv
  BY DEF ParserInv
<1>2. ASSUME Fresh
      PROVE  ParentsThere' /\ \A k \in Kinds : ItemsBelow(k)'
  <2>1. ParentsThere /\ \A k \in Kinds : ItemsBelow(k)
    BY <1>1, <1>2, ItemThere
  <2>2. ParentsThere'
    BY <2>1, ParentsKept
  <2>3. ASSUME NEW k \in Kinds
        PROVE  ItemsBelow(k)'
    BY <1>1, <2>1, ItemsBelowKept
  <2> QED BY <2>2, <2>3
<1> QED BY <1>2, NextItemKept

\* The parser gives up.
LEMMA GivesUpKept ==
  ASSUME InfoShape', phase' = "idle"
  PROVE  ParserInv'
BY DEF ParserInv, AtItem, CountInv, FillInv, OverrunInv

\* The parser overruns a table: what was there when it began was not fresh.
LEMMA OverrunKept ==
  ASSUME ParserInv, Overrun, UNCHANGED <<descriptor, found>>, ~Fresh
  PROVE  ParserInv'
<1>1. info' = info /\ phase' = "overrun" /\ found' = found
  BY DEF Overrun
<1>2. InfoShape' /\ ~Fresh'
  BY <1>1 DEF ParserInv, InfoShape, Fresh
<1> QED BY <1>1, <1>2 DEF ParserInv, AtItem, CountInv, FillInv, OverrunInv

LEMMA SameTables ==
  ASSUME UNCHANGED tables, phase = "fill", ParserInv
  PROVE  SameRooms /\ collectionStack' = collectionStack
BY DEF tables, SameRooms, ParserInv, FillInv, Rooms, OfKinds

LEMMA GlobalItemKept ==
  ASSUME ParserInv, Countable(descriptor), GlobalItem, UNCHANGED <<descriptor, found>>
  PROVE  ParserInv'
<1>1. /\ phase = "fill" /\ ~atEnd /\ UNCHANGED tables
      /\ item.tag \in {"UsagePage", "LogicalMinimum", "LogicalMaximum", "ReportSize", "ReportCount"}
  BY DEF GlobalItem, Filling
<1>2. PICK g : info' = [info EXCEPT !.globals = g]
  BY DEF GlobalItem
<1>3. InfoShape /\ info' = [f \in InfoFields |-> info'[f]]
      /\ \A f \in InfoFields \ {"globals"} : info'[f] = info[f]
  BY <1>2 DEF ParserInv, InfoShape
<1>4. InfoShape'
  BY <1>3 DEF InfoShape, InfoFields
<1>5. \E error : Proceed(error)
  BY DEF GlobalItem
<1>6. CASE phase' = "idle"
  BY <1>4, <1>6, GivesUpKept
<1>7. CASE phase' # "idle"
  <2>1. NextItem
    BY <1>1, <1>5, <1>7 DEF Proceed, Return, NextItem
  <2>2. SameRooms /\ collectionStack' = collectionStack
    BY <1>1, SameTables
  <2>3. CountersOn
    BY <1>1, <1>3 DEF CountersOn, InfoFields, DataTags
  <2>4. /\ info'.parent = info.parent /\ info'.collections = info.collections
        /\ info'.collectionNesting = info.collectionNesting /\ info'.items = info.items
        /\ info'.haveMin = info.haveMin /\ info'.haveMax = info.haveMax
    BY <1>3 DEF InfoFields
  <2> QED BY <1>1, <1>4, <2>1, <2>2, <2>3, <2>4, QuietKept
<1> QED BY <1>6, <1>7

LEMMA OtherItemKept ==
  ASSUME ParserInv, Countable(descriptor), OtherItem, UNCHANGED <<descriptor, found>>
  PROVE  ParserInv'
<1>1. /\ phase = "fill" /\ ~atEnd /\ UNCHANGED tables /\ info' = info /\ item.tag = "Other"
  BY DEF OtherItem, Filling
<1>2. InfoShape'
  BY <1>1 DEF ParserInv, InfoShape
<1>3. NextItem
  BY <1>1 DEF OtherItem, Proceed, NextItem
<1>4. SameRooms /\ collectionStack' = collectionStack
  BY <1>1, SameTables
<1>5. CountersOn
  BY <1>1 DEF CountersOn, DataTags
<1> QED BY <1>1, <1>2, <1>3, <1>4, <1>5, QuietKept

LEMMA ReportIDItemKept ==
  ASSUME ParserInv, Countable(descriptor), ReportIDItem, UNCHANGED <<descriptor, found>>
  PROVE  ParserInv'
<1>1. phase = "fill" /\ ~atEnd /\ item.tag = "ReportID" /\ AtItem /\ FillInv /\ InfoShape
  BY DEF ReportIDItem, Filling, ParserInv
<1>2. CASE item.data = 0
  <2>1. info' = info /\ phase' = "idle"
    BY <1>2 DEF ReportIDItem, Proceed, Return
  <2> QED BY <1>1, <2>1, GivesUpKept DEF InfoShape
<1>3. CASE Overrun
  <2>1. Overrun /\ info.reports \notin DOMAIN reportList
    BY <1>1, <1>3 DEF ReportIDItem, Proceed, Return, Overrun
  <2>2. /\ info.reports \in 1 .. 1 + Num(descriptor, {"ReportID"}, at)
        /\ DOMAIN reportList = 0 .. Cardinality(At(descriptor, {"ReportID"}))
        /\ Num(descriptor, {"ReportID"}, at) < Cardinality(At(descriptor, {"ReportID"}))
        /\ Num(descriptor, {"ReportID"}, at) \in Nat
        /\ Cardinality(At(descriptor, {"ReportID"})) \in Nat
    BY <1>1, ItemThere DEF FillCounts, Rooms
  <2> QED BY <2>1, <2>2
<1>4. CASE item.data # 0 /\ ~Overrun
  <2>1. PICK n, g :
          /\ info' = [info EXCEPT !.reports = n, !.globals = g]
          /\ n = info.reports \/ n = Byte(info.reports + 1)
    <3>1. info' = [info EXCEPT !.reports = IF ReportIndex = @ THEN Byte(@ + 1) ELSE @,
                        !.globals.reportID = Byte(item.data), !.globals.reportIndex = ReportIndex]
      BY <1>4 DEF ReportIDItem
    <3> DEFINE n == IF ReportIndex = info.reports THEN Byte(info.reports + 1) ELSE info.reports
               g == [info.globals EXCEPT !.reportID = Byte(item.data), !.reportIndex = ReportIndex]
    <3>2. info' = [info EXCEPT !.reports = n, !.globals = g]
      BY <1>1, <3>1 DEF InfoShape, InfoFields
    <3> QED BY <3>2
  <2>2. /\ info' = [f \in InfoFields |-> info'[f]] /\ info'.reports = n
        /\ \A f \in InfoFields \ {"reports", "globals"} : info'[f] = info[f]
    BY <1>1, <2>1 DEF InfoShape, InfoFields
  <2>3. InfoShape'
    BY <1>1, <2>2 DEF InfoShape, InfoFields
  <2>4. /\ at' = at + 1 /\ UNCHANGED <<phase, collectionList, reportItemList, collectionStack,
                                       globalsStack, itemList>>
        /\ DOMAIN reportList' = DOMAIN reportList
    BY <1>4 DEF ReportIDItem, Proceed
  <2>5. NextItem
    BY <1>1, <2>4 DEF NextItem
  <2>6. SameRooms
    BY <1>1, <2>4 DEF SameRooms, FillInv, Rooms, OfKinds
  <2>7. CountersOn
    BY <1>1, <2>1, <2>2 DEF CountersOn, InfoFields, DataTags
  <2>8. /\ info'.parent = info.parent /\ info'.collections = info.collections
        /\ info'.collectionNesting = info.collectionNesting /\ info'.items = info.items
        /\ info'.haveMin = info.haveMin /\ info'.haveMax = info.haveMax
    BY <2>2 DEF InfoFields
  <2> QED BY <1>1, <2>3, <2>4, <2>5, <2>6, <2>7, <2>8, QuietKept
<1> QED BY <1>2, <1>3, <1>4

LEMMA PushKept ==
  ASSUME ParserInv, Countable(descriptor), Push, UNCHANGED <<descriptor, found>>
  PROVE  ParserInv'
<1>1. phase = "fill" /\ ~atEnd /\ item.tag = "Push" /\ AtItem /\ FillInv /\ InfoShape
  BY DEF Push, Filling, ParserInv
<1>2. info.globalsNesting \in DOMAIN globalsStack
  <2> DEFINE d == descriptor
  <2>1. /\ d \in Descriptors /\ at \in 1 .. Len(d) /\ at + 1 \in 1 .. Len(d) + 1
        /\ info.globalsNesting = Stacked(d, at)
        /\ \A q \in 1 .. Len(d) + 1 :
             /\ Stacked(d, q) \in Nat
             /\ \A j \in 0 .. Stacked(d, q) - 1 : j \in DOMAIN globalsStack
    BY <1>1, ItemThere DEF FillCounts, Rooms, Balanced
  <2>2. /\ Num(d, {"Push"}, at + 1) = Num(d, {"Push"}, at) + (IF d[at].tag = "Push" THEN 1 ELSE 0)
        /\ Num(d, {"Pop"}, at + 1) = Num(d, {"Pop"}, at) + (IF d[at].tag = "Pop" THEN 1 ELSE 0)
        /\ Num(d, {"Push"}, at) \in Nat /\ Num(d, {"Pop"}, at) \in Nat
    <3>1. \A tags : /\ Num(d, tags, at) \in Nat
                    /\ Num(d, tags, at + 1)
                         = Num(d, tags, at) + (IF d[at].tag \in tags THEN 1 ELSE 0)
      BY <2>1, CountsGrow
    <3> QED BY <3>1
  <2>3. Stacked(d, at + 1) = Stacked(d, at) + 1
    BY <1>1, <2>2 DEF Stacked, item
  <2>4. Stacked(d, at) \in Nat
    BY <2>1
  <2> HIDE DEF d
  <2>5. Stacked(d, at) \in 0 .. Stacked(d, at + 1) - 1
    BY <2>3, <2>4
  <2> QED BY <2>1, <2>5
<1>3. /\ globalsStack' = [globalsStack EXCEPT ![info.globalsNesting] = info.globals]
      /\ info' = [info EXCEPT !.globalsNesting = Byte(@ + 1)]
      /\ at' = at + 1
      /\ UNCHANGED <<phase, collectionList, reportItemList, reportList, collectionStack, itemList>>
  BY <1>2 DEF Push, Proceed
<1>4. /\ info' = [f \in InfoFields |-> info'[f]]
      /\ info'.globalsNesting = Byte(info.globalsNesting + 1)
      /\ \A f \in InfoFields \ {"globalsNesting"} : info'[f] = info[f]
  BY <1>1, <1>3 DEF InfoShape, InfoFields
<1>5. InfoShape'
  BY <1>1, <1>4 DEF InfoShape, InfoFields
<1>6. NextItem
  BY <1>1, <1>3 DEF NextItem
<1>7. SameRooms
  BY <1>1, <1>3 DEF SameRooms, FillInv, Rooms, OfKinds
<1>8. CountersOn
  BY <1>1, <1>4 DEF CountersOn, InfoFields, DataTags
<1>9. /\ info'.parent = info.parent /\ info'.collections = info.collections
      /\ info'.collectionNesting = info.collectionNesting /\ info'.items = info.items
      /\ info'.haveMin = info.haveMin /\ info'.haveMax = info.haveMax
  BY <1>4 DEF InfoFields
<1> QED BY <1>1, <1>3, <1>5, <1>6, <1>7, <1>8, <1>9, QuietKept

LEMMA PopKept ==
  ASSUME ParserInv, Countable(descriptor), Pop, UNCHANGED <<descriptor, found>>
  PROVE  ParserInv'
<1>1. phase = "fill" /\ ~atEnd /\ item.tag = "Pop" /\ AtItem /\ FillInv /\ InfoShape
      /\ UNCHANGED tables
  BY DEF Pop, Filling, ParserInv
<1>2. PICK g : info' = [info EXCEPT !.globals = g, !.globalsNesting = info.globalsNesting - 1]
  BY DEF Pop
<1>3. /\ info' = [f \in InfoFields |-> info'[f]]
      /\ info'.globalsNesting = info.globalsNesting - 1
      /\ \A f \in InfoFields \ {"globals", "globalsNesting"} : info'[f] = info[f]
  BY <1>1, <1>2 DEF InfoShape, InfoFields
<1>4. InfoShape'
  BY <1>1, <1>3 DEF InfoShape, InfoFields
<1>5. NextItem
  BY <1>1 DEF Pop, Proceed, NextItem
<1>6. SameRooms /\ collectionStack' = collectionStack
  BY <1>1, SameTables
<1>7. CountersOn
  BY <1>1, <1>3 DEF CountersOn, InfoFields, DataTags
<1>8. /\ info'.parent = info.parent /\ info'.collections = info.collections
      /\ info'.collectionNesting = info.collectionNesting /\ info'.items = info.items
      /\ info'.haveMin = info.haveMin /\ info'.haveMax = info.haveMax
  BY <1>3 DEF InfoFields
<1> QED BY <1>1, <1>4, <1>5, <1>6, <1>7, <1>8, QuietKept
\* What an entry that is added needs, and what it leaves.
AddsOne(newInfo, k) ==
  \/ item.tag = "Index" /\ newInfo.haveMin[k] = info.haveMin[k] /\ newInfo.haveMax[k] = info.haveMax[k]
  \/ /\ item.tag \in RangeTags /\ Waits(k) = 1
     /\ newInfo.haveMin[k] = FALSE /\ newInfo.haveMax[k] = FALSE

\* There is room for the entry of an index, and of a range whose first bound waits.
LEMMA EntryFits ==
  ASSUME AtItem, FillInv, Countable(descriptor), phase = "fill", ~atEnd, Fresh,
         NEW newInfo, AddsOne(newInfo, item.kind)
  PROVE  /\ info.items[item.kind] \in DOMAIN itemList[item.kind]
         /\ Byte(info.items[item.kind] + 1) = info.items[item.kind] + 1
<1> DEFINE d == descriptor
           k == item.kind
<1>1. d \in Descriptors /\ at \in 1 .. Len(d) /\ k \in Kinds /\ ItemsBelow(k)
      /\ at + 1 \in 1 .. Len(d) + 1
  BY ItemThere
<1> DEFINE I == Upto(Local(d, {"Index"}, k), at)
           I1 == Upto(Local(d, {"Index"}, k), at + 1)
           R == Upto(Local(d, RangeTags, k), at)
           R1 == Upto(Local(d, RangeTags, k), at + 1)
           cI == Cardinality(Local(d, {"Index"}, k))
           cR == Cardinality(Local(d, RangeTags, k))
           n == info.items[k]
<1>2. /\ I \in Nat /\ R \in Nat /\ I1 \in 0 .. cI /\ R1 \in 0 .. cR /\ cI \in Nat /\ cR \in Nat
      /\ I1 = I + (IF d[at].tag \in {"Index"} /\ d[at].kind = k THEN 1 ELSE 0)
      /\ R1 = R + (IF d[at].tag \in RangeTags /\ d[at].kind = k THEN 1 ELSE 0)
  <2>1. ASSUME NEW tags
        PROVE  /\ Upto(Local(d, tags, k), at) \in Nat
               /\ Upto(Local(d, tags, k), at + 1)
                    = Upto(Local(d, tags, k), at)
                        + (IF d[at].tag \in tags /\ d[at].kind = k THEN 1 ELSE 0)
    BY <1>1, CountsGrow
  <2>2. \A tags : Upto(Local(d, tags, k), at + 1) \in 0 .. Cardinality(Local(d, tags, k))
    BY <1>1, CountsBelow
  <2>3. \A tags : Cardinality(Local(d, tags, k)) \in Nat
    BY <1>1, CountsEnd
  <2> QED BY <2>1, <2>2, <2>3
<1>3. cI + cR <= 254 /\ DOMAIN itemList[k] = 0 .. (cI + cR \div 2) - 1
  <2>1. Rooms
    BY ItemThere
  <2> QED BY <1>1, <2>1 DEF Countable, Rooms, RoomFor
<1>4. n \in Nat /\ Waits(k) \in {0, 1} /\ 2 * n + Waits(k) <= 2 * I + R
  BY <1>1 DEF ItemsBelow, Waits
<1>5. d[at].kind = k /\ d[at].tag = item.tag
  BY DEF item
<1> HIDE DEF d, k, I, I1, R, R1, cI, cR, n
<1>6. 2 * n + 2 <= 2 * cI + cR
  <2>1. CASE item.tag = "Index"
    <3>1. I1 = I + 1 /\ R1 >= R
      BY <1>2, <1>5, <2>1
    <3> QED BY <1>2, <1>4, <3>1
  <2>2. CASE item.tag \in RangeTags /\ Waits(k) = 1
    <3>1. R1 = R + 1 /\ I1 >= I
      BY <1>2, <1>5, <2>2
    <3> QED BY <1>2, <1>4, <2>2, <3>1
  <2> QED BY <2>1, <2>2 DEF AddsOne, k
<1>7. n + 1 <= cI + cR \div 2
  BY <1>2, <1>4, <1>6
<1>8. cI + cR \div 2 <= 254
  BY <1>2, <1>3
<1>9. n \in 0 .. (cI + cR \div 2) - 1 /\ n + 1 \in 0 .. 255
  BY <1>2, <1>4, <1>7, <1>8
<1>10. n \in DOMAIN itemList[k] /\ Byte(n + 1) = n + 1
  <2>1. PICK m \in 0 .. 255 : m = n + 1
    BY <1>9
  <2>2. Byte(m) = m
    BY Fits
  <2> QED BY <1>3, <1>9, <2>1, <2>2
<1> QED BY <1>10 DEF n, k

\* The bounds of a range leave room for what comes.
LEMMA EntryCounted ==
  ASSUME AtItem, FillInv, phase = "fill", ~atEnd, NextItem, NEW k \in Kinds, k = item.kind,
         ItemsBelow(k), AddsOne(info', k), info'.items[k] = info.items[k] + 1
  PROVE  ItemsBelow(k)'
<1> DEFINE d == descriptor
<1>1. d \in Descriptors /\ at \in 1 .. Len(d)
  BY ItemThere
<1>2. /\ Upto(Local(d, {"Index"}, k), at) \in Nat /\ Upto(Local(d, RangeTags, k), at) \in Nat
      /\ Upto(Local(d, {"Index"}, k), at + 1)
           = Upto(Local(d, {"Index"}, k), at)
               + (IF d[at].tag \in {"Index"} /\ d[at].kind = k THEN 1 ELSE 0)
      /\ Upto(Local(d, RangeTags, k), at + 1)
           = Upto(Local(d, RangeTags, k), at)
               + (IF d[at].tag \in RangeTags /\ d[at].kind = k THEN 1 ELSE 0)
  BY <1>1, CountsGrow
<1>3. d[at].kind = k /\ d[at].tag = item.tag
  BY DEF item
<1>4. /\ info.items[k] \in Nat /\ info.haveMin[k] \in BOOLEAN /\ info.haveMax[k] \in BOOLEAN
      /\ 2 * info.items[k] + Waits(k)
           <= 2 * Upto(Local(d, {"Index"}, k), at) + Upto(Local(d, RangeTags, k), at)
  BY DEF ItemsBelow
<1>5. descriptor' = d /\ at' = at + 1
  BY DEF NextItem
<1>6. Waits(k) \in {0, 1}
  BY DEF Waits
<1>7. CASE item.tag = "Index" /\ info'.haveMin[k] = info.haveMin[k]
            /\ info'.haveMax[k] = info.haveMax[k]
  <2>1. Waits(k)' = Waits(k)
    BY <1>7 DEF Waits
  <2> HIDE DEF d
  <2>2. "Index" \notin RangeTags
    BY DEF RangeTags
  <2>3. /\ Upto(Local(d, {"Index"}, k), at + 1) = Upto(Local(d, {"Index"}, k), at) + 1
        /\ Upto(Local(d, RangeTags, k), at + 1) = Upto(Local(d, RangeTags, k), at)
    BY <1>2, <1>3, <1>7, <2>2
  <2>4. 2 * info'.items[k] + Waits(k)
          <= 2 * Upto(Local(d, {"Index"}, k), at + 1) + Upto(Local(d, RangeTags, k), at + 1)
    BY <1>2, <1>4, <1>6, <2>3
  <2> QED BY <1>4, <1>5, <1>7, <2>1, <2>4 DEF ItemsBelow
<1>8. CASE /\ item.tag \in RangeTags /\ Waits(k) = 1
           /\ info'.haveMin[k] = FALSE /\ info'.haveMax[k] = FALSE
  <2>1. Waits(k)' = 0
    BY <1>8 DEF Waits
  <2> HIDE DEF d
  <2>2. "Index" \notin RangeTags
    BY DEF RangeTags
  <2>3. /\ Upto(Local(d, {"Index"}, k), at + 1) = Upto(Local(d, {"Index"}, k), at)
        /\ Upto(Local(d, RangeTags, k), at + 1) = Upto(Local(d, RangeTags, k), at) + 1
    BY <1>2, <1>3, <1>8, <2>2
  <2>4. 2 * info'.items[k] + 0
          <= 2 * Upto(Local(d, {"Index"}, k), at + 1) + Upto(Local(d, RangeTags, k), at + 1)
    BY <1>2, <1>4, <1>8, <2>3
  <2>5. info'.haveMin[k] \in BOOLEAN /\ info'.haveMax[k] \in BOOLEAN /\ info'.items[k] \in Nat
    <3>1. info'.items[k] \in Nat
      BY <1>4
    <3> QED BY <1>8, <3>1
  <2> QED BY <1>5, <2>1, <2>4, <2>5 DEF ItemsBelow
<1> QED BY <1>7, <1>8 DEF AddsOne

LEMMA AddItemKept ==
  ASSUME ParserInv, Countable(descriptor), phase = "fill", ~atEnd, UNCHANGED <<descriptor, found>>,
         item.tag \in {"Index", "Minimum", "Maximum"}, NEW entry, NEW newInfo, NEW error,
         AddItem(entry, newInfo, error),
         newInfo = [f \in InfoFields |-> newInfo[f]],
         \A f \in InfoFields \ {"haveMin", "haveMax"} : newInfo[f] = info[f],
         OfKinds(newInfo.haveMin), OfKinds(newInfo.haveMax), AddsOne(newInfo, item.kind),
         \A k \in Kinds \ {item.kind} : newInfo.haveMin[k] = info.haveMin[k]
                                        /\ newInfo.haveMax[k] = info.haveMax[k]
  PROVE  ParserInv'
<1> DEFINE k == item.kind
           i == info.items[k]
<1>1. AtItem /\ FillInv /\ InfoShape /\ k \in Kinds /\ Rooms
      /\ (Fresh => ParentsThere /\ \A j \in Kinds : ItemsBelow(j))
  BY ItemThere DEF ParserInv
<1>2. CASE i \notin DOMAIN itemList[k]
  <2>1. Overrun
    BY <1>2 DEF AddItem
  <2>2. ~Fresh
    BY <1>1, <1>2, EntryFits
  <2> QED BY <2>1, <2>2, OverrunKept
<1>3. CASE i \in DOMAIN itemList[k]
  <2>1. /\ itemList' = [itemList EXCEPT ![k] = [@ EXCEPT ![i] = entry]]
        /\ info' = [newInfo EXCEPT !.items[k] = Byte(@ + 1)]
        /\ Proceed(error)
        /\ UNCHANGED <<collectionList, reportItemList, reportList, collectionStack, globalsStack>>
    BY <1>3 DEF AddItem
  <2>2. newInfo.items = info.items
    BY DEF InfoFields
  <2>3. /\ info' = [f \in InfoFields |-> info'[f]]
        /\ info'.items = [info.items EXCEPT ![k] = Byte(@ + 1)]
        /\ \A f \in InfoFields \ {"items"} : info'[f] = newInfo[f]
    <3> DEFINE its == [info.items EXCEPT ![k] = Byte(@ + 1)]
    <3>1. info' = [newInfo EXCEPT !.items = its]
      BY <2>1, <2>2
    <3> HIDE DEF its
    <3>2. /\ info' = [f \in InfoFields |-> info'[f]]
          /\ info'.items = its
          /\ \A f \in InfoFields \ {"items"} : info'[f] = newInfo[f]
      BY <3>1 DEF InfoFields
    <3> QED BY <3>2 DEF its
  <2>4. \A f \in InfoFields \ {"items", "haveMin", "haveMax"} : info'[f] = info[f]
    BY <2>3
  <2>5. info'.haveMin = newInfo.haveMin /\ info'.haveMax = newInfo.haveMax
    BY <2>3 DEF InfoFields
  <2>6. OfKinds(info'.items)
    BY <1>1, <2>3 DEF InfoShape, OfKinds
  <2>7. InfoShape'
    BY <1>1, <2>3, <2>4, <2>5, <2>6 DEF InfoShape, InfoFields
  <2>8. CASE phase' = "idle"
    BY <2>7, <2>8, GivesUpKept
  <2>9. CASE phase' # "idle"
    <3>1. NextItem
      BY <2>1, <2>9 DEF Proceed, Return, NextItem
    <3>2. SameRooms
      <4>1. OfKinds(itemList') /\ \A j \in Kinds : DOMAIN itemList'[j] = DOMAIN itemList[j]
        BY <1>1, <2>1 DEF Rooms, OfKinds
      <4> QED BY <2>1, <4>1 DEF SameRooms
    <3>3. CountersOn
      BY <2>4 DEF CountersOn, InfoFields, DataTags
    <3>4. ASSUME Fresh
          PROVE  ParentsThere' /\ \A j \in Kinds : ItemsBelow(j)'
      <4>1. ParentsThere /\ \A j \in Kinds : ItemsBelow(j)
        BY <1>1, <3>4
      <4>2. ParentsThere'
        BY <2>1, <2>4, <4>1, ParentsKept DEF InfoFields
      <4>3. ASSUME NEW j \in Kinds, j # k
            PROVE  ItemsBelow(j)'
        <5>1. OfKinds(info.items)
          BY <1>1 DEF InfoShape
        <5>2. info'.items[j] = info.items[j] /\ info'.haveMin[j] = info.haveMin[j]
              /\ info'.haveMax[j] = info.haveMax[j]
          BY <2>3, <2>5, <4>3, <5>1 DEF OfKinds
        <5> QED BY <1>1, <3>1, <4>1, <5>2, ItemsBelowKept
      <4>4. ASSUME NEW j \in Kinds, j = k
            PROVE  ItemsBelow(j)'
        <5>1. OfKinds(info.items) /\ Byte(info.items[k] + 1) = info.items[k] + 1
          BY <1>1, <3>4, EntryFits DEF InfoShape
        <5>2. info'.items[j] = info.items[j] + 1
          BY <1>1, <2>3, <4>4, <5>1 DEF OfKinds
        <5>3. AddsOne(info', j)
          BY <2>5, <4>4 DEF AddsOne
        <5> QED BY <1>1, <3>1, <4>1, <4>4, <5>2, <5>3, EntryCounted
      <4> QED BY <4>2, <4>3, <4>4
    <3> QED BY <2>7, <3>1, <3>2, <3>3, <3>4, NextItemKept
  <2> QED BY <2>8, <2>9
<1> QED BY <1>2, <1>3

LEMMA IndexKept ==
  ASSUME ParserInv, Countable(descriptor), Index, UNCHANGED <<descriptor, found>>
  PROVE  ParserInv'
<1>1. phase = "fill" /\ ~atEnd /\ item.tag = "Index" /\ InfoShape
  BY DEF Index, Filling, ParserInv
<1>2. PICK entry : AddItem(entry, info, "none")
  BY DEF Index
<1>3. /\ info = [f \in InfoFields |-> info[f]]
      /\ OfKinds(info.haveMin) /\ OfKinds(info.haveMax) /\ AddsOne(info, item.kind)
  BY <1>1 DEF InfoShape, AddsOne
<1> QED BY <1>1, <1>2, <1>3, AddItemKept

LEMMA AddRangeKept ==
  ASSUME ParserInv, Countable(descriptor), phase = "fill", ~atEnd, item.tag \in RangeTags,
         UNCHANGED <<descriptor, found>>, NEW low, NEW high, NEW error, AddRange(low, high, error),
         Waits(item.kind) = 1
  PROVE  ParserInv'
<1> DEFINE k == item.kind
           n == [info EXCEPT !.haveMin[k] = FALSE, !.haveMax[k] = FALSE]
<1>1. InfoShape /\ k \in Kinds
  BY ItemThere DEF ParserInv
<1>2. PICK entry, err : AddItem(entry, n, err)
  BY DEF AddRange
<1>3. /\ n = [f \in InfoFields |-> n[f]]
      /\ n.haveMin = [info.haveMin EXCEPT ![k] = FALSE]
      /\ n.haveMax = [info.haveMax EXCEPT ![k] = FALSE]
      /\ \A f \in InfoFields \ {"haveMin", "haveMax"} : n[f] = info[f]
  <2> DEFINE hmin == [info.haveMin EXCEPT ![k] = FALSE]
             hmax == [info.haveMax EXCEPT ![k] = FALSE]
  <2>1. n = [info EXCEPT !.haveMin = hmin, !.haveMax = hmax]
    BY <1>1 DEF InfoShape, InfoFields
  <2> HIDE DEF n, hmin, hmax
  <2>2. /\ n = [f \in InfoFields |-> n[f]] /\ n.haveMin = hmin /\ n.haveMax = hmax
        /\ \A f \in InfoFields \ {"haveMin", "haveMax"} : n[f] = info[f]
    BY <1>1, <2>1 DEF InfoShape, InfoFields
  <2> QED BY <2>2 DEF hmin, hmax
<1> HIDE DEF n
<1>4. /\ OfKinds(n.haveMin) /\ OfKinds(n.haveMax) /\ n.haveMin[k] = FALSE /\ n.haveMax[k] = FALSE
      /\ \A j \in Kinds \ {k} : n.haveMin[j] = info.haveMin[j] /\ n.haveMax[j] = info.haveMax[j]
  BY <1>1, <1>3 DEF InfoShape, OfKinds
<1>5. AddsOne(n, item.kind)
  BY <1>4 DEF AddsOne
<1>6. item.tag \in {"Index", "Minimum", "Maximum"}
  BY DEF RangeTags
<1> QED BY <1>2, <1>3, <1>4, <1>5, <1>6, AddItemKept

\* The first bound of a range waits for the second.
LEMMA FirstBoundKept ==
  ASSUME ParserInv, Countable(descriptor), phase = "fill", ~atEnd, item.tag \in RangeTags,
         UNCHANGED <<descriptor, found>>, UNCHANGED tables, Proceed("none"),
         info' = [f \in InfoFields |-> info'[f]],
         \A f \in InfoFields \ {"haveMin", "haveMax", "minimum", "maximum", "rangeUsagePage"} :
           info'[f] = info[f],
         OfKinds(info'.haveMin), OfKinds(info'.haveMax),
         OfKinds(info'.minimum), OfKinds(info'.maximum),
         \/ /\ ~info.haveMax[item.kind] /\ info'.haveMax = info.haveMax
            /\ info'.haveMin = [info.haveMin EXCEPT ![item.kind] = TRUE]
         \/ /\ ~info.haveMin[item.kind] /\ info'.haveMin = info.haveMin
            /\ info'.haveMax = [info.haveMax EXCEPT ![item.kind] = TRUE]
  PROVE  ParserInv'
<1> DEFINE k == item.kind
           d == descriptor
<1>1. AtItem /\ FillInv /\ InfoShape /\ k \in Kinds /\ Rooms
      /\ (Fresh => ParentsThere /\ \A j \in Kinds : ItemsBelow(j))
      /\ d \in Descriptors /\ at \in 1 .. Len(d)
  BY ItemThere DEF ParserInv
<1>2. InfoShape'
  BY <1>1 DEF InfoShape, InfoFields
<1>3. NextItem
  BY DEF Proceed, NextItem
<1>4. SameRooms /\ collectionStack' = collectionStack
  BY SameTables
<1>5. CountersOn
  BY DEF CountersOn, InfoFields, DataTags, RangeTags
<1>6. ASSUME Fresh
      PROVE  ParentsThere' /\ \A j \in Kinds : ItemsBelow(j)'
  <2>1. ParentsThere /\ \A j \in Kinds : ItemsBelow(j)
    BY <1>1, <1>6
  <2>2. ParentsThere'
    BY <1>4, <2>1, ParentsKept DEF InfoFields
  <2>3. info'.items = info.items /\ OfKinds(info.haveMin) /\ OfKinds(info.haveMax)
    BY <1>1 DEF InfoShape, InfoFields
  <2>4. ASSUME NEW j \in Kinds, j # k
        PROVE  ItemsBelow(j)'
    <3>1. info'.haveMin[j] = info.haveMin[j] /\ info'.haveMax[j] = info.haveMax[j]
      BY <2>3, <2>4 DEF OfKinds
    <3> QED BY <1>1, <1>3, <2>1, <2>3, <3>1, ItemsBelowKept
  <2>5. ASSUME NEW j \in Kinds, j = k
        PROVE  ItemsBelow(j)'
    <3>1. /\ info.items[j] \in Nat /\ info.haveMin[j] \in BOOLEAN /\ info.haveMax[j] \in BOOLEAN
          /\ 2 * info.items[j] + Waits(j)
               <= 2 * Upto(Local(d, {"Index"}, j), at) + Upto(Local(d, RangeTags, j), at)
      BY <1>1, <2>1 DEF ItemsBelow
    <3>2. info'.haveMin[j] \in BOOLEAN /\ info'.haveMax[j] \in BOOLEAN
      BY <1>1, <2>3, <2>5, <3>1 DEF OfKinds
    <3>3. /\ Upto(Local(d, {"Index"}, j), at) \in Nat /\ Upto(Local(d, RangeTags, j), at) \in Nat
          /\ Upto(Local(d, {"Index"}, j), at + 1) \in Nat
          /\ Upto(Local(d, {"Index"}, j), at + 1) >= Upto(Local(d, {"Index"}, j), at)
          /\ Upto(Local(d, RangeTags, j), at + 1)
               = Upto(Local(d, RangeTags, j), at)
                   + (IF d[at].tag \in RangeTags /\ d[at].kind = j THEN 1 ELSE 0)
      BY <1>1, CountsGrow
    <3>4. d[at].tag \in RangeTags /\ d[at].kind = j
      BY <2>5 DEF item
    <3>5. Waits(j) \in {0, 1} /\ Waits(j)' \in {0, 1}
      BY DEF Waits
    <3>6. descriptor' = d /\ at' = at + 1 /\ info'.items[j] = info.items[j]
      BY <1>3, <2>3 DEF NextItem
    <3> HIDE DEF d
    <3>7. 2 * info'.items[j] + Waits(j)'
            <= 2 * Upto(Local(d, {"Index"}, j), at + 1) + Upto(Local(d, RangeTags, j), at + 1)
      BY <3>1, <3>3, <3>4, <3>5, <3>6
    <3> QED BY <3>1, <3>2, <3>6, <3>7 DEF ItemsBelow
  <2> QED BY <2>2, <2>4, <2>5
<1> QED BY <1>2, <1>3, <1>4, <1>5, <1>6, NextItemKept

LEMMA MinimumKept ==
  ASSUME ParserInv, Countable(descriptor), Minimum, UNCHANGED <<descriptor, found>>
  PROVE  ParserInv'
<1> DEFINE k == item.kind
<1>1. phase = "fill" /\ ~atEnd /\ item.tag \in RangeTags /\ InfoShape
  BY DEF Minimum, Filling, ParserInv, RangeTags
<1>2. CASE info.haveMax[k]
  <2>1. Waits(k) = 1
    BY <1>2 DEF Waits
  <2>2. AddRange(ValueOf(item), info.maximum[k], "BadUsageRangePage")
    BY <1>2 DEF Minimum
  <2> QED BY <1>1, <2>1, <2>2, AddRangeKept
<1>3. CASE ~info.haveMax[k]
  <2> DEFINE low == [info.minimum EXCEPT ![k] = ValueOf(item)]
             have == [info.haveMin EXCEPT ![k] = TRUE]
             page == RangePage
  <2>1. info' = [info EXCEPT !.minimum[k] = ValueOf(item), !.haveMin[k] = TRUE,
                             !.rangeUsagePage = RangePage]
        /\ Proceed("none") /\ UNCHANGED tables
    BY <1>3 DEF Minimum
  <2>2. info' = [info EXCEPT !.minimum = low, !.haveMin = have, !.rangeUsagePage = page]
    BY <1>1, <2>1 DEF InfoShape, InfoFields
  <2>3. OfKinds(low) /\ OfKinds(have)
    BY <1>1 DEF InfoShape, OfKinds
  <2> HIDE DEF low, have, page
  <2>4. /\ info' = [f \in InfoFields |-> info'[f]] /\ info'.minimum = low /\ info'.haveMin = have
        /\ \A f \in InfoFields \ {"haveMin", "minimum", "rangeUsagePage"} : info'[f] = info[f]
        /\ info'.haveMax = info.haveMax /\ info'.maximum = info.maximum
    BY <1>1, <2>2 DEF InfoShape, InfoFields
  <2>5. /\ OfKinds(info'.haveMin) /\ OfKinds(info'.haveMax)
        /\ OfKinds(info'.minimum) /\ OfKinds(info'.maximum)
    BY <1>1, <2>3, <2>4 DEF InfoShape
  <2>6. info'.haveMin = [info.haveMin EXCEPT ![k] = TRUE]
    BY <2>4 DEF have
  <2> QED BY <1>1, <1>3, <2>1, <2>4, <2>5, <2>6, FirstBoundKept
<1> QED BY <1>2, <1>3

LEMMA MaximumKept ==
  ASSUME ParserInv, Countable(descriptor), Maximum, UNCHANGED <<descriptor, found>>
  PROVE  ParserInv'
<1> DEFINE k == item.kind
<1>1. phase = "fill" /\ ~atEnd /\ item.tag \in RangeTags /\ InfoShape
  BY DEF Maximum, Filling, ParserInv, RangeTags
<1>2. CASE info.haveMin[k]
  <2>1. Waits(k) = 1
    BY <1>2 DEF Waits
  <2>2. PICK error : AddRange(info.minimum[k], ValueOf(item), error)
    BY <1>2 DEF Maximum
  <2> QED BY <1>1, <2>1, <2>2, AddRangeKept
<1>3. CASE ~info.haveMin[k]
  <2> DEFINE high == [info.maximum EXCEPT ![k] = ValueOf(item)]
             have == [info.haveMax EXCEPT ![k] = TRUE]
             page == RangePage
  <2>1. info' = [info EXCEPT !.maximum[k] = ValueOf(item), !.haveMax[k] = TRUE,
                             !.rangeUsagePage = RangePage]
        /\ Proceed("none") /\ UNCHANGED tables
    BY <1>3 DEF Maximum
  <2>2. info' = [info EXCEPT !.maximum = high, !.haveMax = have, !.rangeUsagePage = page]
    BY <1>1, <2>1 DEF InfoShape, InfoFields
  <2>3. OfKinds(high) /\ OfKinds(have)
    BY <1>1 DEF InfoShape, OfKinds
  <2> HIDE DEF high, have, page
  <2>4. /\ info' = [f \in InfoFields |-> info'[f]] /\ info'.maximum = high /\ info'.haveMax = have
        /\ \A f \in InfoFields \ {"haveMax", "maximum", "rangeUsagePage"} : info'[f] = info[f]
        /\ info'.haveMin = info.haveMin /\ info'.minimum = info.minimum
    BY <1>1, <2>2 DEF InfoShape, InfoFields
  <2>5. /\ OfKinds(info'.haveMin) /\ OfKinds(info'.haveMax)
        /\ OfKinds(info'.minimum) /\ OfKinds(info'.maximum)
    BY <1>1, <2>3, <2>4 DEF InfoShape
  <2>6. info'.haveMax = [info.haveMax EXCEPT ![k] = TRUE]
    BY <2>4 DEF have
  <2> QED BY <1>1, <1>3, <2>1, <2>4, <2>5, <2>6, FirstBoundKept
<1> QED BY <1>2, <1>3

LEMMA ReportItemKept ==
  ASSUME ParserInv, Countable(descriptor), ReportItem, UNCHANGED <<descriptor, found>>
  PROVE  ParserInv'
<1>0. PICK error : ReportType(error)
  BY DEF ReportItem
<1>1. phase = "fill" /\ ~atEnd /\ item.tag \in DataTags /\ AtItem /\ FillInv /\ InfoShape
  BY <1>0 DEF ReportType, Filling, ParserInv
<1>2. CASE error # "none"
  <2>1. info' = info /\ phase' = "idle"
    BY <1>0, <1>2 DEF ReportType, Proceed, Return
  <2> QED BY <1>1, <2>1, GivesUpKept DEF InfoShape
<1>3. info.reportItems \in DOMAIN reportItemList
  <2>1. /\ info.reportItems = Num(descriptor, DataTags, at)
        /\ DOMAIN reportItemList = 0 .. Cardinality(At(descriptor, DataTags)) - 1
        /\ Num(descriptor, DataTags, at) < Cardinality(At(descriptor, DataTags))
        /\ Num(descriptor, DataTags, at) \in Nat /\ Cardinality(At(descriptor, DataTags)) \in Nat
    BY <1>1, ItemThere DEF FillCounts, Rooms
  <2> QED BY <2>1
<1>4. CASE error = "none"
  <2>1. /\ info' = [info EXCEPT !.reportItems = Byte(@ + 1), !.first = info.items]
        /\ at' = at + 1
        /\ UNCHANGED <<phase, collectionList, collectionStack, globalsStack, itemList>>
        /\ DOMAIN reportItemList' = DOMAIN reportItemList /\ DOMAIN reportList' = DOMAIN reportList
    BY <1>0, <1>3, <1>4 DEF ReportType, Proceed
  <2>2. /\ info' = [f \in InfoFields |-> info'[f]]
        /\ info'.reportItems = Byte(info.reportItems + 1) /\ info'.first = info.items
        /\ \A f \in InfoFields \ {"reportItems", "first"} : info'[f] = info[f]
    BY <1>1, <2>1 DEF InfoShape, InfoFields
  <2>3. InfoShape'
    BY <1>1, <2>2 DEF InfoShape, InfoFields
  <2>4. NextItem
    BY <1>1, <2>1 DEF NextItem
  <2>5. SameRooms
    BY <1>1, <2>1 DEF SameRooms, FillInv, Rooms, OfKinds
  <2>6. CountersOn
    BY <1>1, <2>2 DEF CountersOn, InfoFields, DataTags
  <2>7. /\ info'.parent = info.parent /\ info'.collections = info.collections
        /\ info'.collectionNesting = info.collectionNesting /\ info'.items = info.items
        /\ info'.haveMin = info.haveMin /\ info'.haveMax = info.haveMax
    BY <2>2 DEF InfoFields
  <2> QED BY <1>1, <2>1, <2>3, <2>4, <2>5, <2>6, <2>7, QuietKept
<1> QED BY <1>2, <1>4

\* What is open at the collection that is next, and at the end of one.
LEMMA NestingThere ==
  ASSUME AtItem, FillInv, Countable(descriptor), phase = "fill", ~atEnd
  PROVE  /\ info.collectionNesting \in Nat
         /\ info.collections \in Nat \ {0} /\ info.collections <= 255
         /\ item.tag = "Collection" =>
              /\ info.collectionNesting \in DOMAIN collectionStack
              /\ info.collections \in DOMAIN collectionList
              /\ Byte(info.collections + 1) = info.collections + 1
              /\ Byte(info.collectionNesting + 1) = info.collectionNesting + 1
         /\ item.tag = "EndCollection" =>
              /\ info.collectionNesting - 1 \in Nat
              /\ info.collectionNesting - 1 \in DOMAIN collectionStack
<1> DEFINE d == descriptor
           c == Cardinality(At(d, {"Collection"}))
<1>1. /\ d \in Descriptors /\ at \in 1 .. Len(d) /\ at + 1 \in 1 .. Len(d) + 1
      /\ at \in 1 .. Len(d) + 1
      /\ FillCounts /\ Rooms
  BY ItemThere DEF AtItem
<1>2. /\ info.collectionNesting = Deep(d, at) /\ info.collections = 1 + Num(d, {"Collection"}, at)
      /\ DOMAIN collectionList = 0 .. c
      /\ \A q \in 1 .. Len(d) + 1 :
           /\ Deep(d, q) \in Nat
           /\ \A j \in 0 .. Deep(d, q) - 1 : j \in DOMAIN collectionStack
  BY <1>1 DEF FillCounts, Rooms, Balanced
<1>3. /\ Deep(d, at) \in Nat /\ Deep(d, at + 1) \in Nat
      /\ \A j \in 0 .. Deep(d, at) - 1 : j \in DOMAIN collectionStack
      /\ \A j \in 0 .. Deep(d, at + 1) - 1 : j \in DOMAIN collectionStack
  BY <1>1, <1>2
<1>4. \A tags : /\ Num(d, tags, at) \in Nat
                /\ Num(d, tags, at + 1) = Num(d, tags, at) + (IF d[at].tag \in tags THEN 1 ELSE 0)
                /\ Num(d, tags, at + 1) \in 0 .. Cardinality(At(d, tags))
                /\ Cardinality(At(d, tags)) \in Nat
  BY <1>1, CountsGrow, CountsBelow, CountsEnd
<1>5. /\ Num(d, {"Collection"}, at) \in Nat /\ Num(d, {"EndCollection"}, at) \in Nat
      /\ Num(d, {"Collection"}, at + 1)
           = Num(d, {"Collection"}, at) + (IF item.tag = "Collection" THEN 1 ELSE 0)
      /\ Num(d, {"EndCollection"}, at + 1)
           = Num(d, {"EndCollection"}, at) + (IF item.tag = "EndCollection" THEN 1 ELSE 0)
      /\ Num(d, {"Collection"}, at + 1) <= c /\ c \in Nat /\ c <= 254
  BY <1>4 DEF item, Countable
<1>6. Deep(d, at + 1) = Deep(d, at) + (IF item.tag = "Collection" THEN 1 ELSE 0)
                          - (IF item.tag = "EndCollection" THEN 1 ELSE 0)
      /\ Deep(d, at) <= Num(d, {"Collection"}, at)
  BY <1>5 DEF Deep
<1> HIDE DEF d, c
<1>7. CASE item.tag = "Collection"
  <2>1. /\ Num(d, {"Collection"}, at) + 1 <= c /\ Deep(d, at + 1) = Deep(d, at) + 1
    BY <1>3, <1>5, <1>6, <1>7
  <2>2. Deep(d, at) \in 0 .. Deep(d, at + 1) - 1 /\ 1 + Num(d, {"Collection"}, at) \in 0 .. c
    BY <1>3, <1>5, <2>1
  <2>3. PICK m, n \in 0 .. 255 : m = info.collections + 1 /\ n = info.collectionNesting + 1
    <3>1. 1 + Num(d, {"Collection"}, at) <= 254 /\ Deep(d, at) <= 254
      BY <1>3, <1>5, <1>6, <2>1
    <3>2. (1 + Num(d, {"Collection"}, at)) + 1 \in 0 .. 255 /\ Deep(d, at) + 1 \in 0 .. 255
      BY <1>3, <1>5, <3>1
    <3>3. /\ info.collections + 1 = (1 + Num(d, {"Collection"}, at)) + 1
          /\ info.collectionNesting + 1 = Deep(d, at) + 1
      BY <1>2
    <3> QED BY <3>2, <3>3
  <2>4. Byte(m) = m /\ Byte(n) = n
    BY Fits
  <2>5. info.collections + 1 <= 255
    BY <1>2, <1>5, <2>1
  <2> QED BY <1>2, <1>3, <1>5, <1>7, <2>2, <2>3, <2>4, <2>5
<1>8. CASE item.tag = "EndCollection"
  <2>1. Deep(d, at) - 1 \in Nat /\ Deep(d, at) - 1 \in 0 .. Deep(d, at) - 1
    BY <1>3, <1>6, <1>8
  <2> QED BY <1>2, <1>3, <1>5, <1>8, <2>1
<1>9. info.collectionNesting \in Nat /\ info.collections \in Nat \ {0} /\ info.collections <= 255
  BY <1>2, <1>3, <1>5
<1> QED BY <1>7, <1>8, <1>9

LEMMA CollectionKept ==
  ASSUME ParserInv, Countable(descriptor), Collection, UNCHANGED <<descriptor, found>>
  PROVE  ParserInv'
<1> DEFINE i == info.collections
           parent == info.parent
           level == info.collectionNesting
<1>1. phase = "fill" /\ ~atEnd /\ item.tag = "Collection" /\ AtItem /\ FillInv /\ InfoShape
  BY DEF Collection, Filling, ParserInv
<1>2. Rooms /\ (Fresh => ParentsThere /\ \A k \in Kinds : ItemsBelow(k))
  BY <1>1, ItemThere
<1>3. /\ level \in Nat /\ i \in Nat \ {0} /\ i <= 255 /\ level \in DOMAIN collectionStack
      /\ i \in DOMAIN collectionList /\ Byte(i + 1) = i + 1 /\ Byte(level + 1) = level + 1
  BY <1>1, NestingThere
<1>4. CASE parent \notin DOMAIN collectionList
  <2>1. Overrun
    BY <1>4 DEF Collection
  <2>2. ~Fresh
    <3>1. DOMAIN collectionList = 0 .. Cardinality(At(descriptor, {"Collection"}))
          /\ Cardinality(At(descriptor, {"Collection"})) \in Nat
      BY <1>1, <1>2, ItemThere DEF Rooms
    <3> QED BY <1>2, <1>3, <1>4, <3>1 DEF ParentsThere
  <2> QED BY <2>1, <2>2, OverrunKept
<1>5. CASE parent \in DOMAIN collectionList
  <2>1. /\ DOMAIN collectionList' = DOMAIN collectionList
        /\ collectionStack' = [collectionStack EXCEPT ![level] = parent]
        /\ info' = [info EXCEPT !.collections = Byte(@ + 1), !.first = UsagesTaken,
                      !.sibling = 0, !.collectionNesting = Byte(@ + 1), !.parent = i]
        /\ at' = at + 1
        /\ UNCHANGED <<phase, reportItemList, reportList, globalsStack, itemList>>
    BY <1>3, <1>5 DEF Collection, Proceed
  <2>2. /\ info' = [f \in InfoFields |-> info'[f]]
        /\ info'.collections = Byte(i + 1) /\ info'.collectionNesting = Byte(level + 1)
        /\ info'.parent = i /\ info'.first = UsagesTaken
        /\ \A f \in InfoFields \ {"collections", "first", "sibling", "collectionNesting", "parent"} :
             info'[f] = info[f]
    BY <1>1, <2>1 DEF InfoShape, InfoFields
  <2>3. OfKinds(UsagesTaken)
    BY <1>1 DEF InfoShape, OfKinds, UsagesTaken
  <2>4. InfoShape'
    BY <1>1, <2>2, <2>3 DEF InfoShape, InfoFields
  <2>5. NextItem
    BY <1>1, <2>1 DEF NextItem
  <2>6. SameRooms
    BY <1>2, <2>1 DEF SameRooms, Rooms, OfKinds
  <2>7. CountersOn
    BY <1>1, <2>2 DEF CountersOn, InfoFields, DataTags
  <2>8. ASSUME Fresh
        PROVE  ParentsThere' /\ \A k \in Kinds : ItemsBelow(k)'
    <3>1. /\ info.parent \in 0 .. i - 1
          /\ \A j \in 0 .. level - 1 : collectionStack[j] \in 0 .. i - 1
      BY <1>2, <2>8 DEF ParentsThere
    <3>2. ASSUME NEW j \in 0 .. level
          PROVE  collectionStack'[j] \in 0 .. i
      <4>1. CASE j = level
        BY <1>3, <2>1, <3>1, <4>1
      <4>2. CASE j # level
        <5>1. collectionStack'[j] = collectionStack[j] /\ j \in 0 .. level - 1
          BY <1>3, <2>1, <4>2
        <5> QED BY <1>3, <3>1, <5>1
      <4> QED BY <4>1, <4>2
    <3>3. ParentsThere'
      <4>1. info'.collections = i + 1 /\ info'.collectionNesting = level + 1 /\ info'.parent = i
        BY <1>3, <2>2
      <4>2. (i + 1) - 1 = i /\ (level + 1) - 1 = level /\ i \in 0 .. i
        BY <1>3
      <4> HIDE DEF i, level
      <4> QED BY <3>2, <4>1, <4>2 DEF ParentsThere
    <3>4. ASSUME NEW k \in Kinds
          PROVE  ItemsBelow(k)'
      <4>1. /\ info'.items = info.items /\ info'.haveMin = info.haveMin
            /\ info'.haveMax = info.haveMax
        BY <2>2 DEF InfoFields
      <4> QED BY <1>1, <1>2, <2>5, <2>8, <4>1, ItemsBelowKept
    <3> QED BY <3>3, <3>4
  <2> QED BY <1>1, <2>4, <2>5, <2>6, <2>7, <2>8, NextItemKept
<1> QED BY <1>4, <1>5

LEMMA EndCollectionKept ==
  ASSUME ParserInv, Countable(descriptor), EndCollection, UNCHANGED <<descriptor, found>>
  PROVE  ParserInv'
<1> DEFINE level == info.collectionNesting
<1>1. phase = "fill" /\ ~atEnd /\ item.tag = "EndCollection" /\ AtItem /\ FillInv /\ InfoShape
  BY DEF EndCollection, Filling, ParserInv
<1>2. Rooms /\ (Fresh => ParentsThere /\ \A k \in Kinds : ItemsBelow(k))
  BY <1>1, ItemThere
<1>3. level \in Nat /\ level - 1 \in Nat
  BY <1>1, NestingThere
<1>4. /\ DOMAIN collectionList' = DOMAIN collectionList
      /\ info' = [info EXCEPT !.collectionNesting = @ - 1, !.sibling = info.parent,
                    !.parent = collectionStack[info.collectionNesting - 1]]
      /\ at' = at + 1
      /\ UNCHANGED <<phase, reportItemList, reportList, collectionStack, globalsStack, itemList>>
  BY DEF EndCollection, Proceed
<1>5. /\ info' = [f \in InfoFields |-> info'[f]]
      /\ info'.collectionNesting = level - 1 /\ info'.parent = collectionStack[level - 1]
      /\ \A f \in InfoFields \ {"sibling", "collectionNesting", "parent"} : info'[f] = info[f]
  BY <1>1, <1>4 DEF InfoShape, InfoFields
<1>6. InfoShape'
  BY <1>1, <1>5 DEF InfoShape, InfoFields
<1>7. NextItem
  BY <1>1, <1>4 DEF NextItem
<1>8. SameRooms
  BY <1>2, <1>4 DEF SameRooms, Rooms, OfKinds
<1>9. CountersOn
  BY <1>1, <1>5 DEF CountersOn, InfoFields, DataTags
<1>10. ASSUME Fresh
       PROVE  ParentsThere' /\ \A k \in Kinds : ItemsBelow(k)'
  <2>1. \A j \in 0 .. level - 1 : collectionStack[j] \in 0 .. info.collections - 1
    BY <1>2, <1>10 DEF ParentsThere
  <2>2. info'.collections = info.collections
    BY <1>5 DEF InfoFields
  <2>3. ParentsThere'
    <3>1. level - 1 \in 0 .. level - 1 /\ \A j \in 0 .. (level - 1) - 1 : j \in 0 .. level - 1
      BY <1>3
    <3>2. collectionStack' = collectionStack
      BY <1>4
    <3> HIDE DEF level
    <3> QED BY <1>5, <2>1, <2>2, <3>1, <3>2 DEF ParentsThere
  <2>4. ASSUME NEW k \in Kinds
        PROVE  ItemsBelow(k)'
    <3>1. /\ info'.items = info.items /\ info'.haveMin = info.haveMin
          /\ info'.haveMax = info.haveMax
      BY <1>5 DEF InfoFields
    <3> QED BY <1>1, <1>2, <1>7, <1>10, <3>1, ItemsBelowKept
  <2> QED BY <2>3, <2>4
<1> QED BY <1>1, <1>6, <1>7, <1>8, <1>9, <1>10, NextItemKept

LEMMA ParsedKept ==
  ASSUME ParserInv, Parsed
  PROVE  ParserInv'
<1>1. phase' = "parsed" /\ UNCHANGED <<descriptor, at, info, found>> /\ phase = "fill" /\ atEnd
  BY DEF Parsed, Return
<1>2. InfoShape'
  BY <1>1 DEF ParserInv, InfoShape
<1>3. AtItem'
  BY <1>1 DEF ParserInv, AtItem, atEnd
<1> QED BY <1>1, <1>2, <1>3 DEF ParserInv, CountInv, FillInv, OverrunInv

\* The parse of a descriptor begins.
LEMMA ParseReportKept ==
  ASSUME ParserInv, ParseReport
  PROVE  ParserInv'
<1>1. /\ descriptor' \in Descriptors /\ at' = 1 /\ found' = info /\ phase' = "count"
      /\ lhidError' = "none" /\ info' = InitDeviceRptInfo(info) /\ InfoShape
  BY DEF ParserInv, ParseReport
<1>2. PICK d \in Descriptors : d = descriptor'
  BY <1>1
<1>3. /\ info' = [f \in InfoFields |-> info'[f]]
      /\ info'.collectionNesting = 0 /\ info'.collections = 1 /\ info'.globalsNesting = 0
      /\ info'.maxCollectionNesting = 0 /\ info'.maxGlobalsNesting = 0 /\ info'.reportItems = 0
      /\ info'.reports = 1 /\ info'.indices = None /\ info'.ranges = None
      /\ info'.items = [info.items EXCEPT !["usage"] = 0]
      /\ info'.haveMin = No /\ info'.haveMax = No /\ info'.parent = info.parent
      /\ info'.sibling = info.sibling
      /\ info'.first = info.first /\ info'.minimum = info.minimum /\ info'.maximum = info.maximum
  BY <1>1, InitShape
<1>4. InfoShape'
  BY <1>1, <1>3 DEF InfoShape, OfKinds, None, No
<1>5. \A tags : Num(d, tags, 1) = 0
  BY CountsEnd
<1>6. \A tags, k : Upto(Local(d, tags, k), 1) = 0
  BY CountsEnd
<1>7. CountsItems'
  <2>1. \A k \in Kinds : info'.indices[k] = 0 /\ info'.ranges[k] = 0
    BY <1>3 DEF None
  <2> QED BY <1>1, <1>2, <1>3, <1>5, <1>6, <2>1 DEF CountsItems
<1>8. CountsNesting'
  <2>1. Deep(d, 1) = 0 /\ Stacked(d, 1) = 0 /\ Num(d, {"Push"}, 1) = 0
    BY <1>5 DEF Deep, Stacked
  <2>2. \A q \in 1 .. 1 : q = 1
    OBVIOUS
  <2> QED BY <1>1, <1>2, <1>3, <2>1, <2>2 DEF CountsNesting
<1>9. KeepsFound'
  <2>1. OfKinds(info.items)
    BY <1>1 DEF InfoShape
  <2> QED BY <1>1, <1>3, <2>1 DEF KeepsFound, OfKinds, Kinds
<1>10. AtItem'
  <2>1. Len(d) \in Nat \ {0}
    BY Descriptor
  <2> QED BY <1>1, <1>2, <2>1 DEF AtItem
<1> QED BY <1>1, <1>4, <1>7, <1>8, <1>9, <1>10 DEF ParserInv, CountInv, FillInv, OverrunInv

LEMMA FillItemKept ==
  ASSUME ParserInv, Countable(descriptor), FillItem
  PROVE  ParserInv'
BY GlobalItemKept, ReportIDItemKept, PushKept, PopKept, IndexKept, MinimumKept, MaximumKept,
   CollectionKept, EndCollectionKept, ReportItemKept, OtherItemKept DEF FillItem

\* The invariant in every state of the parser and its client.
LEMMA ParserInvariant ==
  ASSUME \A d \in Descriptors : Countable(d)
  PROVE  ImportSpec => []ParserInv
<1>1. ImportInit => ParserInv
  <2> SUFFICES ASSUME ImportInit
               PROVE  ParserInv
    OBVIOUS
  <2>1. phase = "idle" /\ info = ZeroInfo
    BY DEF ImportInit, ParserInit
  <2>2. InfoShape
    BY <2>1 DEF InfoShape, ZeroInfo, InfoFields, OfKinds, None, No
  <2> QED BY <2>1, <2>2 DEF ParserInv, AtItem, CountInv, FillInv, OverrunInv
<1>2. ParserInv /\ [ImportNext]_importVars => ParserInv'
  <2> SUFFICES ASSUME ParserInv, [ImportNext]_importVars
               PROVE  ParserInv'
    OBVIOUS
  <2>1. CASE Parse
    BY <2>1, ParseReportKept DEF Parse
  <2>2. CASE ParseOn
    <3>1. phase \in {"count", "fill"} => Countable(descriptor)
      BY DEF ParserInv, AtItem
    <3>2. CASE CountItem
      <4>1. phase = "count" /\ ~atEnd
        BY <3>2 DEF CountItem
      <4>2. InfoShape' /\ CountInv'
        BY <3>1, <3>2, <4>1, CountKept DEF ParserInv
      <4>3. phase' = "count" /\ at' = at + 1 /\ descriptor' = descriptor
        BY <3>2, <4>1 DEF CountItem
      <4>4. descriptor \in Descriptors /\ at \in 1 .. Len(descriptor) + 1
            /\ Len(descriptor) \in Nat /\ ~(at > Len(descriptor))
        BY <4>1, Descriptor DEF ParserInv, AtItem, atEnd
      <4>5. AtItem'
        BY <4>3, <4>4 DEF AtItem
      <4> QED BY <4>2, <4>3, <4>5 DEF ParserInv, FillInv, OverrunInv
    <3>3. CASE Allocate
      BY <3>1, <3>3, AllocateKept DEF ParserInv, Allocate
    <3>4. CASE FillItem
      <4>1. phase = "fill"
        BY <3>4 DEF FillItem, GlobalItem, ReportIDItem, Push, Pop, Index, Minimum, Maximum,
                    Collection, EndCollection, ReportItem, ReportType, OtherItem, Filling
      <4> QED BY <3>1, <3>4, <4>1, FillItemKept
    <3>5. CASE Parsed
      BY <3>5, ParsedKept
    <3> QED BY <2>2, <3>2, <3>3, <3>4, <3>5 DEF ParseOn
  <2>3. CASE DataCollectionHandler \/ Run \/ ProcessInputReport \/ Detach
    <3>1. phase' \in {"idle", "running", "overflow"} /\ info' = info
      BY <2>3 DEF DataCollectionHandler, Run, ProcessInputReport, Detach
    <3>2. InfoShape'
      BY <3>1 DEF ParserInv, InfoShape
    <3> QED BY <3>1, <3>2 DEF ParserInv, AtItem, CountInv, FillInv, OverrunInv
  <2>4. CASE UNCHANGED importVars
    <3>1. UNCHANGED <<phase, descriptor, at, lhidError, info, found, collectionList,
                      reportItemList, reportList, collectionStack, globalsStack, itemList>>
      BY <2>4 DEF importVars, parserVars, tables
    <3>2. InfoShape' /\ AtItem' /\ OverrunInv'
      BY <3>1 DEF ParserInv, InfoShape, AtItem, atEnd, OverrunInv, Fresh
    <3>3. CountInv'
      BY <3>1 DEF ParserInv, CountInv, CountsItems, CountsNesting, KeepsFound
    <3>4. FillInv'
      BY <3>1 DEF ParserInv, FillInv, Rooms, FillCounts, Fresh, ParentsThere, ItemsBelow, Waits
    <3> QED BY <3>2, <3>3, <3>4 DEF ParserInv
  <2> QED BY <2>1, <2>2, <2>3, <2>4 DEF ImportNext
<1> QED BY <1>1, <1>2, PTL DEF ImportSpec

\* The second pass never needs more room than the first has counted, provided that it began
\* with the variables that are not reset as they were when the program started.  (FitsRoom)
THEOREM SecondPassFits ==
  ASSUME \A d \in Descriptors : Countable(d)
  PROVE  ImportSpec => []FitsRoom
<1>1. ParserInv => FitsRoom
  BY DEF ParserInv, OverrunInv, Fresh, FitsRoom
<1> QED BY <1>1, ParserInvariant, PTL
-------------------------------------------------------------------------------
(* The tree of the collections. *)

Opens == {"Collection"}

\* The collections that are open at a position, the number of the innermost, and the report
\* items that a collection has in it.
Open(d, p) == {q \in Cut(At(d, Opens), p) : \A r \in q + 1 .. p : Deep(d, r) > Deep(d, q)}
ParentAt(d, p) == IF Open(d, p) = {} THEN 0 ELSE 1 + Num(d, Opens, Max(Open(d, p)))
Inside(d, q) == {r \in At(d, DataTags) : q \in Open(d, r)}

LEMMA SameTree ==
  /\ \A p, tags : Number(p, tags) = Num(descriptor, tags, p)
  /\ \A p : Depth(p) = Deep(descriptor, p)
  /\ \A p : Around(p) = Open(descriptor, p)
  /\ \A p : Parent(p) = ParentAt(descriptor, p)
<1>1. \A tags : Positions(tags) = At(descriptor, tags)
  BY DEF Positions, At, D
<1>2. \A p, tags : Before(p, tags) = Cut(At(descriptor, tags), p)
  BY <1>1 DEF Before, Cut
<1>3. \A p, tags : Number(p, tags) = Num(descriptor, tags, p)
  BY <1>2 DEF Number, Num, Upto
<1>4. \A p : Depth(p) = Deep(descriptor, p)
  BY <1>3 DEF Depth, Deep
<1>5. \A p : Around(p) = Open(descriptor, p)
  BY <1>2, <1>4 DEF Around, Open, Opens
<1>6. \A p : Parent(p) = ParentAt(descriptor, p)
  BY <1>3, <1>5 DEF Parent, ParentAt, CollectionNumber, Opens
<1> QED BY <1>3, <1>4, <1>5, <1>6

\* There are more before a position than before an earlier one that counts.
LEMMA UptoPasses ==
  ASSUME NEW n \in Nat, NEW S \in SUBSET (1 .. n), NEW p \in S, NEW q \in p + 1 .. n + 1
  PROVE  Upto(S, p) < Upto(S, q) /\ Upto(S, p) \in Nat /\ Upto(S, q) \in Nat
<1>1. p \in 1 .. n /\ p + 1 \in 1 .. n + 1
  OBVIOUS
<1>2. Upto(S, p + 1) = Upto(S, p) + 1 /\ Upto(S, p) \in Nat
  BY <1>1, UptoGrows
<1>3. Upto(S, p + 1) <= Upto(S, q) /\ Upto(S, q) \in Nat
  BY <1>1, UptoRises
<1> QED BY <1>2, <1>3

\* How many there are between two positions.
LEMMA Between ==
  ASSUME NEW n \in Nat, NEW S \in SUBSET (1 .. n), NEW p \in 1 .. n + 1, NEW q \in p .. n + 1
  PROVE  Cardinality({r \in S : p <= r /\ r < q}) = Upto(S, q) - Upto(S, p)
<1> DEFINE B == {r \in S : p <= r /\ r < q}
<1>0. \A r \in S : r \in 1 .. n /\ r \in Int
  OBVIOUS
<1>1. Cut(S, q) = Cut(S, p) \cup B /\ Cut(S, p) \cap B = {}
  <2>1. \A r \in S : (r < q <=> r < p \/ (p <= r /\ r < q)) /\ ~(r < p /\ p <= r)
    BY <1>0
  <2> QED BY <2>1 DEF Cut
<1>2. IsFiniteSet(S)
  BY UptoEnds
<1>3. IsFiniteSet(Cut(S, p)) /\ IsFiniteSet(B)
  <2>1. Cut(S, p) \in SUBSET S /\ B \in SUBSET S
    BY DEF Cut
  <2> QED BY <1>2, <2>1, FS_Subset
<1> HIDE DEF B
<1>4. Cardinality(Cut(S, p) \cup B)
        = Cardinality(Cut(S, p)) + Cardinality(B) - Cardinality(Cut(S, p) \cap B)
  BY <1>3, FS_Union
<1>5. Cardinality(Cut(S, p) \cap B) = 0
  BY <1>1, FS_EmptySet
<1>6. Cardinality(Cut(S, p)) \in Nat /\ Cardinality(B) \in Nat
  BY <1>3, FS_CardinalityType
<1>7. Upto(S, q) = Upto(S, p) + Cardinality(B) /\ Upto(S, p) \in Nat
  BY <1>1, <1>4, <1>5, <1>6 DEF Upto
<1>8. Cardinality(B) = Upto(S, q) - Upto(S, p)
  BY <1>6, <1>7
<1> QED BY <1>8 DEF B

\* The depth at the next item.
LEMMA DeepGrows ==
  ASSUME NEW d \in Descriptors, NEW p \in 1 .. Len(d)
  PROVE  /\ Deep(d, p) \in Int /\ Deep(d, p + 1) \in Int
         /\ Deep(d, p + 1) = Deep(d, p) + (IF d[p].tag = "Collection" THEN 1 ELSE 0)
                               - (IF d[p].tag = "EndCollection" THEN 1 ELSE 0)
<1>1. \A tags : /\ Num(d, tags, p) \in Nat
                /\ Num(d, tags, p + 1) = Num(d, tags, p) + (IF d[p].tag \in tags THEN 1 ELSE 0)
  BY CountsGrow
<1>2. /\ Num(d, {"Collection"}, p) \in Nat /\ Num(d, {"EndCollection"}, p) \in Nat
      /\ Num(d, {"Collection"}, p + 1)
           = Num(d, {"Collection"}, p) + (IF d[p].tag = "Collection" THEN 1 ELSE 0)
      /\ Num(d, {"EndCollection"}, p + 1)
           = Num(d, {"EndCollection"}, p) + (IF d[p].tag = "EndCollection" THEN 1 ELSE 0)
  BY <1>1
<1> QED BY <1>2 DEF Deep

\* What is open lies less deep than where it is open, and the inner ones deeper.
LEMMA OpenDepths ==
  ASSUME NEW d \in Descriptors, Balanced(d), NEW p \in 1 .. Len(d) + 1
  PROVE  /\ Open(d, p) \in SUBSET (1 .. Len(d)) /\ Open(d, p) \in SUBSET At(d, Opens)
         /\ \A q \in Open(d, p) : q < p /\ Deep(d, q) \in 0 .. Deep(d, p) - 1
         /\ \A q, r \in Open(d, p) : q < r => Deep(d, q) < Deep(d, r)
<1>1. Len(d) \in Nat /\ At(d, Opens) \in SUBSET (1 .. Len(d))
  BY Descriptor
<1>2. \A q \in 1 .. Len(d) + 1 : Deep(d, q) \in Nat
  BY DEF Balanced
<1>3. ASSUME NEW q \in Open(d, p)
      PROVE  /\ q \in 1 .. Len(d) /\ q \in At(d, Opens) /\ q < p
             /\ \A r \in q + 1 .. p : Deep(d, r) > Deep(d, q)
  BY <1>1 DEF Open, Cut
<1>4. ASSUME NEW q \in Open(d, p)
      PROVE  Deep(d, q) \in 0 .. Deep(d, p) - 1
  <2>1. p \in q + 1 .. p /\ q \in 1 .. Len(d) + 1
    BY <1>1, <1>3
  <2>2. Deep(d, p) > Deep(d, q) /\ Deep(d, p) \in Nat /\ Deep(d, q) \in Nat
    BY <1>2, <1>3, <2>1
  <2> QED BY <2>2
<1>5. ASSUME NEW q \in Open(d, p), NEW r \in Open(d, p), q < r
      PROVE  Deep(d, q) < Deep(d, r)
  <2>1. r \in q + 1 .. p /\ q \in 1 .. Len(d) + 1 /\ r \in 1 .. Len(d) + 1
    BY <1>1, <1>3, <1>5
  <2>2. Deep(d, r) > Deep(d, q) /\ Deep(d, r) \in Nat /\ Deep(d, q) \in Nat
    BY <1>2, <1>3, <2>1
  <2> QED BY <2>2
<1> QED BY <1>3, <1>4, <1>5

\* What is open at the next item.
LEMMA OpenGrows ==
  ASSUME NEW d \in Descriptors, Balanced(d), NEW p \in 1 .. Len(d)
  PROVE  /\ d[p].tag = "Collection" => Open(d, p + 1) = Open(d, p) \cup {p} /\ p \notin Open(d, p)
         /\ d[p].tag = "EndCollection" =>
              Open(d, p + 1) = {q \in Open(d, p) : Deep(d, q) # Deep(d, p) - 1}
         /\ d[p].tag \notin {"Collection", "EndCollection"} => Open(d, p + 1) = Open(d, p)
<1>1. Len(d) \in Nat /\ At(d, Opens) \in SUBSET (1 .. Len(d)) /\ DOMAIN d = 1 .. Len(d)
  BY Descriptor
<1>2. \A q \in 1 .. Len(d) + 1 : Deep(d, q) \in Nat
  BY DEF Balanced
<1>3. Deep(d, p + 1) = Deep(d, p) + (IF d[p].tag = "Collection" THEN 1 ELSE 0)
                         - (IF d[p].tag = "EndCollection" THEN 1 ELSE 0)
  BY DeepGrows
<1>4. p \in 1 .. Len(d) + 1 /\ p + 1 \in 1 .. Len(d) + 1
  BY <1>1
<1>5. Deep(d, p) \in Nat /\ Deep(d, p + 1) \in Nat
  BY <1>2, <1>4
<1>6. \A q \in Open(d, p) : q < p /\ q \in 1 .. Len(d) /\ Deep(d, q) \in 0 .. Deep(d, p) - 1
  BY <1>4, OpenDepths
\* From what is open at p to what is open at p + 1.
<1>7. ASSUME NEW q \in Open(d, p)
      PROVE  q \in Open(d, p + 1) <=> Deep(d, p + 1) > Deep(d, q)
  <2>1. q \in At(d, Opens) /\ q < p /\ \A r \in q + 1 .. p : Deep(d, r) > Deep(d, q)
    BY DEF Open, Cut
  <2>2. q \in Int /\ q + 1 <= p + 1 /\ p + 1 \in q + 1 .. p + 1 /\ q < p + 1
    BY <1>6
  <2>3. \A r \in q + 1 .. p + 1 : r \in q + 1 .. p \/ r = p + 1
    BY <2>2
  <2> QED BY <2>1, <2>2, <2>3 DEF Open, Cut
<1>8. ASSUME NEW q \in Open(d, p + 1), q # p
      PROVE  q \in Open(d, p)
  <2>1. q \in At(d, Opens) /\ q < p + 1 /\ \A r \in q + 1 .. p + 1 : Deep(d, r) > Deep(d, q)
    BY DEF Open, Cut
  <2>2. q \in Int /\ q < p /\ \A r \in q + 1 .. p : r \in q + 1 .. p + 1
    BY <1>1, <1>8, <2>1
  <2> QED BY <2>1, <2>2 DEF Open, Cut
<1>9. CASE d[p].tag = "Collection"
  <2>1. p \in Open(d, p + 1)
    <3>1. p \in At(d, Opens) /\ p < p + 1
      BY <1>1, <1>9 DEF At, Opens
    <3>2. \A r \in p + 1 .. p + 1 : r = p + 1
      OBVIOUS
    <3>3. Deep(d, p + 1) > Deep(d, p)
      BY <1>3, <1>5, <1>9
    <3> QED BY <3>1, <3>2, <3>3 DEF Open, Cut
  <2>2. \A q \in Open(d, p) : Deep(d, p + 1) > Deep(d, q)
    BY <1>3, <1>5, <1>6, <1>9
  <2>3. p \notin Open(d, p)
    BY <1>6
  <2> QED BY <1>7, <1>8, <1>9, <2>1, <2>2, <2>3
<1>10. CASE d[p].tag # "Collection"
  <2>1. p \notin Open(d, p + 1)
    BY <1>10 DEF Open, Cut, At, Opens
  <2>2. CASE d[p].tag = "EndCollection"
    <3>1. \A q \in Open(d, p) : Deep(d, p + 1) > Deep(d, q) <=> Deep(d, q) # Deep(d, p) - 1
      BY <1>3, <1>5, <1>6, <2>2
    <3> QED BY <1>7, <1>8, <2>1, <2>2, <3>1
  <2>3. CASE d[p].tag # "EndCollection"
    <3>1. \A q \in Open(d, p) : Deep(d, p + 1) > Deep(d, q)
      BY <1>3, <1>5, <1>6, <1>10, <2>3
    <3> QED BY <1>7, <1>8, <1>10, <2>1, <2>3, <3>1
  <2> QED BY <1>10, <2>2, <2>3
<1> QED BY <1>9, <1>10

\* The innermost of what is open.
LEMMA Innermost ==
  ASSUME NEW d \in Descriptors, Balanced(d), NEW p \in 1 .. Len(d) + 1
  PROVE  /\ Deep(d, p) = 0 => Open(d, p) = {} /\ ParentAt(d, p) = 0
         /\ \A q \in Open(d, p) :
              Deep(d, q) = Deep(d, p) - 1 => ParentAt(d, p) = 1 + Num(d, Opens, q)
<1>1. /\ \A q \in Open(d, p) : q \in 1 .. Len(d) /\ Deep(d, q) \in 0 .. Deep(d, p) - 1
      /\ \A q, r \in Open(d, p) : q < r => Deep(d, q) < Deep(d, r)
  BY OpenDepths
<1>2. Deep(d, p) = 0 => Open(d, p) = {} /\ ParentAt(d, p) = 0
  BY <1>1 DEF ParentAt
<1>3. ASSUME NEW q \in Open(d, p), Deep(d, q) = Deep(d, p) - 1
      PROVE  ParentAt(d, p) = 1 + Num(d, Opens, q)
  <2>1. Deep(d, p) \in Nat
    BY DEF Balanced
  <2>2. ASSUME NEW r \in Open(d, p)
        PROVE  q >= r
    <3>1. r \in Int /\ q \in Int /\ Deep(d, r) <= Deep(d, p) - 1 /\ Deep(d, r) \in Int
      BY <1>1, <2>1
    <3>2. CASE q < r
      BY <1>1, <1>3, <2>1, <3>1, <3>2
    <3> QED BY <3>1, <3>2
  <2>3. \A r \in Open(d, p) : (\A s \in Open(d, p) : r >= s) => r = q
    <3>1. \A r \in Open(d, p) : r \in Int
      BY <1>1
    <3>2. ASSUME NEW r \in Open(d, p), \A s \in Open(d, p) : r >= s
          PROVE  r = q
      <4>1. r >= q /\ q >= r /\ r \in Int /\ q \in Int
        BY <2>2, <3>1, <3>2
      <4> QED BY <4>1
    <3> QED BY <3>2
  <2>4. Max(Open(d, p)) = q
    BY <2>2, <2>3 DEF Max
  <2> QED BY <2>4 DEF ParentAt
<1> QED BY <1>2, <1>3

\* A set of naturals that is not empty has a least one.
Less == {pair \in Nat \X Nat : pair[1] < pair[2]}
LEMMA LessIsWellFounded == IsWellFoundedOn(Less, Nat)
BY NatLessThanWellFounded DEF OpToRel, Less

LEMMA Least ==
  ASSUME NEW S \in SUBSET Nat, S # {}
  PROVE  \E m \in S : \A n \in S : m <= n
<1>1. PICK m \in S : \A n \in S : <<n, m>> \notin Less
  BY LessIsWellFounded, WFMin
<1>2. \A n \in S : ~(n < m)
  BY <1>1 DEF Less
<1> QED BY <1>2

\* What is open at a collection that is still open is what is open outside it.
LEMMA OpenThere ==
  ASSUME NEW d \in Descriptors, Balanced(d), NEW p \in 1 .. Len(d) + 1, NEW q \in Open(d, p)
  PROVE  Open(d, q) = {r \in Open(d, p) : r < q}
<1>1. /\ Len(d) \in Nat /\ At(d, Opens) \in SUBSET (1 .. Len(d)) /\ p \in Nat
      /\ \A r \in 1 .. Len(d) + 1 : Deep(d, r) \in Nat
  BY Descriptor DEF Balanced
<1>2. /\ q \in At(d, Opens) /\ q < p /\ \A s \in q + 1 .. p : Deep(d, s) > Deep(d, q)
      /\ q \in 1 .. Len(d)
  BY <1>1 DEF Open, Cut
<1>3. ASSUME NEW r \in Open(d, q)
      PROVE  r \in Open(d, p) /\ r < q
  <2>1. r \in At(d, Opens) /\ r < q /\ r \in 1 .. Len(d)
        /\ \A s \in r + 1 .. q : Deep(d, s) > Deep(d, r)
    BY <1>1 DEF Open, Cut
  <2>2. ASSUME NEW s \in r + 1 .. p
        PROVE  Deep(d, s) > Deep(d, r)
    <3>1. CASE s <= q
      <4>1. s \in r + 1 .. q
        BY <1>1, <1>2, <2>1, <3>1
      <4> QED BY <2>1, <4>1
    <3>2. CASE s > q
      <4>1. s \in q + 1 .. p /\ q \in r + 1 .. q /\ s \in 1 .. Len(d) + 1
        BY <1>1, <1>2, <2>1, <3>2
      <4>2. Deep(d, s) > Deep(d, q) /\ Deep(d, q) > Deep(d, r)
        BY <1>2, <2>1, <4>1
      <4>3. Deep(d, s) \in Nat /\ Deep(d, q) \in Nat /\ Deep(d, r) \in Nat
        BY <1>1, <1>2, <2>1, <4>1
      <4> QED BY <4>2, <4>3
    <3> QED BY <1>1, <1>2, <2>1, <3>1, <3>2
  <2>3. r < p
    BY <1>1, <1>2, <2>1
  <2> QED BY <2>1, <2>2, <2>3 DEF Open, Cut
<1>4. ASSUME NEW r \in Open(d, p), r < q
      PROVE  r \in Open(d, q)
  <2>1. r \in At(d, Opens) /\ \A s \in r + 1 .. p : Deep(d, s) > Deep(d, r)
    BY DEF Open, Cut
  <2>2. r \in 1 .. Len(d)
    BY <1>1, <2>1
  <2>3. \A s \in r + 1 .. q : s \in r + 1 .. p
    BY <1>1, <1>2, <2>2
  <2> QED BY <1>4, <2>1, <2>3 DEF Open, Cut
<1> QED BY <1>3, <1>4

\* Where anything is open, the innermost lies one less deep.
LEMMA InnermostThere ==
  ASSUME NEW d \in Descriptors, Balanced(d), NEW p \in 1 .. Len(d) + 1, Deep(d, p) # 0
  PROVE  \E q \in Open(d, p) : Deep(d, q) = Deep(d, p) - 1
<1> DEFINE S == {n \in Nat : n < p /\ Deep(d, p - n) < Deep(d, p)}
<1>1. /\ Len(d) \in Nat /\ At(d, Opens) \in SUBSET (1 .. Len(d)) /\ DOMAIN d = 1 .. Len(d)
      /\ \A r \in 1 .. Len(d) + 1 : Deep(d, r) \in Nat
  BY Descriptor DEF Balanced
<1>2. Deep(d, 1) = 0 /\ p \in Nat
  <2>1. \A tags : Num(d, tags, 1) = 0
    BY CountsEnd
  <2> QED BY <1>1, <2>1 DEF Deep
<1>3. p - 1 \in S
  <2>1. p - (p - 1) = 1 /\ p - 1 \in Nat /\ p - 1 < p
    BY <1>2
  <2>2. Deep(d, p - (p - 1)) < Deep(d, p)
    BY <1>1, <1>2, <2>1
  <2> QED BY <2>1, <2>2
<1>4. PICK n \in S : \A m \in S : n <= m
  <2>1. S \in SUBSET Nat /\ S # {}
    BY <1>3
  <2> HIDE DEF S
  <2> QED BY <2>1, Least
<1>5. /\ n \in Nat /\ n < p /\ Deep(d, p - n) < Deep(d, p)
      /\ \A m \in Nat : m < n => ~(m < p /\ Deep(d, p - m) < Deep(d, p))
  BY <1>4
<1>6. PICK q \in 1 .. Len(d) + 1 : q = p - n
  BY <1>1, <1>2, <1>5
<1>7. q < p /\ q \in 1 .. Len(d) /\ q + 1 \in 1 .. Len(d) + 1
  <2>1. n # 0
    BY <1>1, <1>2, <1>5
  <2> QED BY <1>1, <1>2, <1>5, <1>6, <2>1
<1>8. ASSUME NEW s \in q + 1 .. p
      PROVE  Deep(d, s) >= Deep(d, p)
  <2>1. p - s \in Nat /\ p - s < n /\ p - s < p /\ p - (p - s) = s /\ s \in 1 .. Len(d) + 1
    BY <1>2, <1>5, <1>6, <1>7
  <2>2. ~(Deep(d, p - (p - s)) < Deep(d, p))
    BY <1>5, <2>1
  <2>3. ~(Deep(d, s) < Deep(d, p))
    BY <2>1, <2>2
  <2> QED BY <1>1, <2>1, <2>3
<1>9. Deep(d, q) \in Nat /\ Deep(d, q + 1) \in Nat /\ Deep(d, p) \in Nat /\ Deep(d, q) < Deep(d, p)
  BY <1>1, <1>5, <1>6, <1>7
<1>10. Deep(d, q + 1) >= Deep(d, p)
  BY <1>7, <1>8
<1>11. d[q].tag = "Collection" /\ Deep(d, q) = Deep(d, p) - 1
  <2>1. Deep(d, q + 1) = Deep(d, q) + (IF d[q].tag = "Collection" THEN 1 ELSE 0)
                           - (IF d[q].tag = "EndCollection" THEN 1 ELSE 0)
    BY <1>7, DeepGrows
  <2> QED BY <1>9, <1>10, <2>1
<1>12. q \in Open(d, p)
  <2>1. q \in At(d, Opens)
    BY <1>1, <1>7, <1>11 DEF At, Opens
  <2>2. \A s \in q + 1 .. p : Deep(d, s) > Deep(d, q)
    <3>1. \A s \in q + 1 .. p : s \in 1 .. Len(d) + 1
      BY <1>1, <1>7
    <3> QED BY <1>1, <1>8, <1>9, <3>1
  <2> QED BY <1>7, <2>1, <2>2 DEF Open, Cut
<1> QED BY <1>11, <1>12

\* The parent at a position is 0 or the number of the innermost collection that is open.
LEMMA ParentThere ==
  ASSUME NEW d \in Descriptors, Balanced(d), NEW p \in 1 .. Len(d) + 1
  PROVE  /\ ParentAt(d, p) \in 0 .. Num(d, Opens, p) /\ Num(d, Opens, p) \in Nat
         /\ \A q \in Open(d, p) : 1 + Num(d, Opens, q) <= ParentAt(d, p)
<1>1. /\ Len(d) \in Nat /\ At(d, Opens) \in SUBSET (1 .. Len(d))
      /\ Deep(d, p) \in Nat
  BY Descriptor DEF Balanced
<1>2. /\ Open(d, p) \in SUBSET (1 .. Len(d)) /\ Open(d, p) \in SUBSET At(d, Opens)
      /\ \A q \in Open(d, p) : q < p /\ Deep(d, q) \in 0 .. Deep(d, p) - 1
      /\ \A q, r \in Open(d, p) : q < r => Deep(d, q) < Deep(d, r)
  BY OpenDepths
<1>3. ASSUME NEW q \in At(d, Opens), NEW r \in q + 1 .. Len(d) + 1
      PROVE  /\ Num(d, Opens, q) < Num(d, Opens, r)
             /\ Num(d, Opens, q) \in Nat /\ Num(d, Opens, r) \in Nat
  BY <1>1, UptoPasses DEF Num
<1>4. Num(d, Opens, p) \in Nat
  <2>1. 1 \in 1 .. Len(d) + 1 /\ p \in 1 .. Len(d) + 1
    BY <1>1
  <2> QED BY <1>1, <2>1, UptoRises DEF Num
<1>5. CASE Deep(d, p) = 0
  <2>1. Open(d, p) = {} /\ ParentAt(d, p) = 0
    BY <1>5, Innermost
  <2> QED BY <1>4, <2>1
<1>6. CASE Deep(d, p) # 0
  <2>1. PICK q \in Open(d, p) : Deep(d, q) = Deep(d, p) - 1
    BY <1>6, InnermostThere
  <2>2. ParentAt(d, p) = 1 + Num(d, Opens, q)
    BY <2>1, Innermost
  <2>3. p \in q + 1 .. Len(d) + 1 /\ q \in At(d, Opens) /\ q \in 1 .. Len(d)
    BY <1>1, <1>2
  <2>4. Num(d, Opens, q) < Num(d, Opens, p) /\ Num(d, Opens, q) \in Nat
    BY <1>3, <2>3
  <2>5. ASSUME NEW r \in Open(d, p)
        PROVE  1 + Num(d, Opens, r) <= ParentAt(d, p)
    <3>1. r \in 1 .. Len(d) /\ r \in At(d, Opens) /\ Deep(d, r) <= Deep(d, q)
      BY <1>1, <1>2, <2>1
    <3>2. CASE r = q
      BY <2>2, <2>4, <3>2
    <3>3. CASE r < q
      <4>1. q \in r + 1 .. Len(d) + 1
        BY <1>1, <2>3, <3>1, <3>3
      <4>2. Num(d, Opens, r) < Num(d, Opens, q) /\ Num(d, Opens, r) \in Nat
        BY <1>3, <3>1, <4>1
      <4> QED BY <2>2, <2>4, <4>2
    <3>4. CASE q < r
      <4>1. Deep(d, q) < Deep(d, r) /\ Deep(d, q) \in Nat /\ Deep(d, r) \in Nat
        BY <1>1, <1>2, <3>4
      <4> QED BY <3>1, <4>1
    <3> QED BY <2>3, <3>1, <3>2, <3>3, <3>4
  <2> QED BY <1>4, <2>2, <2>4, <2>5
<1> QED BY <1>5, <1>6

\* The chains: x is the last of the first m collections that lies in c, or 0 if none does;
\* every collection leads to the one before it, and the one around it to its last.
IsLast(list, x, c, m) ==
  x \in 0 .. m /\ (x # 0 => list[x].parent = c) /\ \A e \in x + 1 .. m : list[e].parent # c
Chained(list, n) ==
  /\ \A e \in 1 .. n : /\ list[e].parent \in 0 .. e - 1
                       /\ IsLast(list, list[e].nextSibling, list[e].parent, e - 1)
  /\ \A c \in 0 .. n : IsLast(list, list[c].firstChild, c, n)

\* A new collection in p leads the chain of those in p.
LEMMA ChainGrows ==
  ASSUME NEW n \in Nat, NEW list, NEW new, Chained(list, n), NEW p \in 0 .. n,
         \A e \in 1 .. n : /\ new[e].parent = list[e].parent
                           /\ new[e].nextSibling = list[e].nextSibling,
         \A c \in (0 .. n) \ {p} : new[c].firstChild = list[c].firstChild,
         new[p].firstChild = n + 1, new[n + 1].firstChild = 0,
         new[n + 1].parent = p, new[n + 1].nextSibling = list[p].firstChild
  PROVE  Chained(new, n + 1)
<1>1. /\ \A e \in 1 .. n : list[e].parent \in 0 .. e - 1
      /\ \A e \in 1 .. n : IsLast(list, list[e].nextSibling, list[e].parent, e - 1)
      /\ \A c \in 0 .. n : IsLast(list, list[c].firstChild, c, n)
  BY DEF Chained
\* What was the last up to m still is.
<1>2. ASSUME NEW m \in 0 .. n, NEW x, NEW c, IsLast(list, x, c, m)
      PROVE  IsLast(new, x, c, m)
  <2>1. x \in 0 .. m /\ (x # 0 => list[x].parent = c) /\ \A e \in x + 1 .. m : list[e].parent # c
    BY <1>2 DEF IsLast
  <2>2. (x # 0 => x \in 1 .. n) /\ \A e \in x + 1 .. m : e \in 1 .. n
    BY <2>1
  <2> QED BY <2>1, <2>2 DEF IsLast
<1>3. ASSUME NEW e \in 1 .. n + 1
      PROVE  new[e].parent \in 0 .. e - 1 /\ IsLast(new, new[e].nextSibling, new[e].parent, e - 1)
  <2>1. CASE e \in 1 .. n
    <3>1. e - 1 \in 0 .. n
      BY <2>1
    <3> QED BY <1>1, <1>2, <2>1, <3>1
  <2>2. CASE e = n + 1
    <3>1. IsLast(new, list[p].firstChild, p, n)
      BY <1>1, <1>2
    <3>2. e - 1 = n
      BY <2>2
    <3> QED BY <2>2, <3>1, <3>2
  <2> QED BY <2>1, <2>2
<1>4. ASSUME NEW c \in 0 .. n + 1
      PROVE  IsLast(new, new[c].firstChild, c, n + 1)
  <2>1. CASE c = p
    <3>1. \A e \in (n + 1) + 1 .. n + 1 : FALSE
      OBVIOUS
    <3>2. n + 1 \in 0 .. n + 1
      OBVIOUS
    <3> QED BY <2>1, <3>1, <3>2 DEF IsLast
  <2>2. CASE c \in (0 .. n) \ {p}
    <3> DEFINE x == list[c].firstChild
    <3>1. IsLast(new, x, c, n) /\ new[c].firstChild = x
      BY <1>1, <1>2, <2>2
    <3>2. x \in 0 .. n /\ (x # 0 => new[x].parent = c) /\ \A e \in x + 1 .. n : new[e].parent # c
      BY <3>1 DEF IsLast
    <3> HIDE DEF x
    <3>3. x \in 0 .. n + 1 /\ \A e \in x + 1 .. n + 1 : e \in x + 1 .. n \/ e = n + 1
      BY <3>2
    <3>4. new[n + 1].parent # c
      BY <2>2
    <3> QED BY <3>1, <3>2, <3>3, <3>4 DEF IsLast
  <2>3. CASE c = n + 1
    <3>1. \A e \in 0 + 1 .. n + 1 : new[e].parent # c
      <4>1. \A e \in 0 + 1 .. n + 1 : e \in 1 .. n + 1 /\ new[e].parent \in 0 .. e - 1
        BY <1>3
      <4> QED BY <2>3, <4>1
    <3>2. 0 \in 0 .. n + 1
      OBVIOUS
    <3> QED BY <2>3, <3>1, <3>2 DEF IsLast
  <2> QED BY <2>1, <2>2, <2>3
<1> QED BY <1>3, <1>4 DEF Chained

\* The chain that starts at the first child of a collection has those that lie in it.
LEMMA ChildrenAre ==
  ASSUME NEW n \in Nat, Chained(collectionList, n), DOMAIN collectionList = 0 .. n,
         NEW c \in 0 .. n
  PROVE  Children(c) = {e \in 1 .. n : collectionList[e].parent = c}
<1> DEFINE list == collectionList
           Chain(f) == f = [e \in DOMAIN list |->
                              IF e = 0 THEN {} ELSE {e} \union f[list[e].nextSibling]]
           from == CHOOSE f : Chain(f)
           upto == [e \in 0 .. n |->
                      IF e = 0 THEN {} ELSE {a \in 1 .. e : list[a].parent = list[e].parent}]
<1>1. Children(c) = from[list[c].firstChild]
  BY DEF Children
<1>2. /\ \A e \in 1 .. n : IsLast(list, list[e].nextSibling, list[e].parent, e - 1)
      /\ \A a \in 0 .. n : IsLast(list, list[a].firstChild, a, n)
  BY DEF Chained
<1>3. \A e \in 1 .. n : /\ list[e].nextSibling \in 0 .. e - 1
                        /\ upto[e] = {e} \union upto[list[e].nextSibling]
  <2> SUFFICES ASSUME NEW e \in 1 .. n
               PROVE  /\ list[e].nextSibling \in 0 .. e - 1
                      /\ upto[e] = {e} \union upto[list[e].nextSibling]
    OBVIOUS
  <2> DEFINE x == list[e].nextSibling
             P == list[e].parent
  <2>1. x \in 0 .. e - 1 /\ (x # 0 => list[x].parent = P) /\ \A a \in x + 1 .. e - 1 : list[a].parent # P
    BY <1>2 DEF IsLast
  <2>2. x \in 0 .. n /\ e \in 0 .. n /\ e # 0
    BY <2>1
  <2>3. upto[e] = {a \in 1 .. e : list[a].parent = P}
    BY <2>2
  <2>4. upto[x] = {a \in 1 .. x : list[a].parent = P}
    <3>1. CASE x = 0
      <4>1. upto[x] = {} /\ 1 .. x = {}
        BY <2>2, <3>1
      <4> QED BY <4>1
    <3>2. CASE x # 0
      BY <2>1, <2>2, <3>2
    <3> QED BY <3>1, <3>2
  <2> HIDE DEF x, P, upto
  <2>5. \A a \in 1 .. e : a \in 1 .. x \/ a \in x + 1 .. e - 1 \/ a = e
    BY <2>1
  <2>6. \A a \in 1 .. x : a \in 1 .. e
    BY <2>1
  <2>7. list[e].parent = P /\ e \in 1 .. e
    BY DEF P
  <2> QED BY <2>1, <2>3, <2>4, <2>5, <2>6, <2>7 DEF x
<1>4. Chain(upto)
  <2>1. \A e \in 0 .. n : upto[e] = IF e = 0 THEN {} ELSE {e} \union upto[list[e].nextSibling]
    <3>1. upto[0] = {}
      OBVIOUS
    <3>2. \A e \in 0 .. n : e # 0 => e \in 1 .. n
      OBVIOUS
    <3> HIDE DEF upto
    <3> QED BY <1>3, <3>1, <3>2
  <2>2. upto = [e \in 0 .. n |-> upto[e]]
    OBVIOUS
  <2> HIDE DEF upto
  <2> QED BY <2>1, <2>2
<1>5. Chain(from)
  <2> HIDE DEF Chain, upto
  <2> QED BY <1>4
<1>6. \A e \in 0 .. n : from[e] = upto[e]
  <2> DEFINE bad == {e \in 0 .. n : from[e] # upto[e]}
  <2>1. ASSUME bad # {}
        PROVE  FALSE
    <3>1. bad \in SUBSET Nat
      OBVIOUS
    <3>2. PICK e \in bad : \A a \in bad : e <= a
      <4> HIDE DEF bad
      <4> QED BY <2>1, <3>1, Least
    <3>3. e \in 0 .. n /\ from[e] # upto[e]
      BY <3>2
    <3>4. \A a \in 0 .. n : a < e => from[a] = upto[a]
      <4> SUFFICES ASSUME NEW a \in 0 .. n, a < e, from[a] # upto[a]
                   PROVE  FALSE
        OBVIOUS
      <4> HIDE DEF from, upto
      <4>1. a \in bad
        OBVIOUS
      <4> HIDE DEF bad
      <4>2. e <= a
        BY <3>2, <4>1
      <4> QED BY <3>3, <4>2
    <3>5. from[e] = IF e = 0 THEN {} ELSE {e} \union from[list[e].nextSibling]
      <4> HIDE DEF from, upto
      <4> QED BY <1>5, <3>3
    <3>6. upto[e] = IF e = 0 THEN {} ELSE {e} \union upto[list[e].nextSibling]
      <4> HIDE DEF from, upto
      <4> QED BY <1>4, <3>3
    <3> HIDE DEF from, upto, bad
    <3>7. CASE e = 0
      BY <3>3, <3>5, <3>6, <3>7
    <3>8. CASE e # 0
      <4>1. e \in 1 .. n
        BY <3>3, <3>8
      <4>2. list[e].nextSibling \in 0 .. n /\ list[e].nextSibling < e
        BY <1>3, <4>1
      <4> QED BY <3>3, <3>4, <3>5, <3>6, <4>2
    <3> QED BY <3>7, <3>8
  <2> QED BY <2>1
<1>7. upto[list[c].firstChild] = {e \in 1 .. n : list[e].parent = c}
  <2> DEFINE x == list[c].firstChild
  <2>1. x \in 0 .. n /\ (x # 0 => list[x].parent = c) /\ \A a \in x + 1 .. n : list[a].parent # c
    BY <1>2 DEF IsLast
  <2>2. upto[x] = {a \in 1 .. x : list[a].parent = c}
    <3>1. CASE x = 0
      <4>1. upto[x] = {} /\ 1 .. x = {}
        BY <2>1, <3>1
      <4> QED BY <4>1
    <3>2. CASE x # 0
      BY <2>1, <3>2
    <3> QED BY <3>1, <3>2
  <2> HIDE DEF x, upto
  <2>3. \A a \in 1 .. n : a \in 1 .. x \/ a \in x + 1 .. n
    BY <2>1
  <2>4. \A a \in 1 .. x : a \in 1 .. n
    BY <2>1
  <2> QED BY <2>1, <2>2, <2>3, <2>4 DEF x
<1>8. list[c].firstChild \in 0 .. n
  BY <1>2 DEF IsLast
<1> HIDE DEF from, upto
<1> QED BY <1>1, <1>6, <1>7, <1>8

\* The report items can be counted.
LEMMA FewReportItems ==
  ASSUME NEW d, Countable(d)
  PROVE  Cardinality(At(d, DataTags)) <= 254
BY DEF Countable

\* What comes before the next item.
LEMMA CutGrows ==
  ASSUME NEW d \in Descriptors, NEW p \in 1 .. Len(d), NEW tags
  PROVE  /\ Cut(At(d, tags), p) \in SUBSET Cut(At(d, tags), p + 1)
         /\ d[p].tag \in tags => p \in Cut(At(d, tags), p + 1)
         /\ \A q \in Cut(At(d, tags), p + 1) :
              q \in Cut(At(d, tags), p) \/ (q = p /\ d[p].tag \in tags)
<1>1. At(d, tags) \in SUBSET (1 .. Len(d)) /\ DOMAIN d = 1 .. Len(d)
  BY Descriptor
<1>2. \A q \in At(d, tags) : q \in Int /\ (q < p => q < p + 1) /\ (q < p + 1 => q < p \/ q = p)
  BY <1>1
<1>3. p < p + 1 /\ (p \in At(d, tags) <=> d[p].tag \in tags)
  BY <1>1 DEF At
<1> QED BY <1>2, <1>3 DEF Cut

\* The numbers of what came before.
LEMMA NumbersBefore ==
  ASSUME NEW d \in Descriptors, NEW p \in 1 .. Len(d) + 1, NEW tags, NEW q \in Cut(At(d, tags), p)
  PROVE  /\ q \in 1 .. Len(d) /\ q \in 1 .. Len(d) + 1 /\ q < p /\ q \in At(d, tags)
         /\ Num(d, tags, q) \in Nat /\ Num(d, tags, p) \in Nat /\ Num(d, tags, q) < Num(d, tags, p)
<1>1. Len(d) \in Nat /\ At(d, tags) \in SUBSET (1 .. Len(d))
  BY Descriptor
<1>2. q \in At(d, tags) /\ q < p /\ q \in 1 .. Len(d)
  BY <1>1 DEF Cut
<1>3. p \in q + 1 .. Len(d) + 1 /\ q \in 1 .. Len(d) + 1
  BY <1>1, <1>2
<1> QED BY <1>1, <1>2, <1>3, UptoPasses DEF Num

\* A collection that ends has in it the report items since it began.
LEMMA InsideClosed ==
  ASSUME NEW d \in Descriptors, Balanced(d), NEW p \in 1 .. Len(d), d[p].tag = "EndCollection",
         NEW q \in Open(d, p), Deep(d, p + 1) = Deep(d, q)
  PROVE  Cardinality(Inside(d, q)) = Num(d, DataTags, p) - Num(d, DataTags, q)
<1>1. /\ Len(d) \in Nat /\ At(d, DataTags) \in SUBSET (1 .. Len(d))
      /\ At(d, Opens) \in SUBSET (1 .. Len(d)) /\ DOMAIN d = 1 .. Len(d)
  BY Descriptor
<1>2. /\ q \in At(d, Opens) /\ q < p /\ q \in 1 .. Len(d)
      /\ \A s \in q + 1 .. p : Deep(d, s) > Deep(d, q)
  BY <1>1 DEF Open, Cut
<1>3. Deep(d, q) \in Nat
  BY <1>1, <1>2 DEF Balanced
<1>4. \A r \in At(d, DataTags) : r # p /\ r # q
  BY <1>2 DEF At, Opens, DataTags
<1>5. ASSUME NEW r \in At(d, DataTags)
      PROVE  q \in Open(d, r) <=> q <= r /\ r < p
  <2>1. r \in 1 .. Len(d) /\ r # p /\ r # q
    BY <1>1, <1>4
  <2>2. CASE q <= r /\ r < p
    <3>1. q < r /\ \A s \in q + 1 .. r : s \in q + 1 .. p
      BY <1>2, <2>1, <2>2
    <3> QED BY <1>2, <2>2, <3>1 DEF Open, Cut
  <2>3. CASE r > p
    <3>1. p + 1 \in q + 1 .. r
      BY <1>2, <2>1, <2>3
    <3>2. ~(Deep(d, p + 1) > Deep(d, q))
      BY <1>3
    <3> QED BY <2>1, <2>3, <3>1, <3>2 DEF Open, Cut
  <2>4. CASE r < q
    <3>1. ~(q < r)
      BY <1>2, <2>1, <2>4
    <3> QED BY <1>2, <2>1, <2>4, <3>1 DEF Open, Cut
  <2> QED BY <1>2, <2>1, <2>2, <2>3, <2>4
<1>6. Inside(d, q) = {r \in At(d, DataTags) : q <= r /\ r < p}
  BY <1>5 DEF Inside
<1>7. q \in 1 .. Len(d) + 1 /\ p \in q .. Len(d) + 1
  BY <1>1, <1>2
<1> QED BY <1>1, <1>6, <1>7, Between DEF Num

\* The tables at a position of the descriptor, given the collection that is open and its last
\* child.
OpenKept(d, p, list, stack) ==
  \A q \in Open(d, p) : /\ stack[Deep(d, q)] = ParentAt(d, q)
                        /\ list[ParentAt(d, q)].firstChild = 1 + Num(d, Opens, q)
Recorded(d, p, list) ==
  \A q \in Cut(At(d, Opens), p) :
    /\ list[1 + Num(d, Opens, q)].parent = ParentAt(d, q)
    /\ list[1 + Num(d, Opens, q)].firstReportItem = Num(d, DataTags, q)
    /\ q \notin Open(d, p) => list[1 + Num(d, Opens, q)].reportItems = Cardinality(Inside(d, q))
Numbered(d, p) ==
  \A e \in 1 .. Num(d, Opens, p) : \E q \in Cut(At(d, Opens), p) : e = 1 + Num(d, Opens, q)
ItemsPlaced(d, p, items) ==
  \A q \in Cut(At(d, DataTags), p) : items[Num(d, DataTags, q)].parent = ParentAt(d, q)
Tree(d, p, parent, sibling, list, stack, items) ==
  /\ parent = ParentAt(d, p) /\ list[parent].firstChild = sibling
  /\ Chained(list, Num(d, Opens, p)) /\ OpenKept(d, p, list, stack)
  /\ Recorded(d, p, list) /\ Numbered(d, p) /\ ItemsPlaced(d, p, items)

\* An item that neither opens nor closes a collection.
LEMMA TreeStays ==
  ASSUME NEW d \in Descriptors, Balanced(d), NEW p \in 1 .. Len(d),
         d[p].tag \notin {"Collection", "EndCollection"},
         NEW parent, NEW sibling, NEW list, NEW stack, NEW items, NEW new,
         Tree(d, p, parent, sibling, list, stack, items),
         \A i \in 0 .. Num(d, DataTags, p) - 1 : new[i].parent = items[i].parent,
         d[p].tag \in DataTags => new[Num(d, DataTags, p)].parent = parent
  PROVE  Tree(d, p + 1, parent, sibling, list, stack, new)
<1>1. p \in 1 .. Len(d) + 1 /\ p + 1 \in 1 .. Len(d) + 1
  BY Descriptor
<1>2. Open(d, p + 1) = Open(d, p)
  BY OpenGrows
<1>3. Num(d, Opens, p + 1) = Num(d, Opens, p)
  <2>1. Num(d, Opens, p) \in Nat
        /\ Num(d, Opens, p + 1) = Num(d, Opens, p) + (IF d[p].tag \in Opens THEN 1 ELSE 0)
    BY CountsGrow
  <2> QED BY <2>1 DEF Opens
<1>4. ParentAt(d, p + 1) = ParentAt(d, p)
  BY <1>2 DEF ParentAt
<1>5. Cut(At(d, Opens), p + 1) = Cut(At(d, Opens), p)
  <2>1. d[p].tag \notin Opens
    BY DEF Opens
  <2>2. \A q \in Cut(At(d, Opens), p + 1) : q \in Cut(At(d, Opens), p)
    BY <2>1, CutGrows
  <2>3. Cut(At(d, Opens), p) \in SUBSET Cut(At(d, Opens), p + 1)
    BY CutGrows
  <2> QED BY <2>2, <2>3
<1>6. Recorded(d, p + 1, list) /\ Numbered(d, p + 1) /\ OpenKept(d, p + 1, list, stack)
  BY <1>2, <1>3, <1>5 DEF Tree, Recorded, Numbered, OpenKept
<1>7. ItemsPlaced(d, p + 1, new)
  <2> SUFFICES ASSUME NEW q \in Cut(At(d, DataTags), p + 1)
               PROVE  new[Num(d, DataTags, q)].parent = ParentAt(d, q)
    BY DEF ItemsPlaced
  <2>1. CASE q \in Cut(At(d, DataTags), p)
    <3>1. Num(d, DataTags, q) \in 0 .. Num(d, DataTags, p) - 1
      <4>1. Num(d, DataTags, q) \in Nat /\ Num(d, DataTags, p) \in Nat
            /\ Num(d, DataTags, q) < Num(d, DataTags, p)
        BY <1>1, <2>1, NumbersBefore
      <4> QED BY <4>1
    <3> QED BY <2>1, <3>1 DEF Tree, ItemsPlaced
  <2>2. CASE q = p /\ d[p].tag \in DataTags
    BY <2>2 DEF Tree
  <2> QED BY <2>1, <2>2, CutGrows
<1> QED BY <1>3, <1>4, <1>6, <1>7 DEF Tree

\* A collection that is opened.
Opened(d, p, n, parent, sibling, list, new) ==
  /\ \A e \in 0 .. n :
       /\ new[e].parent = list[e].parent /\ new[e].nextSibling = list[e].nextSibling
       /\ new[e].firstReportItem = list[e].firstReportItem
       /\ new[e].reportItems = list[e].reportItems
       /\ e # parent => new[e].firstChild = list[e].firstChild
  /\ new[parent].firstChild = n + 1
  /\ new[n + 1].firstChild = 0 /\ new[n + 1].parent = parent /\ new[n + 1].nextSibling = sibling
  /\ new[n + 1].firstReportItem = Num(d, DataTags, p)

LEMMA TreeOpens ==
  ASSUME NEW d \in Descriptors, Balanced(d), NEW p \in 1 .. Len(d), d[p].tag = "Collection",
         NEW n \in Nat, n = Num(d, Opens, p),
         NEW parent, NEW sibling, NEW list, NEW stack, NEW items, NEW new, NEW newStack,
         Tree(d, p, parent, sibling, list, stack, items),
         Opened(d, p, n, parent, sibling, list, new),
         newStack[Deep(d, p)] = parent,
         \A j \in 0 .. Deep(d, p) - 1 : newStack[j] = stack[j]
  PROVE  Tree(d, p + 1, n + 1, 0, new, newStack, items)
<1>0. /\ \A e \in 0 .. n :
           /\ new[e].parent = list[e].parent /\ new[e].nextSibling = list[e].nextSibling
           /\ new[e].firstReportItem = list[e].firstReportItem
           /\ new[e].reportItems = list[e].reportItems
           /\ e # parent => new[e].firstChild = list[e].firstChild
      /\ new[parent].firstChild = n + 1
      /\ new[n + 1].firstChild = 0 /\ new[n + 1].parent = parent /\ new[n + 1].nextSibling = sibling
      /\ new[n + 1].firstReportItem = Num(d, DataTags, p)
  BY DEF Opened
<1>1. p \in 1 .. Len(d) + 1 /\ p + 1 \in 1 .. Len(d) + 1
  BY Descriptor
<1>2. Open(d, p + 1) = Open(d, p) \cup {p} /\ p \notin Open(d, p)
  BY OpenGrows
<1>3. Num(d, Opens, p + 1) = n + 1
  <2>1. Num(d, Opens, p + 1) = Num(d, Opens, p) + (IF d[p].tag \in Opens THEN 1 ELSE 0)
    BY CountsGrow
  <2> QED BY <2>1 DEF Opens
<1>4. /\ parent \in 0 .. n /\ parent = ParentAt(d, p)
      /\ \A q \in Open(d, p) : 1 + Num(d, Opens, q) <= parent
  BY <1>1, ParentThere DEF Tree
<1>5. ParentAt(d, p + 1) = n + 1
  <2>1. Deep(d, p) = Deep(d, p + 1) - 1
    <3>1. /\ Deep(d, p) \in Int /\ Deep(d, p + 1) \in Int
          /\ Deep(d, p + 1) = Deep(d, p) + (IF d[p].tag = "Collection" THEN 1 ELSE 0)
                                - (IF d[p].tag = "EndCollection" THEN 1 ELSE 0)
      BY DeepGrows
    <3> QED BY <3>1
  <2>2. p \in Open(d, p + 1)
    BY <1>2
  <2>3. ParentAt(d, p + 1) = 1 + Num(d, Opens, p)
    BY <1>1, <2>1, <2>2, Innermost
  <2> QED BY <2>3
<1>6. \A q \in Open(d, p) : /\ q \in Cut(At(d, Opens), p)
                            /\ Num(d, Opens, q) \in Nat /\ q \in 1 .. Len(d) + 1
                            /\ Deep(d, q) \in 0 .. Deep(d, p) - 1
                            /\ ParentAt(d, q) \in 0 .. Num(d, Opens, q)
  <2> SUFFICES ASSUME NEW q \in Open(d, p)
               PROVE  /\ q \in Cut(At(d, Opens), p)
                      /\ Num(d, Opens, q) \in Nat /\ q \in 1 .. Len(d) + 1
                      /\ Deep(d, q) \in 0 .. Deep(d, p) - 1
                      /\ ParentAt(d, q) \in 0 .. Num(d, Opens, q)
    OBVIOUS
  <2>1. q \in Cut(At(d, Opens), p)
    BY DEF Open
  <2>2. q \in 1 .. Len(d) + 1 /\ Num(d, Opens, q) \in Nat
    BY <1>1, <2>1, NumbersBefore
  <2>3. ParentAt(d, q) \in 0 .. Num(d, Opens, q)
    BY <2>2, ParentThere
  <2> QED BY <1>1, <2>1, <2>2, <2>3, OpenDepths
<1>7. Chained(new, n + 1)
  <2>1. Chained(list, n) /\ list[parent].firstChild = sibling
    BY DEF Tree
  <2>2. \A e \in 1 .. n : e \in 0 .. n
    OBVIOUS
  <2>3. /\ \A e \in 1 .. n : /\ new[e].parent = list[e].parent
                             /\ new[e].nextSibling = list[e].nextSibling
        /\ \A c \in (0 .. n) \ {parent} : new[c].firstChild = list[c].firstChild
        /\ new[n + 1].nextSibling = list[parent].firstChild
    BY <1>0, <2>1, <2>2
  <2>4. /\ new[parent].firstChild = n + 1 /\ new[n + 1].firstChild = 0
        /\ new[n + 1].parent = parent /\ parent \in 0 .. n
    BY <1>0, <1>4
  <2> QED BY <2>1, <2>3, <2>4, ChainGrows
<1>8. OpenKept(d, p + 1, new, newStack)
  <2> SUFFICES ASSUME NEW q \in Open(d, p + 1)
               PROVE  /\ newStack[Deep(d, q)] = ParentAt(d, q)
                      /\ new[ParentAt(d, q)].firstChild = 1 + Num(d, Opens, q)
    BY DEF OpenKept
  <2>1. CASE q = p
    <3>1. 1 + n = n + 1
      OBVIOUS
    <3> QED BY <1>0, <1>4, <2>1, <3>1
  <2>2. CASE q \in Open(d, p)
    <3>1. stack[Deep(d, q)] = ParentAt(d, q) /\ list[ParentAt(d, q)].firstChild = 1 + Num(d, Opens, q)
      BY <2>2 DEF Tree, OpenKept
    <3>2. newStack[Deep(d, q)] = stack[Deep(d, q)]
      BY <1>6, <2>2
    <3>3. ParentAt(d, q) \in 0 .. n /\ ParentAt(d, q) # parent
      BY <1>4, <1>6, <2>2
    <3> QED BY <1>0, <3>1, <3>2, <3>3
  <2> QED BY <1>2, <2>1, <2>2
<1>9. Recorded(d, p + 1, new)
  <2> SUFFICES ASSUME NEW q \in Cut(At(d, Opens), p + 1)
               PROVE  LET c == new[1 + Num(d, Opens, q)] IN
                      /\ c.parent = ParentAt(d, q) /\ c.firstReportItem = Num(d, DataTags, q)
                      /\ q \notin Open(d, p + 1) => c.reportItems = Cardinality(Inside(d, q))
    BY DEF Recorded
  <2>1. CASE q \in Cut(At(d, Opens), p)
    <3>1. 1 + Num(d, Opens, q) \in 0 .. n
      <4>1. Num(d, Opens, q) \in Nat /\ Num(d, Opens, q) < Num(d, Opens, p)
        BY <1>1, <2>1, NumbersBefore
      <4> QED BY <4>1
    <3> QED BY <1>0, <1>2, <2>1, <3>1 DEF Tree, Recorded
  <2>2. CASE q = p
    <3>1. 1 + n = n + 1
      OBVIOUS
    <3> QED BY <1>0, <1>2, <1>4, <2>2, <3>1
  <2> QED BY <2>1, <2>2, CutGrows
<1>10. Numbered(d, p + 1)
  <2> SUFFICES ASSUME NEW e \in 1 .. n + 1
               PROVE  \E q \in Cut(At(d, Opens), p + 1) : e = 1 + Num(d, Opens, q)
    BY <1>3 DEF Numbered
  <2>1. Cut(At(d, Opens), p) \in SUBSET Cut(At(d, Opens), p + 1) /\ p \in Cut(At(d, Opens), p + 1)
    BY CutGrows DEF Opens
  <2>2. CASE e = n + 1
    <3>1. 1 + n = n + 1
      OBVIOUS
    <3> QED BY <2>1, <2>2, <3>1
  <2>3. CASE e # n + 1
    <3>1. e \in 1 .. Num(d, Opens, p)
      BY <2>3
    <3> QED BY <2>1, <3>1 DEF Tree, Numbered
  <2> QED BY <2>2, <2>3
<1>11. ItemsPlaced(d, p + 1, items)
  <2>1. \A q \in Cut(At(d, DataTags), p + 1) : q \in Cut(At(d, DataTags), p)
    BY CutGrows DEF DataTags
  <2> QED BY <2>1 DEF Tree, ItemsPlaced
<1>12. new[n + 1].firstChild = 0
  BY <1>0
<1> QED BY <1>3, <1>5, <1>7, <1>8, <1>9, <1>10, <1>11, <1>12 DEF Tree

\* A collection that is closed.
Closed(d, p, n, parent, list, new) ==
  /\ \A e \in 0 .. n :
       /\ new[e].parent = list[e].parent /\ new[e].nextSibling = list[e].nextSibling
       /\ new[e].firstReportItem = list[e].firstReportItem
       /\ new[e].firstChild = list[e].firstChild
       /\ e # parent => new[e].reportItems = list[e].reportItems
  /\ new[parent].reportItems = Byte(Num(d, DataTags, p) - list[parent].firstReportItem)

LEMMA TreeCloses ==
  ASSUME NEW d \in Descriptors, Balanced(d), Countable(d), NEW p \in 1 .. Len(d),
         d[p].tag = "EndCollection", NEW n \in Nat, n = Num(d, Opens, p),
         NEW parent, NEW sibling, NEW list, NEW stack, NEW items, NEW new,
         Tree(d, p, parent, sibling, list, stack, items),
         Closed(d, p, n, parent, list, new)
  PROVE  Tree(d, p + 1, stack[Deep(d, p) - 1], parent, new, stack, items)
<1>0. /\ \A e \in 0 .. n :
           /\ new[e].parent = list[e].parent /\ new[e].nextSibling = list[e].nextSibling
           /\ new[e].firstReportItem = list[e].firstReportItem
           /\ new[e].firstChild = list[e].firstChild
           /\ e # parent => new[e].reportItems = list[e].reportItems
      /\ new[parent].reportItems = Byte(Num(d, DataTags, p) - list[parent].firstReportItem)
  BY DEF Closed
<1>1. p \in 1 .. Len(d) + 1 /\ p + 1 \in 1 .. Len(d) + 1
  BY Descriptor
<1>2. Deep(d, p) \in Nat /\ Deep(d, p + 1) \in Nat /\ Deep(d, p + 1) = Deep(d, p) - 1
  <2>1. /\ Deep(d, p) \in Int
        /\ Deep(d, p + 1) = Deep(d, p) + (IF d[p].tag = "Collection" THEN 1 ELSE 0)
                              - (IF d[p].tag = "EndCollection" THEN 1 ELSE 0)
    BY DeepGrows
  <2> QED BY <1>1, <2>1 DEF Balanced
<1>3. PICK q \in Open(d, p) : Deep(d, q) = Deep(d, p) - 1
  BY <1>1, <1>2, InnermostThere
<1>4. parent = 1 + Num(d, Opens, q)
  BY <1>1, <1>3, Innermost DEF Tree
<1>5. q \in Cut(At(d, Opens), p)
  BY DEF Open
<1>6. /\ q \in 1 .. Len(d) /\ q \in 1 .. Len(d) + 1 /\ q \in At(d, Opens) /\ q < p
      /\ Num(d, Opens, q) \in Nat /\ Num(d, Opens, q) < n
  BY <1>1, <1>5, NumbersBefore
<1>7. Num(d, Opens, p + 1) = n
  <2>1. Num(d, Opens, p + 1) = Num(d, Opens, p) + (IF d[p].tag \in Opens THEN 1 ELSE 0)
    BY CountsGrow
  <2> QED BY <2>1 DEF Opens
<1>8. Open(d, p + 1) = Open(d, p) \ {q} /\ Open(d, p + 1) = Open(d, q)
  <2>1. Open(d, p + 1) = {r \in Open(d, p) : Deep(d, r) # Deep(d, p) - 1}
    BY OpenGrows
  <2>2. Open(d, q) = {r \in Open(d, p) : r < q}
    BY <1>1, OpenThere
  <2>3. /\ \A r \in Open(d, p) : r \in 1 .. Len(d) /\ Deep(d, r) \in 0 .. Deep(d, p) - 1
        /\ \A r, s \in Open(d, p) : r < s => Deep(d, r) < Deep(d, s)
    BY <1>1, OpenDepths
  <2>4. ASSUME NEW r \in Open(d, p)
        PROVE  (Deep(d, r) # Deep(d, p) - 1 <=> r # q) /\ (r < q <=> r # q)
    <3>1. r \in Int /\ q \in Int /\ Deep(d, r) \in Int /\ Deep(d, r) <= Deep(d, q)
          /\ Deep(d, q) \in Int
      BY <1>2, <1>3, <2>3
    <3>2. r < q => Deep(d, r) < Deep(d, q)
      BY <2>3
    <3>3. q < r => Deep(d, q) < Deep(d, r)
      BY <2>3
    <3> QED BY <1>3, <3>1, <3>2, <3>3
  <2> QED BY <2>1, <2>2, <2>4
<1>9. /\ stack[Deep(d, p) - 1] = ParentAt(d, q)
      /\ list[ParentAt(d, q)].firstChild = 1 + Num(d, Opens, q)
  BY <1>3 DEF Tree, OpenKept
<1>10. ParentAt(d, p + 1) = ParentAt(d, q)
  BY <1>8 DEF ParentAt
<1>11. ParentAt(d, q) \in 0 .. n
  <2>1. ParentAt(d, q) \in 0 .. Num(d, Opens, q)
    BY <1>6, ParentThere
  <2> QED BY <1>6, <2>1
<1>12. Chained(new, n)
  <2>1. Chained(list, n)
    BY DEF Tree
  <2>2. \A e \in 1 .. n : e \in 0 .. n
    OBVIOUS
  <2>3. ASSUME NEW m \in 0 .. n, NEW x, NEW c, IsLast(list, x, c, m)
        PROVE  IsLast(new, x, c, m)
    <3>1. /\ x \in 0 .. m /\ (x # 0 => list[x].parent = c)
          /\ \A e \in x + 1 .. m : list[e].parent # c
      BY <2>3 DEF IsLast
    <3>2. x \in 0 .. n /\ \A e \in x + 1 .. m : e \in 0 .. n
      BY <3>1
    <3> QED BY <1>0, <3>1, <3>2 DEF IsLast
  <2>4. ASSUME NEW e \in 1 .. n
        PROVE  new[e].parent \in 0 .. e - 1 /\ IsLast(new, new[e].nextSibling, new[e].parent, e - 1)
    <3>1. list[e].parent \in 0 .. e - 1 /\ IsLast(list, list[e].nextSibling, list[e].parent, e - 1)
      BY <2>1 DEF Chained
    <3>2. e - 1 \in 0 .. n
      OBVIOUS
    <3> QED BY <1>0, <2>2, <2>3, <3>1, <3>2
  <2>5. ASSUME NEW c \in 0 .. n
        PROVE  IsLast(new, new[c].firstChild, c, n)
    <3>1. IsLast(list, list[c].firstChild, c, n)
      BY <2>1 DEF Chained
    <3>2. n \in 0 .. n
      OBVIOUS
    <3> QED BY <1>0, <2>3, <3>1, <3>2
  <2> QED BY <2>4, <2>5 DEF Chained
<1>13. OpenKept(d, p + 1, new, stack)
  <2> SUFFICES ASSUME NEW r \in Open(d, p + 1)
               PROVE  /\ stack[Deep(d, r)] = ParentAt(d, r)
                      /\ new[ParentAt(d, r)].firstChild = 1 + Num(d, Opens, r)
    BY DEF OpenKept
  <2>1. r \in Open(d, p) /\ r \in Cut(At(d, Opens), p)
    BY <1>8 DEF Open
  <2>2. r \in 1 .. Len(d) + 1 /\ Num(d, Opens, r) \in Nat /\ Num(d, Opens, r) < n
    BY <1>1, <2>1, NumbersBefore
  <2>3. ParentAt(d, r) \in 0 .. Num(d, Opens, r)
    BY <2>2, ParentThere
  <2>4. ParentAt(d, r) \in 0 .. n
    BY <2>2, <2>3
  <2> QED BY <1>0, <2>1, <2>4 DEF Tree, OpenKept
<1>14. Recorded(d, p + 1, new)
  <2> SUFFICES ASSUME NEW r \in Cut(At(d, Opens), p + 1)
               PROVE  LET c == new[1 + Num(d, Opens, r)] IN
                      /\ c.parent = ParentAt(d, r) /\ c.firstReportItem = Num(d, DataTags, r)
                      /\ r \notin Open(d, p + 1) => c.reportItems = Cardinality(Inside(d, r))
    BY DEF Recorded
  <2>1. r \in Cut(At(d, Opens), p)
    BY CutGrows DEF Opens
  <2>2. Num(d, Opens, r) \in Nat /\ Num(d, Opens, r) < n /\ r \in 1 .. Len(d) /\ r \in At(d, Opens)
    BY <1>1, <2>1, NumbersBefore
  <2>3. 1 + Num(d, Opens, r) \in 0 .. n
    BY <2>2
  <2>4. /\ list[1 + Num(d, Opens, r)].parent = ParentAt(d, r)
        /\ list[1 + Num(d, Opens, r)].firstReportItem = Num(d, DataTags, r)
        /\ r \notin Open(d, p) =>
             list[1 + Num(d, Opens, r)].reportItems = Cardinality(Inside(d, r))
    BY <2>1 DEF Tree, Recorded
  <2>5. CASE r = q
    <3>1. Deep(d, p + 1) = Deep(d, q)
      BY <1>2, <1>3
    <3>2. Cardinality(Inside(d, q)) = Num(d, DataTags, p) - Num(d, DataTags, q)
      BY <3>1, InsideClosed
    <3>3. Num(d, DataTags, p) - Num(d, DataTags, q) \in 0 .. 255
      <4>1. Len(d) \in Nat /\ At(d, DataTags) \in SUBSET (1 .. Len(d)) /\ q \in 1 .. Len(d) + 1
            /\ p \in q .. Len(d) + 1
        BY <1>6, Descriptor
      <4>2. Num(d, DataTags, q) <= Num(d, DataTags, p) /\ Num(d, DataTags, q) \in Nat
            /\ Num(d, DataTags, p) \in Nat
        BY <4>1, UptoRises DEF Num
      <4>3. Num(d, DataTags, p) \in 0 .. Cardinality(At(d, DataTags))
            /\ Cardinality(At(d, DataTags)) \in Nat
        BY <1>1, CountsBelow, CountsEnd
      <4>4. Cardinality(At(d, DataTags)) <= 254
        BY FewReportItems
      <4>5. PICK a, b, c \in Nat : /\ a = Num(d, DataTags, q) /\ b = Num(d, DataTags, p)
                                   /\ c = Cardinality(At(d, DataTags))
        BY <4>2, <4>3
      <4>6. a <= b /\ b <= c /\ c <= 254
        BY <4>2, <4>3, <4>4, <4>5
      <4>7. b - a \in 0 .. 255
        BY <4>6
      <4> QED BY <4>5, <4>7
    <3>4. PICK m \in 0 .. 255 : m = Num(d, DataTags, p) - Num(d, DataTags, q)
      BY <3>3
    <3>5. Byte(m) = m
      BY Fits
    <3>6. new[parent].reportItems = Byte(m)
      BY <1>0, <1>4, <2>4, <2>5, <3>4
    <3> QED BY <1>0, <1>4, <2>3, <2>4, <2>5, <3>2, <3>4, <3>5, <3>6
  <2>6. CASE r # q
    <3>1. 1 + Num(d, Opens, r) # parent
      <4>1. CASE r < q
        <5>1. q \in r + 1 .. Len(d) + 1 /\ Len(d) \in Nat /\ At(d, Opens) \in SUBSET (1 .. Len(d))
          BY <1>6, <2>2, <4>1, Descriptor
        <5>2. Num(d, Opens, r) < Num(d, Opens, q)
          BY <2>2, <5>1, UptoPasses DEF Num
        <5> QED BY <1>4, <1>6, <2>2, <5>2
      <4>2. CASE q < r
        <5>1. r \in q + 1 .. Len(d) + 1 /\ Len(d) \in Nat /\ At(d, Opens) \in SUBSET (1 .. Len(d))
          BY <1>6, <2>2, <4>2, Descriptor
        <5>2. Num(d, Opens, q) < Num(d, Opens, r)
          BY <1>6, <5>1, UptoPasses DEF Num
        <5> QED BY <1>4, <1>6, <2>2, <5>2
      <4>3. r \in Int /\ q \in Int
        BY <1>6, <2>2
      <4> QED BY <2>6, <4>1, <4>2, <4>3
    <3>2. r \notin Open(d, p + 1) => r \notin Open(d, p)
      BY <1>8, <2>6
    <3> QED BY <1>0, <2>3, <2>4, <3>1, <3>2
  <2> QED BY <2>5, <2>6
<1>15. Numbered(d, p + 1)
  <2>1. Cut(At(d, Opens), p) \in SUBSET Cut(At(d, Opens), p + 1)
    BY CutGrows
  <2>2. Numbered(d, p) /\ Num(d, Opens, p + 1) = Num(d, Opens, p)
    BY <1>7 DEF Tree
  <2> QED BY <2>1, <2>2 DEF Numbered
<1>16. ItemsPlaced(d, p + 1, items)
  <2>1. \A r \in Cut(At(d, DataTags), p + 1) : r \in Cut(At(d, DataTags), p)
    BY CutGrows DEF DataTags
  <2> QED BY <2>1 DEF Tree, ItemsPlaced
<1>17. new[stack[Deep(d, p) - 1]].firstChild = parent
  BY <1>0, <1>4, <1>9, <1>11
<1> QED BY <1>7, <1>9, <1>10, <1>12, <1>13, <1>14, <1>15, <1>16, <1>17 DEF Tree

\* The parse began with no collection open, and the list has the fields there are.
Calm == found.parent = 0 /\ found.sibling = 0
CollectionFields ==
  {"data", "usagePage", "firstUsageItem", "usageItems", "firstReportItem", "reportItems",
   "parent", "firstChild", "nextSibling"}
ListShape == \A e \in DOMAIN collectionList : DOMAIN collectionList[e] = CollectionFields

TreeInv ==
  phase \in {"fill", "parsed"} /\ Calm =>
    /\ ListShape
    /\ Tree(descriptor, at, info.parent, info.sibling, collectionList, collectionStack, reportItemList)
Ended ==
  phase = "parsed" =>
    Balanced(descriptor) /\ DOMAIN collectionList = 0 .. Cardinality(At(descriptor, Opens))

\* Before the first item there is no tree.
LEMMA TreeBegins ==
  ASSUME ParserInv, Allocate, phase' = "fill"
  PROVE  TreeInv'
<1>1. /\ phase = "count" /\ atEnd /\ descriptor \in Descriptors /\ descriptor' = descriptor
      /\ found' = found /\ InfoShape /\ CountsItems /\ KeepsFound
      /\ at = Len(descriptor) + 1
  BY Descriptor DEF Allocate, AtItem, atEnd, ParserInv, CountInv
<1>2. /\ at' = 1 /\ info' = InitDeviceRptInfo(info)
      /\ collectionList' = Room(info.collections, NewCollection)
  BY DEF Allocate, Return
<1>3. info'.parent = info.parent /\ info'.sibling = info.sibling
  BY <1>1, <1>2, InitShape
<1>4. info.collections \in Nat \ {0}
  <2>1. info.collections = 1 + Num(descriptor, {"Collection"}, at)
    BY <1>1 DEF CountsItems
  <2>2. Num(descriptor, {"Collection"}, at) \in Nat
    BY <1>1, CountsEnd
  <2> QED BY <2>1, <2>2
<1>5. /\ \A e \in DOMAIN collectionList' : collectionList'[e] = NewCollection
      /\ collectionList'[0] = NewCollection
  BY <1>2, <1>4 DEF Room
<1>6. ListShape'
  BY <1>5 DEF ListShape, NewCollection, CollectionFields
<1>7. PICK d \in Descriptors : d = descriptor
  BY <1>1
<1>8. PICK list : list = collectionList'
  OBVIOUS
<1>9. list[0].firstChild = 0
  BY <1>5, <1>8 DEF NewCollection
<1>10. \A tags : Cut(At(d, tags), 1) = {} /\ Num(d, tags, 1) = 0
  <2>1. \A tags : At(d, tags) \in SUBSET (1 .. Len(d))
    BY Descriptor
  <2>2. \A tags : \A q \in At(d, tags) : ~(q < 1)
    BY <2>1
  <2>3. \A tags : Num(d, tags, 1) = 0
    BY CountsEnd
  <2> QED BY <2>2, <2>3 DEF Cut
<1>11. Open(d, 1) = {} /\ ParentAt(d, 1) = 0
  BY <1>10 DEF Open, ParentAt
<1>12. Chained(list, 0)
  <2>1. IsLast(list, 0, 0, 0)
    BY DEF IsLast
  <2>2. \A c \in 0 .. 0 : c = 0
    OBVIOUS
  <2> QED BY <1>9, <2>1, <2>2 DEF Chained
<1>13. ASSUME NEW stack, NEW items
       PROVE  Tree(d, 1, 0, 0, list, stack, items)
  <2>1. Numbered(d, 1)
    BY <1>10 DEF Numbered
  <2> QED BY <1>9, <1>10, <1>11, <1>12, <2>1 DEF Tree, OpenKept, Recorded, ItemsPlaced
<1>14. ASSUME Calm'
       PROVE  Tree(d, 1, info'.parent, info'.sibling, list, collectionStack', reportItemList')
  <2>1. info'.parent = 0 /\ info'.sibling = 0
    BY <1>1, <1>3, <1>14 DEF Calm, KeepsFound
  <2> QED BY <1>13, <2>1
<1> QED BY <1>1, <1>2, <1>6, <1>7, <1>8, <1>14 DEF TreeInv

\* An item that has nothing to do with the tree, or at which the parser gives up.
LEMMA QuietTree ==
  ASSUME ParserInv, TreeInv, phase = "fill", ~atEnd, UNCHANGED <<descriptor, found>>,
         item.tag \notin {"Collection", "EndCollection"} \cup DataTags,
         \/ phase' \in {"idle", "overrun"}
         \/ /\ at' = at + 1 /\ info'.parent = info.parent /\ info'.sibling = info.sibling
            /\ UNCHANGED <<collectionList, collectionStack, reportItemList>>
  PROVE  TreeInv'
<1>1. CASE phase' \in {"idle", "overrun"}
  BY <1>1 DEF TreeInv
<1>2. CASE /\ at' = at + 1 /\ info'.parent = info.parent /\ info'.sibling = info.sibling
           /\ UNCHANGED <<collectionList, collectionStack, reportItemList>>
  <2> SUFFICES ASSUME Calm
               PROVE  /\ ListShape'
                      /\ Tree(descriptor', at', info'.parent, info'.sibling, collectionList',
                              collectionStack', reportItemList')
    BY DEF TreeInv, Calm
  <2>1. /\ descriptor \in Descriptors /\ at \in 1 .. Len(descriptor) /\ Balanced(descriptor)
    BY ItemThere DEF ParserInv, Rooms
  <2>2. /\ ListShape
        /\ Tree(descriptor, at, info.parent, info.sibling, collectionList, collectionStack,
                reportItemList)
    BY DEF TreeInv
  <2>3. descriptor[at].tag \notin {"Collection", "EndCollection"} /\ descriptor[at].tag \notin DataTags
    BY DEF item
  <2>4. Tree(descriptor, at + 1, info.parent, info.sibling, collectionList, collectionStack,
             reportItemList)
    BY <2>1, <2>2, <2>3, TreeStays
  <2>5. ListShape'
    BY <1>2, <2>2 DEF ListShape
  <2> QED BY <1>2, <2>4, <2>5
<1> QED BY <1>1, <1>2

\* The items that have nothing to do with the tree.
LEMMA QuietItems ==
  ASSUME InfoShape, GlobalItem \/ ReportIDItem \/ Push \/ Pop \/ Index \/ Minimum \/ Maximum
                      \/ OtherItem
  PROVE  /\ phase = "fill" /\ ~atEnd
         /\ item.tag \notin {"Collection", "EndCollection"} \cup DataTags
         /\ \/ phase' \in {"idle", "overrun"}
            \/ /\ at' = at + 1 /\ info'.parent = info.parent /\ info'.sibling = info.sibling
               /\ UNCHANGED <<collectionList, collectionStack, reportItemList>>
<1> DEFINE Goal ==
      \/ phase' \in {"idle", "overrun"}
      \/ /\ at' = at + 1 /\ info'.parent = info.parent /\ info'.sibling = info.sibling
         /\ UNCHANGED <<collectionList, collectionStack, reportItemList>>
<1>1. phase = "fill" /\ ~atEnd /\ item.tag \notin {"Collection", "EndCollection"} \cup DataTags
  BY DEF GlobalItem, ReportIDItem, Push, Pop, Index, Minimum, Maximum, OtherItem, Filling, DataTags
<1>2. \A error : Proceed(error) => at' = at + 1 \/ phase' = "idle"
  BY DEF Proceed, Return
<1>3. ASSUME Overrun
      PROVE  Goal
  BY <1>3 DEF Overrun
<1>4. DOMAIN info = InfoFields
  BY DEF InfoShape
<1>5. ASSUME GlobalItem
      PROVE  Goal
  <2>1. /\ \E error : Proceed(error)
        /\ UNCHANGED <<collectionList, collectionStack, reportItemList>>
    BY <1>5 DEF GlobalItem, tables
  <2>2. PICK g : info' = [info EXCEPT !.globals = g]
    BY <1>5 DEF GlobalItem
  <2>3. info'.parent = info.parent /\ info'.sibling = info.sibling
    BY <1>4, <2>2 DEF InfoFields
  <2> QED BY <1>2, <2>1, <2>3
<1>6. ASSUME ReportIDItem
      PROVE  Goal
  <2>1. CASE item.data = 0
    <3>1. Proceed("ZeroReportID") /\ UNCHANGED <<info, tables>>
      BY <1>6, <2>1 DEF ReportIDItem
    <3> QED BY <1>2, <3>1 DEF tables
  <2>2. CASE item.data # 0
    <3>1. CASE Overrun
      BY <1>3, <3>1
    <3>2. CASE ~Overrun
      <4>1. info' = [info EXCEPT !.reports = IF ReportIndex = @ THEN Byte(@ + 1) ELSE @,
                       !.globals.reportID = Byte(item.data), !.globals.reportIndex = ReportIndex]
        BY <1>6, <2>2, <3>2 DEF ReportIDItem
      <4>2. Proceed("none") /\ UNCHANGED <<collectionList, collectionStack, reportItemList>>
        BY <1>6, <2>2, <3>2 DEF ReportIDItem
      <4>3. info'.parent = info.parent /\ info'.sibling = info.sibling
        BY <1>4, <4>1 DEF InfoFields
      <4> QED BY <1>2, <4>2, <4>3
    <3> QED BY <3>1, <3>2
  <2> QED BY <2>1, <2>2
<1>7. ASSUME Push
      PROVE  Goal
  <2>1. CASE Overrun
    BY <1>3, <2>1
  <2>2. CASE ~Overrun
    <3>1. /\ info' = [info EXCEPT !.globalsNesting = Byte(@ + 1)] /\ Proceed("none")
          /\ UNCHANGED <<collectionList, collectionStack, reportItemList>>
      BY <1>7, <2>2 DEF Push
    <3>2. info'.parent = info.parent /\ info'.sibling = info.sibling
      BY <1>4, <3>1 DEF InfoFields
    <3> QED BY <1>2, <3>1, <3>2
  <2> QED BY <2>1, <2>2
<1>8. ASSUME Pop
      PROVE  Goal
  <2>1. /\ info' = [info EXCEPT !.globals = globalsStack[info.globalsNesting - 1],
                                !.globalsNesting = @ - 1]
        /\ Proceed("none") /\ UNCHANGED <<collectionList, collectionStack, reportItemList>>
    BY <1>8 DEF Pop, tables
  <2>2. info'.parent = info.parent /\ info'.sibling = info.sibling
    BY <1>4, <2>1 DEF InfoFields
  <2> QED BY <1>2, <2>1, <2>2
<1>9. ASSUME NEW entry, NEW n, NEW error, AddItem(entry, n, error), DOMAIN n = InfoFields,
             n.parent = info.parent, n.sibling = info.sibling
      PROVE  Goal
  <2>1. CASE Overrun
    BY <1>3, <2>1
  <2>2. CASE ~Overrun
    <3>1. /\ info' = [n EXCEPT !.items[item.kind] = Byte(@ + 1)] /\ Proceed(error)
          /\ UNCHANGED <<collectionList, collectionStack, reportItemList>>
      BY <1>9, <2>2 DEF AddItem
    <3>2. info'.parent = n.parent /\ info'.sibling = n.sibling
      BY <1>9, <3>1 DEF InfoFields
    <3> QED BY <1>2, <1>9, <3>1, <3>2
  <2> QED BY <2>1, <2>2
<1>10. ASSUME Index
       PROVE  Goal
  BY <1>4, <1>9, <1>10 DEF Index
<1>11. ASSUME NEW low, NEW high, NEW error, AddRange(low, high, error)
       PROVE  Goal
  <2> DEFINE n == [info EXCEPT !.haveMin[item.kind] = FALSE, !.haveMax[item.kind] = FALSE]
  <2>1. PICK entry, e : AddItem(entry, n, e)
    BY <1>11 DEF AddRange
  <2>2. DOMAIN n = InfoFields /\ n.parent = info.parent /\ n.sibling = info.sibling
    BY <1>4 DEF InfoFields
  <2> HIDE DEF n
  <2> QED BY <1>9, <2>1, <2>2
<1>12. ASSUME Minimum
       PROVE  Goal
  <2>1. CASE info.haveMax[item.kind]
    BY <1>11, <1>12, <2>1 DEF Minimum
  <2>2. CASE ~info.haveMax[item.kind]
    <3>1. /\ info' = [info EXCEPT !.minimum[item.kind] = ValueOf(item),
                        !.haveMin[item.kind] = TRUE, !.rangeUsagePage = RangePage]
          /\ Proceed("none") /\ UNCHANGED <<collectionList, collectionStack, reportItemList>>
      BY <1>12, <2>2 DEF Minimum, tables
    <3>2. info'.parent = info.parent /\ info'.sibling = info.sibling
      BY <1>4, <3>1 DEF InfoFields
    <3> QED BY <1>2, <3>1, <3>2
  <2> QED BY <2>1, <2>2
<1>13. ASSUME Maximum
       PROVE  Goal
  <2>1. CASE info.haveMin[item.kind]
    BY <1>11, <1>13, <2>1 DEF Maximum
  <2>2. CASE ~info.haveMin[item.kind]
    <3>1. /\ info' = [info EXCEPT !.maximum[item.kind] = ValueOf(item),
                        !.haveMax[item.kind] = TRUE, !.rangeUsagePage = RangePage]
          /\ Proceed("none") /\ UNCHANGED <<collectionList, collectionStack, reportItemList>>
      BY <1>13, <2>2 DEF Maximum, tables
    <3>2. info'.parent = info.parent /\ info'.sibling = info.sibling
      BY <1>4, <3>1 DEF InfoFields
    <3> QED BY <1>2, <3>1, <3>2
  <2> QED BY <2>1, <2>2
<1>14. ASSUME OtherItem
       PROVE  Goal
  BY <1>2, <1>14 DEF OtherItem, tables
<1> QED BY <1>1, <1>5, <1>6, <1>7, <1>8, <1>10, <1>12, <1>13, <1>14

\* A report item lies in the collection that is open.
LEMMA ReportItemTree ==
  ASSUME ParserInv, TreeInv, ReportItem, UNCHANGED <<descriptor, found>>
  PROVE  TreeInv'
<1>0. PICK error : ReportType(error)
  BY DEF ReportItem
<1>1. phase = "fill" /\ ~atEnd /\ item.tag \in DataTags /\ InfoShape
  BY <1>0 DEF ReportType, Filling, ParserInv
<1>2. /\ descriptor \in Descriptors /\ at \in 1 .. Len(descriptor) /\ Balanced(descriptor)
      /\ info.reportItems = Num(descriptor, DataTags, at) /\ Num(descriptor, DataTags, at) \in Nat
  BY <1>1, ItemThere DEF ParserInv, Rooms, FillCounts
<1>3. CASE phase' \in {"idle", "overrun"}
  BY <1>3 DEF TreeInv
<1>4. CASE phase' \notin {"idle", "overrun"}
  <2> DEFINE i == info.reportItems
  <2>1. error = "none" /\ i \in DOMAIN reportItemList
    BY <1>0, <1>4 DEF ReportType, Proceed, Return, Overrun
  <2>2. PICK e : e.parent = info.parent /\ reportItemList' = [reportItemList EXCEPT ![i] = e]
    <3> DEFINE e == [reportType |-> item.tag, globals |-> info.globals, parent |-> info.parent,
                     startBit |-> Byte(reportList[info.globals.reportIndex][item.tag]),
                     dataModes |-> item.data, first |-> info.first,
                     items |-> [k \in Kinds |-> Byte(info.items[k] - info.first[k])]]
    <3>1. reportItemList' = [reportItemList EXCEPT ![i] = e]
      BY <1>0, <2>1 DEF ReportType
    <3>2. e.parent = info.parent
      OBVIOUS
    <3> HIDE DEF e, i
    <3> QED BY <3>1, <3>2
  <2>3. /\ at' = at + 1 /\ UNCHANGED <<collectionList, collectionStack>>
        /\ info' = [info EXCEPT !.reportItems = Byte(@ + 1), !.first = info.items]
    BY <1>0, <2>1 DEF ReportType, Proceed
  <2>4. info'.parent = info.parent /\ info'.sibling = info.sibling
    BY <1>1, <2>3 DEF InfoShape, InfoFields
  <2> SUFFICES ASSUME Calm
               PROVE  /\ ListShape'
                      /\ Tree(descriptor', at', info'.parent, info'.sibling, collectionList',
                              collectionStack', reportItemList')
    BY DEF TreeInv, Calm
  <2>5. /\ ListShape
        /\ Tree(descriptor, at, info.parent, info.sibling, collectionList, collectionStack,
                reportItemList)
    BY <1>1 DEF TreeInv
  <2>6. descriptor[at].tag \notin {"Collection", "EndCollection"}
    BY <1>1 DEF item, DataTags
  <2>7. PICK new : new = reportItemList'
    OBVIOUS
  <2>8. /\ \A j \in 0 .. Num(descriptor, DataTags, at) - 1 : new[j].parent = reportItemList[j].parent
        /\ new[Num(descriptor, DataTags, at)].parent = info.parent
    <3>1. \A j \in 0 .. Num(descriptor, DataTags, at) - 1 : j # i
      BY <1>2
    <3> QED BY <1>2, <2>1, <2>2, <2>7, <3>1
  <2>9. Tree(descriptor, at + 1, info.parent, info.sibling, collectionList, collectionStack, new)
    BY <1>2, <2>5, <2>6, <2>8, TreeStays
  <2>10. ListShape'
    BY <2>3, <2>5 DEF ListShape
  <2> QED BY <2>3, <2>4, <2>7, <2>9, <2>10
<1> QED BY <1>3, <1>4

\* A collection that is opened becomes the last child of the one around it.
LEMMA CollectionTree ==
  ASSUME ParserInv, TreeInv, Countable(descriptor), Collection, UNCHANGED <<descriptor, found>>
  PROVE  TreeInv'
<1> DEFINE i == info.collections
           level == info.collectionNesting
<1>1. phase = "fill" /\ ~atEnd /\ item.tag = "Collection" /\ AtItem /\ FillInv /\ InfoShape
  BY DEF Collection, Filling, ParserInv
<1>2. /\ descriptor \in Descriptors /\ at \in 1 .. Len(descriptor) /\ Balanced(descriptor)
      /\ i = 1 + Num(descriptor, {"Collection"}, at) /\ Num(descriptor, {"Collection"}, at) \in Nat
      /\ Num(descriptor, {"Collection"}, at) < Cardinality(At(descriptor, {"Collection"}))
      /\ level = Deep(descriptor, at) /\ info.reportItems = Num(descriptor, DataTags, at)
      /\ DOMAIN collectionList = 0 .. Cardinality(At(descriptor, {"Collection"}))
      /\ Cardinality(At(descriptor, {"Collection"})) \in Nat
  BY <1>1, ItemThere DEF Rooms, FillCounts
<1>3. /\ level \in Nat /\ level \in DOMAIN collectionStack /\ i \in DOMAIN collectionList
  BY <1>1, NestingThere
<1>4. CASE phase' \in {"idle", "overrun"}
  BY <1>4 DEF TreeInv
<1>5. CASE phase' \notin {"idle", "overrun"}
  <2> SUFFICES ASSUME Calm
               PROVE  /\ ListShape'
                      /\ Tree(descriptor', at', info'.parent, info'.sibling, collectionList',
                              collectionStack', reportItemList')
    BY DEF TreeInv, Calm
  <2>1. /\ ListShape
        /\ Tree(descriptor, at, info.parent, info.sibling, collectionList, collectionStack,
                reportItemList)
    BY <1>1 DEF TreeInv
  <2>2. PICK n \in Nat : n = Num(descriptor, Opens, at) /\ i = n + 1
    BY <1>2 DEF Opens
  <2>3. info.parent \in 0 .. n /\ info.parent \in DOMAIN collectionList
    <3>1. info.parent \in 0 .. n
      <4>1. at \in 1 .. Len(descriptor) + 1
        BY <1>2
      <4> QED BY <1>2, <2>1, <2>2, <4>1, ParentThere DEF Tree
    <3>2. n <= Cardinality(At(descriptor, {"Collection"}))
      BY <1>2, <2>2 DEF Opens
    <3> QED BY <1>2, <3>1, <3>2
  <2>4. ~Overrun
    BY <1>5 DEF Overrun
  <2>5. PICK c : /\ DOMAIN c = CollectionFields /\ c.firstReportItem = info.reportItems
                 /\ c.parent = info.parent /\ c.firstChild = 0 /\ c.nextSibling = info.sibling
                 /\ collectionList' = [collectionList EXCEPT ![i] = c, ![info.parent].firstChild = i]
    <3> DEFINE c == [data |-> item.data, usagePage |-> info.globals.usagePage,
                     firstUsageItem |-> info.first.usage,
                     usageItems |-> Byte(info.items.usage - info.first.usage),
                     firstReportItem |-> info.reportItems, reportItems |-> 0,
                     parent |-> info.parent, firstChild |-> 0, nextSibling |-> info.sibling]
    <3>1. collectionList' = [collectionList EXCEPT ![i] = c, ![info.parent].firstChild = i]
      BY <2>4 DEF Collection
    <3>2. /\ DOMAIN c = CollectionFields /\ c.firstReportItem = info.reportItems
          /\ c.parent = info.parent /\ c.firstChild = 0 /\ c.nextSibling = info.sibling
      BY DEF CollectionFields
    <3> HIDE DEF c
    <3> QED BY <3>1, <3>2
  <2>6. /\ collectionStack' = [collectionStack EXCEPT ![level] = info.parent]
        /\ info' = [info EXCEPT !.collections = Byte(@ + 1), !.first = UsagesTaken,
                      !.sibling = 0, !.collectionNesting = Byte(@ + 1), !.parent = i]
        /\ at' = at + 1 /\ reportItemList' = reportItemList
    BY <2>4 DEF Collection, Proceed
  <2>7. info'.parent = i /\ info'.sibling = 0
    BY <1>1, <2>6 DEF InfoShape, InfoFields
  <2>8. PICK new : new = collectionList'
    OBVIOUS
  <2>9. i # info.parent /\ i \notin 0 .. n
    BY <2>2, <2>3
  <2>10. /\ DOMAIN new = DOMAIN collectionList /\ new[i] = c
         /\ new[info.parent] = [collectionList[info.parent] EXCEPT !.firstChild = i]
         /\ \A e \in DOMAIN collectionList : e \notin {i, info.parent} => new[e] = collectionList[e]
    BY <1>3, <2>3, <2>5, <2>8, <2>9
  <2>11. DOMAIN collectionList[info.parent] = CollectionFields
    BY <2>1, <2>3 DEF ListShape
  <2>12. /\ DOMAIN new[info.parent] = CollectionFields
         /\ new[info.parent].firstChild = i
         /\ \A f \in CollectionFields \ {"firstChild"} :
              new[info.parent][f] = collectionList[info.parent][f]
    BY <2>10, <2>11 DEF CollectionFields
  <2>13. ListShape'
    BY <2>1, <2>5, <2>8, <2>10, <2>12 DEF ListShape
  <2>14. \A e \in 0 .. n :
           /\ new[e].parent = collectionList[e].parent
           /\ new[e].nextSibling = collectionList[e].nextSibling
           /\ new[e].firstReportItem = collectionList[e].firstReportItem
           /\ new[e].reportItems = collectionList[e].reportItems
           /\ e # info.parent => new[e].firstChild = collectionList[e].firstChild
    <3> SUFFICES ASSUME NEW e \in 0 .. n
                 PROVE  /\ new[e].parent = collectionList[e].parent
                        /\ new[e].nextSibling = collectionList[e].nextSibling
                        /\ new[e].firstReportItem = collectionList[e].firstReportItem
                        /\ new[e].reportItems = collectionList[e].reportItems
                        /\ e # info.parent => new[e].firstChild = collectionList[e].firstChild
      OBVIOUS
    <3>1. CASE e = info.parent
      BY <2>12, <3>1 DEF CollectionFields
    <3>2. CASE e # info.parent
      <4>1. e \in DOMAIN collectionList /\ e # i
        <5>1. n <= Cardinality(At(descriptor, {"Collection"}))
          BY <1>2, <2>2 DEF Opens
        <5> QED BY <1>2, <2>9, <5>1
      <4> QED BY <2>10, <3>2, <4>1
    <3> QED BY <3>1, <3>2
  <2>15. descriptor[at].tag = "Collection"
    BY <1>1 DEF item
  <2>16. PICK newStack : newStack = collectionStack'
    OBVIOUS
  <2>17. /\ newStack[Deep(descriptor, at)] = info.parent
         /\ \A j \in 0 .. Deep(descriptor, at) - 1 : newStack[j] = collectionStack[j]
    <3>1. \A j \in 0 .. level - 1 : j # level
      BY <1>3
    <3>2. newStack[level] = info.parent
          /\ \A j \in 0 .. level - 1 : newStack[j] = collectionStack[j]
      <4>1. ASSUME NEW j \in 0 .. level - 1
            PROVE  newStack[j] = collectionStack[j]
        <5>1. j # level
          BY <3>1
        <5>2. j \in DOMAIN collectionStack
          <6>1. /\ \A q \in 1 .. Len(descriptor) + 1 :
                     \A h \in 0 .. Deep(descriptor, q) - 1 : h \in DOMAIN collectionStack
                /\ at \in 1 .. Len(descriptor) + 1
            <7>1. at \in 1 .. Len(descriptor) + 1
              BY <1>1 DEF AtItem
            <7>2. Rooms
              BY <1>1, ItemThere
            <7> QED BY <7>1, <7>2 DEF Rooms
          <6>2. \A h \in 0 .. Deep(descriptor, at) - 1 : h \in DOMAIN collectionStack
            BY <6>1
          <6> QED BY <1>2, <6>2
        <5> QED BY <2>6, <2>16, <5>1, <5>2
      <4>2. newStack[level] = info.parent
        BY <1>3, <2>6, <2>16
      <4> QED BY <4>1, <4>2
    <3> QED BY <1>2, <3>2
  <2>18. /\ new[info.parent].firstChild = n + 1 /\ new[n + 1].firstChild = 0
         /\ new[n + 1].parent = info.parent /\ new[n + 1].nextSibling = info.sibling
         /\ new[n + 1].firstReportItem = Num(descriptor, DataTags, at)
    BY <1>2, <2>2, <2>5, <2>10, <2>12
  <2>19. Opened(descriptor, at, n, info.parent, info.sibling, collectionList, new)
    BY <2>14, <2>18 DEF Opened
  <2> HIDE DEF i, level
  <2>20. Tree(descriptor, at + 1, n + 1, 0, new, newStack, reportItemList)
    BY <1>2, <2>1, <2>2, <2>15, <2>17, <2>19, TreeOpens
  <2> QED BY <2>2, <2>6, <2>7, <2>8, <2>13, <2>16, <2>20
<1> QED BY <1>4, <1>5

\* A collection that is closed has its report items, and gives way to the one around it.
LEMMA EndCollectionTree ==
  ASSUME ParserInv, TreeInv, Countable(descriptor), EndCollection, UNCHANGED <<descriptor, found>>
  PROVE  TreeInv'
<1> DEFINE level == info.collectionNesting
<1>1. phase = "fill" /\ ~atEnd /\ item.tag = "EndCollection" /\ AtItem /\ FillInv /\ InfoShape
  BY DEF EndCollection, Filling, ParserInv
<1>2. /\ descriptor \in Descriptors /\ at \in 1 .. Len(descriptor) /\ Balanced(descriptor)
      /\ Num(descriptor, {"Collection"}, at) \in Nat
      /\ Num(descriptor, {"Collection"}, at) <= Cardinality(At(descriptor, {"Collection"}))
      /\ level = Deep(descriptor, at) /\ info.reportItems = Num(descriptor, DataTags, at)
      /\ DOMAIN collectionList = 0 .. Cardinality(At(descriptor, {"Collection"}))
      /\ Cardinality(At(descriptor, {"Collection"})) \in Nat
  <2>1. at \in 1 .. Len(descriptor) + 1 /\ descriptor \in Descriptors
    BY <1>1, ItemThere DEF AtItem
  <2>2. Num(descriptor, {"Collection"}, at) \in 0 .. Cardinality(At(descriptor, {"Collection"}))
        /\ Cardinality(At(descriptor, {"Collection"})) \in Nat
    BY <2>1, CountsBelow, CountsEnd
  <2> QED BY <1>1, <2>2, ItemThere DEF Rooms, FillCounts
<1> SUFFICES ASSUME Calm
             PROVE  /\ ListShape'
                    /\ Tree(descriptor', at', info'.parent, info'.sibling, collectionList',
                            collectionStack', reportItemList')
  BY DEF TreeInv, Calm
<1>3. /\ ListShape
      /\ Tree(descriptor, at, info.parent, info.sibling, collectionList, collectionStack,
              reportItemList)
  BY <1>1 DEF TreeInv
<1>4. PICK n \in Nat : n = Num(descriptor, Opens, at)
  BY <1>2 DEF Opens
<1>5. info.parent \in 0 .. n /\ info.parent \in DOMAIN collectionList
  <2>1. info.parent \in 0 .. n
    <3>1. at \in 1 .. Len(descriptor) + 1
      BY <1>2
    <3> QED BY <1>2, <1>3, <1>4, <3>1, ParentThere DEF Tree
  <2>2. n <= Cardinality(At(descriptor, {"Collection"}))
    BY <1>2, <1>4 DEF Opens
  <2> QED BY <1>2, <2>1, <2>2
<1>6. /\ collectionList' = [collectionList EXCEPT ![info.parent].reportItems =
           Byte(info.reportItems - collectionList[info.parent].firstReportItem)]
      /\ info' = [info EXCEPT !.collectionNesting = @ - 1, !.sibling = info.parent,
                    !.parent = collectionStack[info.collectionNesting - 1]]
      /\ at' = at + 1 /\ UNCHANGED <<reportItemList, collectionStack>>
  BY DEF EndCollection, Proceed
<1>7. info'.parent = collectionStack[level - 1] /\ info'.sibling = info.parent
  BY <1>1, <1>6 DEF InfoShape, InfoFields
<1>8. PICK new : new = collectionList'
  OBVIOUS
<1>9. /\ DOMAIN new = DOMAIN collectionList
      /\ new[info.parent] = [collectionList[info.parent] EXCEPT !.reportItems =
           Byte(info.reportItems - collectionList[info.parent].firstReportItem)]
      /\ \A e \in DOMAIN collectionList : e # info.parent => new[e] = collectionList[e]
  BY <1>5, <1>6, <1>8
<1>10. DOMAIN collectionList[info.parent] = CollectionFields
  BY <1>3, <1>5 DEF ListShape
<1>11. /\ DOMAIN new[info.parent] = CollectionFields
       /\ new[info.parent].reportItems =
            Byte(info.reportItems - collectionList[info.parent].firstReportItem)
       /\ \A f \in CollectionFields \ {"reportItems"} :
            new[info.parent][f] = collectionList[info.parent][f]
  BY <1>9, <1>10 DEF CollectionFields
<1>12. ListShape'
  BY <1>3, <1>8, <1>9, <1>11 DEF ListShape
<1>13. \A e \in 0 .. n :
         /\ new[e].parent = collectionList[e].parent
         /\ new[e].nextSibling = collectionList[e].nextSibling
         /\ new[e].firstReportItem = collectionList[e].firstReportItem
         /\ new[e].firstChild = collectionList[e].firstChild
         /\ e # info.parent => new[e].reportItems = collectionList[e].reportItems
  <2> SUFFICES ASSUME NEW e \in 0 .. n
               PROVE  /\ new[e].parent = collectionList[e].parent
                      /\ new[e].nextSibling = collectionList[e].nextSibling
                      /\ new[e].firstReportItem = collectionList[e].firstReportItem
                      /\ new[e].firstChild = collectionList[e].firstChild
                      /\ e # info.parent => new[e].reportItems = collectionList[e].reportItems
    OBVIOUS
  <2>1. CASE e = info.parent
    BY <1>11, <2>1 DEF CollectionFields
  <2>2. CASE e # info.parent
    <3>1. n <= Cardinality(At(descriptor, {"Collection"}))
      BY <1>2, <1>4 DEF Opens
    <3>2. e \in DOMAIN collectionList
      BY <1>2, <3>1
    <3> QED BY <1>9, <2>2, <3>2
  <2> QED BY <2>1, <2>2
<1>14. descriptor[at].tag = "EndCollection"
  BY <1>1 DEF item
<1>15. new[info.parent].reportItems
         = Byte(Num(descriptor, DataTags, at) - collectionList[info.parent].firstReportItem)
  BY <1>2, <1>11
<1>16. Closed(descriptor, at, n, info.parent, collectionList, new)
  BY <1>13, <1>15 DEF Closed
<1> HIDE DEF level
<1>17. Tree(descriptor, at + 1, collectionStack[Deep(descriptor, at) - 1], info.parent, new,
            collectionStack, reportItemList)
  BY <1>2, <1>3, <1>4, <1>14, <1>16, TreeCloses
<1> QED BY <1>2, <1>6, <1>7, <1>8, <1>12, <1>17

\* The tree in every step of the second pass.
LEMMA FillItemTree ==
  ASSUME ParserInv, TreeInv, Countable(descriptor), FillItem
  PROVE  TreeInv'
<1>1. UNCHANGED <<descriptor, found>> /\ InfoShape
  BY DEF FillItem, ParserInv
<1>2. CASE GlobalItem \/ ReportIDItem \/ Push \/ Pop \/ Index \/ Minimum \/ Maximum \/ OtherItem
  <2>1. /\ phase = "fill" /\ ~atEnd
        /\ item.tag \notin {"Collection", "EndCollection"} \cup DataTags
        /\ \/ phase' \in {"idle", "overrun"}
           \/ /\ at' = at + 1 /\ info'.parent = info.parent /\ info'.sibling = info.sibling
              /\ UNCHANGED <<collectionList, collectionStack, reportItemList>>
    BY <1>1, <1>2, QuietItems
  <2> QED BY <1>1, <2>1, QuietTree
<1>3. CASE Collection
  BY <1>1, <1>3, CollectionTree
<1>4. CASE EndCollection
  BY <1>1, <1>4, EndCollectionTree
<1>5. CASE ReportItem
  BY <1>1, <1>5, ReportItemTree
<1> QED BY <1>2, <1>3, <1>4, <1>5 DEF FillItem

\* The tree grows with the descriptor, from the first item to the last.
LEMMA TreeInvariant ==
  ASSUME \A d \in Descriptors : Countable(d)
  PROVE  ImportSpec => [](ParserInv /\ TreeInv /\ Ended)
<1>1. ImportInit => TreeInv /\ Ended
  BY DEF ImportInit, ParserInit, TreeInv, Ended
<1>2. ParserInv /\ TreeInv /\ Ended /\ [ImportNext]_importVars => TreeInv' /\ Ended'
  <2> SUFFICES ASSUME ParserInv, TreeInv, Ended, [ImportNext]_importVars
               PROVE  TreeInv' /\ Ended'
    OBVIOUS
  <2>1. CASE phase' \notin {"fill", "parsed"}
    BY <2>1 DEF TreeInv, Ended
  <2>2. CASE Parse \/ DataCollectionHandler \/ Run \/ ProcessInputReport \/ Detach
    <3>1. phase' \notin {"fill", "parsed"}
      BY <2>2 DEF Parse, ParseReport, DataCollectionHandler, Run, ProcessInputReport, Detach
    <3> QED BY <2>1, <3>1
  <2>3. CASE ParseOn
    <3>1. phase \in {"count", "fill"} => Countable(descriptor)
      BY DEF ParserInv, AtItem
    <3>2. CASE CountItem
      BY <2>1, <3>2 DEF CountItem
    <3>3. CASE Allocate
      <4>1. phase' \in {"fill", "idle"}
        BY <3>3 DEF Allocate, Return
      <4>2. phase' = "fill" => TreeInv' /\ Ended'
        BY <3>3, TreeBegins DEF Ended
      <4> QED BY <2>1, <4>1, <4>2
    <3>4. CASE FillItem
      <4>1. phase = "fill"
        BY <3>4 DEF FillItem, GlobalItem, ReportIDItem, Push, Pop, Index, Minimum, Maximum,
                    Collection, EndCollection, ReportItem, ReportType, OtherItem, Filling
      <4>2. TreeInv'
        BY <3>1, <3>4, <4>1, FillItemTree
      <4>3. phase' # "parsed"
        <5>1. \A error : Proceed(error) => phase' # "parsed"
          BY <4>1 DEF Proceed, Return
        <5>2. Overrun => phase' # "parsed"
          BY DEF Overrun
        <5>3. \A entry, n, error : AddItem(entry, n, error) => phase' # "parsed"
          BY <5>1, <5>2 DEF AddItem
        <5>4. \A low, high, error : AddRange(low, high, error) => phase' # "parsed"
          BY <5>3 DEF AddRange
        <5>5. \A error : ReportType(error) => phase' # "parsed"
          BY <5>1, <5>2 DEF ReportType
        <5>6. ReportIDItem => phase' # "parsed"
          BY <5>1, <5>2 DEF ReportIDItem
        <5>7. GlobalItem \/ Push \/ Pop \/ OtherItem \/ EndCollection => phase' # "parsed"
          BY <5>1, <5>2 DEF GlobalItem, Push, Pop, OtherItem, EndCollection
        <5>8. Collection => phase' # "parsed"
          BY <5>1, <5>2 DEF Collection
        <5>9. Index \/ Minimum \/ Maximum => phase' # "parsed"
          BY <5>1, <5>3, <5>4 DEF Index, Minimum, Maximum
        <5> QED BY <3>4, <5>5, <5>6, <5>7, <5>8, <5>9 DEF FillItem, ReportItem
      <4> QED BY <4>2, <4>3 DEF Ended
    <3>5. CASE Parsed
      <4>1. /\ phase = "fill" /\ phase' = "parsed"
            /\ UNCHANGED <<descriptor, at, info, found, collectionList, reportItemList,
                           collectionStack>>
        BY <3>5 DEF Parsed, Return
      <4>2. TreeInv'
        BY <4>1 DEF TreeInv, Calm, ListShape
      <4>3. Ended'
        <5>1. Rooms
          BY <4>1 DEF ParserInv, FillInv
        <5> QED BY <4>1, <5>1 DEF Ended, Rooms, Opens
      <4> QED BY <4>2, <4>3
    <3> QED BY <2>3, <3>2, <3>3, <3>4, <3>5 DEF ParseOn
  <2>4. CASE UNCHANGED importVars
    <3>1. UNCHANGED <<phase, descriptor, at, info, found, collectionList, reportItemList,
                      collectionStack>>
      BY <2>4 DEF importVars, parserVars, tables
    <3> QED BY <3>1 DEF TreeInv, Ended, Calm, ListShape
  <2> QED BY <2>2, <2>3, <2>4 DEF ImportNext
<1> QED BY <1>1, <1>2, ParserInvariant, PTL DEF ImportSpec

\* The collections of a descriptor that is taken are a tree: each has the children, the parent
\* and the report items that the descriptor as a whole gives it, provided that the parse began
\* with the parent and the sibling as they were when the program started.
\* (CollectionsFormTree)
THEOREM CollectionsAreTree ==
  ASSUME \A d \in Descriptors : Countable(d)
  PROVE  ImportSpec => []CollectionsFormTree
<1>1. ParserInv /\ TreeInv /\ Ended => CollectionsFormTree
  <2> SUFFICES ASSUME ParserInv, TreeInv, Ended, phase = "parsed", Calm
               PROVE  CollectionsFormTree
    BY DEF CollectionsFormTree, Calm
  <2> DEFINE d == descriptor
             n == Cardinality(At(d, Opens))
  <2>1. d \in Descriptors /\ Len(d) \in Nat /\ at = Len(d) + 1 /\ Balanced(d)
        /\ at \in 1 .. Len(d) + 1 /\ DOMAIN collectionList = 0 .. n /\ n \in Nat
    <3>1. d \in Descriptors /\ at \in 1 .. Len(d) + 1 /\ at > Len(d) /\ Len(d) \in Nat
      BY Descriptor DEF ParserInv, AtItem, atEnd
    <3>2. n \in Nat
      BY <3>1, CountsEnd
    <3> QED BY <3>1, <3>2 DEF Ended
  <2>2. Tree(d, Len(d) + 1, info.parent, info.sibling, collectionList, collectionStack,
             reportItemList)
    BY <2>1 DEF TreeInv
  <2>3. Num(d, Opens, Len(d) + 1) = n
    BY <2>1, CountsEnd
  <2>4. \A tags : Cut(At(d, tags), Len(d) + 1) = At(d, tags)
    <3>1. \A tags : At(d, tags) \in SUBSET (1 .. Len(d))
      BY <2>1, Descriptor
    <3>2. \A tags : \A q \in At(d, tags) : q < Len(d) + 1
      BY <2>1, <3>1
    <3> QED BY <3>2 DEF Cut
  <2>5. Open(d, Len(d) + 1) = {}
    <3>1. Deep(d, Len(d) + 1) = 0
      BY <2>1 DEF Balanced
    <3> QED BY <2>1, <3>1, Innermost
  <2>6. /\ \A q \in At(d, Opens) :
             /\ collectionList[1 + Num(d, Opens, q)].parent = ParentAt(d, q)
             /\ collectionList[1 + Num(d, Opens, q)].firstReportItem = Num(d, DataTags, q)
             /\ collectionList[1 + Num(d, Opens, q)].reportItems = Cardinality(Inside(d, q))
        /\ \A e \in 1 .. n : \E q \in At(d, Opens) : e = 1 + Num(d, Opens, q)
        /\ \A q \in At(d, DataTags) : reportItemList[Num(d, DataTags, q)].parent = ParentAt(d, q)
        /\ Chained(collectionList, n)
    BY <2>2, <2>3, <2>4, <2>5 DEF Tree, Recorded, Numbered, ItemsPlaced
  <2>7. \A q \in At(d, Opens) : 1 + Num(d, Opens, q) \in 1 .. n
    <3> SUFFICES ASSUME NEW q \in At(d, Opens)
                 PROVE  1 + Num(d, Opens, q) \in 1 .. n
      OBVIOUS
    <3>1. Num(d, Opens, q) \in Nat /\ Num(d, Opens, q) < n
      BY <2>1, <2>3, <2>4, NumbersBefore
    <3> QED BY <2>1, <3>1
  <2>8. /\ Positions({"Collection"}) = At(d, Opens) /\ Positions(DataTags) = At(d, DataTags)
        /\ \A q : CollectionNumber(q) = 1 + Num(d, Opens, q)
        /\ \A q : ItemNumber(q) = Num(d, DataTags, q) /\ Parent(q) = ParentAt(d, q)
        /\ \A q : Around(q) = Open(d, q)
    <3>1. /\ Positions({"Collection"}) = At(d, Opens) /\ Positions(DataTags) = At(d, DataTags)
      BY DEF Positions, At, Opens, D
    <3> QED BY <3>1, SameTree DEF CollectionNumber, ItemNumber, Opens
  <2> HIDE DEF d, n
  <2>9. ASSUME NEW c \in DOMAIN collectionList
        PROVE  Children(c) = {CollectionNumber(p) :
                                p \in {q \in Positions({"Collection"}) : Parent(q) = c}}
    <3>1. Children(c) = {e \in 1 .. n : collectionList[e].parent = c}
      BY <2>1, <2>6, ChildrenAre
    <3>2. {CollectionNumber(p) : p \in {q \in Positions({"Collection"}) : Parent(q) = c}}
            = {1 + Num(d, Opens, p) : p \in {q \in At(d, Opens) : ParentAt(d, q) = c}}
      BY <2>8
    <3>3. {1 + Num(d, Opens, p) : p \in {q \in At(d, Opens) : ParentAt(d, q) = c}}
            = {e \in 1 .. n : collectionList[e].parent = c}
      BY <2>6, <2>7
    <3> QED BY <3>1, <3>2, <3>3
  <2>10. ASSUME NEW p \in Positions({"Collection"})
         PROVE  LET c == collectionList[CollectionNumber(p)] IN
                /\ c.parent = Parent(p) /\ c.firstReportItem = ItemNumber(p)
                /\ c.reportItems = Cardinality({q \in Positions(DataTags) : p \in Around(q)})
    <3>1. {q \in Positions(DataTags) : p \in Around(q)} = Inside(d, p)
      BY <2>8 DEF Inside
    <3> QED BY <2>6, <2>8, <3>1
  <2>11. \A p \in Positions(DataTags) : reportItemList[ItemNumber(p)].parent = Parent(p)
    BY <2>6, <2>8
  <2> QED BY <2>9, <2>10, <2>11 DEF CollectionsFormTree
<1> QED BY <1>1, TreeInvariant, PTL
-------------------------------------------------------------------------------
(* The bounds of ranges. *)

\* The minima less the maxima before a position, and whether no bound was given twice.
Excess(d, k, p) == Upto(Local(d, {"Minimum"}, k), p) - Upto(Local(d, {"Maximum"}, k), p)
Once(d, k, p) == \A q \in 1 .. p : Excess(d, k, q) \in -1 .. 1

LEMMA SameWaiting ==
  ASSUME NEW k, NEW p
  PROVE  Waiting(k, p) = Excess(descriptor, k, p) /\ (GivenOnce(k, p) <=> Once(descriptor, k, p))
<1>1. ASSUME NEW q
      PROVE  Waiting(k, q) = Excess(descriptor, k, q)
  <2>1. {r \in Bounds(k, q) : D[r].tag = "Minimum"} = Cut(Local(descriptor, {"Minimum"}, k), q)
    BY DEF Bounds, Before, Positions, D, Cut, Local
  <2>2. {r \in Bounds(k, q) : D[r].tag = "Maximum"} = Cut(Local(descriptor, {"Maximum"}, k), q)
    BY DEF Bounds, Before, Positions, D, Cut, Local
  <2> QED BY <2>1, <2>2 DEF Waiting, Excess, Upto
<1> QED BY <1>1 DEF GivenOnce, Once

\* A bound waits when it has been given once more than the other.
One(b) == IF b THEN 1 ELSE 0
Pending(d, p, min, max) ==
  \A k \in Kinds :
    /\ min[k] \in BOOLEAN /\ max[k] \in BOOLEAN
    /\ Once(d, k, p) => Excess(d, k, p) = One(min[k]) - One(max[k]) /\ ~(min[k] /\ max[k])
Matched(d, p) ==
  \A q \in Cut(At(d, DataTags), p) : \A k \in Kinds : Once(d, k, q) => Excess(d, k, q) = 0

\* What the next item leaves waiting.
Awaits(x, min, max, newMin, newMax) ==
  \A k \in Kinds :
    IF x.kind # k \/ x.tag \notin RangeTags THEN newMin[k] = min[k] /\ newMax[k] = max[k]
    ELSE IF x.tag = "Minimum"
    THEN IF max[k] THEN newMin[k] = FALSE /\ newMax[k] = FALSE
         ELSE newMin[k] = TRUE /\ newMax[k] = max[k]
    ELSE IF min[k] THEN newMin[k] = FALSE /\ newMax[k] = FALSE
         ELSE newMin[k] = min[k] /\ newMax[k] = TRUE

LEMMA PendingGrows ==
  ASSUME NEW d \in Descriptors, NEW p \in 1 .. Len(d), NEW min, NEW max, NEW newMin, NEW newMax,
         Pending(d, p, min, max), Awaits(d[p], min, max, newMin, newMax)
  PROVE  Pending(d, p + 1, newMin, newMax)
<1> SUFFICES ASSUME NEW k \in Kinds
             PROVE  /\ newMin[k] \in BOOLEAN /\ newMax[k] \in BOOLEAN
                    /\ Once(d, k, p + 1) =>
                         /\ Excess(d, k, p + 1) = One(newMin[k]) - One(newMax[k])
                         /\ ~(newMin[k] /\ newMax[k])
  BY DEF Pending
<1>1. /\ min[k] \in BOOLEAN /\ max[k] \in BOOLEAN
      /\ Once(d, k, p) => Excess(d, k, p) = One(min[k]) - One(max[k]) /\ ~(min[k] /\ max[k])
  BY DEF Pending
<1>2. IF d[p].kind # k \/ d[p].tag \notin RangeTags THEN newMin[k] = min[k] /\ newMax[k] = max[k]
      ELSE IF d[p].tag = "Minimum"
      THEN IF max[k] THEN newMin[k] = FALSE /\ newMax[k] = FALSE
           ELSE newMin[k] = TRUE /\ newMax[k] = max[k]
      ELSE IF min[k] THEN newMin[k] = FALSE /\ newMax[k] = FALSE
           ELSE newMin[k] = min[k] /\ newMax[k] = TRUE
  BY DEF Awaits
<1>3. newMin[k] \in BOOLEAN /\ newMax[k] \in BOOLEAN
  <2>1. CASE d[p].kind # k \/ d[p].tag \notin RangeTags
    BY <1>1, <1>2, <2>1
  <2>2. CASE ~(d[p].kind # k \/ d[p].tag \notin RangeTags) /\ d[p].tag = "Minimum"
    BY <1>1, <1>2, <2>2
  <2>3. CASE ~(d[p].kind # k \/ d[p].tag \notin RangeTags) /\ d[p].tag # "Minimum"
    BY <1>1, <1>2, <2>3
  <2> QED BY <2>1, <2>2, <2>3
<1>4. ASSUME Once(d, k, p + 1)
      PROVE  /\ Excess(d, k, p + 1) = One(newMin[k]) - One(newMax[k])
             /\ ~(newMin[k] /\ newMax[k])
  <2>1. Once(d, k, p) /\ Excess(d, k, p + 1) \in -1 .. 1
    <3>1. \A q \in 1 .. p : q \in 1 .. p + 1
      OBVIOUS
    <3>2. p + 1 \in 1 .. p + 1
      OBVIOUS
    <3> QED BY <1>4, <3>1, <3>2 DEF Once
  <2>2. /\ Excess(d, k, p) \in Int
        /\ Excess(d, k, p + 1)
             = Excess(d, k, p) + (IF d[p].tag = "Minimum" /\ d[p].kind = k THEN 1 ELSE 0)
                 - (IF d[p].tag = "Maximum" /\ d[p].kind = k THEN 1 ELSE 0)
    <3>1. \A tags : /\ Upto(Local(d, tags, k), p) \in Nat
                    /\ Upto(Local(d, tags, k), p + 1)
                         = Upto(Local(d, tags, k), p)
                             + (IF d[p].tag \in tags /\ d[p].kind = k THEN 1 ELSE 0)
      BY CountsGrow
    <3>2. /\ Upto(Local(d, {"Minimum"}, k), p) \in Nat /\ Upto(Local(d, {"Maximum"}, k), p) \in Nat
          /\ Upto(Local(d, {"Minimum"}, k), p + 1)
               = Upto(Local(d, {"Minimum"}, k), p)
                   + (IF d[p].tag = "Minimum" /\ d[p].kind = k THEN 1 ELSE 0)
          /\ Upto(Local(d, {"Maximum"}, k), p + 1)
               = Upto(Local(d, {"Maximum"}, k), p)
                   + (IF d[p].tag = "Maximum" /\ d[p].kind = k THEN 1 ELSE 0)
      BY <3>1
    <3> QED BY <3>2 DEF Excess
  <2>3. Excess(d, k, p) = One(min[k]) - One(max[k]) /\ ~(min[k] /\ max[k])
    BY <1>1, <2>1
  <2>4. One(TRUE) = 1 /\ One(FALSE) = 0
    BY DEF One
  <2>5. CASE d[p].kind # k \/ d[p].tag \notin RangeTags
    <3>1. Excess(d, k, p + 1) = Excess(d, k, p)
      BY <2>2, <2>5 DEF RangeTags
    <3> QED BY <1>2, <2>3, <2>5, <3>1
  <2>6. CASE d[p].kind = k /\ d[p].tag = "Minimum"
    <3>0. PICK m, n \in Int : m = Excess(d, k, p) /\ n = Excess(d, k, p + 1) /\ n = m + 1 /\ n \in -1 .. 1
      BY <2>1, <2>2, <2>6
    <3>1. d[p].tag \in RangeTags
      BY <2>6 DEF RangeTags
    <3>2. CASE max[k] = TRUE
      <4>1. min[k] = FALSE /\ newMin[k] = FALSE /\ newMax[k] = FALSE
        BY <1>1, <1>2, <2>3, <2>6, <3>1, <3>2
      <4>2. One(min[k]) = 0 /\ One(max[k]) = 1 /\ One(newMin[k]) = 0 /\ One(newMax[k]) = 0
        BY <2>4, <3>2, <4>1
      <4>3. m = 0 - 1
        BY <2>3, <3>0, <4>2
      <4>4. n = 0
        BY <3>0, <4>3
      <4> QED BY <3>0, <4>1, <4>2, <4>4
    <3>3. CASE max[k] = FALSE
      <4>1. newMin[k] = TRUE /\ newMax[k] = FALSE
        BY <1>2, <2>6, <3>1, <3>3
      <4>2. One(max[k]) = 0 /\ One(newMin[k]) = 1 /\ One(newMax[k]) = 0
        BY <2>4, <3>3, <4>1
      <4>3. min[k] = FALSE
        <5>1. CASE min[k] = TRUE
          <6>1. m = 1 - 0
            BY <2>3, <2>4, <3>0, <4>2, <5>1
          <6> QED BY <3>0, <6>1
        <5> QED BY <1>1, <5>1
      <4>4. m = 0 - 0
        BY <2>3, <2>4, <3>0, <4>2, <4>3
      <4>5. n = 1
        BY <3>0, <4>4
      <4> QED BY <3>0, <4>1, <4>2, <4>5
    <3> QED BY <1>1, <3>2, <3>3
  <2>7. CASE d[p].kind = k /\ d[p].tag = "Maximum"
    <3>0. PICK m, n \in Int : m = Excess(d, k, p) /\ n = Excess(d, k, p + 1) /\ n = m - 1 /\ n \in -1 .. 1
      BY <2>1, <2>2, <2>7
    <3>1. d[p].tag \in RangeTags
      BY <2>7 DEF RangeTags
    <3>2. CASE min[k] = TRUE
      <4>1. max[k] = FALSE /\ newMin[k] = FALSE /\ newMax[k] = FALSE
        BY <1>1, <1>2, <2>3, <2>7, <3>1, <3>2
      <4>2. One(min[k]) = 1 /\ One(max[k]) = 0 /\ One(newMin[k]) = 0 /\ One(newMax[k]) = 0
        BY <2>4, <3>2, <4>1
      <4>3. m = 1 - 0
        BY <2>3, <3>0, <4>2
      <4>4. n = 0
        BY <3>0, <4>3
      <4> QED BY <3>0, <4>1, <4>2, <4>4
    <3>3. CASE min[k] = FALSE
      <4>1. newMin[k] = FALSE /\ newMax[k] = TRUE
        BY <1>2, <2>7, <3>1, <3>3
      <4>2. One(min[k]) = 0 /\ One(newMin[k]) = 0 /\ One(newMax[k]) = 1
        BY <2>4, <3>3, <4>1
      <4>3. max[k] = FALSE
        <5>1. CASE max[k] = TRUE
          <6>1. m = 0 - 1
            BY <2>3, <2>4, <3>0, <4>2, <5>1
          <6> QED BY <3>0, <6>1
        <5> QED BY <1>1, <5>1
      <4>4. m = 0 - 0
        BY <2>3, <2>4, <3>0, <4>2, <4>3
      <4>5. n = -1
        BY <3>0, <4>4
      <4>6. n = 0 - 1
        BY <4>5
      <4> QED BY <3>0, <4>1, <4>2, <4>6
    <3> QED BY <1>1, <3>2, <3>3
  <2> QED BY <2>5, <2>6, <2>7 DEF RangeTags
<1> QED BY <1>3, <1>4

MatchInv ==
  phase \in {"fill", "parsed"} =>
    Pending(descriptor, at, info.haveMin, info.haveMax) /\ Matched(descriptor, at)

\* What a step of the second pass leaves waiting.
LEMMA FillAwaits ==
  ASSUME ParserInv, phase = "fill", FillItem
  PROVE  \/ phase' \in {"idle", "overrun"}
         \/ /\ ~atEnd /\ phase' = "fill" /\ at' = at + 1
            /\ Awaits(item, info.haveMin, info.haveMax, info'.haveMin, info'.haveMax)
            /\ item.tag \in DataTags => \A k \in Kinds : ~HaveBound(k)
<1> DEFINE Ends == phase' \in {"idle", "overrun"}
           Moves == phase' = "fill" /\ at' = at + 1
           Same == info'.haveMin = info.haveMin /\ info'.haveMax = info.haveMax
<1>1. \A error : Proceed(error) => Ends \/ Moves
  BY DEF Proceed, Return
<1>2. Overrun => Ends
  BY DEF Overrun
<1>3. DOMAIN info = InfoFields
  BY DEF ParserInv, InfoShape
<1>4. ~atEnd
  BY DEF FillItem, GlobalItem, ReportIDItem, Push, Pop, Index, Minimum, Maximum, Collection,
         EndCollection, ReportItem, ReportType, OtherItem, Filling
<1>5. ASSUME Same, item.tag \notin RangeTags
      PROVE  Awaits(item, info.haveMin, info.haveMax, info'.haveMin, info'.haveMax)
  BY <1>5 DEF Awaits
<1>6. ASSUME NEW entry, NEW n, NEW error, AddItem(entry, n, error), DOMAIN n = InfoFields
      PROVE  Ends \/ (Moves /\ info'.haveMin = n.haveMin /\ info'.haveMax = n.haveMax)
  <2>1. CASE Overrun
    BY <1>2, <2>1
  <2>2. CASE ~Overrun
    <3>1. info' = [n EXCEPT !.items[item.kind] = Byte(@ + 1)] /\ Proceed(error)
      BY <1>6, <2>2 DEF AddItem
    <3>2. info'.haveMin = n.haveMin /\ info'.haveMax = n.haveMax
      BY <1>6, <3>1 DEF InfoFields
    <3> QED BY <1>1, <3>1, <3>2
  <2> QED BY <2>1, <2>2
<1>7. CASE GlobalItem
  <2>1. PICK g, error : info' = [info EXCEPT !.globals = g] /\ Proceed(error)
    <3>1. \E g : info' = [info EXCEPT !.globals = g]
      BY <1>7 DEF GlobalItem
    <3>2. \E error : Proceed(error)
      BY <1>7 DEF GlobalItem
    <3> QED BY <3>1, <3>2
  <2>2. Same
    BY <1>3, <2>1 DEF InfoFields
  <2>3. item.tag \notin RangeTags /\ item.tag \notin DataTags
    BY <1>7 DEF GlobalItem, Filling, RangeTags, DataTags
  <2> QED BY <1>1, <1>4, <1>5, <2>1, <2>2, <2>3
<1>8. CASE ReportIDItem
  <2>1. item.tag \notin RangeTags /\ item.tag \notin DataTags
    BY <1>8 DEF ReportIDItem, Filling, RangeTags, DataTags
  <2>2. CASE item.data = 0
    <3>1. Ends
      BY <1>8, <2>2 DEF ReportIDItem, Proceed, Return
    <3> QED BY <3>1
  <2>3. CASE item.data # 0
    <3>1. CASE Overrun
      BY <1>2, <3>1
    <3>2. CASE ~Overrun
      <4>1. /\ info' = [info EXCEPT !.reports = IF ReportIndex = @ THEN Byte(@ + 1) ELSE @,
                          !.globals.reportID = Byte(item.data), !.globals.reportIndex = ReportIndex]
            /\ Proceed("none")
        BY <1>8, <2>3, <3>2 DEF ReportIDItem
      <4>2. Same
        BY <1>3, <4>1 DEF InfoFields
      <4> QED BY <1>1, <1>4, <1>5, <2>1, <4>1, <4>2
    <3> QED BY <3>1, <3>2
  <2> QED BY <2>2, <2>3
<1>9. CASE Push
  <2>1. item.tag \notin RangeTags /\ item.tag \notin DataTags
    BY <1>9 DEF Push, Filling, RangeTags, DataTags
  <2>2. CASE Overrun
    BY <1>2, <2>2
  <2>3. CASE ~Overrun
    <3>1. info' = [info EXCEPT !.globalsNesting = Byte(@ + 1)] /\ Proceed("none")
      BY <1>9, <2>3 DEF Push
    <3>2. Same
      BY <1>3, <3>1 DEF InfoFields
    <3> QED BY <1>1, <1>4, <1>5, <2>1, <3>1, <3>2
  <2> QED BY <2>2, <2>3
<1>10. CASE Pop
  <2>1. item.tag \notin RangeTags /\ item.tag \notin DataTags
    BY <1>10 DEF Pop, Filling, RangeTags, DataTags
  <2>2. /\ info' = [info EXCEPT !.globals = globalsStack[info.globalsNesting - 1],
                                !.globalsNesting = @ - 1]
        /\ Proceed("none")
    BY <1>10 DEF Pop
  <2>3. Same
    BY <1>3, <2>2 DEF InfoFields
  <2> QED BY <1>1, <1>4, <1>5, <2>1, <2>2, <2>3
<1>11. CASE Index
  <2>1. item.tag \notin RangeTags /\ item.tag \notin DataTags
    BY <1>11 DEF Index, Filling, RangeTags, DataTags
  <2>2. Ends \/ (Moves /\ Same)
    BY <1>3, <1>6, <1>11 DEF Index
  <2> QED BY <1>4, <1>5, <2>1, <2>2
<1>12. CASE OtherItem
  <2>1. item.tag \notin RangeTags /\ item.tag \notin DataTags
    BY <1>12 DEF OtherItem, Filling, RangeTags, DataTags
  <2>2. Proceed("none") /\ Same
    BY <1>12 DEF OtherItem
  <2> QED BY <1>1, <1>4, <1>5, <2>1, <2>2
<1>13. CASE Collection
  <2>1. item.tag \notin RangeTags /\ item.tag \notin DataTags
    BY <1>13 DEF Collection, Filling, RangeTags, DataTags
  <2>2. CASE Overrun
    BY <1>2, <2>2
  <2>3. CASE ~Overrun
    <3>1. /\ info' = [info EXCEPT !.collections = Byte(@ + 1), !.first = UsagesTaken,
                        !.sibling = 0, !.collectionNesting = Byte(@ + 1),
                        !.parent = info.collections]
          /\ Proceed("none")
      BY <1>13, <2>3 DEF Collection
    <3>2. Same
      BY <1>3, <3>1 DEF InfoFields
    <3> QED BY <1>1, <1>4, <1>5, <2>1, <3>1, <3>2
  <2> QED BY <2>2, <2>3
<1>14. CASE EndCollection
  <2>1. item.tag \notin RangeTags /\ item.tag \notin DataTags
    BY <1>14 DEF EndCollection, Filling, RangeTags, DataTags
  <2>2. /\ info' = [info EXCEPT !.collectionNesting = @ - 1, !.sibling = info.parent,
                      !.parent = collectionStack[info.collectionNesting - 1]]
        /\ Proceed("none")
    BY <1>14 DEF EndCollection
  <2>3. Same
    BY <1>3, <2>2 DEF InfoFields
  <2> QED BY <1>1, <1>4, <1>5, <2>1, <2>2, <2>3
<1>15. CASE ReportItem
  <2>0. PICK error \in ReportTypeErrors : ReportType(error)
    BY <1>15 DEF ReportItem
  <2>1. item.tag \notin RangeTags
    BY <2>0 DEF ReportType, Filling, RangeTags, DataTags
  <2>2. CASE error # "none"
    <3>1. Ends
      BY <2>0, <2>2 DEF ReportType, Proceed, Return
    <3> QED BY <3>1
  <2>3. CASE error = "none"
    <3>1. \A k \in Kinds : ~HaveBound(k)
      <4>1. ~HaveBound("usage") /\ ~HaveBound("string") /\ ~HaveBound("designator")
        BY <2>0, <2>3 DEF ReportTypeErrors
      <4> QED BY <4>1 DEF Kinds
    <3>2. CASE Overrun
      BY <1>2, <3>2
    <3>3. CASE ~Overrun
      <4>1. /\ info' = [info EXCEPT !.reportItems = Byte(@ + 1), !.first = info.items]
            /\ Proceed("none")
        BY <2>0, <2>3, <3>3 DEF ReportType
      <4>2. Same
        BY <1>3, <4>1 DEF InfoFields
      <4> QED BY <1>1, <1>4, <1>5, <2>1, <3>1, <4>1, <4>2
    <3> QED BY <3>2, <3>3
  <2> QED BY <2>2, <2>3
\* The bounds.
<1>16. /\ OfKinds(info.haveMin) /\ OfKinds(info.haveMax) /\ item.kind \in Kinds
  BY <1>4, ItemThere DEF ParserInv, InfoShape
<1>17. ASSUME NEW low, NEW high, NEW error, AddRange(low, high, error)
       PROVE  Ends \/ (Moves /\ info'.haveMin = [info.haveMin EXCEPT ![item.kind] = FALSE]
                             /\ info'.haveMax = [info.haveMax EXCEPT ![item.kind] = FALSE])
  <2> DEFINE n == [info EXCEPT !.haveMin[item.kind] = FALSE, !.haveMax[item.kind] = FALSE]
  <2>1. PICK entry, e : AddItem(entry, n, e)
    BY <1>17 DEF AddRange
  <2>2. DOMAIN n = InfoFields /\ n.haveMin = [info.haveMin EXCEPT ![item.kind] = FALSE]
        /\ n.haveMax = [info.haveMax EXCEPT ![item.kind] = FALSE]
    BY <1>3 DEF InfoFields
  <2> HIDE DEF n
  <2> QED BY <1>6, <2>1, <2>2
<1>18. CASE Minimum
  <2>1. item.tag = "Minimum" /\ item.tag \notin DataTags
    BY <1>18 DEF Minimum, Filling, DataTags
  <2>2. CASE info.haveMax[item.kind]
    <3>1. Ends \/ (Moves /\ info'.haveMin = [info.haveMin EXCEPT ![item.kind] = FALSE]
                         /\ info'.haveMax = [info.haveMax EXCEPT ![item.kind] = FALSE])
      BY <1>17, <1>18, <2>2 DEF Minimum
    <3>2. ASSUME info'.haveMin = [info.haveMin EXCEPT ![item.kind] = FALSE],
                 info'.haveMax = [info.haveMax EXCEPT ![item.kind] = FALSE]
          PROVE  Awaits(item, info.haveMin, info.haveMax, info'.haveMin, info'.haveMax)
      <4>1. item.tag \in RangeTags
        BY <2>1 DEF RangeTags
      <4>2. ASSUME NEW k \in Kinds, k = item.kind
            PROVE  info'.haveMin[k] = FALSE /\ info'.haveMax[k] = FALSE
        BY <1>16, <3>2, <4>2 DEF OfKinds
      <4>3. ASSUME NEW k \in Kinds, k # item.kind
            PROVE  info'.haveMin[k] = info.haveMin[k] /\ info'.haveMax[k] = info.haveMax[k]
        BY <1>16, <3>2, <4>3 DEF OfKinds
      <4> QED BY <2>1, <2>2, <4>1, <4>2, <4>3 DEF Awaits
    <3> QED BY <1>4, <2>1, <3>1, <3>2
  <2>3. CASE ~info.haveMax[item.kind]
    <3>1. /\ info' = [info EXCEPT !.minimum[item.kind] = ValueOf(item),
                        !.haveMin[item.kind] = TRUE, !.rangeUsagePage = RangePage]
          /\ Proceed("none")
      BY <1>18, <2>3 DEF Minimum
    <3>2. info'.haveMin = [info.haveMin EXCEPT ![item.kind] = TRUE] /\ info'.haveMax = info.haveMax
      BY <1>3, <3>1 DEF InfoFields
    <3>3. Awaits(item, info.haveMin, info.haveMax, info'.haveMin, info'.haveMax)
      <4>1. item.tag \in RangeTags
        BY <2>1 DEF RangeTags
      <4>2. ASSUME NEW k \in Kinds, k = item.kind
            PROVE  info'.haveMin[k] = TRUE /\ info'.haveMax[k] = info.haveMax[k]
        BY <1>16, <3>2, <4>2 DEF OfKinds
      <4>3. ASSUME NEW k \in Kinds, k # item.kind
            PROVE  info'.haveMin[k] = info.haveMin[k] /\ info'.haveMax[k] = info.haveMax[k]
        BY <1>16, <3>2, <4>3 DEF OfKinds
      <4> QED BY <2>1, <2>3, <4>1, <4>2, <4>3 DEF Awaits
    <3> QED BY <1>1, <1>4, <2>1, <3>1, <3>3
  <2> QED BY <2>2, <2>3
<1>19. CASE Maximum
  <2>1. item.tag = "Maximum" /\ item.tag \notin DataTags
    BY <1>19 DEF Maximum, Filling, DataTags
  <2>2. CASE info.haveMin[item.kind]
    <3>1. Ends \/ (Moves /\ info'.haveMin = [info.haveMin EXCEPT ![item.kind] = FALSE]
                         /\ info'.haveMax = [info.haveMax EXCEPT ![item.kind] = FALSE])
      <4>1. PICK error : AddRange(info.minimum[item.kind], ValueOf(item), error)
        BY <1>19, <2>2 DEF Maximum
      <4> QED BY <1>17, <4>1
    <3>2. ASSUME info'.haveMin = [info.haveMin EXCEPT ![item.kind] = FALSE],
                 info'.haveMax = [info.haveMax EXCEPT ![item.kind] = FALSE]
          PROVE  Awaits(item, info.haveMin, info.haveMax, info'.haveMin, info'.haveMax)
      <4>1. item.tag \in RangeTags
        BY <2>1 DEF RangeTags
      <4>2. ASSUME NEW k \in Kinds, k = item.kind
            PROVE  info'.haveMin[k] = FALSE /\ info'.haveMax[k] = FALSE
        BY <1>16, <3>2, <4>2 DEF OfKinds
      <4>3. ASSUME NEW k \in Kinds, k # item.kind
            PROVE  info'.haveMin[k] = info.haveMin[k] /\ info'.haveMax[k] = info.haveMax[k]
        BY <1>16, <3>2, <4>3 DEF OfKinds
      <4> QED BY <2>1, <2>2, <4>1, <4>2, <4>3 DEF Awaits
    <3> QED BY <1>4, <2>1, <3>1, <3>2
  <2>3. CASE ~info.haveMin[item.kind]
    <3>1. /\ info' = [info EXCEPT !.maximum[item.kind] = ValueOf(item),
                        !.haveMax[item.kind] = TRUE, !.rangeUsagePage = RangePage]
          /\ Proceed("none")
      BY <1>19, <2>3 DEF Maximum
    <3>2. info'.haveMax = [info.haveMax EXCEPT ![item.kind] = TRUE] /\ info'.haveMin = info.haveMin
      BY <1>3, <3>1 DEF InfoFields
    <3>3. Awaits(item, info.haveMin, info.haveMax, info'.haveMin, info'.haveMax)
      <4>1. item.tag \in RangeTags
        BY <2>1 DEF RangeTags
      <4>2. ASSUME NEW k \in Kinds, k = item.kind
            PROVE  info'.haveMax[k] = TRUE /\ info'.haveMin[k] = info.haveMin[k]
        BY <1>16, <3>2, <4>2 DEF OfKinds
      <4>3. ASSUME NEW k \in Kinds, k # item.kind
            PROVE  info'.haveMin[k] = info.haveMin[k] /\ info'.haveMax[k] = info.haveMax[k]
        BY <1>16, <3>2, <4>3 DEF OfKinds
      <4> QED BY <2>1, <2>3, <4>1, <4>2, <4>3 DEF Awaits
    <3> QED BY <1>1, <1>4, <2>1, <3>1, <3>3
  <2> QED BY <2>2, <2>3
<1> QED BY <1>7, <1>8, <1>9, <1>10, <1>11, <1>12, <1>13, <1>14, <1>15, <1>18, <1>19 DEF FillItem

\* A report item is taken only where no bound waits.
LEMMA MatchedGrows ==
  ASSUME NEW d \in Descriptors, NEW p \in 1 .. Len(d), NEW min, NEW max, Pending(d, p, min, max),
         Matched(d, p), d[p].tag \in DataTags => \A k \in Kinds : ~(min[k] \/ max[k])
  PROVE  Matched(d, p + 1)
<1> SUFFICES ASSUME NEW q \in Cut(At(d, DataTags), p + 1), NEW k \in Kinds, Once(d, k, q)
             PROVE  Excess(d, k, q) = 0
  BY DEF Matched
<1>1. q \in At(d, DataTags) /\ q \in 1 .. Len(d) /\ q < p + 1 /\ d[q].tag \in DataTags
  BY Descriptor DEF Cut, At
<1>2. CASE q < p
  BY <1>1, <1>2 DEF Matched, Cut
<1>3. CASE q = p
  <2>1. ~min[k] /\ ~max[k] /\ min[k] \in BOOLEAN /\ max[k] \in BOOLEAN
        /\ Excess(d, k, p) = One(min[k]) - One(max[k])
    BY <1>1, <1>3 DEF Pending
  <2>2. One(min[k]) = 0 /\ One(max[k]) = 0
    BY <2>1 DEF One
  <2>3. Excess(d, k, p) = 0 - 0
    BY <2>1, <2>2
  <2> QED BY <1>3, <2>3
<1> QED BY <1>1, <1>2, <1>3

LEMMA FillItemMatch ==
  ASSUME ParserInv, MatchInv, phase = "fill", FillItem
  PROVE  MatchInv'
<1>1. CASE phase' \in {"idle", "overrun"}
  BY <1>1 DEF MatchInv
<1>2. CASE /\ ~atEnd /\ phase' = "fill" /\ at' = at + 1
           /\ Awaits(item, info.haveMin, info.haveMax, info'.haveMin, info'.haveMax)
           /\ item.tag \in DataTags => \A k \in Kinds : ~HaveBound(k)
  <2>1. descriptor \in Descriptors /\ at \in 1 .. Len(descriptor) /\ descriptor' = descriptor
    BY <1>2, ItemThere DEF ParserInv, FillItem
  <2>2. Pending(descriptor, at, info.haveMin, info.haveMax) /\ Matched(descriptor, at)
    BY DEF MatchInv
  <2>3. Awaits(descriptor[at], info.haveMin, info.haveMax, info'.haveMin, info'.haveMax)
    BY <1>2 DEF item
  <2>4. Pending(descriptor, at + 1, info'.haveMin, info'.haveMax)
    BY <2>1, <2>2, <2>3, PendingGrows
  <2>5. descriptor[at].tag \in DataTags => \A k \in Kinds : ~(info.haveMin[k] \/ info.haveMax[k])
    BY <1>2 DEF item, HaveBound
  <2>6. Matched(descriptor, at + 1)
    BY <2>1, <2>2, <2>5, MatchedGrows
  <2> QED BY <1>2, <2>1, <2>4, <2>6 DEF MatchInv
<1> QED BY <1>1, <1>2, FillAwaits

\* Before the first item no bound waits.
LEMMA MatchBegins ==
  ASSUME ParserInv, Allocate, phase' = "fill"
  PROVE  MatchInv'
<1>1. /\ descriptor \in Descriptors /\ descriptor' = descriptor /\ InfoShape /\ at' = 1
      /\ info' = InitDeviceRptInfo(info)
  BY DEF Allocate, Return, AtItem, ParserInv
<1>2. info'.haveMin = No /\ info'.haveMax = No
  BY <1>1, InitShape
<1>3. ASSUME NEW k \in Kinds
      PROVE  Excess(descriptor, k, 1) = One(No[k]) - One(No[k]) /\ No[k] = FALSE
  <2>1. \A tags : Upto(Local(descriptor, tags, k), 1) = 0
    BY <1>1, CountsEnd
  <2>2. Excess(descriptor, k, 1) = 0 - 0
    BY <2>1 DEF Excess
  <2>3. No[k] = FALSE
    BY DEF No
  <2>4. One(No[k]) = 0
    BY <2>3 DEF One
  <2> QED BY <2>2, <2>3, <2>4
<1>4. Pending(descriptor, 1, No, No)
  BY <1>3 DEF Pending
<1>5. Matched(descriptor, 1)
  <2>1. At(descriptor, DataTags) \in SUBSET (1 .. Len(descriptor))
    BY <1>1, Descriptor
  <2>2. \A q \in At(descriptor, DataTags) : ~(q < 1)
    BY <2>1
  <2> QED BY <2>2 DEF Matched, Cut
<1> QED BY <1>1, <1>2, <1>4, <1>5 DEF MatchInv

LEMMA MatchInvariant ==
  ASSUME \A d \in Descriptors : Countable(d)
  PROVE  ImportSpec => []MatchInv
<1>1. ImportInit => MatchInv
  BY DEF ImportInit, ParserInit, MatchInv
<1>2. ParserInv /\ MatchInv /\ [ImportNext]_importVars => MatchInv'
  <2> SUFFICES ASSUME ParserInv, MatchInv, [ImportNext]_importVars
               PROVE  MatchInv'
    OBVIOUS
  <2>1. CASE phase' \notin {"fill", "parsed"}
    BY <2>1 DEF MatchInv
  <2>2. CASE Parse \/ DataCollectionHandler \/ Run \/ ProcessInputReport \/ Detach
    <3>1. phase' \notin {"fill", "parsed"}
      BY <2>2 DEF Parse, ParseReport, DataCollectionHandler, Run, ProcessInputReport, Detach
    <3> QED BY <2>1, <3>1
  <2>3. CASE ParseOn
    <3>1. CASE CountItem
      BY <2>1, <3>1 DEF CountItem
    <3>2. CASE Allocate
      <4>1. phase' \in {"fill", "idle"}
        BY <3>2 DEF Allocate, Return
      <4> QED BY <2>1, <3>2, <4>1, MatchBegins
    <3>3. CASE FillItem
      <4>1. phase = "fill"
        BY <3>3 DEF FillItem, GlobalItem, ReportIDItem, Push, Pop, Index, Minimum, Maximum,
                    Collection, EndCollection, ReportItem, ReportType, OtherItem, Filling
      <4> QED BY <3>3, <4>1, FillItemMatch
    <3>4. CASE Parsed
      BY <3>4 DEF Parsed, MatchInv
    <3> QED BY <2>3, <3>1, <3>2, <3>3, <3>4 DEF ParseOn
  <2>4. CASE UNCHANGED importVars
    BY <2>4 DEF importVars, parserVars, MatchInv
  <2> QED BY <2>2, <2>3, <2>4 DEF ImportNext
<1> QED BY <1>1, <1>2, ParserInvariant, PTL DEF ImportSpec

\* A descriptor is taken only if its collections are closed as they were opened, each Pop has
\* its Push, and at every report item each minimum has its maximum, provided that no bound was
\* given twice.  (TakesOnlyMatched, the first part of TablesFollowDescriptor)
THEOREM DescriptorsAreMatched ==
  ASSUME \A d \in Descriptors : Countable(d)
  PROVE  ImportSpec => []TakesOnlyMatched
<1>1. ParserInv /\ Ended /\ MatchInv => TakesOnlyMatched
  <2> SUFFICES ASSUME ParserInv, Ended, MatchInv, phase = "parsed"
               PROVE  TakesOnlyMatched
    BY DEF TakesOnlyMatched
  <2> DEFINE d == descriptor
  <2>1. /\ d \in Descriptors /\ Len(d) \in Nat /\ DOMAIN d = 1 .. Len(d) /\ Balanced(d)
        /\ at = Len(d) + 1 /\ Matched(d, at)
    <3>1. /\ d \in Descriptors /\ at \in 1 .. Len(d) + 1 /\ at > Len(d) /\ Len(d) \in Nat
          /\ DOMAIN d = 1 .. Len(d)
      BY Descriptor DEF ParserInv, AtItem, atEnd
    <3> QED BY <3>1 DEF Ended, MatchInv
  <2>2. /\ \A tags : Positions(tags) = At(d, tags) /\ \A q : Number(q, tags) = Num(d, tags, q)
        /\ \A q : Depth(q) = Deep(d, q) /\ Pushed(q) = Stacked(d, q)
    <3>1. \A tags : Positions(tags) = At(d, tags)
      BY DEF Positions, At, D
    <3> QED BY <3>1, SameTree DEF Pushed, Stacked
  <2>3. Depth(Len(D) + 1) = 0 /\ \A p \in DOMAIN D : Depth(p) >= 0
    <3>1. \A q \in 1 .. Len(d) + 1 : Deep(d, q) \in Nat
      BY <2>1 DEF Balanced
    <3>2. \A q \in 1 .. Len(d) : Deep(d, q) >= 0
      BY <2>1, <3>1
    <3> QED BY <2>1, <2>2, <3>2 DEF Balanced, D
  <2>4. ASSUME NEW p \in Positions({"Pop"})
        PROVE  Pushed(p) > 0
    <3>1. p \in 1 .. Len(d) /\ p + 1 \in 1 .. Len(d) + 1 /\ d[p].tag = "Pop"
      BY <2>1 DEF Positions, D
    <3>2. \A tags : /\ Num(d, tags, p) \in Nat
                    /\ Num(d, tags, p + 1) = Num(d, tags, p) + (IF d[p].tag \in tags THEN 1 ELSE 0)
      BY <2>1, <3>1, CountsGrow
    <3>3. /\ Num(d, {"Push"}, p) \in Nat /\ Num(d, {"Pop"}, p) \in Nat
          /\ Num(d, {"Push"}, p + 1) = Num(d, {"Push"}, p)
          /\ Num(d, {"Pop"}, p + 1) = Num(d, {"Pop"}, p) + 1
      BY <3>1, <3>2
    <3>4. Stacked(d, p + 1) \in Nat
      BY <2>1, <3>1 DEF Balanced
    <3>5. Stacked(d, p) > 0
      BY <3>3, <3>4 DEF Stacked
    <3> QED BY <2>2, <3>5
  <2>5. ASSUME NEW p \in Positions(DataTags), NEW k \in Kinds, GivenOnce(k, p)
        PROVE  Waiting(k, p) = 0
    <3>1. p \in At(d, DataTags) /\ p \in 1 .. Len(d)
      BY <2>1, <2>2 DEF At
    <3>2. p \in Cut(At(d, DataTags), at)
      BY <2>1, <3>1 DEF Cut
    <3>3. Once(d, k, p) /\ Waiting(k, p) = Excess(d, k, p)
      BY <2>5, SameWaiting
    <3> QED BY <2>1, <3>2, <3>3 DEF Matched
  <2> QED BY <2>3, <2>4, <2>5 DEF TakesOnlyMatched
<1> QED BY <1>1, TreeInvariant, MatchInvariant, PTL
-------------------------------------------------------------------------------
(* The global items. *)

GlobalTags == {"UsagePage", "LogicalMinimum", "LogicalMaximum", "ReportSize", "ReportCount"}
GlobalFields ==
  {"usagePage", "logicalMinimum", "logicalMaximum", "reportsize", "reportCount", "reportID",
   "reportIndex"}

\* The Push that a Pop at a position goes back to, and the items that no Pop has undone.
Match(d, r) ==
  Max({m \in Cut(At(d, {"Push"}), r) : Stacked(d, m) = Stacked(d, r) - 1})
Undo(d, q, p) == \E r \in Cut(At(d, {"Pop"}), p) : r > q /\ Match(d, r) < q
Effective(d, tag, p) == {q \in Cut(At(d, {tag}), p) : ~Undo(d, q, p)}

\* A Push that fills a level of the stack which no Pop has emptied.
Held(d, m, j, p) ==
  /\ m \in Cut(At(d, {"Push"}), p) /\ Stacked(d, m) = j
  /\ \A s \in m + 1 .. p : Stacked(d, s) > j

LEMMA SameInForce ==
  /\ \A tag, p : InForce(tag, p) = Effective(descriptor, tag, p)
  /\ \A p : Pushed(p) = Stacked(descriptor, p)
<1>1. \A tags : Positions(tags) = At(descriptor, tags)
  BY DEF Positions, At, D
<1>2. \A p, tags : Before(p, tags) = Cut(At(descriptor, tags), p)
  BY <1>1 DEF Before, Cut
<1>3. \A p : Pushed(p) = Stacked(descriptor, p)
  BY SameTree DEF Pushed, Stacked
<1>4. \A q, p : Undone(q, p) <=> Undo(descriptor, q, p)
  BY <1>2, <1>3 DEF Undone, Undo, Match
<1> QED BY <1>2, <1>3, <1>4 DEF InForce, Effective

\* What is pushed at the next item.
LEMMA StackedGrows ==
  ASSUME NEW d \in Descriptors, NEW p \in 1 .. Len(d)
  PROVE  /\ Stacked(d, p) \in Int /\ Stacked(d, p + 1) \in Int
         /\ Stacked(d, p + 1) = Stacked(d, p) + (IF d[p].tag = "Push" THEN 1 ELSE 0)
                                  - (IF d[p].tag = "Pop" THEN 1 ELSE 0)
<1>1. \A tags : /\ Num(d, tags, p) \in Nat
                /\ Num(d, tags, p + 1) = Num(d, tags, p) + (IF d[p].tag \in tags THEN 1 ELSE 0)
  BY CountsGrow
<1>2. /\ Num(d, {"Push"}, p) \in Nat /\ Num(d, {"Pop"}, p) \in Nat
      /\ Num(d, {"Push"}, p + 1) = Num(d, {"Push"}, p) + (IF d[p].tag = "Push" THEN 1 ELSE 0)
      /\ Num(d, {"Pop"}, p + 1) = Num(d, {"Pop"}, p) + (IF d[p].tag = "Pop" THEN 1 ELSE 0)
  BY <1>1
<1> QED BY <1>2 DEF Stacked

\* The items before the next position.
LEMMA CutNext ==
  ASSUME NEW d \in Descriptors, NEW p \in 1 .. Len(d), NEW tags
  PROVE  /\ \A q \in Cut(At(d, tags), p) : q \in 1 .. Len(d) /\ q < p /\ d[q].tag \in tags
         /\ d[p].tag \in tags => Cut(At(d, tags), p + 1) = Cut(At(d, tags), p) \cup {p}
         /\ d[p].tag \notin tags => Cut(At(d, tags), p + 1) = Cut(At(d, tags), p)
<1>1. /\ Len(d) \in Nat /\ p \in DOMAIN d /\ At(d, tags) \in SUBSET (1 .. Len(d))
      /\ \A q \in At(d, tags) : q \in Int
  BY Descriptor
<1>2. \A q \in At(d, tags) : q < p + 1 <=> q < p \/ q = p
  BY <1>1
<1>3. p \in At(d, tags) <=> d[p].tag \in tags
  BY <1>1 DEF At
<1> QED BY <1>1, <1>2, <1>3 DEF Cut, At

\* What is held stays held as long as its level is not emptied.
LEMMA HeldStays ==
  ASSUME NEW d \in Descriptors, NEW p \in 1 .. Len(d), NEW j \in Int, NEW m
  PROVE  /\ Held(d, m, j, p) /\ Stacked(d, p + 1) > j => Held(d, m, j, p + 1)
         /\ Held(d, m, j, p + 1) /\ m # p =>
              Held(d, m, j, p) /\ Stacked(d, p) > j /\ Stacked(d, p + 1) > j
         /\ Held(d, m, j, p + 1) /\ m = p => d[p].tag = "Push" /\ j = Stacked(d, p)
<1>1. /\ \A q \in Cut(At(d, {"Push"}), p) : q \in 1 .. Len(d) /\ q < p /\ d[q].tag = "Push"
      /\ \A q \in Cut(At(d, {"Push"}), p + 1) : q \in Cut(At(d, {"Push"}), p) \/ q = p
      /\ Cut(At(d, {"Push"}), p) \subseteq Cut(At(d, {"Push"}), p + 1)
      /\ p \in Cut(At(d, {"Push"}), p + 1) => d[p].tag = "Push"
  <2>1. CASE d[p].tag \in {"Push"}
    BY <2>1, CutNext
  <2>2. CASE d[p].tag \notin {"Push"}
    <3>1. p \notin Cut(At(d, {"Push"}), p)
      BY CutNext
    <3> QED BY <2>2, <3>1, CutNext
  <2> QED BY <2>1, <2>2
<1>2. Len(d) \in Nat
  BY Descriptor
<1>3. ASSUME Held(d, m, j, p), Stacked(d, p + 1) > j
      PROVE  Held(d, m, j, p + 1)
  <2>1. m \in 1 .. Len(d) /\ m < p
    BY <1>1, <1>3 DEF Held
  <2>2. \A s \in m + 1 .. p + 1 : s \in m + 1 .. p \/ s = p + 1
    BY <1>2, <2>1
  <2> QED BY <1>1, <1>3, <2>2 DEF Held
<1>4. ASSUME Held(d, m, j, p + 1), m # p
      PROVE  Held(d, m, j, p) /\ Stacked(d, p) > j /\ Stacked(d, p + 1) > j
  <2>1. m \in Cut(At(d, {"Push"}), p) /\ m \in 1 .. Len(d) /\ m < p
    BY <1>1, <1>4 DEF Held
  <2>2. /\ \A s \in m + 1 .. p : s \in m + 1 .. p + 1
        /\ p \in m + 1 .. p + 1 /\ p + 1 \in m + 1 .. p + 1
    BY <1>2, <2>1
  <2> QED BY <1>4, <2>1, <2>2 DEF Held
<1>5. Held(d, m, j, p + 1) /\ m = p => d[p].tag = "Push" /\ j = Stacked(d, p)
  BY <1>1 DEF Held
<1> QED BY <1>3, <1>4, <1>5

\* Every level of the stack is held by a Push.
AllHeld(d, p) == \A j \in 0 .. Stacked(d, p) - 1 : \E m : Held(d, m, j, p)

LEMMA HeldThere ==
  ASSUME NEW d \in Descriptors, Balanced(d)
  PROVE  \A p \in 1 .. Len(d) + 1 : AllHeld(d, p)
<1>1. Len(d) \in Nat /\ \A q \in 1 .. Len(d) + 1 : Stacked(d, q) \in Nat
  BY Descriptor DEF Balanced
<1>2. AllHeld(d, 1)
  <2>1. \A tags : Num(d, tags, 1) = 0
    BY CountsEnd
  <2>2. Stacked(d, 1) = 0
    BY <2>1 DEF Stacked
  <2>3. 0 .. Stacked(d, 1) - 1 = {}
    BY <2>2
  <2> QED BY <2>3 DEF AllHeld
<1>3. ASSUME NEW p \in 1 .. Len(d), AllHeld(d, p)
      PROVE  AllHeld(d, p + 1)
  <2> SUFFICES ASSUME NEW j \in 0 .. Stacked(d, p + 1) - 1
               PROVE  \E m : Held(d, m, j, p + 1)
    BY DEF AllHeld
  <2>1. /\ Stacked(d, p) \in Nat /\ Stacked(d, p + 1) \in Nat /\ j \in Nat /\ Stacked(d, p + 1) > j
        /\ Stacked(d, p + 1) = Stacked(d, p) + (IF d[p].tag = "Push" THEN 1 ELSE 0)
                                 - (IF d[p].tag = "Pop" THEN 1 ELSE 0)
    BY <1>1, StackedGrows
  <2>2. CASE j < Stacked(d, p)
    <3>0. j \in 0 .. Stacked(d, p) - 1
      BY <2>1, <2>2
    <3>1. PICK m : Held(d, m, j, p)
      BY <1>3, <3>0 DEF AllHeld
    <3> QED BY <2>1, <3>1, HeldStays
  <2>3. CASE ~(j < Stacked(d, p))
    <3>1. d[p].tag = "Push" /\ j = Stacked(d, p)
      BY <2>1, <2>3
    <3>2. p \in Cut(At(d, {"Push"}), p + 1)
      BY <3>1, CutNext
    <3>3. \A s \in p + 1 .. p + 1 : s = p + 1
      OBVIOUS
    <3> QED BY <2>1, <3>1, <3>2, <3>3 DEF Held
  <2> QED BY <2>2, <2>3
<1>4. SUFFICES ASSUME {p \in 1 .. Len(d) + 1 : ~AllHeld(d, p)} # {}
               PROVE  FALSE
  OBVIOUS
<1>5. PICK p \in 1 .. Len(d) + 1 :
        /\ ~AllHeld(d, p)
        /\ \A q \in 1 .. Len(d) + 1 : ~AllHeld(d, q) => p <= q
  <2> DEFINE S == {p \in 1 .. Len(d) + 1 : ~AllHeld(d, p)}
  <2>1. S \in SUBSET Nat /\ S # {}
    BY <1>4
  <2> HIDE DEF S
  <2>2. PICK m \in S : \A n \in S : m <= n
    BY <2>1, Least
  <2> QED BY <2>2 DEF S
<1>6. p # 1
  BY <1>2, <1>5
<1>7. p - 1 \in 1 .. Len(d) /\ p - 1 \in 1 .. Len(d) + 1 /\ ~(p <= p - 1) /\ (p - 1) + 1 = p
  BY <1>1, <1>5, <1>6
<1>8. AllHeld(d, p - 1)
  BY <1>5, <1>7
<1> QED BY <1>3, <1>5, <1>7, <1>8

\* A Pop goes back to the Push that holds the uppermost level.
LEMMA MatchIs ==
  ASSUME NEW d \in Descriptors, Balanced(d), NEW r \in 1 .. Len(d) + 1, NEW m,
         Held(d, m, Stacked(d, r) - 1, r)
  PROVE  Match(d, r) = m /\ m \in 1 .. Len(d) /\ m < r
<1> DEFINE M == {n \in Cut(At(d, {"Push"}), r) : Stacked(d, n) = Stacked(d, r) - 1}
<1>1. /\ Len(d) \in Nat /\ At(d, {"Push"}) \in SUBSET (1 .. Len(d)) /\ Stacked(d, r) \in Nat
  BY Descriptor DEF Balanced
<1>2. m \in M /\ m \in 1 .. Len(d) /\ m < r
  BY <1>1 DEF Held, Cut
<1>3. ASSUME NEW n \in M
      PROVE  n \in Int /\ m >= n
  <2>1. n \in 1 .. Len(d) /\ n < r /\ Stacked(d, n) = Stacked(d, r) - 1
    BY <1>1 DEF Cut
  <2>2. CASE m < n
    <3>1. n \in m + 1 .. r
      BY <1>1, <1>2, <2>1, <2>2
    <3>2. Stacked(d, n) > Stacked(d, r) - 1
      BY <3>1 DEF Held
    <3> QED BY <1>1, <2>1, <3>2
  <2> QED BY <1>2, <2>1, <2>2
<1> HIDE DEF M
<1>4. \A n \in M : (\A o \in M : n >= o) => n = m
  <2> SUFFICES ASSUME NEW n \in M, \A o \in M : n >= o
               PROVE  n = m
    OBVIOUS
  <2>1. n >= m /\ m >= n /\ n \in Int /\ m \in Int
    BY <1>2, <1>3
  <2> QED BY <2>1
<1>5. Max(M) = m
  BY <1>2, <1>3, <1>4 DEF Max
<1> QED BY <1>2, <1>5 DEF Match, M

\* A global item takes effect; other items leave the global ones alone.
LEMMA EffectiveGrows ==
  ASSUME NEW d \in Descriptors, NEW p \in 1 .. Len(d), d[p].tag # "Pop", NEW tag, tag # "Pop"
  PROVE  /\ d[p].tag # tag => Effective(d, tag, p + 1) = Effective(d, tag, p)
         /\ d[p].tag = tag =>
              Effective(d, tag, p + 1) # {} /\ Max(Effective(d, tag, p + 1)) = p
<1>1. Cut(At(d, {"Pop"}), p + 1) = Cut(At(d, {"Pop"}), p)
  <2>1. d[p].tag \notin {"Pop"}
    OBVIOUS
  <2> QED BY <2>1, CutNext
<1>2. \A q : Undo(d, q, p + 1) <=> Undo(d, q, p)
  BY <1>1 DEF Undo
<1>3. ASSUME d[p].tag # tag
      PROVE  Effective(d, tag, p + 1) = Effective(d, tag, p)
  <2>1. d[p].tag \notin {tag}
    BY <1>3
  <2>2. Cut(At(d, {tag}), p + 1) = Cut(At(d, {tag}), p)
    BY <2>1, CutNext
  <2> QED BY <1>2, <2>2 DEF Effective
<1>4. ASSUME d[p].tag = tag
      PROVE  Effective(d, tag, p + 1) # {} /\ Max(Effective(d, tag, p + 1)) = p
  <2> DEFINE E == Effective(d, tag, p + 1)
  <2>1. /\ Cut(At(d, {tag}), p + 1) = Cut(At(d, {tag}), p) \cup {p}
        /\ \A q \in Cut(At(d, {tag}), p) : q \in 1 .. Len(d) /\ q < p
    <3>1. d[p].tag \in {tag}
      BY <1>4
    <3> QED BY <3>1, CutNext
  <2>2. \A r \in Cut(At(d, {"Pop"}), p) : r \in 1 .. Len(d) /\ r < p
    BY CutNext
  <2>3. ~Undo(d, p, p + 1)
    <3>1. \A r \in Cut(At(d, {"Pop"}), p) : ~(r > p)
      BY <2>2
    <3> QED BY <1>1, <3>1 DEF Undo
  <2>4. p \in E /\ \A q \in E : q \in Int /\ p >= q
    <3>1. \A q \in E : q \in Cut(At(d, {tag}), p) \/ q = p
      BY <2>1 DEF Effective
    <3>2. p \in E
      BY <2>1, <2>3 DEF Effective
    <3>3. Len(d) \in Nat
      BY Descriptor
    <3>4. ASSUME NEW q \in E
          PROVE  q \in 1 .. Len(d) /\ p >= q
      <4>1. CASE q \in Cut(At(d, {tag}), p)
        <5>1. q \in 1 .. Len(d) /\ q < p
          BY <2>1, <4>1
        <5> QED BY <3>3, <5>1
      <4>2. CASE q = p
        BY <3>3, <4>2
      <4> QED BY <3>1, <4>1, <4>2
    <3> QED BY <3>2, <3>3, <3>4
  <2> HIDE DEF E
  <2>5. \A n \in E : (\A o \in E : n >= o) => n = p
    <3> SUFFICES ASSUME NEW n \in E, \A o \in E : n >= o
                 PROVE  n = p
      OBVIOUS
    <3>1. n >= p /\ p >= n /\ n \in Int
      BY <2>4
    <3> QED BY <3>1
  <2>6. Max(E) = p
    BY <2>4, <2>5 DEF Max
  <2> QED BY <2>4, <2>6 DEF E
<1> QED BY <1>3, <1>4

\* After a Pop the global items are those that were in force at its Push.
LEMMA EffectiveBack ==
  ASSUME NEW d \in Descriptors, Balanced(d), NEW p \in 1 .. Len(d), d[p].tag = "Pop",
         NEW m, Held(d, m, Stacked(d, p) - 1, p), NEW tag, tag \notin {"Push", "Pop"}
  PROVE  Effective(d, tag, p + 1) = Effective(d, tag, m)
<1>1. /\ Len(d) \in Nat /\ p \in 1 .. Len(d) + 1 /\ p \in DOMAIN d /\ DOMAIN d = 1 .. Len(d)
      /\ \A tags : At(d, tags) \in SUBSET (1 .. Len(d))
      /\ \A q \in 1 .. Len(d) + 1 : Stacked(d, q) \in Nat
  BY Descriptor DEF Balanced
<1>2. Match(d, p) = m /\ m \in 1 .. Len(d) /\ m < p
  BY <1>1, MatchIs
<1>3. d[m].tag = "Push"
  BY <1>2 DEF Held, Cut, At
<1>4. \A s \in m + 1 .. p : Stacked(d, s) > Stacked(d, p) - 1
  BY DEF Held
<1>5. Stacked(d, m) = Stacked(d, p) - 1 /\ Stacked(d, m) \in Nat /\ Stacked(d, p) \in Nat
  BY <1>1, <1>2 DEF Held
<1>6. \A tags : \A q \in At(d, tags) : q \in 1 .. Len(d) /\ d[q].tag \in tags
  BY <1>1 DEF At
<1>7. p \in Cut(At(d, {"Pop"}), p + 1)
  BY <1>1 DEF Cut, At
\* No Pop after the Push undoes what came before it.
<1>8. ASSUME NEW r \in Cut(At(d, {"Pop"}), p + 1), r >= m
      PROVE  Match(d, r) >= m /\ r > m
  <2>1. r \in 1 .. Len(d) /\ r < p + 1 /\ d[r].tag = "Pop"
    BY <1>6 DEF Cut
  <2>2. r \in m + 1 .. p /\ r \in 1 .. Len(d) + 1
    <3>1. r # m
      BY <1>3, <2>1
    <3> QED BY <1>1, <1>2, <1>8, <2>1, <3>1
  <2>3. CASE r = p
    BY <1>2, <2>2, <2>3
  <2>4. CASE r # p
    <3>1. r + 1 \in m + 1 .. p /\ r + 1 \in 1 .. Len(d) + 1
      BY <1>1, <1>2, <2>1, <2>2, <2>4
    <3>2. Stacked(d, r + 1) > Stacked(d, p) - 1 /\ Stacked(d, r + 1) = Stacked(d, r) - 1
          /\ Stacked(d, r) \in Nat
      <4>1. Stacked(d, r + 1) = Stacked(d, r) + 0 - 1
        BY <2>1, StackedGrows
      <4> QED BY <1>1, <1>4, <2>2, <3>1, <4>1
    <3>3. Stacked(d, r) - 1 \in 0 .. Stacked(d, r) - 1 /\ Stacked(d, r) - 1 > Stacked(d, m)
      BY <1>5, <3>2
    <3>4. PICK n : Held(d, n, Stacked(d, r) - 1, r)
      <4>1. AllHeld(d, r)
        BY <2>2, HeldThere
      <4> QED BY <3>3, <4>1 DEF AllHeld
    <3>5. Match(d, r) = n /\ n \in 1 .. Len(d) /\ n < r
      BY <2>2, <3>4, MatchIs
    <3>6. CASE n < m
      <4>1. m \in n + 1 .. r
        BY <1>2, <2>2, <3>5, <3>6
      <4>2. Stacked(d, m) > Stacked(d, r) - 1
        BY <3>4, <4>1 DEF Held
      <4> QED BY <1>5, <3>2, <3>3, <4>2
    <3> QED BY <1>2, <2>2, <3>5, <3>6
  <2> QED BY <2>3, <2>4
<1>9. ASSUME NEW q \in Cut(At(d, {tag}), p + 1)
      PROVE  q \in Effective(d, tag, p + 1) <=> q \in Effective(d, tag, m)
  <2>1. q \in 1 .. Len(d) /\ q < p + 1 /\ d[q].tag = tag /\ q \in At(d, {tag})
    BY <1>6 DEF Cut
  <2>2. q # m /\ q # p
    BY <1>3, <2>1
  <2>3. CASE q > m
    <3>1. Undo(d, q, p + 1)
      <4>1. p > q /\ Match(d, p) < q
        BY <1>2, <2>1, <2>2, <2>3
      <4> QED BY <1>7, <4>1 DEF Undo
    <3>2. q \notin Cut(At(d, {tag}), m)
      BY <1>2, <2>1, <2>3 DEF Cut
    <3> QED BY <3>1, <3>2 DEF Effective
  <2>4. CASE q < m
    <3>1. q \in Cut(At(d, {tag}), m)
      BY <2>1, <2>4 DEF Cut
    <3>2. ASSUME Undo(d, q, m)
          PROVE  Undo(d, q, p + 1)
      <4>1. PICK r \in Cut(At(d, {"Pop"}), m) : r > q /\ Match(d, r) < q
        BY <3>2 DEF Undo
      <4>2. r \in Cut(At(d, {"Pop"}), p + 1)
        <5>1. r \in At(d, {"Pop"}) /\ r < m
          BY <4>1 DEF Cut
        <5>2. r < p + 1
          BY <1>2, <1>6, <5>1
        <5> QED BY <5>1, <5>2 DEF Cut
      <4> QED BY <4>1, <4>2 DEF Undo
    <3>3. ASSUME Undo(d, q, p + 1)
          PROVE  Undo(d, q, m)
      <4>1. PICK r \in Cut(At(d, {"Pop"}), p + 1) : r > q /\ Match(d, r) < q
        BY <3>3 DEF Undo
      <4>2. r \in At(d, {"Pop"}) /\ r \in 1 .. Len(d)
        BY <1>6, <4>1 DEF Cut
      <4>3. ~(r >= m)
        <5>1. SUFFICES ASSUME r >= m
                       PROVE  FALSE
          OBVIOUS
        <5>2. Match(d, r) >= m /\ r > m
          BY <1>8, <4>1, <5>1
        <5>3. PICK n : n = Match(d, r)
          OBVIOUS
        <5>4. n \in Int
          <6>1. AllHeld(d, r) /\ Stacked(d, r) \in Nat /\ r \in 1 .. Len(d) + 1
            BY <1>1, <4>2, HeldThere
          <6>2. Stacked(d, r) - 1 \in 0 .. Stacked(d, r) - 1
            <7>1. Stacked(d, r + 1) = Stacked(d, r) + 0 - 1
              <8>1. d[r].tag = "Pop"
                BY <1>6, <4>2
              <8> QED BY <4>2, <8>1, StackedGrows
            <7>2. Stacked(d, r + 1) \in Nat
              BY <1>1, <4>2
            <7> QED BY <6>1, <7>1, <7>2
          <6>3. PICK o : Held(d, o, Stacked(d, r) - 1, r)
            BY <6>1, <6>2 DEF AllHeld
          <6> QED BY <5>3, <6>1, <6>3, MatchIs
        <5>5. n >= m /\ n < q
          BY <4>1, <5>2, <5>3
        <5> QED BY <1>2, <2>1, <2>4, <5>4, <5>5
      <4>4. r \in Cut(At(d, {"Pop"}), m)
        BY <1>2, <4>2, <4>3 DEF Cut
      <4> QED BY <4>1, <4>4 DEF Undo
    <3> QED BY <3>1, <3>2, <3>3 DEF Effective
  <2> QED BY <1>2, <2>1, <2>2, <2>3, <2>4
<1>10. Cut(At(d, {tag}), m) \subseteq Cut(At(d, {tag}), p + 1)
  <2>1. \A q \in At(d, {tag}) : q < m => q < p + 1
    BY <1>2, <1>6
  <2> QED BY <2>1 DEF Cut
<1>11. Effective(d, tag, p + 1) \subseteq Cut(At(d, {tag}), p + 1)
       /\ Effective(d, tag, m) \subseteq Cut(At(d, {tag}), p + 1)
  BY <1>10 DEF Effective
<1> QED BY <1>9, <1>11

\* The item that gives a global value at a position, and the global values it has to be.
NoItem == [tag |-> "Other", data |-> 0, size |-> 0, kind |-> "usage"]
Latest(d, tag, p) ==
  IF Effective(d, tag, p) = {} THEN NoItem ELSE d[Max(Effective(d, tag, p))]
GlobalsAt(d, p, g) ==
  /\ DOMAIN g = GlobalFields
  /\ g.usagePage = Word(Latest(d, "UsagePage", p).data)
  /\ g.logicalMinimum = Signed(Latest(d, "LogicalMinimum", p))
  /\ g.logicalMaximum = Signed(Latest(d, "LogicalMaximum", p))
  /\ g.reportsize = Byte(Latest(d, "ReportSize", p).data)
  /\ g.reportCount = Byte(Latest(d, "ReportCount", p).data)

\* The stack has the values at each Push, and the report items those at their positions.
StackAt(d, p, stack) ==
  \A j \in 0 .. Stacked(d, p) - 1 : \A m : Held(d, m, j, p) => GlobalsAt(d, m, stack[j])
ItemsAt(d, p, items) ==
  \A q \in Cut(At(d, DataTags), p) :
    /\ items[Num(d, DataTags, q)].reportType = d[q].tag
    /\ GlobalsAt(d, q, items[Num(d, DataTags, q)].globals)
GlobalInv ==
  phase \in {"fill", "parsed"} =>
    /\ GlobalsAt(descriptor, at, info.globals) /\ StackAt(descriptor, at, globalsStack)
    /\ ItemsAt(descriptor, at, reportItemList)

SameGlobals(g, h) ==
  /\ DOMAIN h = DOMAIN g
  /\ h.usagePage = g.usagePage /\ h.logicalMinimum = g.logicalMinimum
  /\ h.logicalMaximum = g.logicalMaximum /\ h.reportsize = g.reportsize
  /\ h.reportCount = g.reportCount

LEMMA GlobalsStay ==
  ASSUME NEW d \in Descriptors, NEW p \in 1 .. Len(d), d[p].tag \notin GlobalTags \cup {"Pop"},
         NEW g, NEW h, GlobalsAt(d, p, g), SameGlobals(g, h)
  PROVE  GlobalsAt(d, p + 1, h)
<1>1. ASSUME NEW tag \in GlobalTags
      PROVE  Latest(d, tag, p + 1) = Latest(d, tag, p)
  <2>1. d[p].tag # tag /\ d[p].tag # "Pop" /\ tag # "Pop"
    BY DEF GlobalTags
  <2>2. Effective(d, tag, p + 1) = Effective(d, tag, p)
    BY <2>1, EffectiveGrows
  <2> QED BY <2>2 DEF Latest
<1>2. /\ Latest(d, "UsagePage", p + 1) = Latest(d, "UsagePage", p)
      /\ Latest(d, "LogicalMinimum", p + 1) = Latest(d, "LogicalMinimum", p)
      /\ Latest(d, "LogicalMaximum", p + 1) = Latest(d, "LogicalMaximum", p)
      /\ Latest(d, "ReportSize", p + 1) = Latest(d, "ReportSize", p)
      /\ Latest(d, "ReportCount", p + 1) = Latest(d, "ReportCount", p)
  BY <1>1 DEF GlobalTags
<1> QED BY <1>2 DEF GlobalsAt, SameGlobals

\* A global item sets its value.
NewGlobals(x, g) ==
  CASE x.tag = "UsagePage" -> [g EXCEPT !.usagePage = Word(x.data)]
    [] x.tag = "LogicalMinimum" -> [g EXCEPT !.logicalMinimum = Signed(x)]
    [] x.tag = "LogicalMaximum" -> [g EXCEPT !.logicalMaximum = Signed(x)]
    [] x.tag = "ReportSize" -> [g EXCEPT !.reportsize = Byte(x.data)]
    [] x.tag = "ReportCount" -> [g EXCEPT !.reportCount = Byte(x.data)]

LEMMA GlobalsSet ==
  ASSUME NEW d \in Descriptors, NEW p \in 1 .. Len(d), d[p].tag \in GlobalTags,
         NEW g, GlobalsAt(d, p, g)
  PROVE  GlobalsAt(d, p + 1, NewGlobals(d[p], g))
<1>1. d[p].tag # "Pop" /\ \A tag \in GlobalTags : tag # "Pop"
  BY DEF GlobalTags
<1>2. ASSUME NEW tag \in GlobalTags
      PROVE  Latest(d, tag, p + 1) = IF d[p].tag = tag THEN d[p] ELSE Latest(d, tag, p)
  <2>1. CASE d[p].tag = tag
    <3>1. Effective(d, tag, p + 1) # {} /\ Max(Effective(d, tag, p + 1)) = p
      BY <1>1, <2>1, EffectiveGrows
    <3> QED BY <2>1, <3>1 DEF Latest
  <2>2. CASE d[p].tag # tag
    <3>1. Effective(d, tag, p + 1) = Effective(d, tag, p)
      BY <1>1, <2>2, EffectiveGrows
    <3> QED BY <2>2, <3>1 DEF Latest
  <2> QED BY <2>1, <2>2
<1>3. DOMAIN g = GlobalFields
  BY DEF GlobalsAt
<1>4. /\ {"UsagePage", "LogicalMinimum", "LogicalMaximum", "ReportSize", "ReportCount"}
           = GlobalTags
      /\ {"usagePage", "logicalMinimum", "logicalMaximum", "reportsize", "reportCount"}
           \subseteq GlobalFields
  BY DEF GlobalTags, GlobalFields
<1>5. CASE d[p].tag = "UsagePage"
  <2>1. NewGlobals(d[p], g) = [g EXCEPT !.usagePage = Word(d[p].data)]
    BY <1>5 DEF NewGlobals
  <2> QED BY <1>2, <1>3, <1>4, <1>5, <2>1 DEF GlobalsAt
<1>6. CASE d[p].tag = "LogicalMinimum"
  <2>1. NewGlobals(d[p], g) = [g EXCEPT !.logicalMinimum = Signed(d[p])]
    BY <1>6 DEF NewGlobals
  <2> QED BY <1>2, <1>3, <1>4, <1>6, <2>1 DEF GlobalsAt
<1>7. CASE d[p].tag = "LogicalMaximum"
  <2>1. NewGlobals(d[p], g) = [g EXCEPT !.logicalMaximum = Signed(d[p])]
    BY <1>7 DEF NewGlobals
  <2> QED BY <1>2, <1>3, <1>4, <1>7, <2>1 DEF GlobalsAt
<1>8. CASE d[p].tag = "ReportSize"
  <2>1. NewGlobals(d[p], g) = [g EXCEPT !.reportsize = Byte(d[p].data)]
    BY <1>8 DEF NewGlobals
  <2> QED BY <1>2, <1>3, <1>4, <1>8, <2>1 DEF GlobalsAt
<1>9. CASE d[p].tag = "ReportCount"
  <2>1. NewGlobals(d[p], g) = [g EXCEPT !.reportCount = Byte(d[p].data)]
    BY <1>9 DEF NewGlobals
  <2> QED BY <1>2, <1>3, <1>4, <1>9, <2>1 DEF GlobalsAt
<1> QED BY <1>5, <1>6, <1>7, <1>8, <1>9 DEF GlobalTags

\* A Pop gives back what was in force at its Push.
LEMMA GlobalsBack ==
  ASSUME NEW d \in Descriptors, Balanced(d), NEW p \in 1 .. Len(d), d[p].tag = "Pop",
         NEW stack, StackAt(d, p, stack)
  PROVE  GlobalsAt(d, p + 1, stack[Stacked(d, p) - 1])
<1>1. Stacked(d, p) - 1 \in 0 .. Stacked(d, p) - 1
  <2>1. p \in 1 .. Len(d) + 1 /\ p + 1 \in 1 .. Len(d) + 1
    BY Descriptor
  <2>2. Stacked(d, p) \in Nat /\ Stacked(d, p + 1) \in Nat
    BY <2>1 DEF Balanced
  <2>3. Stacked(d, p + 1) = Stacked(d, p) + 0 - 1
    BY StackedGrows
  <2> QED BY <2>2, <2>3
<1>2. PICK m : Held(d, m, Stacked(d, p) - 1, p)
  <2>1. p \in 1 .. Len(d) + 1
    BY Descriptor
  <2>2. AllHeld(d, p)
    BY <2>1, HeldThere
  <2> QED BY <1>1, <2>2 DEF AllHeld
<1>3. GlobalsAt(d, m, stack[Stacked(d, p) - 1])
  BY <1>1, <1>2 DEF StackAt
<1>4. \A tag \in GlobalTags : tag \notin {"Push", "Pop"}
  BY DEF GlobalTags
<1>5. ASSUME NEW tag \in GlobalTags
      PROVE  Latest(d, tag, p + 1) = Latest(d, tag, m)
  <2>1. Effective(d, tag, p + 1) = Effective(d, tag, m)
    BY <1>2, <1>4, EffectiveBack
  <2> QED BY <2>1 DEF Latest
<1>6. /\ Latest(d, "UsagePage", p + 1) = Latest(d, "UsagePage", m)
      /\ Latest(d, "LogicalMinimum", p + 1) = Latest(d, "LogicalMinimum", m)
      /\ Latest(d, "LogicalMaximum", p + 1) = Latest(d, "LogicalMaximum", m)
      /\ Latest(d, "ReportSize", p + 1) = Latest(d, "ReportSize", m)
      /\ Latest(d, "ReportCount", p + 1) = Latest(d, "ReportCount", m)
  BY <1>5 DEF GlobalTags
<1> QED BY <1>3, <1>6 DEF GlobalsAt

\* The stack, without a Push and with one.
LEMMA StackStays ==
  ASSUME NEW d \in Descriptors, NEW p \in 1 .. Len(d), NEW stack, StackAt(d, p, stack)
  PROVE  /\ d[p].tag # "Push" => StackAt(d, p + 1, stack)
         /\ \A g : /\ d[p].tag = "Push" /\ GlobalsAt(d, p, g)
                   /\ \A j \in 0 .. Stacked(d, p) : j \in DOMAIN stack
                   => StackAt(d, p + 1, [stack EXCEPT ![Stacked(d, p)] = g])
<1>1. /\ Stacked(d, p) \in Int /\ Stacked(d, p + 1) \in Int
      /\ Stacked(d, p + 1) = Stacked(d, p) + (IF d[p].tag = "Push" THEN 1 ELSE 0)
                               - (IF d[p].tag = "Pop" THEN 1 ELSE 0)
  BY StackedGrows
<1>2. ASSUME NEW j \in 0 .. Stacked(d, p + 1) - 1, NEW m, Held(d, m, j, p + 1), m # p
      PROVE  GlobalsAt(d, m, stack[j]) /\ j \in 0 .. Stacked(d, p) - 1
  <2>1. j \in Int /\ j >= 0
    BY <1>1
  <2>2. Held(d, m, j, p) /\ Stacked(d, p) > j
    BY <1>2, <2>1, HeldStays
  <2>3. j \in 0 .. Stacked(d, p) - 1
    BY <1>1, <2>1, <2>2
  <2> QED BY <2>2, <2>3 DEF StackAt
<1>3. ASSUME NEW j \in 0 .. Stacked(d, p + 1) - 1, NEW m, Held(d, m, j, p + 1), m = p
      PROVE  d[p].tag = "Push" /\ j = Stacked(d, p)
  <2>1. j \in Int
    BY <1>1
  <2> QED BY <1>3, <2>1, HeldStays
<1>4. ASSUME d[p].tag # "Push"
      PROVE  StackAt(d, p + 1, stack)
  BY <1>2, <1>3, <1>4 DEF StackAt
<1>5. ASSUME NEW g, d[p].tag = "Push", GlobalsAt(d, p, g),
             \A j \in 0 .. Stacked(d, p) : j \in DOMAIN stack
      PROVE  StackAt(d, p + 1, [stack EXCEPT ![Stacked(d, p)] = g])
  <2> SUFFICES ASSUME NEW j \in 0 .. Stacked(d, p + 1) - 1, NEW m, Held(d, m, j, p + 1)
               PROVE  GlobalsAt(d, m, [stack EXCEPT ![Stacked(d, p)] = g][j])
    BY DEF StackAt
  <2>1. j \in 0 .. Stacked(d, p) /\ j \in DOMAIN stack
    <3>1. Stacked(d, p + 1) = Stacked(d, p) + 1 - 0
      BY <1>1, <1>5
    <3>2. j \in 0 .. Stacked(d, p)
      BY <1>1, <3>1
    <3> QED BY <1>5, <3>2
  <2>2. CASE m = p
    <3>1. j = Stacked(d, p)
      BY <1>3, <2>2
    <3> QED BY <1>5, <2>1, <2>2, <3>1
  <2>3. CASE m # p
    <3>1. GlobalsAt(d, m, stack[j]) /\ j \in 0 .. Stacked(d, p) - 1
      BY <1>2, <2>3
    <3>2. j # Stacked(d, p)
      BY <1>1, <3>1
    <3> QED BY <2>1, <3>1, <3>2
  <2> QED BY <2>2, <2>3
<1> QED BY <1>4, <1>5

\* The report items, with the next one.
LEMMA ItemsStay ==
  ASSUME NEW d \in Descriptors, NEW p \in 1 .. Len(d), NEW items, NEW new, ItemsAt(d, p, items),
         \A i \in 0 .. Num(d, DataTags, p) - 1 : new[i] = items[i],
         d[p].tag \in DataTags =>
           /\ new[Num(d, DataTags, p)].reportType = d[p].tag
           /\ GlobalsAt(d, p, new[Num(d, DataTags, p)].globals)
  PROVE  ItemsAt(d, p + 1, new)
<1> SUFFICES ASSUME NEW q \in Cut(At(d, DataTags), p + 1)
             PROVE  /\ new[Num(d, DataTags, q)].reportType = d[q].tag
                    /\ GlobalsAt(d, q, new[Num(d, DataTags, q)].globals)
  BY DEF ItemsAt
<1>1. CASE q \in Cut(At(d, DataTags), p)
  <2>1. Num(d, DataTags, q) \in 0 .. Num(d, DataTags, p) - 1
    <3>1. p \in 1 .. Len(d) + 1
      BY Descriptor
    <3>2. Num(d, DataTags, q) \in Nat /\ Num(d, DataTags, p) \in Nat
          /\ Num(d, DataTags, q) < Num(d, DataTags, p)
      BY <1>1, <3>1, NumbersBefore
    <3> QED BY <3>2
  <2>2. new[Num(d, DataTags, q)] = items[Num(d, DataTags, q)]
    BY <2>1
  <2> QED BY <1>1, <2>2 DEF ItemsAt
<1>2. CASE q = p /\ d[p].tag \in DataTags
  BY <1>2
<1> QED BY <1>1, <1>2, CutGrows

\* What is known where the second pass is.
LEMMA GlobalsThere ==
  ASSUME ParserInv, GlobalInv, phase = "fill", ~atEnd
  PROVE  /\ descriptor \in Descriptors /\ at \in 1 .. Len(descriptor) /\ Balanced(descriptor)
         /\ DOMAIN info = InfoFields /\ DOMAIN info.globals = GlobalFields
         /\ GlobalsAt(descriptor, at, info.globals) /\ StackAt(descriptor, at, globalsStack)
         /\ ItemsAt(descriptor, at, reportItemList) /\ item = descriptor[at]
<1>1. DOMAIN info = InfoFields
  BY DEF ParserInv, InfoShape
<1>2. GlobalsAt(descriptor, at, info.globals)
  BY DEF GlobalInv
<1> QED BY <1>1, <1>2, ItemThere DEF ParserInv, Rooms, GlobalInv, GlobalsAt, item

\* An item that leaves the global values alone, or at which the parser gives up.
LEMMA QuietGlobals ==
  ASSUME ParserInv, GlobalInv, phase = "fill", ~atEnd, descriptor' = descriptor,
         item.tag \notin GlobalTags \cup {"Push", "Pop"} \cup DataTags,
         \/ phase' \in {"idle", "overrun"}
         \/ /\ at' = at + 1 /\ SameGlobals(info.globals, info'.globals)
            /\ UNCHANGED <<globalsStack, reportItemList>>
  PROVE  GlobalInv'
<1>1. CASE phase' \in {"idle", "overrun"}
  BY <1>1 DEF GlobalInv
<1>2. CASE /\ at' = at + 1 /\ SameGlobals(info.globals, info'.globals)
           /\ UNCHANGED <<globalsStack, reportItemList>>
  <2>1. /\ descriptor \in Descriptors /\ at \in 1 .. Len(descriptor)
        /\ GlobalsAt(descriptor, at, info.globals) /\ StackAt(descriptor, at, globalsStack)
        /\ ItemsAt(descriptor, at, reportItemList)
    BY GlobalsThere
  <2>2. /\ descriptor[at].tag \notin GlobalTags \cup {"Pop"} /\ descriptor[at].tag # "Push"
        /\ descriptor[at].tag \notin DataTags
    BY DEF item
  <2>3. GlobalsAt(descriptor, at + 1, info'.globals)
    BY <1>2, <2>1, <2>2, GlobalsStay
  <2>4. StackAt(descriptor, at + 1, globalsStack)
    BY <2>1, <2>2, StackStays
  <2>5. ItemsAt(descriptor, at + 1, reportItemList)
    BY <2>1, <2>2, ItemsStay
  <2> QED BY <1>2, <2>3, <2>4, <2>5 DEF GlobalInv
<1> QED BY <1>1, <1>2

LEMMA QuietItemsGlobals ==
  ASSUME ParserInv, GlobalInv, descriptor' = descriptor,
         ReportIDItem \/ Index \/ Minimum \/ Maximum \/ Collection \/ EndCollection \/ OtherItem
  PROVE  GlobalInv'
<1> DEFINE Goal ==
      \/ phase' \in {"idle", "overrun"}
      \/ /\ at' = at + 1 /\ SameGlobals(info.globals, info'.globals)
         /\ UNCHANGED <<globalsStack, reportItemList>>
<1>1. phase = "fill" /\ ~atEnd
      /\ item.tag \notin GlobalTags \cup {"Push", "Pop"} \cup DataTags
  BY DEF ReportIDItem, Index, Minimum, Maximum, Collection, EndCollection, OtherItem, Filling,
         DataTags, GlobalTags
<1>2. \A error : Proceed(error) => at' = at + 1 \/ phase' = "idle"
  BY DEF Proceed, Return
<1>3. Overrun => Goal
  BY DEF Overrun
<1>4. DOMAIN info = InfoFields /\ DOMAIN info.globals = GlobalFields
  BY <1>1, GlobalsThere
<1>5. info'.globals = info.globals => SameGlobals(info.globals, info'.globals)
  BY DEF SameGlobals
<1>6. ASSUME ReportIDItem
      PROVE  Goal
  <2>1. CASE item.data = 0
    <3>1. Proceed("ZeroReportID")
      BY <1>6, <2>1 DEF ReportIDItem
    <3>2. phase' = "idle"
      BY <3>1 DEF Proceed, Return
    <3> QED BY <3>2
  <2>2. CASE item.data # 0
    <3>1. CASE Overrun
      BY <1>3, <3>1
    <3>2. CASE ~Overrun
      <4>1. /\ info' = [info EXCEPT !.reports = IF ReportIndex = @ THEN Byte(@ + 1) ELSE @,
                         !.globals.reportID = Byte(item.data), !.globals.reportIndex = ReportIndex]
            /\ Proceed("none") /\ UNCHANGED <<globalsStack, reportItemList>>
        BY <1>6, <2>2, <3>2 DEF ReportIDItem
      <4>2. info'.globals = [info.globals EXCEPT !.reportID = Byte(item.data),
                                                 !.reportIndex = ReportIndex]
        BY <1>4, <4>1 DEF InfoFields
      <4>3. SameGlobals(info.globals, info'.globals)
        BY <1>4, <4>2 DEF SameGlobals, GlobalFields
      <4> QED BY <1>2, <4>1, <4>3
    <3> QED BY <3>1, <3>2
  <2> QED BY <2>1, <2>2
<1>7. ASSUME NEW entry, NEW n, NEW error, AddItem(entry, n, error), DOMAIN n = InfoFields,
             n.globals = info.globals
      PROVE  Goal
  <2>1. CASE Overrun
    BY <1>3, <2>1
  <2>2. CASE ~Overrun
    <3>1. /\ info' = [n EXCEPT !.items[item.kind] = Byte(@ + 1)] /\ Proceed(error)
          /\ UNCHANGED <<globalsStack, reportItemList>>
      BY <1>7, <2>2 DEF AddItem
    <3>2. info'.globals = n.globals
      BY <1>7, <3>1 DEF InfoFields
    <3> QED BY <1>2, <1>5, <1>7, <3>1, <3>2
  <2> QED BY <2>1, <2>2
<1>8. ASSUME Index
      PROVE  Goal
  BY <1>4, <1>7, <1>8 DEF Index
<1>9. ASSUME NEW low, NEW high, NEW error, AddRange(low, high, error)
      PROVE  Goal
  <2> DEFINE n == [info EXCEPT !.haveMin[item.kind] = FALSE, !.haveMax[item.kind] = FALSE]
  <2>1. PICK entry, e : AddItem(entry, n, e)
    BY <1>9 DEF AddRange
  <2>2. DOMAIN n = InfoFields /\ n.globals = info.globals
    BY <1>4 DEF InfoFields
  <2> HIDE DEF n
  <2> QED BY <1>7, <2>1, <2>2
<1>10. ASSUME Minimum
       PROVE  Goal
  <2>1. CASE info.haveMax[item.kind]
    BY <1>9, <1>10, <2>1 DEF Minimum
  <2>2. CASE ~info.haveMax[item.kind]
    <3>1. /\ info' = [info EXCEPT !.minimum[item.kind] = ValueOf(item),
                        !.haveMin[item.kind] = TRUE, !.rangeUsagePage = RangePage]
          /\ Proceed("none") /\ UNCHANGED <<globalsStack, reportItemList>>
      BY <1>10, <2>2 DEF Minimum, tables
    <3>2. info'.globals = info.globals
      BY <1>4, <3>1 DEF InfoFields
    <3> QED BY <1>2, <1>5, <3>1, <3>2
  <2> QED BY <2>1, <2>2
<1>11. ASSUME Maximum
       PROVE  Goal
  <2>1. CASE info.haveMin[item.kind]
    BY <1>9, <1>11, <2>1 DEF Maximum
  <2>2. CASE ~info.haveMin[item.kind]
    <3>1. /\ info' = [info EXCEPT !.maximum[item.kind] = ValueOf(item),
                        !.haveMax[item.kind] = TRUE, !.rangeUsagePage = RangePage]
          /\ Proceed("none") /\ UNCHANGED <<globalsStack, reportItemList>>
      BY <1>11, <2>2 DEF Maximum, tables
    <3>2. info'.globals = info.globals
      BY <1>4, <3>1 DEF InfoFields
    <3> QED BY <1>2, <1>5, <3>1, <3>2
  <2> QED BY <2>1, <2>2
<1>12. ASSUME Collection
       PROVE  Goal
  <2>1. CASE Overrun
    BY <1>3, <2>1
  <2>2. CASE ~Overrun
    <3>1. /\ info' = [info EXCEPT !.collections = Byte(@ + 1), !.first = UsagesTaken,
                        !.sibling = 0, !.collectionNesting = Byte(@ + 1),
                        !.parent = info.collections]
          /\ Proceed("none") /\ UNCHANGED <<globalsStack, reportItemList>>
      BY <1>12, <2>2 DEF Collection
    <3>2. info'.globals = info.globals
      BY <1>4, <3>1 DEF InfoFields
    <3> QED BY <1>2, <1>5, <3>1, <3>2
  <2> QED BY <2>1, <2>2
<1>13. ASSUME EndCollection
       PROVE  Goal
  <2>1. /\ info' = [info EXCEPT !.collectionNesting = @ - 1, !.sibling = info.parent,
                      !.parent = collectionStack[info.collectionNesting - 1]]
        /\ Proceed("none") /\ UNCHANGED <<globalsStack, reportItemList>>
    BY <1>13 DEF EndCollection
  <2>2. info'.globals = info.globals
    BY <1>4, <2>1 DEF InfoFields
  <2> QED BY <1>2, <1>5, <2>1, <2>2
<1>14. ASSUME OtherItem
       PROVE  Goal
  BY <1>2, <1>5, <1>14 DEF OtherItem, tables
<1>15. Goal
  BY <1>6, <1>8, <1>10, <1>11, <1>12, <1>13, <1>14
<1> QED BY <1>1, <1>15, QuietGlobals

LEMMA GlobalItemGlobals ==
  ASSUME ParserInv, GlobalInv, descriptor' = descriptor, GlobalItem
  PROVE  GlobalInv'
<1>1. phase = "fill" /\ ~atEnd /\ item.tag \in GlobalTags /\ UNCHANGED tables
  BY DEF GlobalItem, Filling, GlobalTags
<1>2. /\ descriptor \in Descriptors /\ at \in 1 .. Len(descriptor) /\ DOMAIN info = InfoFields
      /\ GlobalsAt(descriptor, at, info.globals) /\ StackAt(descriptor, at, globalsStack)
      /\ ItemsAt(descriptor, at, reportItemList) /\ item = descriptor[at]
  BY <1>1, GlobalsThere
<1>3. CASE phase' \in {"idle", "overrun"}
  BY <1>3 DEF GlobalInv
<1>4. CASE phase' \notin {"idle", "overrun"}
  <2>1. PICK error : Proceed(error)
    BY DEF GlobalItem
  <2>2. at' = at + 1
    BY <1>4, <2>1 DEF Proceed, Return
  <2>3. ~(item.tag = "ReportCount" /\ item.data = 0)
    <3> SUFFICES ASSUME item.tag = "ReportCount", item.data = 0
                 PROVE  FALSE
      OBVIOUS
    <3>1. Proceed("ZeroReportCount")
      BY DEF GlobalItem
    <3> QED BY <1>4, <3>1 DEF Proceed, Return
  <2>4. info'.globals = NewGlobals(item, info.globals)
    <3>1. info'.globals =
            CASE item.tag = "UsagePage" -> [info.globals EXCEPT !.usagePage = Word(item.data)]
              [] item.tag = "LogicalMinimum" ->
                   [info.globals EXCEPT !.logicalMinimum = Signed(item)]
              [] item.tag = "LogicalMaximum" ->
                   [info.globals EXCEPT !.logicalMaximum = Signed(item)]
              [] item.tag = "ReportSize" -> [info.globals EXCEPT !.reportsize = Byte(item.data)]
              [] item.tag = "ReportCount" /\ item.data = 0 -> info.globals
              [] OTHER -> [info.globals EXCEPT !.reportCount = Byte(item.data)]
      <4>1. PICK g : /\ info' = [info EXCEPT !.globals = g]
                     /\ g = CASE item.tag = "UsagePage" ->
                                   [info.globals EXCEPT !.usagePage = Word(item.data)]
                              [] item.tag = "LogicalMinimum" ->
                                   [info.globals EXCEPT !.logicalMinimum = Signed(item)]
                              [] item.tag = "LogicalMaximum" ->
                                   [info.globals EXCEPT !.logicalMaximum = Signed(item)]
                              [] item.tag = "ReportSize" ->
                                   [info.globals EXCEPT !.reportsize = Byte(item.data)]
                              [] item.tag = "ReportCount" /\ item.data = 0 -> info.globals
                              [] OTHER -> [info.globals EXCEPT !.reportCount = Byte(item.data)]
        BY DEF GlobalItem
      <4>2. info'.globals = g
        BY <1>2, <4>1 DEF InfoFields
      <4> QED BY <4>1, <4>2
    <3> QED BY <1>1, <2>3, <3>1 DEF NewGlobals, GlobalTags
  <2>5. GlobalsAt(descriptor, at + 1, info'.globals)
    BY <1>1, <1>2, <2>4, GlobalsSet
  <2>6. item.tag # "Push" /\ item.tag \notin DataTags
    BY <1>1 DEF GlobalTags, DataTags
  <2>7. StackAt(descriptor, at + 1, globalsStack)
    BY <1>2, <2>6, StackStays
  <2>8. ItemsAt(descriptor, at + 1, reportItemList)
    BY <1>2, <2>6, ItemsStay
  <2> QED BY <1>1, <2>2, <2>5, <2>7, <2>8 DEF GlobalInv, tables
<1> QED BY <1>3, <1>4

LEMMA PushGlobals ==
  ASSUME ParserInv, GlobalInv, descriptor' = descriptor, Push
  PROVE  GlobalInv'
<1>1. phase = "fill" /\ ~atEnd /\ item.tag = "Push"
  BY DEF Push, Filling
<1>2. /\ descriptor \in Descriptors /\ at \in 1 .. Len(descriptor) /\ DOMAIN info = InfoFields
      /\ GlobalsAt(descriptor, at, info.globals) /\ StackAt(descriptor, at, globalsStack)
      /\ ItemsAt(descriptor, at, reportItemList) /\ item = descriptor[at]
  BY <1>1, GlobalsThere
<1>3. CASE Overrun
  BY <1>3 DEF Overrun, GlobalInv
<1>4. CASE ~Overrun
  <2>1. /\ globalsStack' = [globalsStack EXCEPT ![info.globalsNesting] = info.globals]
        /\ info' = [info EXCEPT !.globalsNesting = Byte(@ + 1)]
        /\ Proceed("none") /\ UNCHANGED reportItemList
    BY <1>4 DEF Push
  <2>2. info'.globals = info.globals /\ at' = at + 1
    BY <1>2, <2>1 DEF InfoFields, Proceed
  <2>3. /\ info.globalsNesting = Stacked(descriptor, at)
        /\ \A j \in 0 .. Stacked(descriptor, at) : j \in DOMAIN globalsStack
    <3>1. FillCounts /\ Rooms /\ at + 1 \in 1 .. Len(descriptor) + 1
      BY <1>1, ItemThere DEF ParserInv
    <3>2. \A j \in 0 .. Stacked(descriptor, at + 1) - 1 : j \in DOMAIN globalsStack
      BY <3>1 DEF Rooms
    <3>3. Stacked(descriptor, at + 1) = Stacked(descriptor, at) + 1 - 0
          /\ Stacked(descriptor, at) \in Int
      BY <1>1, <1>2, StackedGrows
    <3>4. Stacked(descriptor, at + 1) - 1 = Stacked(descriptor, at)
      BY <3>3
    <3> QED BY <3>1, <3>2, <3>4 DEF FillCounts
  <2>4. StackAt(descriptor, at + 1, globalsStack')
    BY <1>1, <1>2, <2>1, <2>3, StackStays
  <2>5. item.tag \notin GlobalTags \cup {"Pop"} /\ item.tag \notin DataTags
    BY <1>1 DEF GlobalTags, DataTags
  <2>6. GlobalsAt(descriptor, at + 1, info'.globals)
    <3>1. SameGlobals(info.globals, info'.globals)
      BY <2>2 DEF SameGlobals
    <3> QED BY <1>2, <2>5, <3>1, GlobalsStay
  <2>7. ItemsAt(descriptor, at + 1, reportItemList)
    BY <1>2, <2>5, ItemsStay
  <2> QED BY <2>1, <2>2, <2>4, <2>6, <2>7 DEF GlobalInv
<1> QED BY <1>3, <1>4

LEMMA PopGlobals ==
  ASSUME ParserInv, GlobalInv, descriptor' = descriptor, Pop
  PROVE  GlobalInv'
<1>1. phase = "fill" /\ ~atEnd /\ item.tag = "Pop" /\ UNCHANGED tables
  BY DEF Pop, Filling
<1>2. /\ descriptor \in Descriptors /\ at \in 1 .. Len(descriptor) /\ DOMAIN info = InfoFields
      /\ Balanced(descriptor) /\ StackAt(descriptor, at, globalsStack)
      /\ ItemsAt(descriptor, at, reportItemList) /\ item = descriptor[at]
  BY <1>1, GlobalsThere
<1>3. info'.globals = globalsStack[info.globalsNesting - 1] /\ at' = at + 1
  <2>1. PICK g : g = globalsStack[info.globalsNesting - 1]
    OBVIOUS
  <2>2. /\ info' = [info EXCEPT !.globals = g, !.globalsNesting = @ - 1]
        /\ Proceed("none")
    BY <2>1 DEF Pop
  <2> QED BY <1>2, <2>1, <2>2 DEF InfoFields, Proceed
<1>4. info.globalsNesting = Stacked(descriptor, at)
  BY <1>1, ItemThere DEF ParserInv, FillCounts
<1>5. GlobalsAt(descriptor, at + 1, info'.globals)
  BY <1>1, <1>2, <1>3, <1>4, GlobalsBack
<1>6. item.tag # "Push" /\ item.tag \notin DataTags
  BY <1>1 DEF DataTags
<1>7. StackAt(descriptor, at + 1, globalsStack)
  BY <1>2, <1>6, StackStays
<1>8. ItemsAt(descriptor, at + 1, reportItemList)
  BY <1>2, <1>6, ItemsStay
<1> QED BY <1>1, <1>3, <1>5, <1>7, <1>8 DEF GlobalInv, tables

\* A report item takes the global values that are in force.
LEMMA ReportItemGlobals ==
  ASSUME ParserInv, GlobalInv, descriptor' = descriptor, ReportItem
  PROVE  GlobalInv'
<1>0. PICK error : ReportType(error)
  BY DEF ReportItem
<1>1. phase = "fill" /\ ~atEnd /\ item.tag \in DataTags
  BY <1>0 DEF ReportType, Filling
<1>2. /\ descriptor \in Descriptors /\ at \in 1 .. Len(descriptor) /\ DOMAIN info = InfoFields
      /\ GlobalsAt(descriptor, at, info.globals) /\ StackAt(descriptor, at, globalsStack)
      /\ ItemsAt(descriptor, at, reportItemList) /\ item = descriptor[at]
  BY <1>1, GlobalsThere
<1>3. info.reportItems = Num(descriptor, DataTags, at) /\ Num(descriptor, DataTags, at) \in Nat
  BY <1>1, ItemThere DEF ParserInv, FillCounts
<1>4. CASE phase' \in {"idle", "overrun"}
  BY <1>4 DEF GlobalInv
<1>5. CASE phase' \notin {"idle", "overrun"}
  <2> DEFINE i == info.reportItems
  <2>1. error = "none" /\ i \in DOMAIN reportItemList
    BY <1>0, <1>5 DEF ReportType, Proceed, Return, Overrun
  <2>2. PICK e : /\ e.reportType = item.tag /\ e.globals = info.globals
                 /\ reportItemList' = [reportItemList EXCEPT ![i] = e]
    <3> DEFINE e == [reportType |-> item.tag, globals |-> info.globals, parent |-> info.parent,
                     startBit |-> Byte(reportList[info.globals.reportIndex][item.tag]),
                     dataModes |-> item.data, first |-> info.first,
                     items |-> [k \in Kinds |-> Byte(info.items[k] - info.first[k])]]
    <3>1. reportItemList' = [reportItemList EXCEPT ![i] = e]
      BY <1>0, <2>1 DEF ReportType
    <3>2. e.reportType = item.tag /\ e.globals = info.globals
      OBVIOUS
    <3> HIDE DEF e, i
    <3> QED BY <3>1, <3>2
  <2>3. /\ at' = at + 1 /\ UNCHANGED globalsStack
        /\ info' = [info EXCEPT !.reportItems = Byte(@ + 1), !.first = info.items]
    BY <1>0, <2>1 DEF ReportType, Proceed
  <2>4. info'.globals = info.globals
    BY <1>2, <2>3 DEF InfoFields
  <2>5. PICK new : new = reportItemList'
    OBVIOUS
  <2>6. /\ \A j \in 0 .. Num(descriptor, DataTags, at) - 1 : new[j] = reportItemList[j]
        /\ new[Num(descriptor, DataTags, at)].reportType = item.tag
        /\ new[Num(descriptor, DataTags, at)].globals = info.globals
    <3>1. \A j \in 0 .. Num(descriptor, DataTags, at) - 1 : j # i
      BY <1>3
    <3> QED BY <1>3, <2>1, <2>2, <2>5, <3>1
  <2>7. ItemsAt(descriptor, at + 1, new)
    BY <1>2, <2>6, ItemsStay
  <2>8. item.tag # "Push" /\ item.tag \notin GlobalTags \cup {"Pop"}
    BY <1>1 DEF DataTags, GlobalTags
  <2>9. GlobalsAt(descriptor, at + 1, info'.globals)
    <3>1. SameGlobals(info.globals, info'.globals)
      BY <2>4 DEF SameGlobals
    <3> QED BY <1>2, <2>8, <3>1, GlobalsStay
  <2>10. StackAt(descriptor, at + 1, globalsStack)
    BY <1>2, <2>8, StackStays
  <2> QED BY <2>3, <2>5, <2>7, <2>9, <2>10 DEF GlobalInv
<1> QED BY <1>4, <1>5

\* Before the first item no value has been given.
LEMMA GlobalsBegin ==
  ASSUME ParserInv, Allocate, phase' = "fill"
  PROVE  GlobalInv'
<1>1. /\ descriptor \in Descriptors /\ descriptor' = descriptor /\ InfoShape /\ at' = 1
      /\ info' = InitDeviceRptInfo(info)
  BY DEF Allocate, Return, AtItem, ParserInv
<1>2. info'.globals = NoGlobals
  BY <1>1, InitShape
<1>3. \A tags : Cut(At(descriptor, tags), 1) = {}
  <2>1. \A tags : At(descriptor, tags) \in SUBSET (1 .. Len(descriptor))
    BY <1>1, Descriptor
  <2>2. \A tags : \A q \in At(descriptor, tags) : ~(q < 1)
    BY <2>1
  <2> QED BY <2>2 DEF Cut
<1>4. \A tag : Latest(descriptor, tag, 1) = NoItem
  BY <1>3 DEF Latest, Effective
<1>5. GlobalsAt(descriptor, 1, NoGlobals)
  <2>1. NoItem.data = 0 /\ Word(0) = 0 /\ Byte(0) = 0
    BY DEF NoItem, Word, Byte
  <2>2. Signed(NoItem) = 0
    BY DEF NoItem, Signed
  <2> QED BY <1>4, <2>1, <2>2 DEF GlobalsAt, NoGlobals, GlobalFields
<1>6. \A stack : StackAt(descriptor, 1, stack)
  <2>1. \A tags : Num(descriptor, tags, 1) = 0
    BY <1>1, CountsEnd
  <2>2. Stacked(descriptor, 1) = 0
    BY <2>1 DEF Stacked
  <2>3. 0 .. Stacked(descriptor, 1) - 1 = {}
    BY <2>2
  <2> QED BY <2>3 DEF StackAt
<1>7. \A items : ItemsAt(descriptor, 1, items)
  BY <1>3 DEF ItemsAt
<1> QED BY <1>1, <1>2, <1>5, <1>6, <1>7 DEF GlobalInv

\* The values in force, on the stack and in the report items, from the first item to the last.
LEMMA GlobalInvariant ==
  ASSUME \A d \in Descriptors : Countable(d)
  PROVE  ImportSpec => [](ParserInv /\ GlobalInv)
<1>1. ImportInit => GlobalInv
  BY DEF ImportInit, ParserInit, GlobalInv
<1>2. ParserInv /\ GlobalInv /\ [ImportNext]_importVars => GlobalInv'
  <2> SUFFICES ASSUME ParserInv, GlobalInv, [ImportNext]_importVars
               PROVE  GlobalInv'
    OBVIOUS
  <2>1. CASE phase' \notin {"fill", "parsed"}
    BY <2>1 DEF GlobalInv
  <2>2. CASE Parse \/ DataCollectionHandler \/ Run \/ ProcessInputReport \/ Detach
    <3>1. phase' \notin {"fill", "parsed"}
      BY <2>2 DEF Parse, ParseReport, DataCollectionHandler, Run, ProcessInputReport, Detach
    <3> QED BY <2>1, <3>1
  <2>3. CASE ParseOn
    <3>1. CASE CountItem
      BY <2>1, <3>1 DEF CountItem
    <3>2. CASE Allocate
      <4>1. phase' \in {"fill", "idle"}
        BY <3>2 DEF Allocate, Return
      <4> QED BY <2>1, <3>2, <4>1, GlobalsBegin
    <3>3. CASE FillItem
      <4>1. descriptor' = descriptor
        BY <3>3 DEF FillItem
      <4> QED BY <3>3, <4>1, GlobalItemGlobals, PushGlobals, PopGlobals, ReportItemGlobals,
                 QuietItemsGlobals DEF FillItem
    <3>4. CASE Parsed
      BY <3>4 DEF Parsed, GlobalInv
    <3> QED BY <2>3, <3>1, <3>2, <3>3, <3>4 DEF ParseOn
  <2>4. CASE UNCHANGED importVars
    BY <2>4 DEF importVars, parserVars, tables, GlobalInv
  <2> QED BY <2>2, <2>3, <2>4 DEF ImportNext
<1> QED BY <1>1, <1>2, ParserInvariant, PTL DEF ImportSpec

\* A set of positions that is not empty has a greatest one.
LEMMA Greatest ==
  ASSUME NEW n \in Nat, NEW S \in SUBSET (1 .. n), S # {}
  PROVE  Max(S) \in S
<1> DEFINE T == {x \in 0 .. n : n - x \in S}
<1>1. T \in SUBSET Nat /\ T # {}
  <2>1. PICK y \in S : y \in 1 .. n
    OBVIOUS
  <2>2. n - y \in 0 .. n /\ n - (n - y) = y
    BY <2>1
  <2>3. n - y \in T
    BY <2>2
  <2>4. T \in SUBSET Nat
    OBVIOUS
  <2> HIDE DEF T
  <2> QED BY <2>3, <2>4
<1>2. PICK x \in T : \A t \in T : x <= t
  <2> HIDE DEF T
  <2> QED BY <1>1, Least
<1>3. n - x \in S /\ x \in 0 .. n
  BY <1>2
<1>4. ASSUME NEW y \in S
      PROVE  n - x >= y
  <2>1. y \in 1 .. n
    OBVIOUS
  <2>2. n - y \in 0 .. n /\ n - (n - y) = y
    BY <2>1
  <2>3. n - y \in T
    BY <2>2
  <2>4. x <= n - y
    BY <1>2, <2>3
  <2> QED BY <1>3, <2>1, <2>4
<1> QED BY <1>3, <1>4 DEF Max

\* An item has the data that its bytes hold.
LEMMA ItemData ==
  ASSUME NEW d \in Descriptors, NEW p \in 1 .. Len(d)
  PROVE  d[p].size \in {1, 2} => d[p].data \in Nat /\ d[p].data < Span(d[p])
<1>1. d[p] \in Items
  BY DescriptorAssumption DEF DescriptorAssumption
<1> QED BY <1>1 DEF Items

\* What the report items of a descriptor that is taken have.
LEMMA ItemsTaken ==
  ASSUME ParserInv, GlobalInv, phase = "parsed", NEW p \in Positions(DataTags)
  PROVE  /\ descriptor \in Descriptors /\ Len(descriptor) \in Nat
         /\ reportItemList[ItemNumber(p)].reportType = D[p].tag
         /\ GlobalsAt(descriptor, p, reportItemList[ItemNumber(p)].globals)
<1>1. /\ descriptor \in Descriptors /\ Len(descriptor) \in Nat
      /\ at \in 1 .. Len(descriptor) + 1 /\ at > Len(descriptor)
      /\ At(descriptor, DataTags) \in SUBSET (1 .. Len(descriptor))
  BY Descriptor DEF ParserInv, AtItem, atEnd
<1>2. p \in At(descriptor, DataTags)
  BY DEF Positions, At, D
<1>3. p \in Cut(At(descriptor, DataTags), at)
  <2>1. p < at
    BY <1>1, <1>2
  <2> QED BY <1>2, <2>1 DEF Cut
<1>4. ItemNumber(p) = Num(descriptor, DataTags, p)
  BY SameTree DEF ItemNumber
<1> QED BY <1>1, <1>3, <1>4 DEF GlobalInv, ItemsAt, D

\* Every report item of a descriptor that is taken has the usage page, the size and the count
\* that are in force where it stands, however Push and Pop, report IDs and collections come in
\* between.  (GlobalsInForce, a part of TablesFollowDescriptor)
THEOREM GlobalsAreInForce ==
  ASSUME \A d \in Descriptors : Countable(d)
  PROVE  ImportSpec => []GlobalsInForce
<1>1. ParserInv /\ GlobalInv => GlobalsInForce
  <2> SUFFICES ASSUME ParserInv, GlobalInv, phase = "parsed", NEW p \in Positions(DataTags)
               PROVE  LET r == reportItemList[ItemNumber(p)] IN
                      /\ r.reportType = D[p].tag
                      /\ r.globals.usagePage = Global("UsagePage", p) % 65536
                      /\ r.globals.reportsize = Global("ReportSize", p) % 256
                      /\ r.globals.reportCount = Global("ReportCount", p) % 256
    BY DEF GlobalsInForce
  <2>1. /\ reportItemList[ItemNumber(p)].reportType = D[p].tag
        /\ GlobalsAt(descriptor, p, reportItemList[ItemNumber(p)].globals)
    BY ItemsTaken
  <2>2. \A tag : Latest(descriptor, tag, p).data = Global(tag, p)
    BY SameInForce DEF Latest, Global, NoItem, D
  <2> QED BY <2>1, <2>2 DEF GlobalsAt, Word, Byte
<1> QED BY <1>1, GlobalInvariant, PTL

\* The bounds of every report item are the signed numbers that the bytes of the items in force
\* are.  (BoundsAreSigned, a part of TablesFollowDescriptor)
THEOREM BoundsKeepTheirSign ==
  ASSUME \A d \in Descriptors : Countable(d)
  PROVE  ImportSpec => []BoundsAreSigned
<1>1. ParserInv /\ GlobalInv => BoundsAreSigned
  <2> SUFFICES ASSUME ParserInv, GlobalInv, phase = "parsed", NEW p \in Positions(DataTags),
                      NEW tag \in {"LogicalMinimum", "LogicalMaximum"}, NEW v, NEW q,
                      v = (IF tag = "LogicalMinimum"
                           THEN reportItemList[ItemNumber(p)].globals.logicalMinimum
                           ELSE reportItemList[ItemNumber(p)].globals.logicalMaximum),
                      q = Max(InForce(tag, p)), InForce(tag, p) # {}
               PROVE  /\ D[q].size \in {1, 2} =>
                           /\ (v - D[q].data) % Span(D[q]) = 0
                           /\ -(Span(D[q]) \div 2) <= v /\ v < Span(D[q]) \div 2
                      /\ D[q].size \in {0, 4} => v = D[q].data
    BY DEF BoundsAreSigned
  <2>1. v = Signed(Latest(descriptor, tag, p))
    <3>1. GlobalsAt(descriptor, p, reportItemList[ItemNumber(p)].globals)
      BY ItemsTaken
    <3> QED BY <3>1 DEF GlobalsAt
  <2>2. Latest(descriptor, tag, p) = D[q]
    BY SameInForce DEF Latest, D
  <2>3. D[q].size \in {1, 2} => D[q].data \in Nat /\ D[q].data < Span(D[q])
    <3>1. descriptor \in Descriptors /\ Len(descriptor) \in Nat
      BY ItemsTaken
    <3>2. Positions({tag}) \in SUBSET (1 .. Len(descriptor))
      BY <3>1, Descriptor DEF Positions, D
    <3>3. InForce(tag, p) \in SUBSET (1 .. Len(descriptor))
      BY <3>2 DEF InForce, Before
    <3>4. q \in 1 .. Len(descriptor)
      BY <3>1, <3>3, Greatest
    <3> QED BY <3>1, <3>4, ItemData DEF D
  <2>4. CASE D[q].size = 1
    BY <2>1, <2>2, <2>3, <2>4 DEF Signed, Span
  <2>5. CASE D[q].size = 2
    BY <2>1, <2>2, <2>3, <2>5 DEF Signed, Span
  <2>6. CASE D[q].size \notin {1, 2}
    BY <2>1, <2>2, <2>6 DEF Signed
  <2> QED BY <2>4, <2>5, <2>6
<1> QED BY <1>1, GlobalInvariant, PTL
===============================================================================
