----------------------------- MODULE FieldsProofs ------------------------------
(***************************************************************************)
(* Proofs about the fields of the reports: that the report descriptor      *)
(* parser puts each of them where the ones before it in its report end,    *)
(* for all descriptors whose reports it can measure.                       *)
(***************************************************************************)
EXTENDS DescriptorsProofs

-------------------------------------------------------------------------------
(* Sums as numbers of bits. *)

\* The bits of the report item at a position, and the ID of its report.
BitsOf(d, p) == Latest(d, "ReportSize", p).data * Latest(d, "ReportCount", p).data
IDOf(d, p) == Latest(d, "ReportID", p).data

\* Sizes and counts that are bytes, and report IDs that are words.
Measured(d) ==
  /\ \A p \in 1 .. Len(d) : d[p].tag \in {"ReportSize", "ReportCount"} => d[p].data \in 0 .. 255
  /\ \A p \in 1 .. Len(d) : d[p].tag = "ReportID" => d[p].data \in Words

\* The bits of some report items one by one, and how many they are.
Most == 255 * 255
Cells(d, S) == {c \in S \X (1 .. Most) : c[2] <= BitsOf(d, c[1])}
Total(d, S) == Cardinality(Cells(d, S))

\* What gives a global value at a position is an item of its kind, or there is none.
LEMMA LatestThere ==
  ASSUME NEW d \in Descriptors, NEW p \in 1 .. Len(d) + 1, NEW tag
  PROVE  \/ Latest(d, tag, p) = NoItem
         \/ \E q \in 1 .. Len(d) : q < p /\ d[q].tag = tag /\ Latest(d, tag, p) = d[q]
<1>1. CASE Effective(d, tag, p) = {}
  BY <1>1 DEF Latest
<1>2. CASE Effective(d, tag, p) # {}
  <2> DEFINE q == Max(Effective(d, tag, p))
  <2>1. Effective(d, tag, p) \in SUBSET (1 .. Len(d)) /\ Len(d) \in Nat
    <3>1. At(d, {tag}) \in SUBSET (1 .. Len(d)) /\ Len(d) \in Nat
      BY Descriptor
    <3> QED BY <3>1 DEF Effective, Cut
  <2>2. q \in Effective(d, tag, p)
    BY <1>2, <2>1, Greatest
  <2>3. q \in 1 .. Len(d) /\ q < p /\ d[q].tag = tag
    BY <2>1, <2>2 DEF Effective, Cut, At
  <2>4. Latest(d, tag, p) = d[q]
    BY <1>2 DEF Latest
  <2> HIDE DEF q
  <2> QED BY <2>3, <2>4
<1> QED BY <1>1, <1>2

LEMMA DataThere ==
  ASSUME NEW d \in Descriptors, NEW p \in 1 .. Len(d) + 1, NEW tag
  PROVE  Latest(d, tag, p).data \in Int
<1>1. CASE Latest(d, tag, p) = NoItem
  BY <1>1 DEF NoItem
<1>2. CASE \E q \in 1 .. Len(d) : Latest(d, tag, p) = d[q]
  BY <1>2, Descriptor
<1> QED BY <1>1, <1>2, LatestThere

\* What a number up to another is.
LEMMA UpTo == ASSUME NEW most \in Nat, NEW n \in 0 .. most PROVE n \in Nat /\ n <= most
OBVIOUS

\* A product of bytes.
LEMMA BytesTimesBytes ==
  ASSUME NEW a \in 0 .. 255, NEW b \in 0 .. 255
  PROVE  a * b \in 0 .. Most
<1>1. a * b \in Nat /\ 255 * b \in Nat
  OBVIOUS
<1>2. PICK c \in Nat : 255 = a + c
  <2>1. 255 - a \in Nat /\ 255 = a + (255 - a)
    OBVIOUS
  <2> QED BY <2>1
<1>3. 255 * b = a * b + c * b /\ c * b \in Nat
  BY <1>2
<1>4. PICK x, y, z \in Nat : x = 255 * b /\ y = a * b /\ z = c * b
  BY <1>1, <1>3
<1>5. Most \in Nat /\ x <= Most
  BY <1>4 DEF Most
<1>6. y <= x
  BY <1>3, <1>4
<1> QED BY <1>4, <1>5, <1>6

\* The size and the count at a position are bytes too.
LEMMA ByteThere ==
  ASSUME NEW d \in Descriptors, Measured(d), NEW p \in 1 .. Len(d) + 1,
         NEW tag \in {"ReportSize", "ReportCount"}
  PROVE  Latest(d, tag, p).data \in 0 .. 255
<1>1. CASE Latest(d, tag, p) = NoItem
  BY <1>1 DEF NoItem
<1>2. CASE \E q \in 1 .. Len(d) : q < p /\ d[q].tag = tag /\ Latest(d, tag, p) = d[q]
  <2>1. PICK q \in 1 .. Len(d) : d[q].tag = tag /\ Latest(d, tag, p) = d[q]
    BY <1>2
  <2>2. d[q].data \in 0 .. 255
    BY <2>1 DEF Measured
  <2> QED BY <2>1, <2>2
<1> QED BY <1>1, <1>2, LatestThere

LEMMA BitsThere ==
  ASSUME NEW d \in Descriptors, Measured(d), NEW p \in 1 .. Len(d) + 1
  PROVE  BitsOf(d, p) \in 0 .. Most
BY ByteThere, BytesTimesBytes DEF BitsOf

LEMMA BitsAreNat ==
  ASSUME NEW d \in Descriptors, Measured(d), NEW p \in 1 .. Len(d) + 1
  PROVE  BitsOf(d, p) \in Nat
<1>1. BitsOf(d, p) \in 0 .. Most
  BY BitsThere
<1>2. Most \in Nat
  BY DEF Most
<1> QED BY <1>1, <1>2, UpTo

\* The first of some numbers.
LEMMA PartOfRow ==
  ASSUME NEW most \in Nat, NEW n \in 0 .. most
  PROVE  /\ \A m \in 1 .. most : m <= n <=> m \in 1 .. n
         /\ \A m \in 1 .. n : m \in 1 .. most
OBVIOUS

\* A report item more adds its bits.
LEMMA TotalGrows ==
  ASSUME NEW d \in Descriptors, Measured(d), NEW S \in SUBSET (1 .. Len(d))
  PROVE  /\ Total(d, S) \in Nat
         /\ \A x \in 1 .. Len(d) : x \notin S => Total(d, S \cup {x}) = Total(d, S) + BitsOf(d, x)
<1>1. ASSUME NEW T \in SUBSET (1 .. Len(d))
      PROVE  IsFiniteSet(Cells(d, T)) /\ Total(d, T) \in Nat
  <2>1. Len(d) \in Int /\ Most \in Int /\ 1 \in Int
    BY Descriptor DEF Most
  <2>2. IsFiniteSet(1 .. Len(d)) /\ IsFiniteSet(1 .. Most)
    BY <2>1, FS_Interval
  <2>3. IsFiniteSet((1 .. Len(d)) \X (1 .. Most))
    BY <2>2, FS_Product
  <2>4. Cells(d, T) \in SUBSET ((1 .. Len(d)) \X (1 .. Most))
    BY DEF Cells
  <2> QED BY <2>3, <2>4, FS_Subset, FS_CardinalityType DEF Total
<1>2. ASSUME NEW x \in 1 .. Len(d), x \notin S
      PROVE  Total(d, S \cup {x}) = Total(d, S) + BitsOf(d, x)
  <2> DEFINE b == BitsOf(d, x)
             row == {x} \X (1 .. b)
  <2>0. Most \in Nat
    BY DEF Most
  <2>1. PICK n \in 0 .. Most : n = b
    <3>1. x \in 1 .. Len(d) + 1
      BY Descriptor
    <3> QED BY <3>1, BitsThere
  <2>2. IsFiniteSet(1 .. b) /\ Cardinality(1 .. b) = b
    <3>0. n \in Nat
      BY <2>0, <2>1, UpTo
    <3>1. n \in Int /\ 1 \in Int
      BY <3>0
    <3>2. IsFiniteSet(1 .. n) /\ Cardinality(1 .. n) = IF 1 > n THEN 0 ELSE n - 1 + 1
      BY <3>1, FS_Interval
    <3>3. (IF 1 > n THEN 0 ELSE n - 1 + 1) = n
      BY <3>0
    <3> QED BY <2>1, <3>2, <3>3
  <2>3. IsFiniteSet({x}) /\ Cardinality({x}) = 1
    BY FS_Singleton
  <2>4. IsFiniteSet(row) /\ Cardinality(row) = b
    <3>1. IsFiniteSet(row) /\ Cardinality(row) = Cardinality({x}) * Cardinality(1 .. b)
      BY <2>2, <2>3, FS_Product
    <3>2. \A x1 \in Nat : 1 * x1 = x1
      OBVIOUS
    <3>3. n \in Nat
      BY <2>0, <2>1, UpTo
    <3> HIDE DEF row, b
    <3> QED BY <2>1, <2>2, <2>3, <3>1, <3>2, <3>3
  <2>5. Cells(d, S \cup {x}) = Cells(d, S) \cup row
    <3>1. \A m \in 1 .. Most : m <= b <=> m \in 1 .. b
      BY <2>0, <2>1, PartOfRow
    <3>2. \A m \in 1 .. b : m \in 1 .. Most
      BY <2>0, <2>1, PartOfRow
    <3>3. ASSUME NEW c \in Cells(d, S \cup {x})
          PROVE  c \in Cells(d, S) \cup row
      <4>1. c \in (S \cup {x}) \X (1 .. Most) /\ c[2] <= BitsOf(d, c[1])
        BY DEF Cells
      <4>2. CASE c[1] \in S
        BY <4>1, <4>2 DEF Cells
      <4>3. CASE c[1] = x
        BY <3>1, <4>1, <4>3
      <4> QED BY <4>1, <4>2, <4>3
    <3>4. ASSUME NEW c \in row
          PROVE  c \in Cells(d, S \cup {x})
      <4>1. c[1] = x /\ c[2] \in 1 .. b /\ c = <<c[1], c[2]>>
        OBVIOUS
      <4>2. c \in (S \cup {x}) \X (1 .. Most) /\ c[2] <= b
        BY <3>1, <3>2, <4>1
      <4> QED BY <4>1, <4>2 DEF Cells
    <3>5. Cells(d, S) \subseteq Cells(d, S \cup {x})
      BY DEF Cells
    <3> HIDE DEF row
    <3> QED BY <3>3, <3>4, <3>5
  <2>6. Cells(d, S) \cap row = {}
    <3>1. \A c \in Cells(d, S) : c[1] \in S
      BY DEF Cells
    <3>2. \A c \in row : c[1] = x
      OBVIOUS
    <3> QED BY <1>2, <3>1, <3>2
  <2> HIDE DEF row, b
  <2>7. Cardinality(Cells(d, S) \cup row)
          = Cardinality(Cells(d, S)) + Cardinality(row) - Cardinality(Cells(d, S) \cap row)
    BY <1>1, <2>4, FS_Union
  <2>8. Cardinality(Cells(d, S) \cap row) = 0
    BY <2>6, FS_EmptySet
  <2>9. PICK m \in Nat : m = Cardinality(Cells(d, S))
    BY <1>1 DEF Total
  <2>10. Total(d, S \cup {x}) = m + n - 0
    BY <2>1, <2>4, <2>5, <2>7, <2>8, <2>9 DEF Total
  <2>11. m + n - 0 = m + n
    <3>1. n \in Nat
      BY <2>0, <2>1, UpTo
    <3> QED BY <3>1
  <2> QED BY <2>1, <2>9, <2>10, <2>11 DEF Total, b
<1> QED BY <1>1, <1>2

LEMMA TotalOfNone == ASSUME NEW d PROVE Total(d, {}) = 0
<1>1. Cells(d, {}) = {}
  BY DEF Cells
<1> QED BY <1>1, FS_EmptySet DEF Total


\* The sum that the properties speak of is the number of the bits.
LEMMA SumsAreTotals ==
  ASSUME descriptor \in Descriptors, Measured(descriptor), NEW S \in SUBSET (1 .. Len(descriptor))
  PROVE  MapThenSumSet(Bits, S) = Total(descriptor, S)
<1> DEFINE chosen(s) == CHOOSE x \in s : TRUE
           Sums(f) == f = [s \in SUBSET S |->
                             IF s = {} THEN 0 ELSE Bits(chosen(s)) + f[s \ {chosen(s)}]]
           iter == CHOOSE f : Sums(f)
           total == [s \in SUBSET S |-> Total(descriptor, s)]
<1>1. MapThenSumSet(Bits, S) = iter[S]
  BY DEF MapThenSumSet, MapThenFoldSet
<1>2. \A p : Bits(p) = BitsOf(descriptor, p)
  <2>1. \A tag, p : Latest(descriptor, tag, p).data = Global(tag, p)
    BY SameInForce DEF Latest, Global, NoItem, D
  <2> QED BY <2>1 DEF Bits, BitsOf
<1>3. ASSUME NEW s \in SUBSET S, s # {}
      PROVE  /\ chosen(s) \in s /\ s \ {chosen(s)} \in SUBSET S
             /\ Total(descriptor, s) = Bits(chosen(s)) + Total(descriptor, s \ {chosen(s)})
  <2>1. PICK x : x = chosen(s) /\ x \in s
    BY <1>3
  <2> HIDE DEF chosen
  <2>2. PICK r \in SUBSET (1 .. Len(descriptor)) : r = s \ {x}
    OBVIOUS
  <2>3. x \in 1 .. Len(descriptor) /\ x \notin r /\ s = r \cup {x}
    BY <2>1, <2>2
  <2>4. Total(descriptor, r \cup {x}) = Total(descriptor, r) + BitsOf(descriptor, x)
        /\ Total(descriptor, r) \in Nat
    BY <2>3, TotalGrows
  <2>5. BitsOf(descriptor, x) \in Nat
    <3>1. x \in 1 .. Len(descriptor) + 1
      BY <2>3, Descriptor
    <3> QED BY <3>1, BitsAreNat
  <2>6. PICK a \in Nat, b \in Nat : a = Total(descriptor, r) /\ b = BitsOf(descriptor, x)
    BY <2>4, <2>5
  <2>7. Total(descriptor, s) = b + a
    BY <2>3, <2>4, <2>6
  <2> QED BY <1>2, <2>1, <2>2, <2>6, <2>7
<1>4. Sums(total)
  <2>1. ASSUME NEW s \in SUBSET S
        PROVE  total[s] = IF s = {} THEN 0 ELSE Bits(chosen(s)) + total[s \ {chosen(s)}]
    <3>1. CASE s = {}
      BY <3>1, TotalOfNone
    <3>2. CASE s # {}
      <4> HIDE DEF chosen
      <4> QED BY <1>3, <3>2
    <3> QED BY <3>1, <3>2
  <2>2. total = [s \in SUBSET S |-> total[s]]
    OBVIOUS
  <2> HIDE DEF total, chosen
  <2> QED BY <2>1, <2>2
<1>5. Sums(iter)
  <2> HIDE DEF Sums, total
  <2> QED BY <1>4
<1>6. IsFiniteSet(S)
  BY Descriptor, UptoEnds
<1>7. \A s \in SUBSET S : iter[s] = total[s]
  <2> DEFINE bad == {s \in SUBSET S : iter[s] # total[s]}
             sizes == {Cardinality(s) : s \in bad}
  <2>1. ASSUME bad # {}
        PROVE  FALSE
    <3>1. \A s \in SUBSET S : IsFiniteSet(s) /\ Cardinality(s) \in Nat
      BY <1>6, FS_Subset, FS_CardinalityType
    <3>2. sizes \in SUBSET Nat /\ sizes # {}
      <4>1. bad \subseteq SUBSET S
        OBVIOUS
      <4> HIDE DEF bad
      <4> QED BY <2>1, <3>1, <4>1
    <3>3. PICK n \in sizes : \A m \in sizes : n <= m
      <4> HIDE DEF sizes
      <4> QED BY <3>2, Least
    <3>4. PICK s \in bad : n = Cardinality(s)
      <4> HIDE DEF bad
      <4> QED BY <3>3
    <3>5. s \in SUBSET S /\ iter[s] # total[s]
      <4> HIDE DEF iter, total
      <4> QED BY <3>4
    <3>6. \A r \in SUBSET S : Cardinality(r) < n => iter[r] = total[r]
      <4> SUFFICES ASSUME NEW r \in SUBSET S, Cardinality(r) < n, iter[r] # total[r]
                   PROVE  FALSE
        OBVIOUS
      <4> HIDE DEF iter, total
      <4>1. r \in bad
        OBVIOUS
      <4> HIDE DEF bad
      <4>2. n <= Cardinality(r)
        BY <3>3, <4>1
      <4>3. PICK i \in Nat, j \in Nat : i = Cardinality(r) /\ j = n
        BY <3>1, <3>4, <3>5
      <4> QED BY <4>2, <4>3
    <3>7. iter[s] = IF s = {} THEN 0 ELSE Bits(chosen(s)) + iter[s \ {chosen(s)}]
      <4> HIDE DEF iter, chosen
      <4> QED BY <1>5, <3>5
    <3>8. total[s] = IF s = {} THEN 0 ELSE Bits(chosen(s)) + total[s \ {chosen(s)}]
      <4> HIDE DEF total, chosen
      <4> QED BY <1>4, <3>5
    <3> HIDE DEF iter, total, bad, sizes, Sums
    <3>9. CASE s = {}
      BY <3>5, <3>7, <3>8, <3>9
    <3>10. CASE s # {}
      <4>1. chosen(s) \in s /\ s \ {chosen(s)} \in SUBSET S
        <5> HIDE DEF chosen
        <5> QED BY <1>3, <3>5, <3>10
      <4> HIDE DEF chosen
      <4>2. Cardinality(s \ {chosen(s)}) = Cardinality(s) - 1
        BY <3>1, <3>5, <4>1, FS_RemoveElement
      <4>3. Cardinality(s) \in Nat
        BY <3>1, <3>5
      <4>4. Cardinality(s \ {chosen(s)}) < n
        BY <3>4, <4>2, <4>3
      <4> QED BY <3>5, <3>6, <3>7, <3>8, <3>10, <4>1, <4>4
    <3> QED BY <3>9, <3>10
  <2> QED BY <2>1
<1>8. total[S] = Total(descriptor, S)
  OBVIOUS
<1> HIDE DEF iter, total
<1> QED BY <1>1, <1>7, <1>8

-------------------------------------------------------------------------------
(* The places of the fields. *)

\* What is used of a report before a position: the bits of its ID and of its items of a type.
Base(id) == IF id = 0 THEN 0 ELSE 8
Same(d, t, id, p) == {q \in Cut(At(d, {t}), p) : IDOf(d, q) = id}
Used(d, t, id, p) == Base(id) + Total(d, Same(d, t, id, p))

LEMMA SameThere ==
  ASSUME NEW d \in Descriptors, NEW t, NEW id, NEW p
  PROVE  Same(d, t, id, p) \in SUBSET (1 .. Len(d))
<1>1. At(d, {t}) \in SUBSET (1 .. Len(d))
  BY Descriptor
<1> QED BY <1>1 DEF Same, Cut

LEMMA UsedThere ==
  ASSUME NEW d \in Descriptors, Measured(d), NEW t, NEW id, NEW p
  PROVE  Used(d, t, id, p) \in Nat
<1>1. Total(d, Same(d, t, id, p)) \in Nat
  BY SameThere, TotalGrows
<1> QED BY <1>1 DEF Used, Base

\* A report item adds its bits to its report.
LEMMA UsedGrows ==
  ASSUME NEW d \in Descriptors, Measured(d), NEW p \in 1 .. Len(d), NEW t, NEW id
  PROVE  /\ d[p].tag = t /\ IDOf(d, p) = id =>
              Used(d, t, id, p + 1) = Used(d, t, id, p) + BitsOf(d, p)
         /\ ~(d[p].tag = t /\ IDOf(d, p) = id) => Used(d, t, id, p + 1) = Used(d, t, id, p)
<1>1. /\ \A q \in Cut(At(d, {t}), p) : q < p
      /\ d[p].tag = t => Cut(At(d, {t}), p + 1) = Cut(At(d, {t}), p) \cup {p}
      /\ d[p].tag # t => Cut(At(d, {t}), p + 1) = Cut(At(d, {t}), p)
  <2>1. d[p].tag \in {t} <=> d[p].tag = t
    OBVIOUS
  <2> QED BY <2>1, CutNext
<1>2. p \notin Same(d, t, id, p) /\ Same(d, t, id, p) \in SUBSET (1 .. Len(d))
  <2>1. p \notin Cut(At(d, {t}), p)
    BY DEF Cut
  <2> QED BY <2>1, SameThere DEF Same
<1>3. ASSUME d[p].tag = t, IDOf(d, p) = id
      PROVE  Used(d, t, id, p + 1) = Used(d, t, id, p) + BitsOf(d, p)
  <2>1. Same(d, t, id, p + 1) = Same(d, t, id, p) \cup {p}
    BY <1>1, <1>3 DEF Same
  <2>2. Total(d, Same(d, t, id, p + 1)) = Total(d, Same(d, t, id, p)) + BitsOf(d, p)
    BY <1>2, <2>1, TotalGrows
  <2>3. PICK a \in Nat, b \in Nat, c \in Nat :
          a = Base(id) /\ b = Total(d, Same(d, t, id, p)) /\ c = BitsOf(d, p)
    <3>1. p \in 1 .. Len(d) + 1
      BY Descriptor
    <3>3. BitsOf(d, p) \in Nat
      BY <3>1, BitsAreNat
    <3>4. Total(d, Same(d, t, id, p)) \in Nat /\ Base(id) \in Nat
      BY <1>2, TotalGrows DEF Base
    <3> QED BY <3>3, <3>4
  <2>4. a + (b + c) = a + b + c
    BY <2>3
  <2> QED BY <2>2, <2>3, <2>4 DEF Used
<1>4. ASSUME ~(d[p].tag = t /\ IDOf(d, p) = id)
      PROVE  Used(d, t, id, p + 1) = Used(d, t, id, p)
  <2>1. Same(d, t, id, p + 1) = Same(d, t, id, p)
    BY <1>1, <1>4 DEF Same
  <2> QED BY <2>1 DEF Used
<1> QED BY <1>3, <1>4

\* The report that is current after the next item.
LEMMA IDGrows ==
  ASSUME NEW d \in Descriptors, NEW p \in 1 .. Len(d), d[p].tag # "Pop"
  PROVE  IDOf(d, p + 1) = IF d[p].tag = "ReportID" THEN d[p].data ELSE IDOf(d, p)
<1>1. CASE d[p].tag = "ReportID"
  <2>1. Effective(d, "ReportID", p + 1) # {} /\ Max(Effective(d, "ReportID", p + 1)) = p
    BY <1>1, EffectiveGrows
  <2> QED BY <1>1, <2>1 DEF IDOf, Latest
<1>2. CASE d[p].tag # "ReportID"
  <2>1. Effective(d, "ReportID", p + 1) = Effective(d, "ReportID", p)
    BY <1>2, EffectiveGrows
  <2> QED BY <1>2, <2>1 DEF IDOf, Latest
<1> QED BY <1>1, <1>2

\* The reports that have been made have IDs of their own and a length for each type, and the
\* global values lead to the report that is current.
Distinct(n, list) ==
  /\ list[0].reportID = 0
  /\ \A i, j \in 0 .. n - 1 : list[i].reportID = list[j].reportID => i = j
Names(d, p, n, list, g) == g.reportIndex \in 0 .. n - 1 /\ list[g.reportIndex].reportID = IDOf(d, p)
Lengths(d, p, n, list) ==
  \A j \in 0 .. n - 1 : \A t \in DataTags : list[j][t] = Word(Used(d, t, list[j].reportID, p))
StackNames(d, p, n, list, stack) ==
  \A j \in 0 .. Stacked(d, p) - 1 : \A m : Held(d, m, j, p) => Names(d, m, n, list, stack[j])
Begins(d, q, r) == r.startBit = Byte(Used(d, d[q].tag, IDOf(d, q), q))
Placed(d, p, n, list, items) ==
  \A q \in Cut(At(d, DataTags), p) :
    /\ Names(d, q, n, list, items[Num(d, DataTags, q)].globals)
    /\ Begins(d, q, items[Num(d, DataTags, q)])
Layout(d, p, n, list, g, stack, items) ==
  /\ Distinct(n, list) /\ Lengths(d, p, n, list) /\ Names(d, p, n, list, g)
  /\ StackNames(d, p, n, list, stack) /\ Placed(d, p, n, list, items)

\* The reports keep their IDs when others are added.
KeepsNames(n, list, m, new) ==
  /\ n \in Nat /\ m \in Nat /\ n <= m
  /\ \A j \in 0 .. n - 1 : new[j].reportID = list[j].reportID

LEMMA NamesStay ==
  ASSUME NEW n, NEW list, NEW m, NEW new, KeepsNames(n, list, m, new),
         NEW d, NEW p, NEW g, Names(d, p, n, list, g)
  PROVE  Names(d, p, m, new, g)
<1>1. g.reportIndex \in 0 .. n - 1 /\ g.reportIndex \in 0 .. m - 1
  BY DEF KeepsNames, Names
<1> QED BY <1>1 DEF KeepsNames, Names

LEMMA StackNamesStay ==
  ASSUME NEW d \in Descriptors, NEW p \in 1 .. Len(d), NEW n, NEW list, NEW o, NEW new,
         KeepsNames(n, list, o, new), NEW stack, StackNames(d, p, n, list, stack)
  PROVE  /\ d[p].tag # "Push" => StackNames(d, p + 1, o, new, stack)
         /\ \A g : /\ d[p].tag = "Push" /\ Names(d, p, o, new, g)
                   /\ \A j \in 0 .. Stacked(d, p) : j \in DOMAIN stack
                   => StackNames(d, p + 1, o, new, [stack EXCEPT ![Stacked(d, p)] = g])
<1>1. /\ Stacked(d, p) \in Int /\ Stacked(d, p + 1) \in Int
      /\ Stacked(d, p + 1) = Stacked(d, p) + (IF d[p].tag = "Push" THEN 1 ELSE 0)
                               - (IF d[p].tag = "Pop" THEN 1 ELSE 0)
  BY StackedGrows
<1>2. ASSUME NEW j \in 0 .. Stacked(d, p + 1) - 1, NEW m, Held(d, m, j, p + 1), m # p
      PROVE  Names(d, m, o, new, stack[j]) /\ j \in 0 .. Stacked(d, p) - 1
  <2>1. j \in Int /\ j >= 0
    BY <1>1
  <2>2. Held(d, m, j, p) /\ Stacked(d, p) > j
    BY <1>2, <2>1, HeldStays
  <2>3. j \in 0 .. Stacked(d, p) - 1
    BY <1>1, <2>1, <2>2
  <2>4. Names(d, m, n, list, stack[j])
    BY <2>2, <2>3 DEF StackNames
  <2> QED BY <2>3, <2>4, NamesStay
<1>3. ASSUME NEW j \in 0 .. Stacked(d, p + 1) - 1, NEW m, Held(d, m, j, p + 1), m = p
      PROVE  d[p].tag = "Push" /\ j = Stacked(d, p)
  <2>1. j \in Int
    BY <1>1
  <2> QED BY <1>3, <2>1, HeldStays
<1>4. ASSUME d[p].tag # "Push"
      PROVE  StackNames(d, p + 1, o, new, stack)
  BY <1>2, <1>3, <1>4 DEF StackNames
<1>5. ASSUME NEW g, d[p].tag = "Push", Names(d, p, o, new, g),
             \A j \in 0 .. Stacked(d, p) : j \in DOMAIN stack
      PROVE  StackNames(d, p + 1, o, new, [stack EXCEPT ![Stacked(d, p)] = g])
  <2> SUFFICES ASSUME NEW j \in 0 .. Stacked(d, p + 1) - 1, NEW m, Held(d, m, j, p + 1)
               PROVE  Names(d, m, o, new, [stack EXCEPT ![Stacked(d, p)] = g][j])
    BY DEF StackNames
  <2>1. j \in 0 .. Stacked(d, p) /\ j \in DOMAIN stack
    <3>1. Stacked(d, p + 1) = Stacked(d, p) + 1 - 0
      BY <1>1, <1>5
    <3>2. j \in 0 .. Stacked(d, p)
      BY <1>1, <3>1
    <3> QED BY <1>5, <3>2
  <2>2. CASE m = p
    <3>1. j = Stacked(d, p)
      BY <1>3, <2>2
    <3> QED BY <1>5, <2>1, <2>2, <3>1
  <2>3. CASE m # p
    <3>1. Names(d, m, o, new, stack[j]) /\ j \in 0 .. Stacked(d, p) - 1
      BY <1>2, <2>3
    <3>2. j # Stacked(d, p)
      BY <1>1, <3>1
    <3> QED BY <2>1, <3>1, <3>2
  <2> QED BY <2>2, <2>3
<1> QED BY <1>4, <1>5

LEMMA PlacedStays ==
  ASSUME NEW d \in Descriptors, NEW p \in 1 .. Len(d), NEW n, NEW list, NEW m, NEW made,
         KeepsNames(n, list, m, made), NEW items, NEW new, Placed(d, p, n, list, items),
         \A i \in 0 .. Num(d, DataTags, p) - 1 : new[i] = items[i],
         d[p].tag \in DataTags =>
           /\ Names(d, p, m, made, new[Num(d, DataTags, p)].globals)
           /\ Begins(d, p, new[Num(d, DataTags, p)])
  PROVE  Placed(d, p + 1, m, made, new)
<1> SUFFICES ASSUME NEW q \in Cut(At(d, DataTags), p + 1)
             PROVE  /\ Names(d, q, m, made, new[Num(d, DataTags, q)].globals)
                    /\ Begins(d, q, new[Num(d, DataTags, q)])
  BY DEF Placed
<1>1. CASE q \in Cut(At(d, DataTags), p)
  <2>1. Num(d, DataTags, q) \in 0 .. Num(d, DataTags, p) - 1
    <3>1. p \in 1 .. Len(d) + 1
      BY Descriptor
    <3>2. Num(d, DataTags, q) \in Nat /\ Num(d, DataTags, p) \in Nat
          /\ Num(d, DataTags, q) < Num(d, DataTags, p)
      BY <1>1, <3>1, NumbersBefore
    <3> QED BY <3>2
  <2>2. new[Num(d, DataTags, q)] = items[Num(d, DataTags, q)]
    BY <2>1
  <2>3. Names(d, q, n, list, items[Num(d, DataTags, q)].globals)
        /\ Begins(d, q, items[Num(d, DataTags, q)])
    BY <1>1 DEF Placed
  <2> QED BY <2>2, <2>3, NamesStay
<1>2. CASE q = p /\ d[p].tag \in DataTags
  BY <1>2
<1> QED BY <1>1, <1>2, CutGrows

\* Words and bytes of sums.
LEMMA WordAdds ==
  ASSUME NEW a \in Nat, NEW b \in Nat
  PROVE  Word(Word(a) + b) = Word(a + b) /\ Byte(Word(a)) = Byte(a)
<1>1. ((a % 65536) + b) % 65536 = (a + b) % 65536
  OBVIOUS
<1>2. (a % 65536) % 256 = a % 256
  OBVIOUS
<1> QED BY <1>1, <1>2 DEF Word, Byte

LEMMA LengthsStay ==
  ASSUME NEW d \in Descriptors, Measured(d), NEW p \in 1 .. Len(d), d[p].tag \notin DataTags,
         NEW n, NEW list, Lengths(d, p, n, list)
  PROVE  Lengths(d, p + 1, n, list)
<1> SUFFICES ASSUME NEW j \in 0 .. n - 1, NEW t \in DataTags
             PROVE  list[j][t] = Word(Used(d, t, list[j].reportID, p + 1))
  BY DEF Lengths
<1>1. Used(d, t, list[j].reportID, p + 1) = Used(d, t, list[j].reportID, p)
  <2>1. d[p].tag # t
    OBVIOUS
  <2> QED BY <2>1, UsedGrows
<1> QED BY <1>1 DEF Lengths

LEMMA NamesOn ==
  ASSUME NEW d \in Descriptors, NEW p \in 1 .. Len(d), d[p].tag \notin {"ReportID", "Pop"},
         NEW n, NEW list, NEW g, Names(d, p, n, list, g), NEW h, h.reportIndex = g.reportIndex
  PROVE  Names(d, p + 1, n, list, h)
BY IDGrows DEF Names

LEMMA NamesSame ==
  ASSUME NEW n \in Nat, NEW list
  PROVE  KeepsNames(n, list, n, list)
BY DEF KeepsNames

\* The layout after items that have nothing to do with reports.
LEMMA LayoutQuiet ==
  ASSUME NEW d \in Descriptors, Measured(d), NEW p \in 1 .. Len(d), NEW n \in Nat,
         d[p].tag \notin {"ReportID", "Push", "Pop"} \cup DataTags,
         NEW list, NEW g, NEW stack, NEW items, Layout(d, p, n, list, g, stack, items),
         NEW h, h.reportIndex = g.reportIndex
  PROVE  Layout(d, p + 1, n, list, h, stack, items)
<1>1. Lengths(d, p + 1, n, list)
  BY LengthsStay DEF Layout
<1>2. Names(d, p + 1, n, list, h)
  BY NamesOn DEF Layout
<1>3. StackNames(d, p + 1, n, list, stack)
  BY NamesSame, StackNamesStay DEF Layout
<1>4. Placed(d, p + 1, n, list, items)
  <2>1. d[p].tag \notin DataTags
    OBVIOUS
  <2> QED BY <2>1, NamesSame, PlacedStays DEF Layout
<1> QED BY <1>1, <1>2, <1>3, <1>4 DEF Layout

LEMMA LayoutPush ==
  ASSUME NEW d \in Descriptors, Measured(d), NEW p \in 1 .. Len(d), NEW n \in Nat,
         d[p].tag = "Push", NEW list, NEW g, NEW stack, NEW items,
         Layout(d, p, n, list, g, stack, items),
         \A j \in 0 .. Stacked(d, p) : j \in DOMAIN stack
  PROVE  Layout(d, p + 1, n, list, g, [stack EXCEPT ![Stacked(d, p)] = g], items)
<1>0. d[p].tag \notin DataTags
  BY DEF DataTags
<1>1. Lengths(d, p + 1, n, list)
  BY <1>0, LengthsStay DEF Layout
<1>2. Names(d, p + 1, n, list, g)
  BY NamesOn DEF Layout
<1>3. StackNames(d, p + 1, n, list, [stack EXCEPT ![Stacked(d, p)] = g])
  BY NamesSame, StackNamesStay DEF Layout
<1>4. Placed(d, p + 1, n, list, items)
  BY <1>0, NamesSame, PlacedStays DEF Layout
<1> QED BY <1>1, <1>2, <1>3, <1>4 DEF Layout

\* After a Pop the report is current that was at its Push.
LEMMA LayoutPop ==
  ASSUME NEW d \in Descriptors, Measured(d), Balanced(d), NEW p \in 1 .. Len(d), NEW n \in Nat,
         d[p].tag = "Pop", NEW list, NEW g, NEW stack, NEW items,
         Layout(d, p, n, list, g, stack, items)
  PROVE  Layout(d, p + 1, n, list, stack[Stacked(d, p) - 1], stack, items)
<1>0. d[p].tag \notin DataTags /\ d[p].tag # "Push"
  BY DEF DataTags
<1>1. Lengths(d, p + 1, n, list)
  BY <1>0, LengthsStay DEF Layout
<1>2. Stacked(d, p) - 1 \in 0 .. Stacked(d, p) - 1
  <2>1. p \in 1 .. Len(d) + 1 /\ p + 1 \in 1 .. Len(d) + 1
    BY Descriptor
  <2>2. Stacked(d, p) \in Nat /\ Stacked(d, p + 1) \in Nat
    BY <2>1 DEF Balanced
  <2>3. Stacked(d, p + 1) = Stacked(d, p) + 0 - 1
    BY StackedGrows
  <2> QED BY <2>2, <2>3
<1>3. PICK m : Held(d, m, Stacked(d, p) - 1, p)
  <2>1. p \in 1 .. Len(d) + 1
    BY Descriptor
  <2>2. AllHeld(d, p)
    BY <2>1, HeldThere
  <2> QED BY <1>2, <2>2 DEF AllHeld
<1>4. Names(d, m, n, list, stack[Stacked(d, p) - 1])
  BY <1>2, <1>3 DEF StackNames, Layout
<1>5. IDOf(d, p + 1) = IDOf(d, m)
  <2>1. Effective(d, "ReportID", p + 1) = Effective(d, "ReportID", m)
    BY <1>3, EffectiveBack
  <2> QED BY <2>1 DEF IDOf, Latest
<1>6. Names(d, p + 1, n, list, stack[Stacked(d, p) - 1])
  BY <1>4, <1>5 DEF Names
<1>7. StackNames(d, p + 1, n, list, stack)
  BY <1>0, NamesSame, StackNamesStay DEF Layout
<1>8. Placed(d, p + 1, n, list, items)
  BY <1>0, NamesSame, PlacedStays DEF Layout
<1> QED BY <1>1, <1>6, <1>7, <1>8 DEF Layout

\* A report ID goes back to a report that there is.
LEMMA LayoutKnown ==
  ASSUME NEW d \in Descriptors, Measured(d), NEW p \in 1 .. Len(d), NEW n \in Nat,
         d[p].tag = "ReportID", NEW list, NEW g, NEW stack, NEW items,
         Layout(d, p, n, list, g, stack, items),
         NEW j \in 0 .. n - 1, list[j].reportID = d[p].data, NEW h, h.reportIndex = j
  PROVE  Layout(d, p + 1, n, list, h, stack, items)
<1>0. d[p].tag \notin DataTags /\ d[p].tag # "Push" /\ d[p].tag # "Pop"
  BY DEF DataTags
<1>1. Lengths(d, p + 1, n, list)
  BY <1>0, LengthsStay DEF Layout
<1>2. Names(d, p + 1, n, list, h)
  BY <1>0, IDGrows DEF Names
<1>3. StackNames(d, p + 1, n, list, stack)
  BY <1>0, NamesSame, StackNamesStay DEF Layout
<1>4. Placed(d, p + 1, n, list, items)
  BY <1>0, NamesSame, PlacedStays DEF Layout
<1> QED BY <1>1, <1>2, <1>3, <1>4 DEF Layout

\* A report ID that is new makes a report with no item yet.
LEMMA LayoutNew ==
  ASSUME NEW d \in Descriptors, Measured(d), NEW p \in 1 .. Len(d), NEW n \in Nat \ {0},
         d[p].tag = "ReportID", d[p].data # 0, NEW list, NEW g, NEW stack, NEW items,
         Layout(d, p, n, list, g, stack, items),
         \A j \in 0 .. n - 1 : list[j].reportID # d[p].data,
         NEW made, \A j \in 0 .. n - 1 : made[j] = list[j],
         made[n].reportID = d[p].data, \A t \in DataTags : made[n][t] = 8,
         NEW h, h.reportIndex = n
  PROVE  Layout(d, p + 1, n + 1, made, h, stack, items)
<1>0. d[p].tag \notin DataTags /\ d[p].tag # "Push" /\ d[p].tag # "Pop"
  BY DEF DataTags
<1>1. (n + 1) - 1 = n /\ n \in 0 .. n /\ 0 \in 0 .. n - 1 /\ n \notin 0 .. n - 1
      /\ \A j \in 0 .. n : j \in 0 .. n - 1 \/ j = n
  OBVIOUS
<1>2. KeepsNames(n, list, n + 1, made)
  BY DEF KeepsNames
<1>3. Distinct(n + 1, made)
  <2>1. made[0].reportID = 0
    BY <1>1 DEF Layout, Distinct
  <2>2. ASSUME NEW i \in 0 .. n, NEW j \in 0 .. n, made[i].reportID = made[j].reportID
        PROVE  i = j
    BY <1>1, <2>2 DEF Layout, Distinct
  <2> QED BY <1>1, <2>1, <2>2 DEF Distinct
<1>4. Lengths(d, p + 1, n + 1, made)
  <2>1. Lengths(d, p + 1, n, list)
    BY <1>0, LengthsStay DEF Layout
  <2>2. ASSUME NEW t \in DataTags
        PROVE  Word(Used(d, t, d[p].data, p + 1)) = 8
    <3>1. Used(d, t, d[p].data, p + 1) = Used(d, t, d[p].data, p)
      <4>1. d[p].tag # t
        BY <1>0
      <4> QED BY <4>1, UsedGrows
    <3>2. Same(d, t, d[p].data, p) = {}
      <4> SUFFICES ASSUME NEW q \in Cut(At(d, {t}), p), IDOf(d, q) = d[p].data
                   PROVE  FALSE
        BY DEF Same
      <4>1. q \in Cut(At(d, DataTags), p)
        BY DEF Cut, At
      <4>2. Names(d, q, n, list, items[Num(d, DataTags, q)].globals)
        BY <4>1 DEF Layout, Placed
      <4> QED BY <4>2 DEF Names
    <3> QED BY <3>1, <3>2, TotalOfNone DEF Used, Base, Word
  <2>3. ASSUME NEW j \in 0 .. n, NEW t \in DataTags
        PROVE  made[j][t] = Word(Used(d, t, made[j].reportID, p + 1))
    <3>1. CASE j = n
      BY <2>2, <3>1
    <3>2. CASE j \in 0 .. n - 1
      BY <2>1, <3>2 DEF Lengths
    <3> QED BY <1>1, <3>1, <3>2
  <2> QED BY <1>1, <2>3 DEF Lengths
<1>5. Names(d, p + 1, n + 1, made, h)
  BY <1>0, <1>1, IDGrows DEF Names
<1>6. StackNames(d, p + 1, n + 1, made, stack)
  <2>1. StackNames(d, p, n, list, stack)
    BY DEF Layout
  <2> QED BY <1>0, <1>2, <2>1, StackNamesStay
<1>7. Placed(d, p + 1, n + 1, made, items)
  <2>1. Placed(d, p, n, list, items)
    BY DEF Layout
  <2> QED BY <1>0, <1>2, <2>1, PlacedStays
<1> QED BY <1>3, <1>4, <1>5, <1>6, <1>7 DEF Layout

\* A report item begins where its report ends, and makes it longer.
LEMMA LayoutItem ==
  ASSUME NEW d \in Descriptors, Measured(d), NEW p \in 1 .. Len(d), NEW n \in Nat,
         d[p].tag \in DataTags, NEW list, NEW g, NEW stack, NEW items,
         Layout(d, p, n, list, g, stack, items),
         NEW made, NEW new,
         \A j \in 0 .. n - 1 : made[j].reportID = list[j].reportID,
         \A j \in 0 .. n - 1, t \in DataTags :
           made[j][t] = IF j = g.reportIndex /\ t = d[p].tag
                        THEN Word(list[j][t] + BitsOf(d, p)) ELSE list[j][t],
         \A i \in 0 .. Num(d, DataTags, p) - 1 : new[i] = items[i],
         new[Num(d, DataTags, p)].globals = g,
         new[Num(d, DataTags, p)].startBit = Byte(list[g.reportIndex][d[p].tag])
  PROVE  Layout(d, p + 1, n, made, g, stack, new)
<1> DEFINE r == g.reportIndex
           id == IDOf(d, p)
           t0 == d[p].tag
<1>0. t0 \notin {"ReportID", "Push", "Pop"}
  BY DEF DataTags
<1>1. r \in 0 .. n - 1 /\ list[r].reportID = id /\ Names(d, p, n, list, g)
      /\ \A j \in 0 .. n - 1 : list[j].reportID = id => j = r
  BY DEF Layout, Names, Distinct
<1>2. KeepsNames(n, list, n, made)
  BY DEF KeepsNames
<1>3. Used(d, t0, id, p) \in Nat /\ BitsOf(d, p) \in Nat
  <2>1. p \in 1 .. Len(d) + 1
    BY Descriptor
  <2> QED BY <2>1, UsedThere, BitsAreNat
<1>4. list[r][t0] = Word(Used(d, t0, id, p))
  BY <1>1 DEF Layout, Lengths
<1>5. Distinct(n, made)
  <2>1. 0 \in 0 .. n - 1
    BY <1>1
  <2> QED BY <2>1 DEF Layout, Distinct
<1>6. Lengths(d, p + 1, n, made)
  <2> SUFFICES ASSUME NEW j \in 0 .. n - 1, NEW t \in DataTags
               PROVE  made[j][t] = Word(Used(d, t, list[j].reportID, p + 1))
    BY DEF Lengths
  <2>1. CASE j = r /\ t = t0
    <3>1. Used(d, t0, id, p + 1) = Used(d, t0, id, p) + BitsOf(d, p)
      BY UsedGrows
    <3>2. made[r][t0] = Word(list[r][t0] + BitsOf(d, p))
      BY <2>1
    <3>3. Word(Word(Used(d, t0, id, p)) + BitsOf(d, p)) = Word(Used(d, t0, id, p) + BitsOf(d, p))
      BY <1>3, WordAdds
    <3>4. made[r][t0] = Word(Used(d, t0, id, p + 1))
      BY <1>4, <3>1, <3>2, <3>3
    <3> QED BY <1>1, <2>1, <3>4
  <2>2. CASE ~(j = r /\ t = t0)
    <3>1. Used(d, t, list[j].reportID, p + 1) = Used(d, t, list[j].reportID, p)
      <4>1. ~(d[p].tag = t /\ IDOf(d, p) = list[j].reportID)
        BY <1>1, <2>2
      <4> QED BY <4>1, UsedGrows
    <3>2. made[j][t] = list[j][t]
      BY <2>2
    <3> QED BY <3>1, <3>2 DEF Layout, Lengths
  <2> QED BY <2>1, <2>2
<1>7. Names(d, p, n, made, g)
  BY <1>1, <1>2, NamesStay
<1>8. Names(d, p + 1, n, made, g)
  BY <1>0, <1>7, NamesOn
<1>9. StackNames(d, p + 1, n, made, stack)
  <2>1. StackNames(d, p, n, list, stack)
    BY DEF Layout
  <2> QED BY <1>0, <1>2, <2>1, StackNamesStay
<1>10. Begins(d, p, new[Num(d, DataTags, p)])
  BY <1>3, <1>4, WordAdds DEF Begins
<1>11. Placed(d, p + 1, n, made, new)
  <2>1. Placed(d, p, n, list, items)
    BY DEF Layout
  <2> QED BY <1>2, <1>7, <1>10, <2>1, PlacedStays
<1> QED BY <1>5, <1>6, <1>8, <1>9, <1>11 DEF Layout

-------------------------------------------------------------------------------
(* The second pass lays the reports out. *)

ReportFields == {"reportID"} \cup DataTags
FieldsInv ==
  phase = "fill" =>
    /\ \A j \in DOMAIN reportList : DOMAIN reportList[j] = ReportFields
    /\ Layout(descriptor, at, info.reports, reportList, info.globals, globalsStack, reportItemList)

\* A step of the second pass, to the next item or back; all items but a few leave the reports
\* alone.
OnTo == phase' = "fill" /\ at' = at + 1
Leaves ==
  /\ OnTo /\ info'.reports = info.reports
  /\ info'.globals.reportIndex = info.globals.reportIndex
  /\ UNCHANGED <<reportList, globalsStack, reportItemList>>

LEMMA FieldsThere ==
  ASSUME ParserInv, GlobalInv, FieldsInv, phase = "fill", ~atEnd
  PROVE  /\ descriptor \in Descriptors /\ at \in 1 .. Len(descriptor) /\ Balanced(descriptor)
         /\ at \in 1 .. Len(descriptor) + 1
         /\ DOMAIN info = InfoFields /\ DOMAIN info.globals = GlobalFields
         /\ info.reports \in Nat \ {0} /\ \A j \in 0 .. info.reports - 1 : j \in DOMAIN reportList
         /\ \A j \in DOMAIN reportList : DOMAIN reportList[j] = ReportFields
         /\ Layout(descriptor, at, info.reports, reportList, info.globals, globalsStack,
                   reportItemList)
         /\ item = descriptor[at]
<1>1. /\ descriptor \in Descriptors /\ at \in 1 .. Len(descriptor) /\ Balanced(descriptor)
      /\ DOMAIN info = InfoFields /\ DOMAIN info.globals = GlobalFields /\ item = descriptor[at]
  BY GlobalsThere
<1>2. at \in 1 .. Len(descriptor) + 1
  BY <1>1, Descriptor
<1>3. PICK m \in Nat, k \in Nat :
        /\ m = Cardinality(At(descriptor, {"ReportID"})) /\ k = Num(descriptor, {"ReportID"}, at)
        /\ k <= m
  BY <1>1, <1>2, CountsBelow, CountsEnd
<1>4. info.reports \in 1 .. 1 + k /\ DOMAIN reportList = 0 .. m
  BY <1>3, ItemThere DEF ParserInv, FillCounts, Rooms
<1>5. info.reports \in Nat \ {0} /\ \A j \in 0 .. info.reports - 1 : j \in 0 .. m
  BY <1>3, <1>4
<1> QED BY <1>1, <1>2, <1>4, <1>5 DEF FieldsInv

LEMMA QuietFields ==
  ASSUME ParserInv, GlobalInv, FieldsInv, Measured(descriptor), phase = "fill", ~atEnd,
         descriptor' = descriptor, item.tag \notin {"ReportID", "Push", "Pop"} \cup DataTags,
         phase' \in {"idle", "overrun"} \/ Leaves
  PROVE  FieldsInv'
<1>1. CASE phase' \in {"idle", "overrun"}
  BY <1>1 DEF FieldsInv
<1>2. CASE Leaves
  <2>1. /\ descriptor \in Descriptors /\ at \in 1 .. Len(descriptor) /\ info.reports \in Nat
        /\ \A j \in DOMAIN reportList : DOMAIN reportList[j] = ReportFields
        /\ Layout(descriptor, at, info.reports, reportList, info.globals, globalsStack,
                  reportItemList)
        /\ descriptor[at].tag \notin {"ReportID", "Push", "Pop"} \cup DataTags
    BY FieldsThere
  <2>2. Layout(descriptor, at + 1, info.reports, reportList, info'.globals, globalsStack,
               reportItemList)
    BY <1>2, <2>1, LayoutQuiet DEF Leaves
  <2> QED BY <1>2, <2>1, <2>2 DEF FieldsInv, Leaves, OnTo
<1> QED BY <1>1, <1>2

LEMMA QuietItemsFields ==
  ASSUME ParserInv, GlobalInv, FieldsInv, Measured(descriptor), descriptor' = descriptor,
         GlobalItem \/ Index \/ Minimum \/ Maximum \/ Collection \/ EndCollection \/ OtherItem
  PROVE  FieldsInv'
<1> DEFINE Goal == phase' \in {"idle", "overrun"} \/ Leaves
<1>1. phase = "fill" /\ ~atEnd
      /\ item.tag \notin {"ReportID", "Push", "Pop"} \cup DataTags
  BY DEF GlobalItem, Index, Minimum, Maximum, Collection, EndCollection, OtherItem, Filling,
         DataTags
<1>2. \A error : Proceed(error) => OnTo \/ phase' = "idle"
  BY <1>1 DEF Proceed, Return, OnTo
<1>3. Overrun => Goal
  BY DEF Overrun
<1>4. DOMAIN info = InfoFields /\ DOMAIN info.globals = GlobalFields
  BY <1>1, FieldsThere
<1>5. ASSUME NEW error, Proceed(error), info'.reports = info.reports,
             info'.globals.reportIndex = info.globals.reportIndex,
             UNCHANGED <<reportList, globalsStack, reportItemList>>
      PROVE  Goal
  BY <1>2, <1>5 DEF Leaves
<1> HIDE DEF Goal
<1>6. ASSUME GlobalItem
      PROVE  Goal
  <2>1. PICK error : Proceed(error) /\ UNCHANGED <<reportList, globalsStack, reportItemList>>
    BY <1>6 DEF GlobalItem, tables
  <2>2. PICK g : /\ info' = [info EXCEPT !.globals = g]
                 /\ g.reportIndex = info.globals.reportIndex
    <3> DEFINE g == CASE item.tag = "UsagePage" -> [info.globals EXCEPT !.usagePage = Word(item.data)]
                      [] item.tag = "LogicalMinimum" -> [info.globals EXCEPT !.logicalMinimum = Signed(item)]
                      [] item.tag = "LogicalMaximum" -> [info.globals EXCEPT !.logicalMaximum = Signed(item)]
                      [] item.tag = "ReportSize" -> [info.globals EXCEPT !.reportsize = Byte(item.data)]
                      [] item.tag = "ReportCount" /\ item.data = 0 -> info.globals
                      [] OTHER -> [info.globals EXCEPT !.reportCount = Byte(item.data)]
    <3>1. info' = [info EXCEPT !.globals = g]
      BY <1>4, <1>6 DEF GlobalItem, InfoFields
    <3>2. g.reportIndex = info.globals.reportIndex
      BY <1>4 DEF GlobalFields
    <3> HIDE DEF g
    <3> QED BY <3>1, <3>2
  <2>3. info'.reports = info.reports /\ info'.globals = g
    BY <1>4, <2>2 DEF InfoFields
  <2> QED BY <1>5, <2>1, <2>2, <2>3
<1>7. ASSUME NEW entry, NEW n, NEW error, AddItem(entry, n, error), DOMAIN n = InfoFields,
             n.globals = info.globals, n.reports = info.reports
      PROVE  Goal
  <2>1. CASE Overrun
    BY <1>3, <2>1
  <2>2. CASE ~Overrun
    <3>1. /\ info' = [n EXCEPT !.items[item.kind] = Byte(@ + 1)] /\ Proceed(error)
          /\ UNCHANGED <<reportList, globalsStack, reportItemList>>
      BY <1>7, <2>2 DEF AddItem
    <3>2. info'.globals = n.globals /\ info'.reports = n.reports
      BY <1>7, <3>1 DEF InfoFields
    <3> QED BY <1>5, <1>7, <3>1, <3>2
  <2> QED BY <2>1, <2>2
<1>8. ASSUME Index
      PROVE  Goal
  BY <1>4, <1>7, <1>8 DEF Index
<1>9. ASSUME NEW low, NEW high, NEW error, AddRange(low, high, error)
      PROVE  Goal
  <2> DEFINE n == [info EXCEPT !.haveMin[item.kind] = FALSE, !.haveMax[item.kind] = FALSE]
  <2>1. PICK entry, e : AddItem(entry, n, e)
    BY <1>9 DEF AddRange
  <2>2. DOMAIN n = InfoFields /\ n.globals = info.globals /\ n.reports = info.reports
    BY <1>4 DEF InfoFields
  <2> HIDE DEF n
  <2> QED BY <1>7, <2>1, <2>2
<1>10. ASSUME Minimum
       PROVE  Goal
  <2>1. CASE info.haveMax[item.kind]
    BY <1>9, <1>10, <2>1 DEF Minimum
  <2>2. CASE ~info.haveMax[item.kind]
    <3>1. /\ info' = [info EXCEPT !.minimum[item.kind] = ValueOf(item),
                        !.haveMin[item.kind] = TRUE, !.rangeUsagePage = RangePage]
          /\ Proceed("none") /\ UNCHANGED <<reportList, globalsStack, reportItemList>>
      BY <1>10, <2>2 DEF Minimum, tables
    <3>2. info'.globals = info.globals /\ info'.reports = info.reports
      BY <1>4, <3>1 DEF InfoFields
    <3> QED BY <1>5, <3>1, <3>2
  <2> QED BY <2>1, <2>2
<1>11. ASSUME Maximum
       PROVE  Goal
  <2>1. CASE info.haveMin[item.kind]
    BY <1>9, <1>11, <2>1 DEF Maximum
  <2>2. CASE ~info.haveMin[item.kind]
    <3>1. /\ info' = [info EXCEPT !.maximum[item.kind] = ValueOf(item),
                        !.haveMax[item.kind] = TRUE, !.rangeUsagePage = RangePage]
          /\ Proceed("none") /\ UNCHANGED <<reportList, globalsStack, reportItemList>>
      BY <1>11, <2>2 DEF Maximum, tables
    <3>2. info'.globals = info.globals /\ info'.reports = info.reports
      BY <1>4, <3>1 DEF InfoFields
    <3> QED BY <1>5, <3>1, <3>2
  <2> QED BY <2>1, <2>2
<1>12. ASSUME Collection
       PROVE  Goal
  <2>1. CASE Overrun
    BY <1>3, <2>1
  <2>2. CASE ~Overrun
    <3>1. /\ info' = [info EXCEPT !.collections = Byte(@ + 1), !.first = UsagesTaken,
                        !.sibling = 0, !.collectionNesting = Byte(@ + 1),
                        !.parent = info.collections]
          /\ Proceed("none") /\ UNCHANGED <<reportList, globalsStack, reportItemList>>
      BY <1>12, <2>2 DEF Collection
    <3>2. info'.globals = info.globals /\ info'.reports = info.reports
      BY <1>4, <3>1 DEF InfoFields
    <3> QED BY <1>5, <3>1, <3>2
  <2> QED BY <2>1, <2>2
<1>13. ASSUME EndCollection
       PROVE  Goal
  <2>1. /\ info' = [info EXCEPT !.collectionNesting = @ - 1, !.sibling = info.parent,
                      !.parent = collectionStack[info.collectionNesting - 1]]
        /\ Proceed("none") /\ UNCHANGED <<reportList, globalsStack, reportItemList>>
    BY <1>13 DEF EndCollection
  <2>2. info'.globals = info.globals /\ info'.reports = info.reports
    BY <1>4, <2>1 DEF InfoFields
  <2> QED BY <1>5, <2>1, <2>2
<1>14. ASSUME OtherItem
       PROVE  Goal
  BY <1>5, <1>14 DEF OtherItem, tables
<1>15. Goal
  BY <1>6, <1>8, <1>10, <1>11, <1>12, <1>13, <1>14
<1> QED BY <1>1, <1>15, QuietFields DEF Goal

LEMMA PushFields ==
  ASSUME ParserInv, GlobalInv, FieldsInv, Measured(descriptor), descriptor' = descriptor, Push
  PROVE  FieldsInv'
<1>1. phase = "fill" /\ ~atEnd /\ item.tag = "Push"
  BY DEF Push, Filling
<1>2. /\ descriptor \in Descriptors /\ at \in 1 .. Len(descriptor) /\ info.reports \in Nat
      /\ \A j \in DOMAIN reportList : DOMAIN reportList[j] = ReportFields
      /\ Layout(descriptor, at, info.reports, reportList, info.globals, globalsStack,
                reportItemList)
      /\ item = descriptor[at] /\ DOMAIN info = InfoFields
  BY <1>1, FieldsThere
<1>3. CASE Overrun
  BY <1>3 DEF Overrun, FieldsInv
<1>4. CASE ~Overrun
  <2>1. /\ globalsStack' = [globalsStack EXCEPT ![info.globalsNesting] = info.globals]
        /\ info' = [info EXCEPT !.globalsNesting = Byte(@ + 1)]
        /\ Proceed("none") /\ UNCHANGED <<reportList, reportItemList>>
    BY <1>4 DEF Push
  <2>2. info'.globals = info.globals /\ info'.reports = info.reports /\ at' = at + 1
    BY <1>2, <2>1 DEF InfoFields, Proceed
  <2>3. /\ info.globalsNesting = Stacked(descriptor, at)
        /\ \A j \in 0 .. Stacked(descriptor, at) : j \in DOMAIN globalsStack
    <3>1. FillCounts /\ Rooms /\ at + 1 \in 1 .. Len(descriptor) + 1
      BY <1>1, ItemThere DEF ParserInv
    <3>2. \A j \in 0 .. Stacked(descriptor, at + 1) - 1 : j \in DOMAIN globalsStack
      BY <3>1 DEF Rooms
    <3>3. Stacked(descriptor, at + 1) = Stacked(descriptor, at) + 1 - 0
          /\ Stacked(descriptor, at) \in Int
      BY <1>1, <1>2, StackedGrows
    <3>4. Stacked(descriptor, at + 1) - 1 = Stacked(descriptor, at)
      BY <3>3
    <3> QED BY <3>1, <3>2, <3>4 DEF FillCounts
  <2>4. Layout(descriptor, at + 1, info.reports, reportList, info.globals, globalsStack',
               reportItemList)
    BY <1>1, <1>2, <2>1, <2>3, LayoutPush
  <2> QED BY <1>2, <2>1, <2>2, <2>4, <1>1 DEF FieldsInv, Proceed
<1> QED BY <1>3, <1>4

LEMMA PopFields ==
  ASSUME ParserInv, GlobalInv, FieldsInv, Measured(descriptor), descriptor' = descriptor, Pop
  PROVE  FieldsInv'
<1>1. phase = "fill" /\ ~atEnd /\ item.tag = "Pop" /\ UNCHANGED tables
  BY DEF Pop, Filling
<1>2. /\ descriptor \in Descriptors /\ at \in 1 .. Len(descriptor) /\ info.reports \in Nat
      /\ \A j \in DOMAIN reportList : DOMAIN reportList[j] = ReportFields
      /\ Layout(descriptor, at, info.reports, reportList, info.globals, globalsStack,
                reportItemList)
      /\ item = descriptor[at] /\ DOMAIN info = InfoFields /\ Balanced(descriptor)
  BY <1>1, FieldsThere
<1>3. info'.globals = globalsStack[info.globalsNesting - 1] /\ at' = at + 1 /\ phase' = phase
      /\ info'.reports = info.reports
  <2>1. PICK g : g = globalsStack[info.globalsNesting - 1]
    OBVIOUS
  <2>2. /\ info' = [info EXCEPT !.globals = g, !.globalsNesting = @ - 1]
        /\ Proceed("none")
    BY <2>1 DEF Pop
  <2> QED BY <1>2, <2>1, <2>2 DEF InfoFields, Proceed
<1>4. info.globalsNesting = Stacked(descriptor, at)
  BY <1>1, ItemThere DEF ParserInv, FillCounts
<1>5. Layout(descriptor, at + 1, info.reports, reportList, info'.globals, globalsStack,
             reportItemList)
  BY <1>1, <1>2, <1>3, <1>4, LayoutPop
<1> QED BY <1>1, <1>2, <1>3, <1>5 DEF FieldsInv, tables

LEMMA ReportIDFields ==
  ASSUME ParserInv, GlobalInv, FieldsInv, Countable(descriptor), Measured(descriptor),
         descriptor' = descriptor, ReportIDItem
  PROVE  FieldsInv'
<1>1. phase = "fill" /\ ~atEnd /\ item.tag = "ReportID"
  BY DEF ReportIDItem, Filling
<1>2. /\ descriptor \in Descriptors /\ at \in 1 .. Len(descriptor)
      /\ info.reports \in Nat \ {0} /\ \A j \in 0 .. info.reports - 1 : j \in DOMAIN reportList
      /\ \A j \in DOMAIN reportList : DOMAIN reportList[j] = ReportFields
      /\ Layout(descriptor, at, info.reports, reportList, info.globals, globalsStack,
                reportItemList)
      /\ item = descriptor[at] /\ DOMAIN info = InfoFields /\ DOMAIN info.globals = GlobalFields
  BY <1>1, FieldsThere
<1>3. CASE item.data = 0
  <2>1. Proceed("ZeroReportID")
    BY <1>3 DEF ReportIDItem
  <2>2. phase' = "idle"
    BY <2>1 DEF Proceed, Return
  <2> QED BY <2>2 DEF FieldsInv
<1>4. CASE Overrun
  BY <1>4 DEF Overrun, FieldsInv
<1>5. CASE item.data # 0 /\ ~Overrun
  <2> DEFINE n == info.reports
             i == ReportIndex
             new == [reportID |-> Word(item.data), Input |-> 8, Output |-> 8, Feature |-> 8]
  <2>1. /\ info' = [info EXCEPT !.reports = IF i = @ THEN Byte(@ + 1) ELSE @,
                      !.globals.reportID = Byte(item.data), !.globals.reportIndex = i]
        /\ reportList' = IF i # n THEN reportList ELSE [reportList EXCEPT ![n] = new]
        /\ Proceed("none") /\ UNCHANGED <<globalsStack, reportItemList>>
        /\ i = n => n \in DOMAIN reportList
    BY <1>5 DEF ReportIDItem
  <2>2. /\ info'.reports = (IF i = n THEN Byte(n + 1) ELSE n) /\ info'.globals.reportIndex = i
        /\ at' = at + 1 /\ phase' = "fill"
    <3> HIDE DEF i
    <3> QED BY <1>1, <1>2, <2>1 DEF InfoFields, GlobalFields, Proceed
  <2> DEFINE known == {j \in 0 .. n - 1 \cap DOMAIN reportList : reportList[j].reportID = item.data}
  <2>3. i = IF known = {} THEN n ELSE CHOOSE j \in known : \A k \in known : j <= k
    BY DEF ReportIndex
  <2>4. CASE known # {}
    <3>1. PICK j \in known : TRUE
      BY <2>4
    <3>2. j \in 0 .. n - 1 /\ reportList[j].reportID = item.data
      OBVIOUS
    <3>3. \A k \in known : k = j
      BY <1>2, <3>2 DEF Layout, Distinct
    <3>4. j <= j
      BY <3>2
    <3> HIDE DEF known, i
    <3>5. i = j
      BY <2>3, <2>4, <3>1, <3>3, <3>4
    <3>6. i # n
      BY <1>2, <3>2, <3>5
    <3>7. Layout(descriptor, at + 1, n, reportList, info'.globals, globalsStack, reportItemList)
      BY <1>1, <1>2, <2>2, <3>2, <3>5, LayoutKnown
    <3> QED BY <1>2, <2>1, <2>2, <3>6, <3>7 DEF FieldsInv
  <2>5. CASE known = {}
    <3>1. i = n
      BY <2>3, <2>5
    <3>2. \A j \in 0 .. n - 1 : reportList[j].reportID # item.data
      BY <1>2, <2>5
    <3> HIDE DEF known, i
    <3>3. Word(item.data) = item.data
      <4>1. item.data <= 65535 /\ item.data \in Nat
        BY <1>1, <1>2, Descriptor DEF Measured, Words
      <4> QED BY <4>1 DEF Word
    <3>4. Byte(n + 1) = n + 1
      <4>1. PICK m \in Nat, k \in Nat :
              m = Cardinality(At(descriptor, {"ReportID"})) /\ k = Num(descriptor, {"ReportID"}, at)
        <5>1. at \in 1 .. Len(descriptor) + 1
          BY <1>2, Descriptor
        <5> QED BY <1>2, <5>1, CountsBelow, CountsEnd
      <4>2. k < m /\ n \in 1 .. 1 + k
        BY <1>1, <4>1, ItemThere DEF ParserInv, FillCounts
      <4>3. m <= 254
        BY <4>1 DEF Countable
      <4>4. n + 1 \in 0 .. 255
        BY <4>1, <4>2, <4>3
      <4> QED BY <4>4 DEF Byte
    <3>5. /\ \A j \in 0 .. n - 1 : reportList'[j] = reportList[j]
          /\ reportList'[n] = new
      BY <1>2, <2>1, <3>1
    <3>6. /\ reportList'[n].reportID = item.data
          /\ \A t \in DataTags : reportList'[n][t] = 8
      BY <3>3, <3>5 DEF DataTags
    <3>7. \A j \in DOMAIN reportList' : DOMAIN reportList'[j] = ReportFields
      <4>1. DOMAIN new = ReportFields
        BY DEF ReportFields, DataTags
      <4> HIDE DEF new
      <4> QED BY <1>2, <2>1, <3>1, <4>1
    <3>8. Layout(descriptor, at + 1, n + 1, reportList', info'.globals, globalsStack,
                 reportItemList)
      <4> HIDE DEF new
      <4>1. info'.globals.reportIndex = n
        BY <2>2, <3>1
      <4>2. PICK made, h : made = reportList' /\ h = info'.globals
        OBVIOUS
      <4>3. /\ descriptor[at].tag = "ReportID" /\ descriptor[at].data # 0
            /\ \A j \in 0 .. n - 1 : reportList[j].reportID # descriptor[at].data
            /\ \A j \in 0 .. n - 1 : made[j] = reportList[j]
            /\ made[n].reportID = descriptor[at].data /\ \A t \in DataTags : made[n][t] = 8
            /\ h.reportIndex = n
        BY <1>1, <1>2, <1>5, <3>2, <3>5, <3>6, <4>1, <4>2
      <4>4. Layout(descriptor, at + 1, n + 1, made, h, globalsStack, reportItemList)
        BY <1>2, <4>3, LayoutNew
      <4> QED BY <4>2, <4>4
    <3> QED BY <2>1, <2>2, <3>1, <3>4, <3>7, <3>8 DEF FieldsInv
  <2> QED BY <2>4, <2>5
<1> QED BY <1>3, <1>4, <1>5

LEMMA ReportItemFields ==
  ASSUME ParserInv, GlobalInv, FieldsInv, Measured(descriptor), descriptor' = descriptor,
         ReportItem
  PROVE  FieldsInv'
<1>0. PICK error : ReportType(error)
  BY DEF ReportItem
<1>1. phase = "fill" /\ ~atEnd /\ item.tag \in DataTags
  BY <1>0 DEF ReportType, Filling
<1>2. /\ descriptor \in Descriptors /\ at \in 1 .. Len(descriptor)
      /\ at \in 1 .. Len(descriptor) + 1
      /\ info.reports \in Nat \ {0} /\ \A j \in 0 .. info.reports - 1 : j \in DOMAIN reportList
      /\ \A j \in DOMAIN reportList : DOMAIN reportList[j] = ReportFields
      /\ Layout(descriptor, at, info.reports, reportList, info.globals, globalsStack,
                reportItemList)
      /\ item = descriptor[at] /\ DOMAIN info = InfoFields
  BY <1>1, FieldsThere
<1>3. info.reportItems = Num(descriptor, DataTags, at) /\ Num(descriptor, DataTags, at) \in Nat
  BY <1>1, ItemThere DEF ParserInv, FillCounts
<1>4. CASE error # "none" \/ info.reportItems \notin DOMAIN reportItemList
  <2>1. phase' \in {"idle", "overrun"}
    BY <1>0, <1>4 DEF ReportType, Proceed, Return, Overrun
  <2> QED BY <2>1 DEF FieldsInv
<1>5. CASE error = "none" /\ info.reportItems \in DOMAIN reportItemList
  <2> DEFINE i == info.reportItems
             r == info.globals.reportIndex
             b == BitsOf(descriptor, at)
             t0 == item.tag
  <2>1. PICK e : /\ e.globals = info.globals /\ e.startBit = Byte(reportList[r][item.tag])
                 /\ reportItemList' = [reportItemList EXCEPT ![i] = e]
    <3> DEFINE e == [reportType |-> item.tag, globals |-> info.globals, parent |-> info.parent,
                     startBit |-> Byte(reportList[info.globals.reportIndex][item.tag]),
                     dataModes |-> item.data, first |-> info.first,
                     items |-> [k \in Kinds |-> Byte(info.items[k] - info.first[k])]]
    <3>1. reportItemList' = [reportItemList EXCEPT ![i] = e]
      BY <1>0, <1>5 DEF ReportType
    <3>2. e.globals = info.globals /\ e.startBit = Byte(reportList[r][item.tag])
      OBVIOUS
    <3> HIDE DEF e, i, r
    <3> QED BY <3>1, <3>2
  <2>2. /\ at' = at + 1 /\ phase' = "fill" /\ UNCHANGED globalsStack
        /\ info' = [info EXCEPT !.reportItems = Byte(@ + 1), !.first = info.items]
        /\ reportList' = [reportList EXCEPT ![r][t0] = Word(@ + FieldBits)]
    BY <1>0, <1>1, <1>5 DEF ReportType, Proceed
  <2>3. info'.globals = info.globals /\ info'.reports = info.reports
    BY <1>2, <2>2 DEF InfoFields
  <2>4. FieldBits = b
    <3>1. /\ info.globals.reportsize = Byte(Latest(descriptor, "ReportSize", at).data)
          /\ info.globals.reportCount = Byte(Latest(descriptor, "ReportCount", at).data)
      BY <1>1, GlobalsThere DEF GlobalsAt
    <3>2. ASSUME NEW tag \in {"ReportSize", "ReportCount"}
          PROVE  Byte(Latest(descriptor, tag, at).data) = Latest(descriptor, tag, at).data
      <4>1. Latest(descriptor, tag, at).data \in 0 .. 255
        BY <1>2, ByteThere
      <4> QED BY <4>1 DEF Byte
    <3> QED BY <3>1, <3>2 DEF FieldBits, BitsOf
  <2>5. r \in 0 .. info.reports - 1 /\ r \in DOMAIN reportList
        /\ t0 \in DOMAIN reportList[r] /\ DOMAIN reportList[r] = ReportFields
    BY <1>1, <1>2 DEF Layout, Names, ReportFields
  <2>6. PICK new : new = reportItemList'
    OBVIOUS
  <2>7. /\ \A j \in 0 .. Num(descriptor, DataTags, at) - 1 : new[j] = reportItemList[j]
        /\ new[Num(descriptor, DataTags, at)].globals = info.globals
        /\ new[Num(descriptor, DataTags, at)].startBit = Byte(reportList[r][t0])
    <3>1. \A j \in 0 .. Num(descriptor, DataTags, at) - 1 : j # i
      BY <1>3
    <3> QED BY <1>3, <1>5, <2>1, <2>6, <3>1
  <2>8. PICK made : made = reportList'
    OBVIOUS
  <2>9. PICK l : l = [reportList[r] EXCEPT ![t0] = Word(@ + b)]
    OBVIOUS
  <2>10. made = [reportList EXCEPT ![r] = l]
    <3> HIDE DEF b, r, t0
    <3>1. PICK w : w = Word(reportList[r][t0] + b)
      OBVIOUS
    <3>2. l = [reportList[r] EXCEPT ![t0] = w]
      BY <2>9, <3>1
    <3>3. made = [reportList EXCEPT ![r] = [reportList[r] EXCEPT ![t0] = w]]
      BY <2>2, <2>4, <2>8, <3>1
    <3> QED BY <3>2, <3>3
  <2>11. /\ DOMAIN l = ReportFields /\ l.reportID = reportList[r].reportID
         /\ \A t \in DataTags : l[t] = IF t = t0 THEN Word(reportList[r][t] + b) ELSE reportList[r][t]
    <3>1. \A t \in DataTags : t \in ReportFields /\ t # "reportID"
      BY DEF ReportFields, DataTags
    <3>2. "reportID" \in ReportFields
      BY DEF ReportFields
    <3> HIDE DEF b, r, t0
    <3>3. t0 \in DataTags
      BY <1>1 DEF t0
    <3> QED BY <2>5, <2>9, <3>1, <3>2, <3>3
  <2> HIDE DEF b, r, t0, i
  <2>12. /\ \A j \in 0 .. info.reports - 1 : made[j].reportID = reportList[j].reportID
         /\ \A j \in 0 .. info.reports - 1, t \in DataTags :
              made[j][t] = IF j = r /\ t = t0 THEN Word(reportList[j][t] + b)
                           ELSE reportList[j][t]
         /\ \A j \in DOMAIN made : DOMAIN made[j] = ReportFields
    BY <1>2, <2>5, <2>10, <2>11
  <2>13. Layout(descriptor, at + 1, info.reports, made, info.globals, globalsStack, new)
    <3>1. /\ r = info.globals.reportIndex /\ t0 = descriptor[at].tag /\ b = BitsOf(descriptor, at)
          /\ descriptor[at].tag \in DataTags
      BY <1>1, <1>2 DEF b, r, t0
    <3>2. PICK g : g = info.globals
      OBVIOUS
    <3>3. /\ \A j \in 0 .. info.reports - 1, t \in DataTags :
               made[j][t] = IF j = g.reportIndex /\ t = descriptor[at].tag
                            THEN Word(reportList[j][t] + BitsOf(descriptor, at))
                            ELSE reportList[j][t]
          /\ new[Num(descriptor, DataTags, at)].globals = g
          /\ new[Num(descriptor, DataTags, at)].startBit
               = Byte(reportList[g.reportIndex][descriptor[at].tag])
      BY <2>7, <2>12, <3>1, <3>2
    <3>4. Layout(descriptor, at, info.reports, reportList, g, globalsStack, reportItemList)
      BY <1>2, <3>2
    <3>5. Layout(descriptor, at + 1, info.reports, made, g, globalsStack, new)
      BY <1>2, <2>7, <2>12, <3>1, <3>3, <3>4, LayoutItem, SMTT(30)
    <3> QED BY <3>2, <3>5
  <2> QED BY <2>2, <2>3, <2>6, <2>8, <2>12, <2>13 DEF FieldsInv
<1> QED BY <1>4, <1>5

\* Before the first item there is the report of the items without a report ID.
LEMMA FieldsBegin ==
  ASSUME ParserInv, Allocate, phase' = "fill"
  PROVE  FieldsInv'
<1>1. /\ descriptor \in Descriptors /\ descriptor' = descriptor /\ InfoShape /\ at' = 1
      /\ info' = InitDeviceRptInfo(info) /\ reportList' = Room(info.reports, NewReport)
      /\ phase = "count" /\ at \in 1 .. Len(descriptor) + 1
  BY DEF Allocate, Return, AtItem, ParserInv
<1>2. info'.globals = NoGlobals /\ info'.reports = 1
  BY <1>1, InitShape
<1>3. \A tags : Cut(At(descriptor, tags), 1) = {}
  <2>1. \A tags : At(descriptor, tags) \in SUBSET (1 .. Len(descriptor))
    BY <1>1, Descriptor
  <2>2. \A tags : \A q \in At(descriptor, tags) : ~(q < 1)
    BY <2>1
  <2> QED BY <2>2 DEF Cut
<1>4. IDOf(descriptor, 1) = 0
  BY <1>3 DEF IDOf, Latest, Effective, NoItem
<1>5. \A t : Used(descriptor, t, 0, 1) = 0
  <2>1. \A t : Same(descriptor, t, 0, 1) = {}
    BY <1>3 DEF Same
  <2> QED BY <2>1, TotalOfNone DEF Used, Base
<1>6. 0 \in DOMAIN reportList' /\ \A j \in DOMAIN reportList' : reportList'[j] = NewReport
  <2>1. info.reports = 1 + Num(descriptor, {"ReportID"}, at)
        /\ Num(descriptor, {"ReportID"}, at) \in Nat
    <3>1. Num(descriptor, {"ReportID"}, at) \in Nat
      BY <1>1, CountsBelow, CountsEnd
    <3> QED BY <1>1, <3>1 DEF ParserInv, CountInv, CountsItems
  <2>2. 0 \in 0 .. info.reports - 1
    BY <2>1
  <2> QED BY <1>1, <2>2 DEF Room
<1>7. Distinct(1, reportList')
  BY <1>6 DEF Distinct, NewReport
<1>8. Lengths(descriptor, 1, 1, reportList')
  <2>1. \A t \in DataTags : NewReport[t] = 0
    BY DEF NewReport, DataTags
  <2>2. NewReport.reportID = 0 /\ Word(0) = 0
    BY DEF NewReport, Word
  <2>3. \A j \in 0 .. 1 - 1 : j = 0
    OBVIOUS
  <2> QED BY <1>5, <1>6, <2>1, <2>2, <2>3 DEF Lengths
<1>9. Names(descriptor, 1, 1, reportList', NoGlobals)
  <2>1. NoGlobals.reportIndex = 0 /\ 0 \in 0 .. 1 - 1
    BY DEF NoGlobals
  <2> QED BY <1>4, <1>6, <2>1 DEF Names, NewReport
<1>10. \A stack : StackNames(descriptor, 1, 1, reportList', stack)
  <2>1. \A tags : Num(descriptor, tags, 1) = 0
    BY <1>1, CountsEnd
  <2>2. Stacked(descriptor, 1) = 0
    BY <2>1 DEF Stacked
  <2>3. 0 .. Stacked(descriptor, 1) - 1 = {}
    BY <2>2
  <2> QED BY <2>3 DEF StackNames
<1>11. \A items : Placed(descriptor, 1, 1, reportList', items)
  BY <1>3 DEF Placed
<1>12. \A j \in DOMAIN reportList' : DOMAIN reportList'[j] = ReportFields
  BY <1>6 DEF NewReport, ReportFields, DataTags
<1> QED BY <1>1, <1>2, <1>7, <1>8, <1>9, <1>10, <1>11, <1>12 DEF FieldsInv, Layout

LEMMA FillPhases ==
  ASSUME FillItem
  PROVE  /\ phase = "fill" /\ ~atEnd /\ descriptor' = descriptor
         /\ phase' \in {"fill", "idle", "overrun"}
         /\ \/ phase' = "fill" /\ at' = at + 1
            \/ phase' \in {"idle", "overrun"} /\ at' = at
<1>1. phase = "fill" /\ ~atEnd /\ descriptor' = descriptor
  BY DEF FillItem, GlobalItem, ReportIDItem, Push, Pop, Index, Minimum, Maximum,
         Collection, EndCollection, ReportItem, ReportType, OtherItem, Filling
<1> DEFINE Goal == \/ phase' = "fill" /\ at' = at + 1
                   \/ phase' \in {"idle", "overrun"} /\ at' = at
<1>2. Overrun => Goal
  BY DEF Overrun
<1>3. \A error : Proceed(error) => Goal
  BY <1>1 DEF Proceed, Return
<1> HIDE DEF Goal
<1>4. \A entry, n, error : AddItem(entry, n, error) => Goal
  BY <1>2, <1>3 DEF AddItem
<1>5. \A low, high, error : AddRange(low, high, error) => Goal
  BY <1>4 DEF AddRange
<1>6. GlobalItem \/ ReportIDItem \/ Push \/ Pop => Goal
  BY <1>2, <1>3 DEF GlobalItem, ReportIDItem, Push, Pop
<1>7. Index \/ Minimum \/ Maximum => Goal
  BY <1>3, <1>4, <1>5 DEF Index, Minimum, Maximum
<1>8. Collection \/ EndCollection \/ ReportItem \/ OtherItem => Goal
  BY <1>2, <1>3 DEF Collection, EndCollection, ReportItem, ReportType, OtherItem
<1>9. Goal
  BY <1>6, <1>7, <1>8 DEF FillItem
<1> QED BY <1>1, <1>9 DEF Goal

\* Report items that have bits, in reports whose lengths are words.
WellSized(d) ==
  \A p \in At(d, DataTags) :
    BitsOf(d, p) # 0 /\ Used(d, d[p].tag, IDOf(d, p), Len(d) + 1) <= 65535

\* The tables of a descriptor that is taken.
InReport(d, p, list, r) ==
  LET l == list[r.globals.reportIndex] IN
  /\ Begins(d, p, r) /\ l.reportID = IDOf(d, p)
  /\ l[d[p].tag] = Used(d, d[p].tag, IDOf(d, p), Len(d) + 1)
LaidOut(d, list, items) ==
  \A p \in At(d, DataTags) : InReport(d, p, list, items[Num(d, DataTags, p)])
LaidInv == phase = "parsed" => LaidOut(descriptor, reportList, reportItemList)

\* A report is longer than its ID and a report item of it.
LEMMA UsedSome ==
  ASSUME NEW d \in Descriptors, Measured(d), NEW p \in At(d, DataTags), BitsOf(d, p) # 0
  PROVE  Used(d, d[p].tag, IDOf(d, p), Len(d) + 1) # Base(IDOf(d, p))
<1> DEFINE S == Same(d, d[p].tag, IDOf(d, p), Len(d) + 1)
           R == S \ {p}
<1>1. p \in 1 .. Len(d) /\ p \in 1 .. Len(d) + 1 /\ p < Len(d) + 1
  <2>1. p \in 1 .. Len(d) /\ Len(d) \in Nat
    BY Descriptor
  <2> QED BY <2>1
<1>2. p \in S
  <2>1. p \in At(d, {d[p].tag})
    BY DEF At
  <2> QED BY <1>1, <2>1 DEF Same, Cut
<1>3. R \in SUBSET (1 .. Len(d)) /\ S = R \cup {p} /\ p \notin R
  BY <1>2, SameThere
<1> HIDE DEF S, R
<1>4. Total(d, S) = Total(d, R) + BitsOf(d, p) /\ Total(d, R) \in Nat
  BY <1>1, <1>3, TotalGrows
<1>5. BitsOf(d, p) \in Nat
  BY <1>1, BitsAreNat
<1>6. PICK a \in Nat, b \in Nat, c \in Nat :
        a = Total(d, R) /\ b = BitsOf(d, p) /\ c = Base(IDOf(d, p)) /\ b # 0
  BY <1>4, <1>5 DEF Base
<1>7. c + (a + b) # c
  BY <1>6
<1> QED BY <1>4, <1>6, <1>7 DEF Used, S

LEMMA ParsedFields ==
  ASSUME ParserInv, FieldsInv, Measured(descriptor), WellSized(descriptor), Parsed
  PROVE  LaidInv'
<1> DEFINE d == descriptor
           n == info.reports
           m == Len(d) + 1
<1>1. /\ phase = "fill" /\ atEnd /\ descriptor' = descriptor /\ reportItemList' = reportItemList
      /\ reportList' = [r \in DOMAIN reportList |->
                          IF r \in 1 .. n - 1 THEN Cleared(reportList[r]) ELSE reportList[r]]
  BY DEF Parsed
<1>2. /\ d \in Descriptors /\ at = m /\ m \in 1 .. m /\ Len(d) \in Nat
      /\ \A p \in At(d, DataTags) : p \in 1 .. Len(d)
  <2>1. d \in Descriptors /\ at \in 1 .. Len(d) + 1
    BY <1>1 DEF ParserInv, AtItem
  <2>2. Len(d) \in Nat /\ \A p \in At(d, DataTags) : p \in 1 .. Len(d)
    BY <2>1, Descriptor
  <2> HIDE DEF d
  <2>3. at > Len(d)
    BY <1>1 DEF atEnd, d
  <2> QED BY <2>1, <2>2, <2>3
<1>3. /\ Layout(d, m, n, reportList, info.globals, globalsStack, reportItemList)
      /\ \A j \in DOMAIN reportList : DOMAIN reportList[j] = ReportFields
  BY <1>1, <1>2 DEF FieldsInv
<1>4. n \in Nat /\ \A j \in 0 .. n - 1 : j \in DOMAIN reportList
  <2>1. PICK k \in Nat, i \in Nat :
          /\ k = Cardinality(At(d, {"ReportID"})) /\ i = Num(d, {"ReportID"}, at)
          /\ i <= k
    BY <1>2, CountsBelow, CountsEnd
  <2>2. n \in 1 .. 1 + i /\ DOMAIN reportList = 0 .. k
    BY <1>1, <2>1 DEF ParserInv, FillInv, FillCounts, Rooms
  <2>3. n \in Nat /\ \A j \in 0 .. n - 1 : j \in 0 .. k
    <3> HIDE DEF n
    <3> QED BY <2>1, <2>2
  <2> QED BY <2>2, <2>3
<1> HIDE DEF n, m, d
<1>5. ASSUME NEW p \in At(d, DataTags)
      PROVE  InReport(d, p, reportList', reportItemList[Num(d, DataTags, p)])
  <2> DEFINE r == reportItemList[Num(d, DataTags, p)]
             j == r.globals.reportIndex
             id == IDOf(d, p)
             t == d[p].tag
             u == Used(d, t, id, m)
  <2>1. p \in Cut(At(d, DataTags), m)
    <3>1. p < m
      BY <1>2 DEF m
    <3> QED BY <3>1 DEF Cut
  <2>2. Begins(d, p, r) /\ j \in 0 .. n - 1 /\ reportList[j].reportID = id
    BY <1>3, <2>1 DEF Layout, Placed, Names
  <2>3. t \in DataTags
    BY DEF At
  <2>4. reportList[j][t] = Word(u)
    BY <1>3, <2>2, <2>3 DEF Layout, Lengths
  <2>5. u \in Nat /\ u <= 65535 /\ u # Base(id)
    <3>1. Measured(d) /\ WellSized(d)
      BY DEF d
    <3> QED BY <1>2, <3>1, UsedThere, UsedSome DEF WellSized, m
  <2>6. reportList[j][t] = u
    BY <2>4, <2>5, Fits
  <2>7. CASE j \notin 1 .. n - 1
    <3>1. reportList'[j] = reportList[j]
      BY <1>1, <1>4, <2>2, <2>7 DEF n
    <3> QED BY <2>2, <2>6, <3>1 DEF InReport, m
  <2>8. CASE j \in 1 .. n - 1
    <3>1. reportList'[j] = Cleared(reportList[j])
      BY <1>1, <1>4, <2>2, <2>8 DEF n
    <3>2. id # 0
      <4>1. 0 \in 0 .. n - 1 /\ j # 0
        BY <1>4, <2>8
      <4> QED BY <1>3, <2>2, <4>1 DEF Layout, Distinct
    <3>3. reportList[j][t] # 8
      BY <2>5, <2>6, <3>2 DEF Base
    <3>4. PICK l : l = reportList[j]
      OBVIOUS
    <3>5. DOMAIN l = ReportFields
      BY <1>3, <1>4, <2>2, <3>4
    <3>6. Cleared(l).reportID = l.reportID
          /\ \A tag \in DataTags : l[tag] # 8 => Cleared(l)[tag] = l[tag]
      BY <3>5 DEF Cleared, ReportFields, DataTags
    <3> HIDE DEF j, t, id, u
    <3>7. reportList'[j].reportID = id /\ reportList'[j][t] = u
      BY <2>2, <2>3, <2>6, <3>1, <3>3, <3>4, <3>6
    <3> QED BY <2>2, <3>7 DEF InReport, j, t, id, u, m
  <2> QED BY <2>7, <2>8
<1> QED BY <1>1, <1>5 DEF LaidInv, LaidOut, d

\* The reports, from the first item to the last.
LEMMA FieldsInvariant ==
  ASSUME \A d \in Descriptors : Countable(d) /\ Measured(d) /\ WellSized(d)
  PROVE  ImportSpec => [](ParserInv /\ GlobalInv /\ FieldsInv /\ LaidInv)
<1>1. ImportInit => FieldsInv /\ LaidInv
  BY DEF ImportInit, ParserInit, FieldsInv, LaidInv
<1>2. ParserInv /\ GlobalInv /\ FieldsInv /\ LaidInv /\ [ImportNext]_importVars
      => FieldsInv' /\ LaidInv'
  <2> SUFFICES ASSUME ParserInv, GlobalInv, FieldsInv, LaidInv, [ImportNext]_importVars
               PROVE  FieldsInv' /\ LaidInv'
    OBVIOUS
  <2>1. CASE phase' \notin {"fill", "parsed"}
    BY <2>1 DEF FieldsInv, LaidInv
  <2>2. CASE Parse \/ DataCollectionHandler \/ Run \/ ProcessInputReport \/ Detach
    <3>1. phase' \notin {"fill", "parsed"}
      BY <2>2 DEF Parse, ParseReport, DataCollectionHandler, Run, ProcessInputReport, Detach
    <3> QED BY <2>1, <3>1
  <2>3. CASE ParseOn
    <3>1. CASE CountItem
      BY <2>1, <3>1 DEF CountItem
    <3>2. CASE Allocate
      <4>1. phase' \in {"fill", "idle"}
        BY <3>2 DEF Allocate, Return
      <4> QED BY <2>1, <3>2, <4>1, FieldsBegin DEF LaidInv
    <3>3. CASE FillItem
      <4>1. descriptor' = descriptor /\ phase' # "parsed" /\ phase = "fill"
        BY <3>3, FillPhases
      <4>2. Countable(descriptor) /\ Measured(descriptor)
        BY <4>1 DEF ParserInv, AtItem
      <4>3. FieldsInv'
        BY <3>3, <4>1, <4>2, PushFields, PopFields, ReportIDFields, ReportItemFields,
           QuietItemsFields DEF FillItem
      <4> QED BY <4>1, <4>3 DEF LaidInv
    <3>4. CASE Parsed
      <4>1. phase = "fill" /\ phase' = "parsed"
        BY <3>4 DEF Parsed, Return
      <4>2. Measured(descriptor) /\ WellSized(descriptor)
        BY <4>1 DEF ParserInv, AtItem
      <4> QED BY <3>4, <4>1, <4>2, ParsedFields DEF FieldsInv
    <3> QED BY <2>3, <3>1, <3>2, <3>3, <3>4 DEF ParseOn
  <2>4. CASE UNCHANGED importVars
    BY <2>4 DEF importVars, parserVars, tables, FieldsInv, LaidInv
  <2> QED BY <2>2, <2>3, <2>4 DEF ImportNext
<1>3. ImportSpec => [](ParserInv /\ GlobalInv)
  BY GlobalInvariant
<1> QED BY <1>1, <1>2, <1>3, PTL DEF ImportSpec

-------------------------------------------------------------------------------
(* The ranges of the variables. *)

Counters ==
  {"collections", "collectionNesting", "reportItems", "reports", "globalsNesting", "parent",
   "sibling"}
InfoSized ==
  /\ \A f \in Counters : info[f] \in 0 .. 255
  /\ \A k \in Kinds : info.items[k] \in 0 .. 255 /\ info.first[k] \in 0 .. 255
ItemsSized == \A i \in DOMAIN reportItemList : reportItemList[i].startBit \in 0 .. 255
ReportSized(l) == DOMAIN l = ReportFields /\ \A t \in DataTags : l[t] \in Words
ReportsSized == \A i \in DOMAIN reportList : ReportSized(reportList[i])
StackSized == \A j \in DOMAIN collectionStack : collectionStack[j] \in 0 .. 255
Sized == InfoSized /\ ItemsSized /\ ReportsSized /\ StackSized

LEMMA BytesAre == \A n \in Int : Byte(n) \in 0 .. 255
BY DEF Byte
LEMMA WordsAre ==
  /\ \A n \in Int : Word(n) \in Words
  /\ \A n \in Words : n \in Nat
<1>1. ASSUME NEW n \in Int
      PROVE  Word(n) \in Words
  BY DEF Word, Words
<1>2. ASSUME NEW n \in Words
      PROVE  n \in Nat
  BY DEF Words
<1> QED BY <1>1, <1>2

\* Fields that are as they were, or bytes.
LEMMA InfoStays ==
  ASSUME InfoSized,
         \A f \in Counters : info'[f] = info[f] \/ info'[f] \in 0 .. 255,
         \A k \in Kinds : /\ info'.items[k] = info.items[k] \/ info'.items[k] \in 0 .. 255
                          /\ \/ info'.first[k] \in {info.first[k], info.items[k]}
                             \/ info'.first[k] \in 0 .. 255
  PROVE  InfoSized'
BY DEF InfoSized

\* One more, of a counter.
LEMMA OneMore ==
  ASSUME InfoSized
  PROVE  /\ \A f \in Counters : Byte(info[f] + 1) \in 0 .. 255
         /\ \A k \in Kinds : Byte(info.items[k] + 1) \in 0 .. 255
<1>1. \A n \in 0 .. 255 : Byte(n + 1) \in 0 .. 255
  BY DEF Byte
<1> QED BY <1>1 DEF InfoSized

\* Tables that are as they were.
LEMMA ItemsSame == ASSUME ItemsSized, reportItemList' = reportItemList PROVE ItemsSized'
BY DEF ItemsSized
LEMMA ReportsSame == ASSUME ReportsSized, reportList' = reportList PROVE ReportsSized'
BY DEF ReportsSized
LEMMA StackSame == ASSUME StackSized, collectionStack' = collectionStack PROVE StackSized'
BY DEF StackSized
LEMMA InfoSame == ASSUME InfoSized, info' = info PROVE InfoSized'
BY DEF InfoSized
LEMMA AllSame ==
  ASSUME Sized, info' = info, UNCHANGED tables
  PROVE  Sized'
BY InfoSame, ItemsSame, ReportsSame, StackSame DEF Sized, tables

LEMMA InfoThere ==
  ASSUME InfoShape
  PROVE  /\ DOMAIN info = InfoFields /\ DOMAIN info.items = Kinds /\ DOMAIN info.first = Kinds
         /\ Counters \subseteq InfoFields
         /\ \A f \in Counters : f \notin {"items", "first", "globals"}
BY DEF InfoShape, OfKinds, Counters, InfoFields

\* Items that change neither the counters nor the tables.
LEMMA PlainSized ==
  ASSUME ParserInv, Sized, GlobalItem \/ OtherItem
  PROVE  Sized'
<1>1. UNCHANGED tables /\ (info' = info \/ \E g : info' = [info EXCEPT !.globals = g])
  BY DEF GlobalItem, OtherItem
<1>2. CASE info' = info
  BY <1>1, <1>2, AllSame
<1>3. CASE \E g : info' = [info EXCEPT !.globals = g]
  <2>1. PICK g : info' = [info EXCEPT !.globals = g]
    BY <1>3
  <2>2. \A f \in InfoFields \ {"globals"} : info'[f] = info[f]
    BY <2>1, InfoThere DEF ParserInv
  <2>3. /\ \A f \in Counters : info'[f] = info[f]
        /\ info'.items = info.items /\ info'.first = info.first
    BY <2>2, InfoThere DEF ParserInv, InfoFields
  <2>4. InfoSized'
    BY <2>3, InfoStays DEF Sized
  <2> QED BY <1>1, <2>4, ItemsSame, ReportsSame, StackSame DEF Sized, tables
<1> QED BY <1>1, <1>2, <1>3

LEMMA OverrunSized ==
  ASSUME Sized, Overrun
  PROVE  Sized'
BY AllSame DEF Overrun

LEMMA ReportIDSized ==
  ASSUME ParserInv, GlobalInv, FieldsInv, Sized, ReportIDItem
  PROVE  Sized'
<1>1. phase = "fill" /\ ~atEnd
  BY DEF ReportIDItem, Filling
<1>2. DOMAIN info = InfoFields /\ DOMAIN info.globals = GlobalFields /\ item.data \in Int
  <2>1. item.data \in Int
    BY <1>1, FieldsThere, Descriptor
  <2> QED BY <1>1, <2>1, FieldsThere
<1>3. CASE item.data = 0
  BY <1>3, AllSame DEF ReportIDItem
<1>4. CASE Overrun
  BY <1>4, OverrunSized
<1>5. CASE item.data # 0 /\ ~Overrun
  <2> DEFINE i == ReportIndex
             new == [reportID |-> Word(item.data), Input |-> 8, Output |-> 8, Feature |-> 8]
  <2>1. /\ info' = [info EXCEPT !.reports = IF i = @ THEN Byte(@ + 1) ELSE @,
                      !.globals.reportID = Byte(item.data), !.globals.reportIndex = i]
        /\ reportList' = reportList \/ reportList' = [reportList EXCEPT ![info.reports] = new]
        /\ UNCHANGED <<reportItemList, collectionStack>>
    BY <1>5 DEF ReportIDItem
  <2> HIDE DEF i
  <2>2. /\ info'.reports = info.reports \/ info'.reports = Byte(info.reports + 1)
        /\ \A f \in InfoFields \ {"reports", "globals"} : info'[f] = info[f]
    <3> DEFINE g == [info.globals EXCEPT !.reportID = Byte(item.data), !.reportIndex = i]
    <3>1. info' = [info EXCEPT !.reports = IF i = @ THEN Byte(@ + 1) ELSE @, !.globals = g]
      BY <1>2, <2>1 DEF InfoFields
    <3> HIDE DEF g
    <3> QED BY <1>2, <3>1 DEF InfoFields
  <2>3. InfoSized'
    <3>1. \A f \in Counters : info'[f] = info[f] \/ info'[f] \in 0 .. 255
      <4>1. info'.reports = info.reports \/ info'.reports \in 0 .. 255
        BY <2>2, OneMore DEF Sized, Counters
      <4> QED BY <2>2, <4>1 DEF Counters, InfoFields
    <3>2. info'.items = info.items /\ info'.first = info.first
      BY <2>2 DEF InfoFields
    <3> QED BY <3>1, <3>2, InfoStays DEF Sized
  <2>4. ReportsSized'
    <3>1. ReportSized(new)
      BY DEF ReportFields, DataTags, ReportSized, Words
    <3> HIDE DEF new
    <3> QED BY <2>1, <3>1 DEF Sized, ReportsSized
  <2> QED BY <2>1, <2>3, <2>4 DEF Sized, ItemsSized, StackSized
<1> QED BY <1>3, <1>4, <1>5

LEMMA PushSized ==
  ASSUME ParserInv, Sized, Push
  PROVE  Sized'
<1>1. CASE Overrun
  BY <1>1, OverrunSized
<1>2. CASE ~Overrun
  <2>1. /\ info' = [info EXCEPT !.globalsNesting = Byte(@ + 1)]
        /\ UNCHANGED <<reportList, collectionStack, reportItemList>>
    BY <1>2 DEF Push
  <2>2. /\ info'.globalsNesting = Byte(info.globalsNesting + 1)
        /\ \A f \in InfoFields \ {"globalsNesting"} : info'[f] = info[f]
    BY <2>1, InfoThere DEF ParserInv, InfoFields
  <2>3. info'.globalsNesting \in 0 .. 255
    BY <2>2, OneMore DEF Sized, Counters
  <2>4. InfoSized'
    BY <2>2, <2>3, InfoStays DEF Sized, Counters, InfoFields
  <2> QED BY <2>1, <2>4, ItemsSame, ReportsSame, StackSame DEF Sized
<1> QED BY <1>1, <1>2

LEMMA PopSized ==
  ASSUME ParserInv, Sized, Pop
  PROVE  Sized'
<1>1. phase = "fill" /\ ~atEnd /\ item.tag = "Pop" /\ UNCHANGED tables
  BY DEF Pop, Filling
<1>2. info.globalsNesting - 1 \in 0 .. 255
  <2>1. /\ descriptor \in Descriptors /\ at \in 1 .. Len(descriptor)
        /\ at + 1 \in 1 .. Len(descriptor) + 1
        /\ Balanced(descriptor) /\ info.globalsNesting = Stacked(descriptor, at)
    BY <1>1, ItemThere DEF ParserInv, Rooms, FillCounts
  <2>2. Stacked(descriptor, at + 1) = Stacked(descriptor, at) + 0 - 1
        /\ Stacked(descriptor, at + 1) \in Nat
    BY <1>1, <2>1, StackedGrows DEF item, Balanced
  <2>3. info.globalsNesting \in 0 .. 255
    BY DEF Sized, InfoSized, Counters
  <2>4. info.globalsNesting + 0 - 1 \in Nat
    BY <2>1, <2>2
  <2> QED BY <2>3, <2>4
<1>3. PICK g : info' = [info EXCEPT !.globals = g, !.globalsNesting = @ - 1]
  BY DEF Pop
<1>4. /\ info'.globalsNesting = info.globalsNesting - 1
      /\ \A f \in InfoFields \ {"globals", "globalsNesting"} : info'[f] = info[f]
  BY <1>3, InfoThere DEF ParserInv, InfoFields
<1>5. InfoSized'
  BY <1>2, <1>4, InfoStays DEF Sized, Counters, InfoFields
<1> QED BY <1>1, <1>5, ItemsSame, ReportsSame, StackSame DEF Sized, tables

LEMMA LocalSized ==
  ASSUME ParserInv, Sized, Index \/ Minimum \/ Maximum
  PROVE  Sized'
<1>0. InfoShape /\ DOMAIN info = InfoFields /\ DOMAIN info.items = Kinds
  BY InfoThere DEF ParserInv
<1>1. ASSUME NEW entry, NEW n, NEW error, AddItem(entry, n, error), DOMAIN n = InfoFields,
             \A f \in Counters \cup {"items", "first"} : n[f] = info[f]
      PROVE  Sized'
  <2>1. CASE Overrun
    BY <2>1, OverrunSized
  <2>2. CASE ~Overrun
    <3>1. /\ info' = [n EXCEPT !.items[item.kind] = Byte(@ + 1)]
          /\ UNCHANGED <<reportList, reportItemList, collectionStack>>
      BY <1>1, <2>2 DEF AddItem
    <3>2. /\ \A f \in InfoFields \ {"items"} : info'[f] = n[f]
          /\ info'.items = [n.items EXCEPT ![item.kind] = Byte(@ + 1)]
      BY <1>1, <3>1 DEF InfoFields
    <3>3. /\ \A f \in Counters : info'[f] = info[f]
          /\ info'.first = info.first /\ n.items = info.items
      BY <1>1, <3>2 DEF Counters, InfoFields
    <3>4. \A k \in Kinds : info'.items[k] = info.items[k] \/ info'.items[k] \in 0 .. 255
      BY <1>0, <3>2, <3>3, OneMore, SMTT(30) DEF Sized
    <3>5. InfoSized'
      BY <3>3, <3>4, InfoStays DEF Sized
    <3> QED BY <3>1, <3>5, ItemsSame, ReportsSame, StackSame DEF Sized
  <2> QED BY <2>1, <2>2
<1>2. ASSUME Index
      PROVE  Sized'
  BY <1>0, <1>1, <1>2 DEF Index
<1>3. ASSUME NEW low, NEW high, NEW error, AddRange(low, high, error)
      PROVE  Sized'
  <2> DEFINE n == [info EXCEPT !.haveMin[item.kind] = FALSE, !.haveMax[item.kind] = FALSE]
  <2>1. PICK entry, e : AddItem(entry, n, e)
    BY <1>3 DEF AddRange
  <2>2. DOMAIN n = InfoFields /\ \A f \in Counters \cup {"items", "first"} : n[f] = info[f]
    BY <1>0 DEF InfoFields, Counters
  <2> HIDE DEF n
  <2> QED BY <1>1, <2>1, <2>2
<1>4. ASSUME UNCHANGED tables, \A f \in Counters \cup {"items", "first"} : info'[f] = info[f]
      PROVE  Sized'
  <2>1. InfoSized'
    BY <1>4, InfoStays DEF Sized
  <2> QED BY <1>4, <2>1, ItemsSame, ReportsSame, StackSame DEF Sized, tables
<1>5. ASSUME Minimum
      PROVE  Sized'
  <2>1. CASE info.haveMax[item.kind]
    BY <1>3, <1>5, <2>1 DEF Minimum
  <2>2. CASE ~info.haveMax[item.kind]
    <3>1. /\ info' = [info EXCEPT !.minimum[item.kind] = ValueOf(item),
                        !.haveMin[item.kind] = TRUE, !.rangeUsagePage = RangePage]
          /\ UNCHANGED tables
      BY <1>5, <2>2 DEF Minimum
    <3>2. \A f \in Counters \cup {"items", "first"} : info'[f] = info[f]
      BY <1>0, <3>1 DEF InfoFields, Counters
    <3> QED BY <1>4, <3>1, <3>2
  <2> QED BY <2>1, <2>2
<1>6. ASSUME Maximum
      PROVE  Sized'
  <2>1. CASE info.haveMin[item.kind]
    BY <1>3, <1>6, <2>1 DEF Maximum
  <2>2. CASE ~info.haveMin[item.kind]
    <3>1. /\ info' = [info EXCEPT !.maximum[item.kind] = ValueOf(item),
                        !.haveMax[item.kind] = TRUE, !.rangeUsagePage = RangePage]
          /\ UNCHANGED tables
      BY <1>6, <2>2 DEF Maximum
    <3>2. \A f \in Counters \cup {"items", "first"} : info'[f] = info[f]
      BY <1>0, <3>1 DEF InfoFields, Counters
    <3> QED BY <1>4, <3>1, <3>2
  <2> QED BY <2>1, <2>2
<1> QED BY <1>2, <1>5, <1>6

LEMMA CollectionSized ==
  ASSUME ParserInv, Sized, Collection
  PROVE  Sized'
<1>0. InfoShape /\ DOMAIN info = InfoFields /\ DOMAIN info.first = Kinds
  BY InfoThere DEF ParserInv
<1>1. CASE Overrun
  BY <1>1, OverrunSized
<1>2. CASE ~Overrun
  <2>1. /\ info' = [info EXCEPT !.collections = Byte(@ + 1), !.first = UsagesTaken,
                      !.sibling = 0, !.collectionNesting = Byte(@ + 1),
                      !.parent = info.collections]
        /\ collectionStack' = [collectionStack EXCEPT ![info.collectionNesting] = info.parent]
        /\ UNCHANGED <<reportItemList, reportList>>
    BY <1>2 DEF Collection
  <2>2. /\ info'.collections = Byte(info.collections + 1) /\ info'.first = UsagesTaken
        /\ info'.sibling = 0 /\ info'.collectionNesting = Byte(info.collectionNesting + 1)
        /\ info'.parent = info.collections
        /\ \A f \in {"reportItems", "reports", "globalsNesting", "items"} : info'[f] = info[f]
    BY <1>0, <2>1 DEF InfoFields
  <2>3. /\ info'.collections \in 0 .. 255 /\ info'.collectionNesting \in 0 .. 255
        /\ info'.parent \in 0 .. 255 /\ info'.sibling \in 0 .. 255
    <3>1. info'.collections \in 0 .. 255 /\ info'.collectionNesting \in 0 .. 255
      BY <2>2, OneMore DEF Sized, Counters
    <3>2. info'.parent \in 0 .. 255
      BY <2>2 DEF Sized, InfoSized, Counters
    <3>3. info'.sibling \in 0 .. 255
      BY <2>2
    <3> QED BY <3>1, <3>2, <3>3
  <2>4. \A k \in Kinds : info'.first[k] \in {info.first[k], info.items[k]}
    BY <1>0, <2>2 DEF UsagesTaken
  <2>5. InfoSized'
    <3>1. \A f \in Counters : info'[f] = info[f] \/ info'[f] \in 0 .. 255
      BY <2>2, <2>3 DEF Counters
    <3>2. info'.items = info.items
      BY <2>2
    <3> QED BY <2>4, <3>1, <3>2, InfoStays DEF Sized
  <2>6. StackSized'
    <3>1. info.parent \in 0 .. 255
      BY DEF Sized, InfoSized, Counters
    <3> QED BY <2>1, <3>1 DEF Sized, StackSized
  <2> QED BY <2>1, <2>5, <2>6, ItemsSame, ReportsSame DEF Sized
<1> QED BY <1>1, <1>2

LEMMA EndCollectionSized ==
  ASSUME ParserInv, Countable(descriptor), Sized, EndCollection
  PROVE  Sized'
<1>0. InfoShape /\ DOMAIN info = InfoFields /\ AtItem /\ FillInv
      /\ phase = "fill" /\ ~atEnd /\ item.tag = "EndCollection"
  BY InfoThere DEF ParserInv, EndCollection, Filling
<1>1. info.collectionNesting - 1 \in 0 .. 255
      /\ collectionStack[info.collectionNesting - 1] \in 0 .. 255
  <2>1. info.collectionNesting - 1 \in Nat /\ info.collectionNesting - 1 \in DOMAIN collectionStack
    BY <1>0, NestingThere
  <2>2. info.collectionNesting \in 0 .. 255
    BY DEF Sized, InfoSized, Counters
  <2>3. info.collectionNesting - 1 \in 0 .. 255
    BY <2>1, <2>2
  <2> QED BY <2>1, <2>3 DEF Sized, StackSized
<1>2. PICK c : c = collectionStack[info.collectionNesting - 1]
  OBVIOUS
<1>3. /\ info' = [info EXCEPT !.collectionNesting = @ - 1, !.sibling = info.parent, !.parent = c]
      /\ UNCHANGED <<reportItemList, reportList, collectionStack>>
  BY <1>2 DEF EndCollection
<1>4. /\ info'.collectionNesting = info.collectionNesting - 1 /\ info'.sibling = info.parent
      /\ info'.parent = c
      /\ \A f \in {"collections", "reportItems", "reports", "globalsNesting", "items", "first"} :
           info'[f] = info[f]
  BY <1>0, <1>3 DEF InfoFields
<1>5. info'.sibling \in 0 .. 255
  BY <1>4 DEF Sized, InfoSized, Counters
<1>6. \A f \in Counters : info'[f] = info[f] \/ info'[f] \in 0 .. 255
  BY <1>1, <1>2, <1>4, <1>5 DEF Counters
<1>7. InfoSized'
  <2>1. info'.items = info.items /\ info'.first = info.first
    BY <1>4
  <2> QED BY <1>6, <2>1, InfoStays DEF Sized
<1> QED BY <1>3, <1>7, ItemsSame, ReportsSame, StackSame DEF Sized

LEMMA ReportItemSized ==
  ASSUME ParserInv, GlobalInv, FieldsInv, Sized, ReportItem
  PROVE  Sized'
<1>0. PICK error : ReportType(error)
  BY DEF ReportItem
<1>1. phase = "fill" /\ ~atEnd /\ item.tag \in DataTags
  BY <1>0 DEF ReportType, Filling
<1>2. InfoShape /\ DOMAIN info = InfoFields
  BY InfoThere DEF ParserInv
<1>3. CASE error # "none"
  BY <1>0, <1>3, AllSame DEF ReportType
<1>4. CASE error = "none" /\ info.reportItems \notin DOMAIN reportItemList
  BY <1>0, <1>4, OverrunSized DEF ReportType
<1>5. CASE error = "none" /\ info.reportItems \in DOMAIN reportItemList
  <2>0. PICK r, t : r = info.globals.reportIndex /\ t = item.tag
    OBVIOUS
  <2>1. /\ info' = [info EXCEPT !.reportItems = Byte(@ + 1), !.first = info.items]
        /\ reportList' = [reportList EXCEPT ![r][t] = Word(@ + FieldBits)]
        /\ UNCHANGED collectionStack
    BY <1>0, <1>5, <2>0 DEF ReportType
  <2>2. PICK e : /\ e.startBit = Byte(reportList[r][t])
                 /\ reportItemList' = [reportItemList EXCEPT ![info.reportItems] = e]
    <3> DEFINE e == [reportType |-> item.tag, globals |-> info.globals, parent |-> info.parent,
                     startBit |-> Byte(reportList[info.globals.reportIndex][item.tag]),
                     dataModes |-> item.data, first |-> info.first,
                     items |-> [k \in Kinds |-> Byte(info.items[k] - info.first[k])]]
    <3>1. reportItemList' = [reportItemList EXCEPT ![info.reportItems] = e]
      BY <1>0, <1>5 DEF ReportType
    <3>2. e.startBit = Byte(reportList[r][t])
      BY <2>0
    <3> HIDE DEF e
    <3> QED BY <3>1, <3>2
  <2>3. PICK l, m : /\ r \in DOMAIN reportList /\ l = reportList[r] /\ m = l[t]
                    /\ ReportSized(l) /\ t \in DataTags /\ m \in Nat
    <3>1. r \in DOMAIN reportList /\ t \in DataTags
      BY <1>1, <2>0, FieldsThere DEF Layout, Names
    <3>2. PICK l : l = reportList[r]
      OBVIOUS
    <3>3. ReportSized(l)
      BY <3>1, <3>2 DEF Sized, ReportsSized
    <3>4. l[t] \in Words
      BY <3>1, <3>3 DEF ReportSized
    <3>5. l[t] \in Nat
      BY <3>4, WordsAre
    <3> QED BY <3>1, <3>2, <3>3, <3>5
  <2>4. FieldBits \in Nat
    <3>1. /\ descriptor \in Descriptors /\ at \in 1 .. Len(descriptor) + 1
          /\ GlobalsAt(descriptor, at, info.globals)
      BY <1>1, FieldsThere DEF GlobalInv
    <3>2. \A tag : Latest(descriptor, tag, at).data \in Int
      BY <3>1, DataThere
    <3>3. info.globals.reportsize \in Nat /\ info.globals.reportCount \in Nat
      BY <3>1, <3>2 DEF GlobalsAt, Byte
    <3> QED BY <3>3 DEF FieldBits
  <2>5. ItemsSized'
    <3>1. m \in Int
      BY <2>3
    <3>2. e.startBit \in 0 .. 255
      BY <2>2, <2>3, <3>1, BytesAre
    <3> QED BY <2>2, <3>2 DEF Sized, ItemsSized
  <2>6. ReportsSized'
    <3>1. PICK w : w = Word(m + FieldBits)
      OBVIOUS
    <3>2. w \in Words
      <4>1. m + FieldBits \in Int
        BY <2>3, <2>4
      <4> QED BY <3>1, <4>1, WordsAre
    <3>3. PICK new : new = [l EXCEPT ![t] = w]
      OBVIOUS
    <3>4. reportList' = [reportList EXCEPT ![r] = new]
      <4>1. reportList' = [reportList EXCEPT ![r] = [reportList[r] EXCEPT
                                                       ![t] = Word(reportList[r][t] + FieldBits)]]
        BY <2>1
      <4> QED BY <2>3, <3>1, <3>3, <4>1
    <3>5. ReportSized(new)
      BY <2>3, <3>2, <3>3 DEF ReportSized
    <3> QED BY <3>4, <3>5 DEF Sized, ReportsSized
  <2>7. /\ info'.reportItems = Byte(info.reportItems + 1) /\ info'.first = info.items
        /\ \A f \in InfoFields \ {"reportItems", "first"} : info'[f] = info[f]
    BY <1>2, <2>1 DEF InfoFields
  <2>8. info'.reportItems \in 0 .. 255
    BY <2>7, OneMore DEF Sized, Counters
  <2>9. InfoSized'
    BY <2>7, <2>8, InfoStays DEF Sized, Counters, InfoFields
  <2> QED BY <2>1, <2>5, <2>6, <2>9 DEF Sized, StackSized
<1> QED BY <1>3, <1>4, <1>5

LEMMA FillItemSized ==
  ASSUME ParserInv, GlobalInv, FieldsInv, Sized, FillItem, Countable(descriptor)
  PROVE  Sized'
BY PlainSized, ReportIDSized, PushSized, PopSized, LocalSized, CollectionSized,
   EndCollectionSized, ReportItemSized DEF FillItem

\* The variables that a pass begins with.
LEMMA InitSized ==
  ASSUME ParserInv, Sized, info' = InitDeviceRptInfo(info)
  PROVE  InfoSized'
<1>1. PICK i : i = info' /\ i = InitDeviceRptInfo(info)
  OBVIOUS
<1>2. /\ i.collectionNesting = 0 /\ i.collections = 1 /\ i.globalsNesting = 0
      /\ i.reportItems = 0 /\ i.reports = 1 /\ i.parent = info.parent
      /\ i.sibling = info.sibling
      /\ i.items = [info.items EXCEPT !["usage"] = 0] /\ i.first = info.first
  BY <1>1, InitShape DEF ParserInv
<1>3. \A f \in Counters : info'[f] = info[f] \/ info'[f] \in 0 .. 255
  BY <1>1, <1>2 DEF Counters
<1>4. DOMAIN info.items = Kinds
  BY InfoThere DEF ParserInv
<1>5. \A k \in Kinds : info'.items[k] = info.items[k] \/ info'.items[k] \in 0 .. 255
  BY <1>1, <1>2, <1>4
<1> QED BY <1>1, <1>2, <1>3, <1>5, InfoStays DEF Sized

LEMMA ParseReportSized ==
  ASSUME ParserInv, Sized, ParseReport
  PROVE  Sized'
<1>1. info' = InitDeviceRptInfo(info) /\ UNCHANGED tables
  BY DEF ParseReport
<1> QED BY <1>1, InitSized, ItemsSame, ReportsSame, StackSame DEF Sized, tables

LEMMA CountItemSized ==
  ASSUME ParserInv, Sized, CountItem
  PROVE  Sized'
<1>1. info' = Counted(info, item) /\ UNCHANGED tables
  BY DEF CountItem
<1>2. PICK i, x : i = info' /\ x = item /\ CountedFields(i, x)
  BY <1>1, CountedShape DEF ParserInv
<1>3. /\ info.collections \in Int /\ info.collectionNesting \in Int /\ info.reportItems \in Int
      /\ info.reports \in Int /\ info.globalsNesting \in Int
  BY DEF Sized, InfoSized, Counters
<1>4. \A n \in Int, u, v \in {0, 1} : Byte(n + u) \in 0 .. 255 /\ Byte(n + u - v) \in 0 .. 255
  BY BytesAre
<1>5. /\ i.collections \in 0 .. 255 /\ i.reportItems \in 0 .. 255 /\ i.reports \in 0 .. 255
  <2>1. PICK u, v, w \in {0, 1} :
          /\ i.collections = Byte(info.collections + u)
          /\ i.reportItems = Byte(info.reportItems + v)
          /\ i.reports = Byte(info.reports + w)
    <3> DEFINE u == IF x.tag = "Collection" THEN 1 ELSE 0
               v == IF x.tag \in DataTags THEN 1 ELSE 0
               w == IF x.tag = "ReportID" THEN 1 ELSE 0
    <3>1. /\ i.collections = Byte(info.collections + u)
          /\ i.reportItems = Byte(info.reportItems + v)
          /\ i.reports = Byte(info.reports + w)
      BY <1>2 DEF CountedFields
    <3>2. u \in {0, 1} /\ v \in {0, 1} /\ w \in {0, 1}
      OBVIOUS
    <3> HIDE DEF u, v, w
    <3> QED BY <3>1, <3>2
  <2>2. Byte(info.collections + u) \in 0 .. 255
    BY <1>3, <1>4
  <2>3. Byte(info.reportItems + v) \in 0 .. 255
    BY <1>3, <1>4
  <2>4. Byte(info.reports + w) \in 0 .. 255
    BY <1>3, <1>4
  <2> QED BY <2>1, <2>2, <2>3, <2>4
<1>6. i.collectionNesting \in 0 .. 255 /\ i.globalsNesting \in 0 .. 255
  <2>1. PICK u, v, w, z \in {0, 1} :
          /\ i.collectionNesting = Byte(info.collectionNesting + u - v)
          /\ i.globalsNesting = Byte(info.globalsNesting + w - z)
    <3> DEFINE u == IF x.tag = "Collection" THEN 1 ELSE 0
               v == IF x.tag = "EndCollection" THEN 1 ELSE 0
               w == IF x.tag = "Push" THEN 1 ELSE 0
               z == IF x.tag = "Pop" THEN 1 ELSE 0
    <3>1. /\ i.collectionNesting = Byte(info.collectionNesting + u - v)
          /\ i.globalsNesting = Byte(info.globalsNesting + w - z)
      BY <1>2 DEF CountedFields
    <3>2. u \in {0, 1} /\ v \in {0, 1} /\ w \in {0, 1} /\ z \in {0, 1}
      OBVIOUS
    <3> HIDE DEF u, v, w, z
    <3> QED BY <3>1, <3>2
  <2>2. Byte(info.collectionNesting + u - v) \in 0 .. 255
    BY <1>3, <1>4
  <2>3. Byte(info.globalsNesting + w - z) \in 0 .. 255
    BY <1>3, <1>4
  <2> QED BY <2>1, <2>2, <2>3
<1>7. \A f \in Counters : info'[f] = info[f] \/ info'[f] \in 0 .. 255
  <2>1. i.parent = info.parent /\ i.sibling = info.sibling
    BY <1>2 DEF CountedFields
  <2> QED BY <1>2, <1>5, <1>6, <2>1 DEF Counters
<1>8. info'.items = info.items /\ info'.first = info.first
  BY <1>2 DEF CountedFields
<1>9. InfoSized'
  BY <1>7, <1>8, InfoStays DEF Sized
<1> QED BY <1>1, <1>9, ItemsSame, ReportsSame, StackSame DEF Sized, tables

LEMMA AllocateSized ==
  ASSUME ParserInv, Sized, Allocate
  PROVE  Sized'
<1>1. CASE info' = info /\ UNCHANGED tables
  BY <1>1, AllSame
<1>2. CASE ~(info' = info /\ UNCHANGED tables)
  <2>1. /\ info' = InitDeviceRptInfo(info)
        /\ reportItemList' = Room(info.reportItems, NewReportItem)
        /\ reportList' = Room(info.reports, NewReport)
        /\ collectionStack' = Room(info.maxCollectionNesting, 0)
    BY <1>2 DEF Allocate
  <2>2. InfoSized'
    BY <2>1, InitSized
  <2>3. ItemsSized'
    BY <2>1 DEF ItemsSized, Room, NewReportItem
  <2>4. ReportsSized'
    <3>1. ReportSized(NewReport)
      BY DEF ReportSized, NewReport, ReportFields, DataTags, Words
    <3> QED BY <2>1, <3>1 DEF ReportsSized, Room
  <2>5. StackSized'
    BY <2>1 DEF StackSized, Room
  <2> QED BY <2>2, <2>3, <2>4, <2>5 DEF Sized
<1> QED BY <1>1, <1>2

LEMMA ParsedSized ==
  ASSUME Sized, Parsed
  PROVE  Sized'
<1>1. /\ reportList' = [r \in DOMAIN reportList |->
                          IF r \in 1 .. info.reports - 1 THEN Cleared(reportList[r])
                          ELSE reportList[r]]
      /\ info' = info /\ reportItemList' = reportItemList /\ collectionStack' = collectionStack
  BY DEF Parsed
<1>2. ASSUME NEW l, ReportSized(l)
      PROVE  ReportSized(Cleared(l))
  <2>1. DOMAIN l = ReportFields /\ \A t \in DataTags : l[t] \in Words
    BY <1>2 DEF ReportSized
  <2>2. PICK a, b, c : /\ a = (IF l.Input = 8 THEN 0 ELSE l.Input)
                       /\ b = (IF l.Output = 8 THEN 0 ELSE l.Output)
                       /\ c = (IF l.Feature = 8 THEN 0 ELSE l.Feature)
    OBVIOUS
  <2>3. a \in Words /\ b \in Words /\ c \in Words
    <3>1. 0 \in Words
      BY DEF Words
    <3> QED BY <2>1, <2>2, <3>1 DEF DataTags
  <2>4. Cleared(l) = [l EXCEPT !.Input = a, !.Output = b, !.Feature = c]
    BY <2>1, <2>2 DEF Cleared, ReportFields, DataTags
  <2> QED BY <2>1, <2>3, <2>4 DEF ReportSized, ReportFields, DataTags
<1>3. ReportsSized'
  BY <1>1, <1>2 DEF Sized, ReportsSized
<1> QED BY <1>1, <1>3, InfoSame, ItemsSame, StackSame DEF Sized

\* The position is one of the descriptor, or that after its last item.
AtPlace == Len(descriptor) \in Nat /\ at \in 1 .. Len(descriptor) + 1

LEMMA PlaceKept ==
  ASSUME AtPlace, [ImportNext]_importVars
  PROVE  AtPlace'
<1>1. CASE ParseReport
  <2>1. descriptor' \in Descriptors /\ at' = 1
    BY <1>1 DEF ParseReport
  <2>2. Len(descriptor') \in Nat
    BY <2>1, Descriptor
  <2> QED BY <2>1, <2>2 DEF AtPlace
<1>2. CASE CountItem \/ FillItem
  <2>1. ~atEnd /\ descriptor' = descriptor /\ at' \in {at, at + 1}
    BY <1>2, FillPhases DEF CountItem
  <2> QED BY <2>1 DEF AtPlace, atEnd
<1>3. CASE descriptor' = descriptor /\ at' \in {at, 1}
  BY <1>3 DEF AtPlace
<1>4. Allocate \/ Parsed => descriptor' = descriptor /\ at' \in {at, 1}
  BY DEF Allocate, Parsed
<1>5. DataCollectionHandler \/ Run \/ ProcessInputReport \/ Detach \/ UNCHANGED importVars
        => descriptor' = descriptor /\ at' = at
  BY DEF DataCollectionHandler, Run, ProcessInputReport, Detach, importVars, parserVars
<1> QED BY <1>1, <1>2, <1>3, <1>4, <1>5 DEF ImportNext, Parse, ParseOn

LEMMA SizedInvariant ==
  ASSUME \A d \in Descriptors : Countable(d) /\ Measured(d) /\ WellSized(d)
  PROVE  ImportSpec => [](Sized /\ AtPlace)
<1>1. ImportInit => Sized /\ AtPlace
  <2> SUFFICES ASSUME ImportInit
               PROVE  Sized /\ AtPlace
    OBVIOUS
  <2>1. /\ info = ZeroInfo /\ descriptor = <<>> /\ at = 1
        /\ reportItemList = Empty /\ reportList = Empty /\ collectionStack = Empty
    BY DEF ImportInit, ParserInit
  <2>2. InfoSized
    BY <2>1 DEF InfoSized, ZeroInfo, Counters, None
  <2>3. ItemsSized /\ ReportsSized /\ StackSized
    BY <2>1 DEF ItemsSized, ReportsSized, StackSized, Empty
  <2> QED BY <2>1, <2>2, <2>3 DEF Sized, AtPlace
<1>2. /\ ParserInv /\ GlobalInv /\ FieldsInv /\ Sized /\ AtPlace /\ [ImportNext]_importVars
      => Sized' /\ AtPlace'
  <2> SUFFICES ASSUME ParserInv, GlobalInv, FieldsInv, Sized, AtPlace, [ImportNext]_importVars
               PROVE  Sized' /\ AtPlace'
    OBVIOUS
  <2>1. CASE FillItem
    <3>1. Countable(descriptor)
      <4>1. phase = "fill"
        BY <2>1, FillPhases
      <4> QED BY <4>1 DEF ParserInv, AtItem
    <3> QED BY <2>1, <3>1, FillItemSized, PlaceKept
  <2>2. CASE Parse \/ CountItem \/ Allocate \/ Parsed
    BY <2>2, ParseReportSized, CountItemSized, AllocateSized, ParsedSized, PlaceKept DEF Parse
  <2>3. CASE DataCollectionHandler \/ Run \/ ProcessInputReport \/ Detach \/ UNCHANGED importVars
    <3>1. info' = info /\ UNCHANGED tables
      BY <2>3 DEF DataCollectionHandler, Run, ProcessInputReport, Detach, importVars, parserVars
    <3> QED BY <3>1, AllSame, PlaceKept
  <2> QED BY <2>1, <2>2, <2>3 DEF ImportNext, ParseOn
<1> QED BY <1>1, <1>2, FieldsInvariant, PTL DEF ImportSpec

LEMMA RangesKept ==
  ASSUME ParserInv, Sized, AtPlace
  PROVE  ParserTypeOK
<1>1. /\ phase \in {"idle", "count", "fill", "parsed", "running", "overrun", "overflow"}
      /\ at \in 1 .. Len(D) + 1
  BY DEF ParserInv, AtItem, AtPlace, D
<1>2. {info.collections, info.collectionNesting, info.reportItems, info.reports,
       info.globalsNesting, info.parent, info.sibling} \subseteq 0 .. 255
  BY DEF Sized, InfoSized, Counters
<1>3. \A k \in Kinds : info.items[k] \in 0 .. 255 /\ info.first[k] \in 0 .. 255
  BY DEF Sized, InfoSized
<1>4. \A i \in DOMAIN reportItemList : reportItemList[i].startBit \in 0 .. 255
  BY DEF Sized, ItemsSized
<1>5. \A i \in DOMAIN reportList : \A t \in DataTags : reportList[i][t] \in Words
  BY DEF Sized, ReportsSized, ReportSized
<1> QED BY <1>1, <1>2, <1>3, <1>4, <1>5 DEF ParserTypeOK

-------------------------------------------------------------------------------
(* What the driver is given. *)

LEMMA LaidIsFollowed ==
  ASSUME ParserInv, LaidInv, \A d \in Descriptors : Measured(d)
  PROVE  FieldsFollow
<1> SUFFICES ASSUME phase = "parsed", NEW p \in Positions(DataTags)
             PROVE  LET r == reportItemList[ItemNumber(p)]
                        l == reportList[r.globals.reportIndex] IN
                    /\ r.startBit = Begin(p) % 256
                    /\ l.reportID = ReportOf(p) /\ l[D[p].tag] = Length(p)
  BY DEF FieldsFollow
<1>1. /\ descriptor \in Descriptors /\ Measured(descriptor) /\ Len(descriptor) \in Nat
      /\ \A tags : At(descriptor, tags) \in SUBSET (1 .. Len(descriptor))
  BY Descriptor DEF ParserInv, AtItem
<1>2. \A tags : Positions(tags) = At(descriptor, tags)
  BY DEF Positions, At, D
<1>3. \A q : ReportOf(q) = IDOf(descriptor, q)
  BY SameInForce DEF ReportOf, IDOf, Latest, Global, NoItem, D
<1>4. ItemNumber(p) = Num(descriptor, DataTags, p)
  BY SameTree DEF ItemNumber
<1> DEFINE t == descriptor[p].tag
           id == IDOf(descriptor, p)
           r0 == reportItemList[ItemNumber(p)]
<1>5. InReport(descriptor, p, reportList, r0)
  BY <1>2, <1>4 DEF LaidInv, LaidOut
<1>6. {q \in SameReport(p) : q < p} = Same(descriptor, t, id, p)
  BY <1>2, <1>3 DEF SameReport, Same, Cut, D
<1>7. SameReport(p) = Same(descriptor, t, id, Len(descriptor) + 1)
  <2>1. Cut(At(descriptor, {t}), Len(descriptor) + 1) = At(descriptor, {t})
    <3>1. \A q \in At(descriptor, {t}) : q < Len(descriptor) + 1
      BY <1>1
    <3> QED BY <3>1 DEF Cut
  <2> QED BY <1>2, <1>3, <2>1 DEF SameReport, Same, D
<1>8. \A q : Same(descriptor, t, id, q) \in SUBSET (1 .. Len(descriptor))
  BY <1>1, SameThere
<1>9. Begin(p) = Used(descriptor, t, id, p)
  BY <1>1, <1>3, <1>6, <1>8, SumsAreTotals DEF Begin, Used, Base
<1>10. Length(p) = Used(descriptor, t, id, Len(descriptor) + 1)
  BY <1>1, <1>3, <1>7, <1>8, SumsAreTotals DEF Length, Used, Base
<1> QED BY <1>3, <1>5, <1>9, <1>10 DEF InReport, Begins, Byte, D

\* Of every descriptor that is taken, the driver is given what the descriptor as a whole says:
\* the fields of each report one behind the other, with the sizes, counts, pages and signed
\* bounds in force at them, and nothing unmatched; and the variables of the parser stay in
\* their ranges.  This is for descriptors whose items a byte can count, with sizes and counts
\* that are bytes and report IDs that are words, whose report items have bits and whose
\* reports have no more of them than a word can say.  (TablesFollowDescriptor)
THEOREM TablesFollow ==
  ASSUME \A d \in Descriptors : Countable(d) /\ Measured(d) /\ WellSized(d)
  PROVE  ImportSpec => []TablesFollowDescriptor
<1>1. \A d \in Descriptors : Countable(d)
  OBVIOUS
<1>2. ParserInv /\ LaidInv /\ Sized /\ AtPlace => ParserTypeOK /\ FieldsFollow
  BY RangesKept, LaidIsFollowed
<1>3. ImportSpec => [](ParserTypeOK /\ FieldsFollow)
  BY <1>2, FieldsInvariant, SizedInvariant, PTL
<1>4. ImportSpec => []TakesOnlyMatched /\ []GlobalsInForce /\ []BoundsAreSigned
  BY <1>1, DescriptorsAreMatched, GlobalsAreInForce, BoundsKeepTheirSign
<1>5. ParserTypeOK /\ TakesOnlyMatched /\ GlobalsInForce /\ FieldsFollow /\ BoundsAreSigned
      => TablesFollowDescriptor
  BY DEF TablesFollowDescriptor
<1> QED BY <1>3, <1>4, <1>5, PTL
===============================================================================
