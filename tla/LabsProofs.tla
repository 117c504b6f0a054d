------------------------------ MODULE LabsProofs ------------------------------
(***************************************************************************)
(* Proofs about the programs of Labs 4, 5 and 6 and the display of Lab 7,  *)
(* for every value of their constants: what LabsMC runs on small ones.     *)
(***************************************************************************)
EXTENDS SelectionSort, SongPlayer, CalcArithmetic, Display, FiniteSetTheorems, TLAPS
-------------------------------------------------------------------------------
(***************************************************************************)
(* Lab 4: the sorting program, for every number of words, every number of  *)
(* words of which the largest is shown and all words.                      *)
(***************************************************************************)
Sorting == {"min_init", "min_loop", "sort_check", "finish_loop"}

\* While the maximum is looked for the words are as given, and t1 is the largest
\* of those from t2 down.
MaxSoFar ==
  /\ sortPC \notin Sorting => word = given
  /\ sortPC = "max_loop" =>
       /\ t2 \in 1 .. Top - 1
       /\ \E i \in t2 .. Top - 1 : t1 = given[i]
       /\ \A i \in t2 .. Top - 1 : given[i] <= t1
  /\ sortPC = "write" =>
       /\ \E i \in 0 .. Top - 1 : t1 = given[i]
       /\ \A i \in 0 .. Top - 1 : given[i] <= t1

\* t4 is the smallest of the words that were scanned, and it stands at t3.
MinSoFar ==
  /\ sortPC \in {"min_init", "min_loop", "sort_check"} => t2 \in 1 .. Size - 1
  /\ sortPC = "min_loop" => t5 \in 0 .. t2 - 1
  /\ sortPC = "sort_check" => t5 = t2 /\ t6 = word[t2]
  /\ sortPC \in {"min_loop", "sort_check"} =>
       /\ t3 \in 0 .. t5
       /\ t4 = word[t3]
       /\ \A j \in 0 .. t5 : t4 <= word[j]

\* Each word below t2 is no larger than any word above it.
Placed ==
  /\ sortPC \in Sorting =>
       \A i, j \in Addresses : t2 < i /\ j < i => word[i] <= word[j]
  /\ sortPC = "finish_loop" => t2 = 0

SortInv == SortTypeOK /\ MaxSoFar /\ MinSoFar /\ Placed /\ KeepsWords /\ ShowsLargest


\* w holds the words of g in some order.
Reorders(w, g) == \E p \in Orders : \A i \in Addresses : w[i] = g[p[i]]

Exchanged(w, a, b) == [w EXCEPT ![a] = w[b], ![b] = w[a]]

\* Exchanging two of the words keeps them the given words.
LEMMA ExchangeKeeps ==
  ASSUME NEW w \in [Addresses -> Values], NEW g \in [Addresses -> Values],
         NEW a \in Addresses, NEW b \in Addresses, Reorders(w, g)
  PROVE  Reorders(Exchanged(w, a, b), g)
<1> USE SizeAssumption, ValuesAssumption DEF Addresses
<1> HIDE DEF Addresses
<1>0. PICK p \in Orders : \A i \in Addresses : w[i] = g[p[i]]
  BY DEF Reorders
<1> DEFINE q == [i \in Addresses |-> IF i = b THEN p[a] ELSE IF i = a THEN p[b] ELSE p[i]]
<1>1. p \in [Addresses -> Addresses] /\ \A i, j \in Addresses : p[i] = p[j] => i = j
  BY DEF Orders
<1>2. q \in [Addresses -> Addresses]
  BY <1>1
<1>3. ASSUME NEW i \in Addresses, NEW j \in Addresses, q[i] = q[j] PROVE i = j
  BY <1>1, <1>3
<1>4. q \in Orders
  BY <1>2, <1>3 DEF Orders
<1>5. ASSUME NEW i \in Addresses PROVE Exchanged(w, a, b)[i] = g[q[i]]
  BY <1>0, <1>1 DEF Exchanged
<1> QED BY <1>4, <1>5 DEF Reorders

LEMMA SortInitially == SortInit => SortInv
<1> USE SizeAssumption, ValuesAssumption DEF Addresses
<1> SUFFICES ASSUME SortInit PROVE SortInv
  OBVIOUS
<1> USE DEF SortInit
<1>1. SortTypeOK
  BY DEF SortTypeOK
<1>2. KeepsWords
  <2> DEFINE p == [i \in Addresses |-> i]
  <2>1. p \in Orders
    BY DEF Orders
  <2>2. \A i \in Addresses : word[i] = given[p[i]]
    OBVIOUS
  <2> QED BY <2>1, <2>2 DEF KeepsWords
<1> QED BY <1>1, <1>2 DEF SortInv, MaxSoFar, MinSoFar, Placed, ShowsLargest, Sorting

LEMMA SortStep == SortInv /\ [SortNext]_sortVars => SortInv'
<1> USE SizeAssumption, ValuesAssumption DEF Addresses
<1> SUFFICES ASSUME SortInv, [SortNext]_sortVars PROVE SortInv'
  OBVIOUS
<1>t. SortTypeOK /\ MaxSoFar /\ MinSoFar /\ Placed /\ KeepsWords /\ ShowsLargest
  BY DEF SortInv
<1>k. ASSUME UNCHANGED <<given, word>> PROVE KeepsWords'
  BY <1>t, <1>k DEF KeepsWords, Orders
<1>1. CASE MaxInit
  <2> USE <1>1 DEF MaxInit
  <2>1. SortTypeOK'
    BY <1>t DEF SortTypeOK
  <2>2. MaxSoFar'
    <3>1. t2' \in 1 .. Top - 1 /\ t1' = given[t2']
      BY <1>t DEF MaxSoFar, Sorting, SortTypeOK
    <3>2. \A i \in t2' .. Top - 1 : i = t2'
      BY <3>1
    <3>3. given[t2'] \in Int
      BY <1>t, <3>1 DEF SortTypeOK
    <3> QED BY <1>t, <3>1, <3>2, <3>3 DEF MaxSoFar, Sorting
  <2> QED BY <1>t, <1>k, <2>1, <2>2 DEF SortInv, MinSoFar, Placed, ShowsLargest, Sorting
<1>2. CASE MaxLoop
  <2> USE <1>2 DEF MaxLoop
  <2>0. t2 \in 1 .. Top - 1 /\ t2' \in 0 .. Top - 2 /\ t2' = t2 - 1 /\ word = given
    BY <1>t DEF MaxSoFar, Sorting
  <2>1. SortTypeOK'
    BY <1>t, <2>0 DEF SortTypeOK
  <2>2. t1 \in Int /\ \A i \in Addresses : given[i] \in Int
    BY <1>t DEF SortTypeOK
  <2>3. \E i \in t2' .. Top - 1 : t1' = given[i]
    BY <1>t, <2>0 DEF MaxSoFar
  <2>4. \A i \in t2' .. Top - 1 : given[i] <= t1'
    BY <1>t, <2>0, <2>2 DEF MaxSoFar
  <2>5. MaxSoFar'
    BY <2>0, <2>3, <2>4 DEF MaxSoFar, Sorting
  <2> QED BY <1>t, <1>k, <2>1, <2>5 DEF SortInv, MinSoFar, Placed, ShowsLargest, Sorting
<1>3. CASE Write
  <2> USE <1>3 DEF Write
  <2>1. SortTypeOK'
    BY <1>t DEF SortTypeOK
  <2>2. ShowsLargest'
    BY <1>t DEF MaxSoFar, ShowsLargest
  <2>3. Placed'
    BY DEF Placed, Sorting
  <2> QED BY <1>t, <1>k, <2>1, <2>2, <2>3 DEF SortInv, MinSoFar, MaxSoFar, Sorting
<1>4. CASE MinInit
  <2> USE <1>4 DEF MinInit
  <2>1. SortTypeOK'
    BY <1>t DEF SortTypeOK
  <2>2. word[0] \in Int /\ \A j \in 0 .. 0 : j = 0
    BY <1>t DEF SortTypeOK
  <2>3. MinSoFar'
    BY <1>t, <2>2 DEF MinSoFar
  <2> QED BY <1>t, <1>k, <2>1, <2>3 DEF SortInv, MaxSoFar, Placed, ShowsLargest, Sorting
<1>5. CASE MinLoop
  <2> USE <1>5 DEF MinLoop
  <2>0. /\ t2 \in 1 .. Size - 1 /\ t5 \in 0 .. t2 - 1 /\ t3 \in 0 .. t5 /\ t4 = word[t3]
        /\ \A j \in 0 .. t5 : t4 <= word[j]
    BY <1>t DEF MinSoFar
  <2>1. SortTypeOK'
    BY <1>t, <2>0 DEF SortTypeOK
  <2>2. \A i \in Addresses : word[i] \in Int
    BY <1>t DEF SortTypeOK
  <2>3. t3' \in 0 .. t5' /\ t4' = word[t3']
    BY <2>0
  <2>4. \A j \in 0 .. t5' : t4' <= word[j]
    <3>1. t4 \in Int /\ t6' \in Int /\ t5' \in Addresses
      BY <2>0, <2>2
    <3> SUFFICES ASSUME NEW j \in 0 .. t5' PROVE t4' <= word[j]
      OBVIOUS
    <3>2. CASE j = t5'
      BY <3>1, <3>2
    <3>3. CASE j # t5'
      <4>1. j \in 0 .. t5 /\ word[j] \in Int
        BY <2>0, <2>2, <3>3
      <4> QED BY <2>0, <3>1, <4>1
    <3> QED BY <3>2, <3>3
  <2>5. MinSoFar'
    BY <2>0, <2>3, <2>4 DEF MinSoFar
  <2> QED BY <1>t, <1>k, <2>1, <2>5 DEF SortInv, MaxSoFar, Placed, ShowsLargest, Sorting
<1>6. CASE SortCheck
  <2> USE <1>6 DEF SortCheck
  <2>0. /\ t2 \in 1 .. Size - 1 /\ t3 \in 0 .. t2 /\ t4 = word[t3] /\ t6 = word[t2]
        /\ \A j \in 0 .. t2 : t4 <= word[j]
    BY <1>t DEF MinSoFar
  <2>1. SortTypeOK'
    BY <1>t, <2>0 DEF SortTypeOK
  <2>2. word \in [Addresses -> Values] /\ \A i \in Addresses : word[i] \in Int
    BY <1>t DEF SortTypeOK
  <2>3. word' = [word EXCEPT ![t2] = word[t3], ![t3] = word[t2]]
    BY <2>0
  <2>4. KeepsWords'
    <3>1. Reorders(word, given)
      BY <1>t DEF KeepsWords, Reorders
    <3>2. given \in [Addresses -> Values] /\ t2 \in Addresses /\ t3 \in Addresses
      BY <1>t DEF SortTypeOK
    <3> HIDE DEF Addresses
    <3>3. Reorders(Exchanged(word, t2, t3), given)
      BY <2>2, <3>1, <3>2, ExchangeKeeps
    <3>4. word' = Exchanged(word, t2, t3) /\ given' = given
      BY <2>3 DEF Exchanged
    <3>5. Reorders(word', given')
      BY <3>3, <3>4
    <3> QED BY <3>5 DEF KeepsWords, Reorders, Orders
  <2>5. ASSUME NEW i \in Addresses, NEW j \in Addresses, t2' < i, j < i
        PROVE  word'[i] <= word'[j]
    <3>1. t2 \in Addresses /\ t3 \in Addresses
      BY <2>0
    <3>2. CASE i = t2
      <4>1. word'[i] = t4
        BY <2>0, <2>2, <2>3, <3>1, <3>2
      <4>2. \E k \in 0 .. t2 : word'[j] = word[k]
        BY <2>0, <2>2, <2>3, <2>5, <3>1, <3>2
      <4> QED BY <2>0, <4>1, <4>2
    <3>3. CASE i # t2
      <4>1. t2 < i
        BY <2>0, <2>5, <3>3
      <4>2. word'[i] = word[i]
        BY <2>0, <2>2, <4>1
      <4>3. \E k \in Addresses : k < i /\ word'[j] = word[k]
        BY <2>0, <2>2, <2>3, <2>5, <3>1, <4>1
      <4> QED BY <1>t, <4>1, <4>2, <4>3 DEF Placed, Sorting
    <3> QED BY <3>2, <3>3
  <2>6. Placed'
    BY <2>5 DEF Placed
  <2>7. MinSoFar' /\ MaxSoFar'
    BY <2>0 DEF MinSoFar, MaxSoFar, Sorting
  <2> QED BY <1>t, <2>1, <2>4, <2>6, <2>7 DEF SortInv, ShowsLargest
<1>7. CASE FinishLoop \/ UNCHANGED sortVars
  <2>1. UNCHANGED sortVars
    BY <1>7 DEF FinishLoop
  <2> QED BY <1>t, <1>k, <2>1 DEF sortVars, SortInv, SortTypeOK, MaxSoFar, MinSoFar,
             Placed, ShowsLargest, Sorting
<1> QED BY <1>1, <1>2, <1>3, <1>4, <1>5, <1>6, <1>7 DEF SortNext

\* The inductive invariant holds in every state of the program.
THEOREM SortInvariant == SortSpec => []SortInv
BY SortInitially, SortStep, PTL DEF SortSpec

\* The program never leaves the range of its words, and registers never hold an
\* address outside the stack.
THEOREM SortTypeCorrect == SortSpec => []SortTypeOK
<1>1. SortInv => SortTypeOK
  BY DEF SortInv
<1> QED BY <1>1, SortInvariant, PTL

\* When the program is done the stack is sorted, whatever was on it.
THEOREM SortsWords == SortSpec => []Sorted
<1>1. SortInv => Sorted
  BY SizeAssumption, ValuesAssumption DEF Addresses, SortInv, Placed, Sorted, Sorting, SortTypeOK
<1> QED BY <1>1, SortInvariant, PTL

\* No word is lost or doubled by the exchanges.
THEOREM SortKeepsWords == SortSpec => []KeepsWords
<1>1. SortInv => KeepsWords
  BY DEF SortInv
<1> QED BY <1>1, SortInvariant, PTL

\* The LEDs show the largest of the top words.
THEOREM LedsShowLargest == SortSpec => []ShowsLargest
<1>1. SortInv => ShowsLargest
  BY DEF SortInv
<1> QED BY <1>1, SortInvariant, PTL

\* The whole of the program for any number of words and any values: sorted in place, the
\* largest shown (Lab 4/leds_hh.S).
THEOREM SortIsCorrect == SortSpec => []SortCorrect
<1> QED BY SortTypeCorrect, SortsWords, SortKeepsWords, LedsShowLargest, PTL DEF SortCorrect

-------------------------------------------------------------------------------
(***************************************************************************)
(* Lab 5: the song player, for all songs.                                  *)
(***************************************************************************)
\* The ops of one kind before the i-th word.
Steps(op, s, i) == {k \in 1 .. i - 1 : IsOp(s[k], op)}

\* One word more adds itself to the words of its kind before it.
LEMMA StepsGrow ==
  ASSUME NEW op, NEW s, NEW i \in Nat \ {0}
  PROVE  /\ IsFiniteSet(Steps(op, s, i)) /\ Cardinality(Steps(op, s, i)) \in Nat
         /\ Cardinality(Steps(op, s, i + 1))
              = Cardinality(Steps(op, s, i)) + (IF IsOp(s[i], op) THEN 1 ELSE 0)
<1>1. IsFiniteSet(1 .. i - 1)
  BY FS_Interval
<1>2. Steps(op, s, i) \in SUBSET (1 .. i - 1)
  BY DEF Steps
<1>3. IsFiniteSet(Steps(op, s, i)) /\ Cardinality(Steps(op, s, i)) \in Nat
  BY <1>1, <1>2, FS_Subset, FS_CardinalityType
<1>4. CASE IsOp(s[i], op)
  <2>1. Steps(op, s, i + 1) = Steps(op, s, i) \cup {i}
    BY <1>4 DEF Steps
  <2>2. i \notin Steps(op, s, i)
    BY DEF Steps
  <2> QED BY <1>3, <1>4, <2>1, <2>2, FS_AddElement
<1>5. CASE ~IsOp(s[i], op)
  <2>1. Steps(op, s, i + 1) = Steps(op, s, i)
    BY <1>5 DEF Steps
  <2> QED BY <1>3, <1>5, <2>1
<1> QED BY <1>3, <1>4, <1>5

\* The nesting changes at the loop ops only, by one.
LEMMA NestingGrows ==
  ASSUME NEW s, NEW i \in Nat \ {0}
  PROVE  /\ Nesting(s, i) \in Int
         /\ Nesting(s, i + 1) = IF IsOp(s[i], OpLoop) THEN Nesting(s, i) + 1
                                ELSE IF IsOp(s[i], OpEndLoop) THEN Nesting(s, i) - 1
                                ELSE Nesting(s, i)
<1>1. Nesting(s, i) = Cardinality(Steps(OpLoop, s, i)) - Cardinality(Steps(OpEndLoop, s, i))
  BY DEF Nesting, Steps
<1>2. Nesting(s, i + 1)
        = Cardinality(Steps(OpLoop, s, i + 1)) - Cardinality(Steps(OpEndLoop, s, i + 1))
  BY DEF Nesting, Steps
<1>3. ~(IsOp(s[i], OpLoop) /\ IsOp(s[i], OpEndLoop))
  BY DEF IsOp, OpLoop, OpEndLoop
<1> QED BY <1>1, <1>2, <1>3, StepsGrow

\* No loop is open at the first word.
LEMMA NestingBegins == ASSUME NEW s PROVE Nesting(s, 1) = 0
<1>1. Nesting(s, 1) = Cardinality(Steps(OpLoop, s, 1)) - Cardinality(Steps(OpEndLoop, s, 1))
  BY DEF Nesting, Steps
<1>2. Steps(OpLoop, s, 1) = {} /\ Steps(OpEndLoop, s, 1) = {}
  BY DEF Steps
<1> QED BY <1>1, <1>2, FS_EmptySet

-------------------------------------------------------------------------------
\* The words of a song.
WordSet == [period : 0 .. TimerSize - 1, duration : 0 .. TimerSize - 1]
LoopSet == [start : Nat, count : 0 .. OpUnit - 1]

\* j is the loop op of the loop that is open at i.
Opens(s, j, i) ==
  /\ j \in 1 .. i - 1 /\ IsOp(s[j], OpLoop)
  /\ \A k \in j + 1 .. i : Nesting(s, k) > Nesting(s, j)

\* The program is at a word of the song, with its duration and period loaded, and
\* it looks at the op only of one.
AtWord ==
  /\ songPC \in {"check_dur", "check_per", "check_op", "shut_down", "finish"}
  /\ song \in Songs /\ note \in DOMAIN song
  /\ duration = song[note].duration /\ period = song[note].period
  /\ songPC \in {"check_op", "shut_down", "finish"} => duration = 0

\* The stack holds the loops that are open, the innermost first.
StackOpens ==
  /\ loops \in Seq(LoopSet)
  /\ Len(loops) = Nesting(song, note)
  /\ \A i \in 1 .. Len(loops) :
       Opens(song, loops[i].start, note) /\ Nesting(song, loops[i].start) = Len(loops) - i

\* The timers and the pin.
TimersOK ==
  /\ tmr1 \in 0 .. TimerSize - 1 /\ tmr2 \in 0 .. TimerSize - 1 /\ prescaler \in 0 .. Ratio - 1
  /\ pin \in {0, 1} /\ driven \in BOOLEAN /\ lag \in BOOLEAN

SongInv == AtWord /\ StackOpens /\ TimersOK

\* What is assumed of a song, word by word.
LEMMA SongWords ==
  ASSUME NEW s \in Songs
  PROVE  /\ s \in Seq(WordSet) /\ Len(s) \in Nat \ {0} /\ DOMAIN s = 1 .. Len(s)
         /\ IsOp(s[Len(s)], OpStop)
         /\ \A i \in 1 .. Len(s) : /\ s[i] \in WordSet
                                   /\ s[i].duration \in 0 .. TimerSize - 1
                                   /\ s[i].period \in 0 .. TimerSize - 1
                                   /\ IsOp(s[i], OpEndLoop) => Nesting(s, i) > 0
<1>1. s \in Seq(WordSet) /\ s # <<>>
  BY SongsAssumption DEF SongsAssumption, WordSet
<1>2. Len(s) \in Nat \ {0} /\ DOMAIN s = 1 .. Len(s)
  BY <1>1
<1>3. \A i \in 1 .. Len(s) : s[i] \in WordSet
  BY <1>1
<1> QED BY <1>1, <1>2, <1>3, SongsAssumption DEF SongsAssumption, WordSet

\* After any word but the last there is another.
LEMMA NextWord ==
  ASSUME NEW s \in Songs, NEW n \in DOMAIN s, ~IsOp(s[n], OpStop)
  PROVE  n + 1 \in DOMAIN s
BY SongWords

\* A loop that is open at a word is open at the next, unless the word ends it.
LEMMA OpensOn ==
  ASSUME NEW s, NEW i \in Nat, NEW j, Opens(s, j, i), Nesting(s, i + 1) > Nesting(s, j)
  PROVE  Opens(s, j, i + 1)
BY DEF Opens

\* The songs are walked through as they are written: a loop op is opened ...
LEMMA MarkLoopKeeps ==
  ASSUME SongInv, CheckOp, MarkLoop
  PROVE  AtWord' /\ StackOpens'
<1> USE DEF SongInv, AtWord, StackOpens
<1>1. /\ song' = song /\ song \in Songs /\ note \in Nat \ {0} /\ note \in DOMAIN song
      /\ IsOp(song[note], OpLoop) /\ duration = 0
  BY SongWords DEF CheckOp, MarkLoop, IsOp, opCode
<1>2. note' = note + 1 /\ note + 1 \in DOMAIN song
  BY <1>1, NextWord DEF MarkLoop, Load, IsOp, OpLoop, OpStop
<1>3. AtWord'
  BY <1>1, <1>2 DEF MarkLoop, Load
<1>4. period \in Nat /\ immediate \in 0 .. OpUnit - 1
  BY <1>1, SongWords, SongAssumption DEF SongAssumption, immediate, TimerSize
<1> DEFINE new == [start |-> note, count |-> immediate]
<1>5. new \in LoopSet
  BY <1>1, <1>4 DEF LoopSet
<1>6. /\ loops' = <<new>> \o loops /\ loops' \in Seq(LoopSet) /\ Len(loops') = Len(loops) + 1
      /\ loops'[1] = new /\ \A i \in 2 .. Len(loops') : loops'[i] = loops[i - 1]
  BY <1>5 DEF MarkLoop
<1>7. Nesting(song, note + 1) = Nesting(song, note) + 1 /\ Nesting(song, note) \in Int
  BY <1>1, NestingGrows
<1>8. \A i \in 1 .. Len(loops') :
        Opens(song, loops'[i].start, note + 1) /\ Nesting(song, loops'[i].start) = Len(loops') - i
  <2> SUFFICES ASSUME NEW i \in 1 .. Len(loops')
               PROVE  /\ Opens(song, loops'[i].start, note + 1)
                      /\ Nesting(song, loops'[i].start) = Len(loops') - i
    OBVIOUS
  <2>1. CASE i = 1
    <3>1. loops'[i].start = note
      BY <2>1, <1>6
    <3> QED BY <3>1, <2>1, <1>1, <1>6, <1>7 DEF Opens
  <2>2. CASE i # 1
    <3>1. i - 1 \in 1 .. Len(loops) /\ loops'[i] = loops[i - 1]
      BY <2>2, <1>6
    <3>2. /\ Opens(song, loops[i - 1].start, note)
          /\ Nesting(song, loops[i - 1].start) = Len(loops) - (i - 1)
      BY <3>1
    <3> QED BY <3>1, <3>2, <1>1, <1>6, <1>7, OpensOn
  <2> QED BY <2>1, <2>2
<1> QED BY <1>1, <1>2, <1>3, <1>6, <1>7, <1>8

\* ... an op that is unknown, or a note that is over, opens and ends none ...
LEMMA OneWordOnKeeps ==
  ASSUME SongInv, ~IsOp(song[note], OpLoop), ~IsOp(song[note], OpEndLoop),
         ~IsOp(song[note], OpStop), song' = song, Load(note + 1), loops' = loops,
         songPC' \in {"check_dur", "check_per"}
  PROVE  AtWord' /\ StackOpens'
<1> USE DEF SongInv, AtWord, StackOpens
<1>1. song \in Songs /\ note \in Nat \ {0} /\ note \in DOMAIN song
  BY SongWords
<1>2. note' = note + 1 /\ note + 1 \in DOMAIN song
  BY <1>1, NextWord DEF Load
<1>3. AtWord'
  BY <1>1, <1>2 DEF Load
<1>4. Nesting(song, note + 1) = Nesting(song, note) /\ Nesting(song, note) \in Int
  BY <1>1, NestingGrows
<1>5. Len(loops) \in Nat
  OBVIOUS
<1>6. \A i \in 1 .. Len(loops) : Opens(song, loops[i].start, note + 1)
  BY <1>1, <1>4, <1>5, OpensOn
<1> QED BY <1>1, <1>2, <1>3, <1>4, <1>6

\* ... and an end_loop goes back to the innermost one, or ends it.
LEMMA LoopBackKeeps ==
  ASSUME SongInv, CheckOp, LoopBack
  PROVE  AtWord' /\ StackOpens'
<1> USE DEF SongInv, AtWord, StackOpens
<1>1. /\ song' = song /\ song \in Songs /\ note \in Nat \ {0} /\ note \in DOMAIN song
      /\ IsOp(song[note], OpEndLoop) /\ duration = 0
  BY SongWords DEF CheckOp, LoopBack, IsOp, opCode
<1>2. Len(loops) \in Nat \ {0} /\ Nesting(song, note) = Len(loops)
  BY <1>1, SongWords
<1>3. Head(loops) = loops[1] /\ loops[1] \in LoopSet
  BY <1>2
<1> DEFINE start == loops[1].start
           count == loops[1].count
<1>4. start \in Nat /\ count \in 0 .. OpUnit - 1
  BY <1>3 DEF LoopSet
<1>5. Opens(song, start, note) /\ Nesting(song, start) = Len(loops) - 1
  BY <1>2
<1>6. start \in 1 .. note - 1 /\ IsOp(song[start], OpLoop)
  BY <1>5 DEF Opens
<1>7. CASE count = 1
  <2>1. loops' = Tail(loops) /\ Load(note + 1) /\ songPC' = "check_dur"
    BY <1>3, <1>7 DEF LoopBack
  <2>2. note' = note + 1 /\ note + 1 \in DOMAIN song
    BY <1>1, <2>1, NextWord DEF Load, IsOp, OpStop, OpEndLoop
  <2>3. AtWord'
    BY <1>1, <2>1, <2>2 DEF Load
  <2>4. /\ loops' \in Seq(LoopSet) /\ Len(loops') = Len(loops) - 1
        /\ \A i \in 1 .. Len(loops') : loops'[i] = loops[i + 1]
    BY <1>2, <2>1
  <2>5. Nesting(song, note + 1) = Nesting(song, note) - 1
    <3>1. ~IsOp(song[note], OpLoop)
      BY <1>1 DEF IsOp, OpEndLoop, OpLoop
    <3>2. note \in Nat \ {0}
      BY <1>1
    <3> QED BY <1>1, <3>1, <3>2, NestingGrows
  <2>6. ASSUME NEW i \in 1 .. Len(loops')
        PROVE  /\ Opens(song, loops'[i].start, note + 1)
               /\ Nesting(song, loops'[i].start) = Len(loops') - i
    <3>1. i + 1 \in 1 .. Len(loops) /\ loops'[i] = loops[i + 1]
      BY <1>2, <2>4
    <3>2. /\ Opens(song, loops[i + 1].start, note)
          /\ Nesting(song, loops[i + 1].start) = Len(loops) - (i + 1)
      BY <3>1
    <3> QED BY <1>1, <1>2, <2>4, <2>5, <3>1, <3>2, OpensOn
  <2> QED BY <1>1, <1>2, <2>2, <2>3, <2>4, <2>5, <2>6
<1>8. CASE count # 1
  <2>1. /\ loops' = IF count = 0 THEN loops ELSE [loops EXCEPT ![1].count = count - 1]
        /\ Load(start + 1) /\ songPC' = "check_dur"
    BY <1>3, <1>8 DEF LoopBack
  <2>2. note' = start + 1 /\ start + 1 \in DOMAIN song
    BY <1>1, <1>6, <2>1, SongWords DEF Load
  <2>3. AtWord'
    BY <1>1, <2>1, <2>2 DEF Load
  <2>4. /\ loops' \in Seq(LoopSet) /\ Len(loops') = Len(loops)
        /\ \A i \in 1 .. Len(loops') : loops'[i].start = loops[i].start
    <3>1. CASE count = 0
      BY <2>1, <3>1
    <3>2. CASE count # 0
      <4>1. loops' = [loops EXCEPT ![1] = [loops[1] EXCEPT !.count = count - 1]]
        BY <2>1, <3>2
      <4>2. [loops[1] EXCEPT !.count = count - 1] \in LoopSet
        BY <1>3, <1>4, <3>2, SongAssumption DEF LoopSet, SongAssumption
      <4>3. [loops[1] EXCEPT !.count = count - 1].start = start
        BY <1>3 DEF LoopSet
      <4> QED BY <4>1, <4>2, <4>3, <1>2
    <3> QED BY <3>1, <3>2
  <2>5. Nesting(song, start + 1) = Nesting(song, start) + 1 /\ Nesting(song, start) \in Int
    <3>1. start \in Nat \ {0}
      BY <1>4, <1>6
    <3>2. IsOp(song[start], OpLoop)
      BY <1>6
    <3> HIDE DEF start
    <3> QED BY <3>1, <3>2, NestingGrows
  <2>6. ASSUME NEW i \in 1 .. Len(loops)
        PROVE  Opens(song, loops[i].start, start + 1)
    <3>1. Opens(song, loops[i].start, note) /\ Nesting(song, loops[i].start) = Len(loops) - i
      OBVIOUS
    <3>2. loops[i].start <= start
      <4>1. loops[i].start \in 1 .. note - 1
        BY <3>1 DEF Opens
      <4>2. CASE loops[i].start > start
        <5>1. loops[i].start \in start + 1 .. note
          BY <1>1, <1>4, <4>1, <4>2
        <5>2. Nesting(song, loops[i].start) > Nesting(song, start)
          BY <1>5, <5>1 DEF Opens
        <5>3. /\ Nesting(song, loops[i].start) = Len(loops) - i
              /\ Nesting(song, start) = Len(loops) - 1
          BY <3>1, <1>5
        <5> QED BY <1>2, <5>2, <5>3
      <4>3. loops[i].start \in Int /\ start \in Int
        BY <1>4, <4>1
      <4> HIDE DEF start
      <4> QED BY <4>2, <4>3
    <3>3. /\ loops[i].start \in 1 .. note - 1 /\ IsOp(song[loops[i].start], OpLoop)
          /\ \A k \in loops[i].start + 1 .. note : Nesting(song, k) > Nesting(song, loops[i].start)
      BY <3>1 DEF Opens
    <3>4. loops[i].start \in 1 .. start /\ start + 1 \in 1 .. note
      BY <1>1, <1>4, <1>6, <3>2, <3>3
    <3>5. \A k \in loops[i].start + 1 .. start + 1 : k \in loops[i].start + 1 .. note
      BY <3>4, <1>1
    <3>6. loops[i].start \in 1 .. (start + 1) - 1
      BY <3>4, <1>4
    <3> HIDE DEF start
    <3> QED BY <3>3, <3>5, <3>6 DEF Opens
  <2> QED BY <1>1, <1>2, <1>5, <2>2, <2>3, <2>4, <2>5, <2>6
<1> QED BY <1>7, <1>8

\* The program is always at a word of its song, with the loops that are open there.
LEMMA SongStep == SongInv /\ [SongNext]_songVars => SongInv'
<1> SUFFICES ASSUME SongInv, [SongNext]_songVars PROVE SongInv'
  OBVIOUS
<1> USE DEF SongInv, AtWord
<1>1. CASE CheckDur
  <2>1. TimersOK'
    <3>1. TimerSize \in Nat \ {0} /\ Ratio \in Nat \ {0}
      BY SongAssumption DEF SongAssumption, TimerSize
    <3>2. lag' \in BOOLEAN /\ driven' \in BOOLEAN /\ pin' \in {0, 1}
      BY <1>1 DEF CheckDur, TimersOK
    <3>3. tmr1' \in {0, tmr1} /\ prescaler' \in {0, prescaler} /\ tmr2' = tmr2
      BY <1>1 DEF CheckDur
    <3> QED BY <3>1, <3>2, <3>3 DEF TimersOK
  <2>2. CASE duration # 0 /\ tmr1 >= duration
    <3>1. ~IsOp(song[note], OpLoop) /\ ~IsOp(song[note], OpEndLoop) /\ ~IsOp(song[note], OpStop)
      BY <2>2 DEF IsOp
    <3>2. song' = song /\ Load(note + 1) /\ loops' = loops /\ songPC' = "check_per"
      <4>1. tmr1 \in Int /\ duration \in Int
        BY SongWords DEF TimersOK
      <4> QED BY <1>1, <2>2, <4>1 DEF CheckDur
    <3> QED BY <2>1, <3>1, <3>2, OneWordOnKeeps
  <2>3. CASE ~(duration # 0 /\ tmr1 >= duration)
    <3>1. /\ UNCHANGED <<song, note, duration, period, loops>>
          /\ songPC' \in {"check_per", "check_op"} /\ (songPC' = "check_op" => duration = 0)
      BY <1>1, <2>3 DEF CheckDur
    <3> QED BY <2>1, <3>1 DEF StackOpens
  <2> QED BY <2>2, <2>3
<1>2. CASE CheckPer
  <2>1. TimersOK'
    <3>1. TimerSize \in Nat \ {0} /\ Ratio \in Nat \ {0}
      BY SongAssumption DEF SongAssumption, TimerSize
    <3>2. 1 - pin \in {0, 1}
      BY DEF TimersOK
    <3>3. lag' \in BOOLEAN /\ driven' \in BOOLEAN /\ pin' \in {0, 1}
      BY <1>2, <3>2 DEF CheckPer, TimersOK
    <3>4. tmr2' \in {0, tmr2} /\ tmr1' = tmr1 /\ prescaler' = prescaler
      BY <1>2 DEF CheckPer
    <3> QED BY <3>1, <3>3, <3>4 DEF TimersOK
  <2>2. UNCHANGED <<song, note, duration, period, loops>> /\ songPC' = "check_dur"
    BY <1>2 DEF CheckPer
  <2> QED BY <2>1, <2>2 DEF StackOpens
<1>3. CASE CheckOp
  <2>1. TimersOK'
    BY <1>3 DEF CheckOp, TimersOK
  <2>2. CASE MarkLoop
    BY <1>3, <2>1, <2>2, MarkLoopKeeps
  <2>3. CASE LoopBack
    BY <1>3, <2>1, <2>3, LoopBackKeeps
  <2>4. CASE StopPlay
    BY <1>3, <2>1, <2>4 DEF CheckOp, StopPlay, StackOpens
  <2>5. CASE FinishOp
    <3>1. ~IsOp(song[note], OpLoop) /\ ~IsOp(song[note], OpEndLoop) /\ ~IsOp(song[note], OpStop)
      BY <2>5 DEF FinishOp, IsOp, opCode
    <3> QED BY <1>3, <2>1, <2>5, <3>1, OneWordOnKeeps DEF CheckOp, FinishOp
  <2> QED BY <1>3, <2>2, <2>3, <2>4, <2>5 DEF CheckOp
<1>4. CASE ShutDown
  BY <1>4 DEF ShutDown, StackOpens, TimersOK
<1>5. CASE Tick
  <2>1. TimersOK'
    <3>1. TimerSize \in Nat \ {0} /\ Ratio \in Nat \ {0}
      BY SongAssumption DEF SongAssumption, TimerSize
    <3> QED BY <1>5, <3>1 DEF Tick, TimersOK
  <2> QED BY <1>5, <2>1 DEF Tick, StackOpens
<1>6. CASE Finish \/ UNCHANGED songVars
  BY <1>6 DEF Finish, songVars, StackOpens, TimersOK
<1> QED BY <1>1, <1>2, <1>3, <1>4, <1>5, <1>6 DEF SongNext, SongProgram

\* The first word is loaded and no loop is open.
LEMMA SongInitially == SongInit => SongInv
<1> SUFFICES ASSUME SongInit PROVE SongInv
  OBVIOUS
<1>1. 1 \in DOMAIN song /\ song \in Songs
  BY SongWords DEF SongInit
<1>2. AtWord
  BY <1>1 DEF SongInit, AtWord
<1>3. StackOpens
  BY NestingBegins DEF SongInit, StackOpens
<1>4. TimersOK
  <2>1. TimerSize \in Nat \ {0} /\ Ratio \in Nat \ {0}
    BY SongAssumption DEF SongAssumption, TimerSize
  <2>2. lag \in BOOLEAN /\ driven \in BOOLEAN /\ pin \in {0, 1}
    BY DEF SongInit
  <2> QED BY <2>1, <2>2 DEF SongInit, TimersOK
<1> QED BY <1>2, <1>3, <1>4 DEF SongInv

\* At every word of every song, the registers are loaded from it and the stack holds the
\* loops that are open there.
THEOREM SongInvariant == SongSpec => []SongInv
BY SongInitially, SongStep, PTL DEF SongSpec

\* Every register, timer and stack entry stays in its range, for all songs.
THEOREM SongTypeCorrect == SongSpec => []SongTypeOK
<1>1. SongInv => SongTypeOK
  <2> SUFFICES ASSUME SongInv PROVE SongTypeOK
    OBVIOUS
  <2> USE DEF SongInv, AtWord, StackOpens
  <2>1. note \in Nat
    BY SongWords
  <2>2. ASSUME NEW i \in DOMAIN loops
        PROVE  loops[i].start \in 1 .. note /\ loops[i].count \in 0 .. OpUnit - 1
    <3>1. i \in 1 .. Len(loops) /\ loops[i] \in LoopSet
      OBVIOUS
    <3>2. loops[i].count \in 0 .. OpUnit - 1 /\ loops[i].start \in Nat
      BY <3>1 DEF LoopSet
    <3>3. loops[i].start \in 1 .. note - 1
      BY <3>1 DEF Opens
    <3> QED BY <2>1, <3>2, <3>3
  <2> QED BY <2>2 DEF TimersOK, SongTypeOK
<1> QED BY <1>1, SongInvariant, PTL

\* The stack is the nesting of the loops, however deep and often they are played.
THEOREM StackIsRight == SongSpec => []StackIsNesting
<1>1. SongInv => StackIsNesting
  BY DEF SongInv, AtWord, StackOpens, StackIsNesting, Opens
<1> QED BY <1>1, SongInvariant, PTL

-------------------------------------------------------------------------------
\* The loop op j is the one that the end_loop at i belongs to.
Belongs(s, j, i) == IsOp(s[i], OpEndLoop) /\ Opens(s, j, i) /\ Nesting(s, j) = Nesting(s, i) - 1

\* ops bounds the ops that the program comes through between a note and a word of s.
BoundsOps(s, ops) ==
  /\ ops \in [DOMAIN s -> Nat]
  /\ \A i \in DOMAIN s :
       /\ s[i].duration # 0 => 2 * ops[i] + 1 <= s[i].duration * Ratio
       /\ s[i].duration = 0 /\ ~IsOp(s[i], OpStop) => ops[i + 1] > ops[i]
       /\ \A j \in DOMAIN s : Belongs(s, j, i) => ops[j + 1] > ops[i]

\* The ops before a note, each of them two passes, take no longer than the note: the
\* song has no long run of ops, and no loop without a note or a rest.
FewOps(s) == \E ops : BoundsOps(s, ops)
OpsOf(s) == CHOOSE ops : BoundsOps(s, ops)

late == IF lag THEN 1 ELSE 0

\* The counts of the ticks.
Counts ==
  /\ elapsed \in Nat
  /\ halfWave \in 0 .. TimerSize
  /\ sounding \in 0 .. TimerSize

\* elapsed is what the duration timer shows, as long as that has not started again.
TimerShows == elapsed = tmr1 * Ratio + prescaler \/ elapsed >= TimerSize * Ratio

\* A note is looked at often enough to end on its tick or on the next one; a word without
\* a duration is an op.
OnTime ==
  /\ duration # 0 => /\ songPC = "check_dur" => elapsed <= duration * Ratio + late
                     /\ songPC = "check_per" => elapsed + 1 <= duration * Ratio + late
  /\ duration = 0 => /\ songPC = "check_per" => elapsed <= late
                     /\ songPC = "check_dur" => elapsed <= 2 * OpsOf(song)[note] + 1 + late
                     /\ songPC = "check_op" => elapsed <= 2 * OpsOf(song)[note] + 2 + late

\* The period timer started no earlier than the half wave.
WaveShows == tmr2 <= halfWave

\* The note sounds since it began or since the period timer was over; when that starts
\* again from 0, the period is soon over or too long for the timer.
SoundsOn ==
  duration # 0 /\ period # 0 =>
    \/ period + 3 >= TimerSize
    \/ /\ songPC = "check_dur"
       /\ sounding <= late \/ (sounding <= tmr2 + 2 /\ tmr2 + 1 <= period + late)
    \/ /\ songPC = "check_per"
       /\ sounding <= 1 + late \/ (sounding <= tmr2 + 2 /\ tmr2 <= period + late)

TimeInv == Counts /\ TimerShows /\ OnTime /\ WaveShows /\ SoundsOn

\* The sizes of the two timers are numbers.
LEMMA Sizes ==
  /\ TimerSize \in Nat \ {0} /\ TimerSize >= 16
  /\ Ratio \in Nat \ {0, 1} /\ TimerSize * Ratio \in Nat
<1>1. TimerSize \in Nat \ {0} /\ TimerSize >= 16 /\ Ratio \in Nat \ {0, 1}
  BY SongAssumption DEF SongAssumption, TimerSize
<1> QED BY <1>1

\* How the ticks of the two timers compare.
LEMMA Multiples ==
  ASSUME NEW a \in Nat, NEW b \in Nat, NEW r \in Nat
  PROVE  /\ a * r \in Nat /\ b * r \in Nat
         /\ a < b => a * r + r <= b * r
         /\ a <= b => a * r <= b * r
         /\ (a + 1) * r = a * r + r
<1>1. a * r \in Nat /\ b * r \in Nat /\ (a + 1) * r = a * r + r
  OBVIOUS
<1>2. ASSUME a <= b PROVE a * r <= b * r
  <2>1. PICK d \in Nat : b = a + d
    <3>1. b - a \in Nat /\ b = a + (b - a)
      BY <1>2
    <3> QED BY <3>1
  <2>2. b * r = a * r + d * r /\ d * r \in Nat
    BY <2>1
  <2> QED BY <1>1, <2>2
<1>3. ASSUME a < b PROVE a * r + r <= b * r
  <2>1. PICK d \in Nat : b = a + 1 + d
    <3>1. b - a - 1 \in Nat /\ b = a + 1 + (b - a - 1)
      BY <1>3
    <3> QED BY <3>1
  <2>2. b * r = a * r + r + d * r /\ d * r \in Nat
    BY <2>1
  <2> QED BY <1>1, <2>2
<1> QED BY <1>1, <1>2, <1>3

\* The registers are numbers.
LEMMA Registers ==
  ASSUME SongInv
  PROVE  /\ duration \in 0 .. TimerSize - 1 /\ period \in 0 .. TimerSize - 1
         /\ tmr1 \in 0 .. TimerSize - 1 /\ tmr2 \in 0 .. TimerSize - 1
         /\ prescaler \in 0 .. Ratio - 1 /\ duration * Ratio \in Nat /\ tmr1 * Ratio \in Nat
         /\ note \in Nat \ {0} /\ late \in {0, 1}
<1>1. duration \in 0 .. TimerSize - 1 /\ period \in 0 .. TimerSize - 1 /\ note \in Nat \ {0}
  BY SongWords DEF SongInv, AtWord
<1>2. tmr1 \in 0 .. TimerSize - 1 /\ tmr2 \in 0 .. TimerSize - 1 /\ prescaler \in 0 .. Ratio - 1
  BY DEF SongInv, TimersOK
<1>3. duration * Ratio \in Nat /\ tmr1 * Ratio \in Nat
  BY <1>1, <1>2, Sizes, Multiples
<1> QED BY <1>1, <1>2, <1>3 DEF late

\* The counts of ticks stay numbers.
LEMMA CountsKept == SongInv /\ Counts /\ [SongNext]_songVars => Counts'
<1> SUFFICES ASSUME SongInv, Counts, [SongNext]_songVars PROVE Counts'
  OBVIOUS
<1>1. /\ elapsed' \in {elapsed, elapsed + 1, 0}
      /\ halfWave' \in {halfWave, 0, Counted(halfWave, TimerSize)}
      /\ sounding' \in {sounding, 0, Counted(sounding, TimerSize)}
  BY DEF SongNext, SongProgram, CheckDur, CheckPer, CheckOp, ShutDown, Tick, Finish, songVars,
         Counted
<1>2. /\ Counted(halfWave, TimerSize) \in 0 .. TimerSize
      /\ Counted(sounding, TimerSize) \in 0 .. TimerSize
  BY Sizes DEF Counts, Counted
<1> QED BY <1>1, <1>2, Sizes DEF Counts

\* The duration timer and its prescaler show the ticks since the note before was over.
LEMMA TimerShowsKept ==
  SongInv /\ Counts /\ TimerShows /\ [SongNext]_songVars => TimerShows'
<1> SUFFICES ASSUME SongInv, Counts, TimerShows, [SongNext]_songVars PROVE TimerShows'
  OBVIOUS
<1>1. CASE Tick
  <2>1. /\ prescaler' = (prescaler + 1) % Ratio
        /\ tmr1' = IF prescaler' = 0 THEN (tmr1 + 1) % TimerSize ELSE tmr1
        /\ elapsed' = IF elapsed < Ratio * TimerSize THEN elapsed + 1 ELSE elapsed
    BY <1>1 DEF Tick, Counted
  <2>2. Ratio * TimerSize = TimerSize * Ratio
    BY Sizes
  <2>3. CASE elapsed >= TimerSize * Ratio
    BY <2>1, <2>2, <2>3, Sizes DEF TimerShows, Counts
  <2>4. CASE ~(elapsed >= TimerSize * Ratio)
    <3>1. elapsed = tmr1 * Ratio + prescaler /\ elapsed' = elapsed + 1
      BY <2>1, <2>2, <2>4, Sizes DEF TimerShows, Counts
    <3>2. CASE prescaler + 1 < Ratio
      <4>1. prescaler' = prescaler + 1 /\ tmr1' = tmr1
        BY <2>1, <3>2, Registers, Sizes
      <4> QED BY <3>1, <4>1, Registers DEF TimerShows
    <3>3. CASE prescaler + 1 = Ratio
      <4>1. prescaler' = 0 /\ tmr1' = (tmr1 + 1) % TimerSize
        BY <2>1, <3>3, Registers, Sizes
      <4>2. elapsed' = (tmr1 + 1) * Ratio
        BY <3>1, <3>3, Registers, Sizes, Multiples
      <4>3. CASE tmr1 + 1 = TimerSize
        BY <4>2, <4>3, Sizes DEF TimerShows
      <4>4. CASE tmr1 + 1 < TimerSize
        <5>1. tmr1' = tmr1 + 1
          BY <4>1, <4>4, Registers, Sizes
        <5> QED BY <4>1, <4>2, <5>1, Registers, Sizes DEF TimerShows
      <4> QED BY <4>3, <4>4, Registers, Sizes
    <3> QED BY <3>2, <3>3, Registers, Sizes
  <2> QED BY <2>3, <2>4
<1>2. CASE CheckDur
  <2>1. \/ UNCHANGED <<elapsed, tmr1, prescaler>>
        \/ elapsed' = 0 /\ tmr1' = 0 /\ prescaler' = 0
    BY <1>2 DEF CheckDur
  <2> QED BY <2>1, Sizes DEF TimerShows
<1>3. CASE ~Tick /\ ~CheckDur
  <2>1. UNCHANGED <<elapsed, tmr1, prescaler>>
    BY <1>3 DEF SongNext, SongProgram, CheckPer, CheckOp, ShutDown, Finish, songVars
  <2> QED BY <2>1 DEF TimerShows
<1> QED BY <1>1, <1>2, <1>3

\* An op leads to a word that has one more op before it.
LEMMA OpLeadsOn ==
  ASSUME SongInv, CheckOp, NEW ops, BoundsOps(song, ops), songPC' = "check_dur"
  PROVE  ops[note'] > ops[note] /\ ops[note] \in Nat /\ ops[note'] \in Nat
<1> USE DEF SongInv, AtWord, StackOpens
<1>1. /\ song \in Songs /\ note \in Nat \ {0} /\ note \in DOMAIN song
      /\ song[note].duration = 0 /\ ops[note] \in Nat
  BY SongWords DEF CheckOp, BoundsOps
<1>2. /\ ~IsOp(song[note], OpStop) => ops[note + 1] > ops[note]
      /\ \A j \in DOMAIN song : Belongs(song, j, note) => ops[j + 1] > ops[note]
  BY <1>1 DEF BoundsOps
<1>3. CASE MarkLoop \/ FinishOp \/ (LoopBack /\ Head(loops).count = 1)
  <2>1. note' = note + 1
    BY <1>3 DEF MarkLoop, FinishOp, LoopBack, Load
  <2>2. ~IsOp(song[note], OpStop)
    BY <1>3 DEF MarkLoop, FinishOp, LoopBack, opCode, IsOp, OpStop, OpLoop, OpEndLoop
  <2>3. note + 1 \in DOMAIN song
    BY <1>1, <2>2, NextWord
  <2> QED BY <1>1, <1>2, <2>1, <2>2, <2>3 DEF BoundsOps
<1>4. CASE LoopBack /\ Head(loops).count # 1
  <2>1. IsOp(song[note], OpEndLoop)
    BY <1>1, <1>4 DEF LoopBack, opCode, IsOp
  <2>2. Len(loops) \in Nat \ {0}
    BY <1>1, <2>1, SongWords
  <2>3. Head(loops) = loops[1]
    BY <2>2
  <2> DEFINE start == loops[1].start
  <2>4. note' = start + 1
    BY <1>4, <2>3 DEF LoopBack, Load
  <2>5. Opens(song, start, note) /\ Nesting(song, start) = Len(loops) - 1
    BY <2>2
  <2>6. start \in 1 .. note - 1
    BY <2>5 DEF Opens
  <2>7. start \in DOMAIN song /\ start + 1 \in DOMAIN song
    BY <1>1, <2>6, SongWords
  <2>8. Belongs(song, start, note)
    BY <2>1, <2>5 DEF Belongs
  <2> QED BY <1>1, <1>2, <2>4, <2>7, <2>8 DEF BoundsOps
<1>5. ~StopPlay
  BY DEF StopPlay
<1> QED BY <1>3, <1>4, <1>5 DEF CheckOp

\* The ops between two notes are over in time, and a note is looked at in each tick or the
\* next.
LEMMA OnTimeKept ==
  ASSUME \A s \in Songs : FewOps(s), SongInv, Counts, TimerShows, OnTime, [SongNext]_songVars
  PROVE  OnTime'
<1> DEFINE ops == OpsOf(song)
<1>1. BoundsOps(song, ops) /\ song \in Songs /\ note \in DOMAIN song
  BY DEF SongInv, AtWord, FewOps, OpsOf
<1>2. ops[note] \in Nat
  BY <1>1 DEF BoundsOps
<1>3. song' = song
  BY DEF SongNext, SongProgram, CheckDur, CheckPer, CheckOp, ShutDown, Tick, Finish, songVars
<1>4. OpsOf(song)' = ops
  BY <1>3 DEF OpsOf
<1>5. elapsed \in Nat /\ late \in {0, 1}
  BY DEF Counts, late
<1>6. CASE Tick
  <2>1. late = 0 /\ late' = 1 /\ elapsed' \in {elapsed, elapsed + 1}
    BY <1>6 DEF Tick, late, Counted
  <2>2. UNCHANGED <<songPC, duration, note, song>>
    BY <1>6 DEF Tick
  <2> HIDE DEF ops
  <2>3. duration' * Ratio = duration * Ratio /\ duration * Ratio \in Nat
    BY <2>2, Registers
  <2> QED BY <1>2, <1>4, <1>5, <2>1, <2>2, <2>3 DEF OnTime
<1>7. CASE CheckDur
  <2>1. late' = 0 /\ songPC = "check_dur"
    BY <1>7 DEF CheckDur, late
  <2>2. CASE duration = 0
    <3>1. UNCHANGED <<duration, note, elapsed>> /\ songPC' = "check_op"
      BY <1>7, <2>2 DEF CheckDur
    <3>2. elapsed <= 2 * ops[note] + 1 + late
      BY <2>1, <2>2 DEF OnTime
    <3>3. OpsOf(song)'[note'] = ops[note]
      BY <1>4, <3>1
    <3> HIDE DEF ops
    <3> QED BY <1>2, <1>5, <2>1, <2>2, <3>1, <3>2, <3>3 DEF OnTime
  <2>3. CASE duration # 0 /\ tmr1 < duration
    <3>1. UNCHANGED <<duration, note, elapsed>> /\ songPC' = "check_per"
      <4>1. ~(tmr1 >= duration)
        BY <2>3, Registers
      <4> QED BY <1>7, <2>3, <4>1 DEF CheckDur
    <3>2. tmr1 * Ratio + Ratio <= duration * Ratio
      BY <2>3, Registers, Sizes, Multiples
    <3>3. duration * Ratio + Ratio <= TimerSize * Ratio
      BY Registers, Sizes, Multiples
    <3>4. elapsed <= duration * Ratio + late
      BY <2>1, <2>3 DEF OnTime
    <3>5. elapsed + 1 <= duration * Ratio
      BY <1>5, <3>2, <3>3, <3>4, Registers, Sizes DEF TimerShows
    <3> QED BY <2>1, <2>3, <3>1, <3>5, Registers DEF OnTime
  <2>4. CASE duration # 0 /\ tmr1 >= duration
    <3>1. elapsed' = 0 /\ songPC' = "check_per"
      <4>1. ~(tmr1 < duration)
        BY <2>4, Registers
      <4> QED BY <1>7, <2>4, <4>1 DEF CheckDur
    <3>2. SongInv'
      BY SongStep
    <3>3. duration' \in Nat
      BY <3>2, SongWords, <1>3, Sizes DEF SongInv, AtWord
    <3>4. PICK d \in Nat : d = duration'
      BY <3>3
    <3>5. 0 * Ratio = 0 /\ d * Ratio \in Nat /\ (0 < d => 0 * Ratio + Ratio <= d * Ratio)
      BY Sizes, Multiples
    <3>6. duration' * Ratio = d * Ratio
      BY <3>4
    <3>7. duration' # 0 => elapsed' + 1 <= duration' * Ratio + late'
      <4>1. d # 0 => 0 + 1 <= d * Ratio + 0
        BY <3>5, Sizes
      <4> QED BY <2>1, <3>1, <3>4, <3>6, <4>1
    <3> QED BY <2>1, <3>1, <3>7 DEF OnTime
  <2> QED BY <2>2, <2>3, <2>4, Registers
<1>8. CASE CheckPer
  <2>1. late' = 0 /\ songPC = "check_per" /\ songPC' = "check_dur"
        /\ UNCHANGED <<note, duration, elapsed>>
    BY <1>8 DEF CheckPer, late
  <2>2. OpsOf(song)'[note'] = ops[note] /\ duration' * Ratio = duration * Ratio
    BY <1>4, <2>1
  <2> HIDE DEF ops
  <2> QED BY <1>2, <1>5, <2>1, <2>2, Registers DEF OnTime
<1>9. CASE CheckOp
  <2>1. late' = 0 /\ songPC = "check_op" /\ duration = 0 /\ elapsed' = elapsed
    BY <1>9 DEF CheckOp, late, SongInv, AtWord
  <2>2. elapsed <= 2 * ops[note] + 2 + late
    BY <2>1 DEF OnTime
  <2>3. CASE songPC' = "check_dur"
    <3>1. ops[note'] > ops[note] /\ ops[note'] \in Nat
      BY <1>1, <1>9, <2>3, OpLeadsOn
    <3>2. AtWord'
      BY SongStep DEF SongInv
    <3>3. note' \in DOMAIN song /\ duration' = song[note'].duration
      BY <1>3, <3>2 DEF AtWord
    <3>4. duration' # 0 => 2 * ops[note'] + 1 <= duration' * Ratio
      BY <1>1, <3>3 DEF BoundsOps
    <3>5. elapsed' <= 2 * ops[note'] + 1
      <4> HIDE DEF ops
      <4> QED BY <1>2, <1>5, <2>1, <2>2, <3>1
    <3>6. duration' * Ratio \in Nat
      BY <1>1, <3>3, SongWords, Sizes
    <3>7. OpsOf(song)'[note'] = ops[note']
      BY <1>4
    <3> HIDE DEF ops
    <3> QED BY <1>5, <2>1, <2>3, <3>1, <3>4, <3>5, <3>6, <3>7 DEF OnTime
  <2>4. CASE songPC' # "check_dur"
    <3>1. songPC' = "shut_down"
      BY <1>9, <2>4 DEF CheckOp, MarkLoop, LoopBack, FinishOp, StopPlay
    <3> QED BY <3>1 DEF OnTime
  <2> QED BY <2>3, <2>4
<1>10. CASE ShutDown
  BY <1>10 DEF ShutDown, OnTime
<1>11. CASE Finish \/ UNCHANGED songVars
  <2>1. UNCHANGED songVars
    BY <1>11 DEF Finish
  <2>2. late' = late /\ UNCHANGED <<songPC, duration, note, song, elapsed>>
    BY <2>1 DEF songVars, late
  <2> QED BY <1>4, <2>2 DEF OnTime
<1> QED BY <1>6, <1>7, <1>8, <1>9, <1>10, <1>11 DEF SongNext, SongProgram

\* The period timer starts again when the pin is swapped, or from 0 by itself.
LEMMA WaveShowsKept ==
  SongInv /\ Counts /\ WaveShows /\ [SongNext]_songVars => WaveShows'
<1> SUFFICES ASSUME SongInv, Counts, WaveShows, [SongNext]_songVars PROVE WaveShows'
  OBVIOUS
<1>1. CASE Tick
  <2>1. /\ tmr2' = (tmr2 + 1) % TimerSize
        /\ halfWave' = IF halfWave < TimerSize THEN halfWave + 1 ELSE halfWave
    BY <1>1 DEF Tick, Counted
  <2>2. tmr2' \in 0 .. TimerSize - 1 /\ tmr2' <= tmr2 + 1
    BY <2>1, Registers, Sizes
  <2> QED BY <2>1, <2>2, Registers, Sizes DEF WaveShows, Counts
<1>2. CASE CheckPer
  <2>1. UNCHANGED <<tmr2, halfWave>> \/ (tmr2' = 0 /\ halfWave' = 0)
    BY <1>2 DEF CheckPer
  <2> QED BY <2>1 DEF WaveShows
<1>3. CASE ~Tick /\ ~CheckPer
  <2>1. UNCHANGED <<tmr2, halfWave>>
    BY <1>3 DEF SongNext, SongProgram, CheckDur, CheckOp, ShutDown, Finish, songVars
  <2> QED BY <2>1 DEF WaveShows
<1> QED BY <1>1, <1>2, <1>3

\* A pass that sees the period over comes before the period timer can have started again
\* from 0, unless it had just done so: then a note of a period that fits is soon swapped.
LEMMA SoundsOnKept ==
  SongInv /\ Counts /\ SoundsOn /\ [SongNext]_songVars => SoundsOn'
<1> SUFFICES ASSUME SongInv, Counts, SoundsOn, [SongNext]_songVars PROVE SoundsOn'
  OBVIOUS
<1> SUFFICES ASSUME duration' # 0, period' # 0, period' + 3 < TimerSize
             PROVE  \/ /\ songPC' = "check_dur"
                       /\ \/ sounding' <= late'
                          \/ sounding' <= tmr2' + 2 /\ tmr2' + 1 <= period' + late'
                    \/ /\ songPC' = "check_per"
                       /\ \/ sounding' <= 1 + late'
                          \/ sounding' <= tmr2' + 2 /\ tmr2' <= period' + late'
  <2>1. SongInv'
    BY SongStep
  <2>2. period' \in Nat
    BY <2>1, SongWords, Sizes DEF SongInv, AtWord
  <2>3. period' + 3 < TimerSize \/ period' + 3 >= TimerSize
    <3>1. PICK p \in Nat : p = period'
      BY <2>2
    <3>2. p + 3 < TimerSize \/ p + 3 >= TimerSize
      BY Sizes
    <3> QED BY <3>1, <3>2
  <2> QED BY <2>3 DEF SoundsOn
<1>0. late \in {0, 1} /\ sounding \in 0 .. TimerSize
  BY DEF late, Counts
<1>1. CASE Tick
  <2>1. late = 0 /\ late' = 1 /\ UNCHANGED <<songPC, duration, period>>
    BY <1>1 DEF Tick, late
  <2>2. /\ tmr2' = (tmr2 + 1) % TimerSize
        /\ sounding' = IF sounding < TimerSize THEN sounding + 1 ELSE sounding
    BY <1>1 DEF Tick, Counted
  <2>3. period + 3 < TimerSize /\ duration # 0 /\ period # 0
    BY <2>1
  <2>4. CASE tmr2 + 1 = TimerSize
    <3>1. ~(tmr2 + 1 <= period + late) /\ ~(tmr2 <= period + late)
      BY <2>1, <2>3, <2>4, Registers, Sizes
    <3>2. \/ songPC = "check_dur" /\ sounding <= 0
          \/ songPC = "check_per" /\ sounding <= 1
      BY <2>1, <2>3, <3>1, Registers, Sizes DEF SoundsOn
    <3> QED BY <1>0, <2>1, <2>2, <3>2, Sizes
  <2>5. CASE tmr2 + 1 < TimerSize
    <3>1. tmr2' = tmr2 + 1
      BY <2>2, <2>5, Registers, Sizes
    <3>2. sounding' <= sounding + 1
      BY <1>0, <2>2
    <3>3. \/ /\ songPC = "check_dur"
             /\ sounding <= 0 \/ (sounding <= tmr2 + 2 /\ tmr2 + 1 <= period)
          \/ /\ songPC = "check_per"
             /\ sounding <= 1 \/ (sounding <= tmr2 + 2 /\ tmr2 <= period)
      BY <2>1, <2>3, Registers, Sizes DEF SoundsOn
    <3>4. sounding' \in Int
      BY <1>0, <2>2
    <3> QED BY <1>0, <2>1, <2>3, <3>1, <3>2, <3>3, <3>4, Registers
  <2> QED BY <2>4, <2>5, Registers, Sizes
<1>2. CASE CheckDur
  <2>1. late' = 0 /\ songPC = "check_dur" /\ tmr2' = tmr2
    BY <1>2 DEF CheckDur, late
  <2>2. CASE sounding' = 0 /\ songPC' = "check_per"
    BY <2>1, <2>2
  <2>3. CASE UNCHANGED <<sounding, duration, period>> /\ songPC' = "check_per"
    <3>1. sounding <= late \/ (sounding <= tmr2 + 2 /\ tmr2 + 1 <= period + late)
      BY <2>1, <2>3, Registers, Sizes DEF SoundsOn
    <3> QED BY <1>0, <2>1, <2>3, <3>1, Registers
  <2>4. CASE duration = 0
    BY <1>2, <2>4 DEF CheckDur
  <2> QED BY <1>2, <2>2, <2>3, <2>4 DEF CheckDur
<1>3. CASE CheckPer
  <2>1. late' = 0 /\ songPC = "check_per" /\ songPC' = "check_dur"
        /\ UNCHANGED <<duration, period>>
    BY <1>3 DEF CheckPer, late
  <2>2. CASE tmr2 < period
    <3>1. UNCHANGED <<sounding, tmr2>>
      BY <1>3, <2>2 DEF CheckPer
    <3>2. sounding <= 1 + late \/ (sounding <= tmr2 + 2 /\ tmr2 <= period + late)
      BY <2>1, Registers, Sizes DEF SoundsOn
    <3> QED BY <1>0, <2>1, <2>2, <3>1, <3>2, Registers
  <2>3. CASE ~(tmr2 < period)
    <3>1. sounding' = 0
      BY <1>3, <2>1, <2>3 DEF CheckPer
    <3> QED BY <2>1, <3>1
  <2> QED BY <2>2, <2>3
<1>4. CASE CheckOp
  <2>1. late' = 0 /\ sounding' = 0
    BY <1>4 DEF CheckOp, late
  <2>2. songPC' \in {"check_dur", "shut_down"}
    BY <1>4 DEF CheckOp, MarkLoop, LoopBack, FinishOp, StopPlay
  <2>3. CASE songPC' = "shut_down"
    <3>1. duration' = 0
      BY SongStep, <2>3 DEF SongInv, AtWord
    <3> QED BY <3>1
  <2> QED BY <2>1, <2>2, <2>3
<1>5. CASE ShutDown
  BY <1>5 DEF ShutDown, SongInv, AtWord
<1>6. CASE Finish \/ UNCHANGED songVars
  <2>1. UNCHANGED <<songPC, duration, period, sounding, tmr2>> /\ late' = late
    BY <1>6 DEF Finish, songVars, late
  <2> QED BY <2>1, Registers, Sizes DEF SoundsOn
<1> QED BY <1>1, <1>2, <1>3, <1>4, <1>5, <1>6 DEF SongNext, SongProgram

\* The invariant of the timers holds when they start.
LEMMA TimeInitially ==
  ASSUME \A s \in Songs : FewOps(s), SongInit PROVE TimeInv
<1>1. SongInv
  BY SongInitially
<1>2. /\ elapsed = 0 /\ halfWave = TimerSize /\ sounding = 0 /\ tmr1 = 0 /\ tmr2 = 0
      /\ prescaler = 0 /\ late = 0 /\ songPC = "check_dur" /\ note = 1
  BY DEF SongInit, late
<1>3. Counts /\ TimerShows /\ WaveShows /\ SoundsOn
  BY <1>2, Sizes DEF Counts, TimerShows, WaveShows, SoundsOn
<1>4. BoundsOps(song, OpsOf(song)) /\ note \in DOMAIN song
  BY <1>1 DEF SongInv, AtWord, FewOps, OpsOf
<1>5. OpsOf(song)[note] \in Nat
  BY <1>4 DEF BoundsOps
<1>6. OnTime
  BY <1>1, <1>2, <1>5, Registers DEF OnTime
<1> QED BY <1>3, <1>6 DEF TimeInv

\* In a song with few ops between its notes, each note lasts as long as it says and at most
\* one tick more; no half wave is shorter than its word says; and a note is heard for all of
\* its duration, whatever the period timer shows when it begins.
THEOREM TimeIsKept ==
  ASSUME \A s \in Songs : FewOps(s)
  PROVE  SongSpec => KeepsTime
<1>1. SongInit => SongInv /\ TimeInv
  BY SongInitially, TimeInitially
<1>2. SongInv /\ TimeInv /\ [SongNext]_songVars => (SongInv /\ TimeInv)'
  BY SongStep, CountsKept, TimerShowsKept, OnTimeKept, WaveShowsKept, SoundsOnKept DEF TimeInv
<1>3. SongInv /\ TimeInv => NotesSound
  <2> SUFFICES ASSUME SongInv, TimeInv, duration # 0, period # 0
               PROVE  sounding <= period + 3
    BY DEF NotesSound
  <2> QED BY Registers, Sizes DEF TimeInv, Counts, SoundsOn
<1>4. SongInv /\ TimeInv /\ [SongNext]_songVars =>
        [duration # 0 /\ note' # note =>
           elapsed \in duration * Ratio .. duration * Ratio + 1]_songVars
  <2> SUFFICES ASSUME SongInv, TimeInv, SongNext, duration # 0, note' # note
               PROVE  elapsed \in duration * Ratio .. duration * Ratio + 1
    OBVIOUS
  <2>1. songPC # "check_op"
    BY DEF SongInv, AtWord
  <2>2. CheckDur
    BY <2>1 DEF SongNext, SongProgram, CheckPer, CheckOp, ShutDown, Tick, Finish, songVars
  <2>3. songPC = "check_dur" /\ tmr1 >= duration
    BY <2>2 DEF CheckDur
  <2>4. duration * Ratio <= tmr1 * Ratio /\ duration * Ratio <= TimerSize * Ratio
    BY <2>3, Registers, Sizes, Multiples
  <2>5. elapsed <= duration * Ratio + late
    BY <2>3 DEF TimeInv, OnTime
  <2> QED BY <2>4, <2>5, Registers, Sizes DEF TimeInv, TimerShows, Counts
<1>5. SongInv /\ TimeInv /\ [SongNext]_songVars =>
        [pin' # pin /\ songPC = "check_per" => halfWave >= period]_songVars
  <2> SUFFICES ASSUME SongInv, TimeInv, SongNext, pin' # pin, songPC = "check_per"
               PROVE  halfWave >= period
    OBVIOUS
  <2>1. CheckPer
    BY DEF SongNext, SongProgram, CheckDur, CheckOp, ShutDown, Tick, Finish, songVars
  <2>2. ~(tmr2 < period)
    BY <2>1 DEF CheckPer
  <2> QED BY <2>2, Registers DEF TimeInv, WaveShows, Counts
<1> QED BY <1>1, <1>2, <1>3, <1>4, <1>5, PTL DEF SongSpec, KeepsTime, NotesLast, HalfWavesLast
-------------------------------------------------------------------------------
(***************************************************************************)
(* Lab 6: the checks of the calculator are exact for every size of its     *)
(* numbers: they refuse an operation if and only if its result is out of   *)
(* range, and so no result that is computed ever wraps.                    *)
(***************************************************************************)

\* A number that fits is its own two's complement value.
LEMMA WrapKeeps ==
  ASSUME NEW x \in ValueRange
  PROVE  Wrap(x) = x
BY MaxValueAssumption DEF Wrap, ValueRange, MinValue

\* The sum is refused exactly when it is out of range: the carry that both
\* shifts lose is added back, and halving both sides of a bound that is odd loses
\* nothing (parser_hh.c:67).
THEOREM AddOverflowIsExact ==
  ASSUME NEW a \in ValueRange, NEW b \in ValueRange
  PROVE  IsAddOverflow(a, b) <=> a + b \notin ValueRange
<1> USE MaxValueAssumption DEF ValueRange, MinValue
<1>1. Wrap(-a) = -a /\ Wrap(-b) = -b
  BY DEF Wrap
<1>2. PICK i \in Int : MaxValue = 2 * i + 1 /\ MaxValue \div 2 = i
  <2>1. MaxValue = 2 * (MaxValue \div 2) + 1 /\ MaxValue \div 2 \in Int
    OBVIOUS
  <2> QED BY <2>1
<1>3. PICK ha \in Int, la \in {0, 1} : a = 2 * ha + la /\ a \div 2 = ha /\ a % 2 = la
  OBVIOUS
<1>4. PICK hb \in Int, lb \in {0, 1} : b = 2 * hb + lb /\ b \div 2 = hb /\ b % 2 = lb
  OBVIOUS
<1>5. (-a) \div 2 = -ha - la /\ (-b) \div 2 = -hb - lb
  BY <1>3, <1>4
<1>6. (a % 2) * (b % 2) = IF la = 1 /\ lb = 1 THEN 1 ELSE 0
  BY <1>3, <1>4
<1>7. IsAddOverflow(a, b) <=>
        ~ /\ ha + hb + (IF la = 1 /\ lb = 1 THEN 1 ELSE 0) <= i
          /\ (-ha - la) + (-hb - lb) + (IF la = 1 /\ lb = 1 THEN 1 ELSE 0) <= i
  BY <1>1, <1>2, <1>3, <1>4, <1>5, <1>6 DEF IsAddOverflow
<1> QED BY <1>2, <1>3, <1>4, <1>7

\* A digit is refused exactly when the number it ends would be too large
\* (parser_hh.c:56).
THEOREM CatOverflowIsExact ==
  ASSUME NEW a \in 0 .. MaxValue, NEW b \in 0 .. 9, MaxValue >= 9
  PROVE  IsCatOverflow(a, b) <=> 10 * a + b \notin ValueRange
<1> USE MaxValueAssumption DEF ValueRange, MinValue
<1>1. Quotient(MaxValue - b, 10) = (MaxValue - b) \div 10
  BY DEF Quotient, AbsValue
<1>2. PICK q \in Int, r \in 0 .. 9 : MaxValue - b = 10 * q + r /\ (MaxValue - b) \div 10 = q
  OBVIOUS
<1> QED BY <1>1, <1>2 DEF IsCatOverflow

\* For a divisor that is positive, rounding down is what bounds a product.
LEMMA ProductBound ==
  ASSUME NEW m \in Nat, NEW b \in Nat, b # 0, NEW a \in Int
  PROVE  a <= m \div b <=> a * b <= m
<1> USE MaxValueAssumption DEF ValueRange, MinValue
<1> DEFINE q == m \div b
<1>1. q \in Int /\ q * b <= m /\ m < (q + 1) * b
  BY Z3
<1>2. ASSUME a <= q PROVE a * b <= m
  <2>1. a * b <= q * b
    BY <1>1, <1>2, Z3
  <2> QED BY <1>1, <2>1, Z3
<1>3. ASSUME a > q PROVE a * b > m
  <2>1. (q + 1) * b <= a * b
    BY <1>1, <1>3, Z3
  <2> QED BY <1>1, <2>1, Z3
<1> QED BY <1>1, <1>2, <1>3

\* The product is refused exactly when it is out of range, whatever the signs of
\* the two numbers (parser_hh.c:26).
THEOREM MultOverflowIsExact ==
  ASSUME NEW a \in ValueRange, NEW b \in ValueRange
  PROVE  IsMultOverflow(a, b) <=> a * b \notin ValueRange
<1> USE MaxValueAssumption DEF ValueRange, MinValue
<1>1. CASE a = 0 \/ b = 0
  BY <1>1 DEF IsMultOverflow
<1>2. CASE a # 0 /\ b # 0
  <2> DEFINE c == AbsValue(b)
             q == MaxValue \div c
  <2>1. c \in Nat /\ c # 0 /\ q \in Nat
    BY <1>2 DEF AbsValue
  <2>2. /\ Quotient(MaxValue, b) = IF b < 0 THEN -q ELSE q
        /\ Quotient(MinValue, b) = IF b < 0 THEN q ELSE -q
    BY <1>2, <2>1 DEF Quotient, AbsValue
  <2>3. IsMultOverflow(a, b) <=> ~ (-q <= a /\ a <= q)
    <3> HIDE DEF q
    <3> QED BY <1>2, <2>1, <2>2 DEF IsMultOverflow
  <2>4. (a <= q <=> a * c <= MaxValue) /\ (-a <= q <=> (-a) * c <= MaxValue)
    BY <2>1, ProductBound
  <2>5. a * b = a * c \/ a * b = (-a) * c
    BY DEF AbsValue
  <2>6. (-a) * c = -(a * c)
    BY <2>1
  <2> HIDE DEF q
  <2> QED BY <2>1, <2>3, <2>4, <2>5, <2>6
<1> QED BY <1>1, <1>2

-------------------------------------------------------------------------------
(***************************************************************************)
(* Lab 7: the display, for every screen, frame length and gap.             *)
(***************************************************************************)
\* The counter of the slave comes round after FrameBits clocks.
LEMMA CounterComesRound ==
  ASSUME NEW n \in Nat \ {0, 1}, NEW c \in 0 .. n - 1
  PROVE  (c + 1) % n = (IF c = n - 1 THEN 0 ELSE c + 1)
<1>1. CASE c = n - 1
  BY <1>1
<1>2. CASE c # n - 1
  BY <1>2
<1> QED BY <1>1, <1>2

LEMMA WordsOfShifts ==
  ASSUME NEW w \in [1 .. FrameBits -> {0, 1}], NEW bit \in {0, 1}
  PROVE  /\ Shifted(w, bit) \in [1 .. FrameBits -> {0, 1}]
         /\ Kept(w) \in Words
BY FrameAssumption DEF Shifted, Kept, Words

\* The counters, the registers and the sender stay in their ranges.
THEOREM DisplayTypeCorrect == DisplaySpec => []DisplayTypeOK
<1> USE ScanAssumption, FrameAssumption
<1>1. DisplayInit => DisplayTypeOK
  <2> SUFFICES ASSUME DisplayInit PROVE DisplayTypeOK
    OBVIOUS
  <2>1. wordInput \in [1 .. FrameBits -> {0, 1}] /\ completeWord \in Words
    BY DEF DisplayInit, Words
  <2>2. sent \in 0 .. FrameBits - 1 /\ gap \in Nat
    <3>1. \/ sent = 0 /\ gap \in Gaps
          \/ sent \in 0 .. FrameBits - 1 /\ gap = 0
      BY DEF DisplayInit
    <3>2. 0 \in 0 .. FrameBits - 1 /\ 0 \in Nat /\ Gaps \subseteq Nat
      OBVIOUS
    <3> QED BY <3>1, <3>2
  <2>3. /\ hcnt \in 0 .. HMAX /\ vcnt \in 0 .. VMAX /\ counter \in 0 .. FrameBits - 1
        /\ nextX \in 0 .. WIDTH - 1 /\ nextY \in 0 .. HEIGHT - 1
    BY DEF DisplayInit
  <2>4. /\ oldhsync \in BOOLEAN /\ finished \in BOOLEAN /\ synced \in BOOLEAN
        /\ heard \in BOOLEAN
    BY DEF DisplayInit
  <2>5. frame \in Frames /\ nextGap \in Gaps /\ cursor = completeWord /\ last = completeWord
    BY DEF DisplayInit
  <2> QED BY <2>1, <2>2, <2>3, <2>4, <2>5 DEF DisplayTypeOK
<1>2. DisplayTypeOK /\ [DisplayNext]_displayVars => DisplayTypeOK'
  <2> SUFFICES ASSUME DisplayTypeOK, [DisplayNext]_displayVars
               PROVE  DisplayTypeOK'
    OBVIOUS
  <2>1. CASE VgaClock
    BY <2>1 DEF VgaClock, NextColumn, NextLine, NextCursor, valid, HSyncAt, DisplayTypeOK,
               serialVars
  <2>2. CASE SpiClock
    <3> PICK bit \in Bits : Slave(bit)
      BY <2>2 DEF SpiClock
    <3>1. bit \in {0, 1}
      BY DEF Bits, DisplayTypeOK
    <3>2. /\ wordInput' \in [1 .. FrameBits -> {0, 1}]
          /\ counter' \in 0 .. FrameBits - 1 /\ finished' \in BOOLEAN
      BY <3>1, WordsOfShifts, CounterComesRound DEF Slave, DisplayTypeOK
    <3>3. completeWord' \in Words
      BY <2>2, <3>2, WordsOfShifts DEF SpiClock, DisplayTypeOK
    <3>4. frame' \in Frames /\ sent' \in 0 .. FrameBits - 1 /\ gap' \in Nat /\ nextGap' \in Gaps
      BY <2>2 DEF SpiClock, Sender, lastBit, DisplayTypeOK
    <3>5. synced' \in BOOLEAN /\ heard' \in BOOLEAN /\ last' \in Words
      <4>1. Kept(frame) \in Words
        BY WordsOfShifts DEF DisplayTypeOK
      <4> QED BY <2>2, <4>1 DEF SpiClock, Sender, lastBit, DisplayTypeOK
    <3> QED BY <2>2, <3>2, <3>3, <3>4, <3>5 DEF SpiClock, DisplayTypeOK, scanVars
  <2>3. CASE UNCHANGED displayVars
    BY <2>3 DEF displayVars, scanVars, serialVars, DisplayTypeOK
  <2> QED BY <2>1, <2>2, <2>3 DEF DisplayNext
<1> QED BY <1>1, <1>2, PTL DEF DisplaySpec

-------------------------------------------------------------------------------
\* What the scan keeps from clock to clock: the register holds the sync of the clock
\* before, the next pixel follows from the counters, and a line lasts from the clock
\* after its pulse to the next pulse, which comes after hcnt has gone back to 0.
inRow == VSTART <= vcnt /\ vcnt < VSTART + HEIGHT
drawn == hcnt >= HSTART + WIDTH \/ hcnt <= HSyncEnd
Scan ==
  /\ IF hcnt = 0 THEN oldhsync \/ vcnt = 0 ELSE oldhsync = HSyncAt(hcnt - 1)
  /\ nextX = IF inRow /\ ~drawn /\ hcnt >= HSTART THEN hcnt - HSTART ELSE 0
  /\ nextY = IF ~inRow THEN 0 ELSE IF ~drawn THEN vcnt - VSTART
             ELSE IF vcnt - VSTART = HEIGHT - 1 THEN 0 ELSE vcnt - VSTART + 1

\* The pixels of a pass are drawn in their order, each once.
THEOREM ScanIsOrdered == DisplaySpec => []ScansInOrder
<1> USE ScanAssumption
<1>1. DisplayInit => Scan
  BY DEF DisplayInit, Scan, inRow, drawn
<1>2. DisplayTypeOK /\ Scan /\ [DisplayNext]_displayVars => Scan'
  <2> SUFFICES ASSUME DisplayTypeOK, Scan, [DisplayNext]_displayVars
               PROVE  Scan'
    OBVIOUS
  <2>1. CASE VgaClock
    <3>1. (IF hcnt = 0 THEN oldhsync \/ vcnt = 0 ELSE oldhsync = HSyncAt(hcnt - 1))'
      <4>1. oldhsync' = HSyncAt(hcnt)
        BY <2>1 DEF VgaClock
      <4>2. CASE hcnt' = 0
        <5>1. HSyncAt(hcnt)
          BY <2>1, <4>2 DEF VgaClock, NextColumn, HSyncAt, DisplayTypeOK
        <5> QED BY <4>1, <4>2, <5>1
      <4>3. CASE hcnt' # 0
        <5>1. hcnt' - 1 = hcnt
          BY <2>1, <4>3 DEF VgaClock, NextColumn, DisplayTypeOK
        <5>2. (oldhsync = HSyncAt(hcnt - 1))'
          BY <4>1, <5>1 DEF HSyncAt
        <5> QED BY <4>3, <5>2, Zenon
      <4> QED BY <4>2, <4>3
    <3>2. vcnt' = (IF hcnt = HSyncEnd \/ (hcnt = 0 /\ vcnt = 0 /\ ~oldhsync)
                   THEN IF vcnt >= VMAX THEN 0 ELSE vcnt + 1 ELSE vcnt)
      BY <2>1 DEF VgaClock, NextLine, HSyncAt, DisplayTypeOK, Scan
    <3>3. hcnt' = (IF hcnt = HMAX THEN 0 ELSE hcnt + 1)
      BY <2>1 DEF VgaClock, NextColumn, DisplayTypeOK
    <3>4. CASE valid
      BY <2>1, <3>1, <3>2, <3>3, <3>4 DEF VgaClock, valid, DisplayTypeOK, Scan, inRow, drawn
    <3>5. CASE ~valid
      BY <2>1, <3>1, <3>2, <3>3, <3>5 DEF VgaClock, valid, DisplayTypeOK, Scan, inRow, drawn
    <3> QED BY <3>4, <3>5
  <2>2. CASE SpiClock \/ UNCHANGED displayVars
    BY <2>2 DEF SpiClock, displayVars, scanVars, Scan, inRow, drawn
  <2> QED BY <2>1, <2>2 DEF DisplayNext
<1>3. DisplayTypeOK /\ Scan => ScansInOrder
  BY DEF Scan, ScansInOrder, valid, VSyncAt, inRow, drawn, DisplayTypeOK
<1> QED BY <1>1, <1>2, <1>3, DisplayTypeCorrect, PTL DEF DisplaySpec

\* The cursor is taken over in a line above the screen.
THEOREM CursorIsSteady == DisplaySpec => CursorSteady
<1>1. DisplayTypeOK /\ [DisplayNext]_displayVars
        => [cursor' # cursor => ~ (VSTART <= vcnt' /\ vcnt' < VSTART + HEIGHT)]_displayVars
  <2> SUFFICES ASSUME DisplayTypeOK, [DisplayNext]_displayVars, cursor' # cursor
               PROVE  ~ (VSTART <= vcnt' /\ vcnt' < VSTART + HEIGHT)
    OBVIOUS
  <2>1. VgaClock
    BY DEF DisplayNext, SpiClock, displayVars
  <2>2. ~VSyncAt(vcnt) /\ VSyncAt(vcnt')
    BY <2>1 DEF VgaClock, NextCursor
  <2> QED BY <2>1, <2>2, ScanAssumption DEF VgaClock, NextLine, VSyncAt, DisplayTypeOK
<1> QED BY <1>1, DisplayTypeCorrect, PTL DEF DisplaySpec, CursorSteady

-------------------------------------------------------------------------------
\* Between frames, and until the first frame that it hears from its start, the slave
\* waits for a pulse, and has not stored anything yet when its counter is still 0.
\* Inside a frame the counter is one ahead of the bits sent, which are the last bits of
\* the register.
SlaveFollows ==
  /\ gap > 0 => sent = 0 /\ synced
  /\ heard => completeWord = last
  /\ IF gap = 0 /\ synced
     THEN /\ ~finished
          /\ counter = IF sent = FrameBits - 1 THEN 0 ELSE sent + 1
          /\ \A i \in 1 .. sent : wordInput[i + (FrameBits - sent)] = frame[i]
     ELSE finished \/ (counter = 0 /\ ~heard)

\* The register holds the frame when its last bit has been shifted in.
LEMMA FrameIsComplete ==
  ASSUME DisplayTypeOK, SlaveFollows, gap = 0, synced, sent = FrameBits - 1
  PROVE  Shifted(wordInput, frame[FrameBits]) = frame
<1> USE FrameAssumption
<1>1. frame \in [1 .. FrameBits -> {0, 1}] /\ wordInput \in [1 .. FrameBits -> {0, 1}]
  BY DEF DisplayTypeOK
<1>2. ASSUME NEW i \in 1 .. FrameBits - 1
      PROVE  wordInput[i + 1] = frame[i]
  BY DEF SlaveFollows
<1> QED BY <1>1, <1>2 DEF Shifted

\* The stored word is that of the last frame that ended in a gap.
THEOREM SlaveStoresFrames == DisplaySpec => []StoresLastFrame
<1> USE FrameAssumption
<1>1. DisplayInit => SlaveFollows
  BY DEF DisplayInit, SlaveFollows
<1>2. DisplayTypeOK /\ SlaveFollows /\ [DisplayNext]_displayVars => SlaveFollows'
  <2> SUFFICES ASSUME DisplayTypeOK, SlaveFollows, [DisplayNext]_displayVars
               PROVE  SlaveFollows'
    OBVIOUS
  <2>1. CASE VgaClock \/ UNCHANGED displayVars
    BY <2>1 DEF VgaClock, displayVars, serialVars, SlaveFollows
  <2>2. CASE SpiClock
    <3> PICK bit \in Bits : Slave(bit)
      BY <2>2 DEF SpiClock
    <3>1. counter' = IF finished \/ counter = 0 THEN 1
                     ELSE IF counter = FrameBits - 1 THEN 0 ELSE counter + 1
      BY CounterComesRound DEF Slave, DisplayTypeOK
    <3>2. finished' <=> (fsync /\ (finished \/ counter = 0))
      BY DEF Slave
    <3>3. synced' <=> (synced \/ lastBit)
      BY <2>2 DEF SpiClock, Sender
    <3>4. /\ gap > 0 => gap' = gap - 1 /\ sent' = sent
          /\ gap = 0 /\ lastBit => sent' = 0 /\ gap' = nextGap
          /\ gap = 0 /\ ~lastBit => sent' = sent + 1 /\ gap' = 0
      BY <2>2 DEF SpiClock, Sender, lastBit, DisplayTypeOK
    <3>5. CASE ~ (gap = 0 /\ synced)
      <4>1. finished \/ (counter = 0 /\ ~heard)
        BY <3>5 DEF SlaveFollows
      <4>2. heard' = heard /\ last' = last
        BY <2>2, <3>5 DEF SpiClock, Sender, lastBit, DisplayTypeOK
      <4>3. heard => completeWord' = completeWord
        BY <2>2, <4>1 DEF SpiClock
      <4>4. heard' => completeWord' = last'
        BY <4>2, <4>3 DEF SlaveFollows
      <4>5. (gap = 0 /\ synced)' <=> ~fsync
        BY <3>3, <3>4, <3>5 DEF lastBit, fsync, SlaveFollows, DisplayTypeOK
      <4>6. (gap > 0 => sent = 0 /\ synced)'
        BY <3>3, <3>4 DEF lastBit, SlaveFollows, DisplayTypeOK
      <4>7. CASE fsync
        BY <3>2, <4>1, <4>2, <4>4, <4>5, <4>6, <4>7 DEF SlaveFollows
      <4>8. CASE ~fsync
        <5>1. gap' = 0 /\ synced' /\ ~finished' /\ counter' = 1
          BY <3>1, <3>2, <4>1, <4>5, <4>8
        <5>2. sent' = 0
          BY <3>4, <3>5, <4>8 DEF lastBit, fsync, SlaveFollows, DisplayTypeOK
        <5> QED BY <4>4, <5>1, <5>2 DEF SlaveFollows
      <4> QED BY <4>7, <4>8
    <3>6. CASE gap = 0 /\ synced /\ sent = FrameBits - 1
      <4>1. bit = frame[FrameBits]
        BY <3>6 DEF Bits
      <4>2. wordInput' = frame
        BY <3>6, <4>1, FrameIsComplete DEF Slave, SlaveFollows
      <4>3. ~finished /\ counter = 0
        BY <3>6 DEF SlaveFollows
      <4>4. sent' = 0 /\ gap' = nextGap /\ synced'
        BY <3>3, <3>4, <3>6 DEF lastBit
      <4>5. CASE nextGap = 0
        <5>1. ~fsync
          BY <3>6, <4>5 DEF fsync, lastBit
        <5>2. ~finished' /\ counter' = 1
          BY <3>1, <3>2, <4>3, <5>1
        <5>3. heard' = heard /\ last' = last /\ completeWord' = completeWord
          BY <2>2, <5>1, <5>2 DEF SpiClock, Sender
        <5> QED BY <4>4, <4>5, <5>2, <5>3 DEF SlaveFollows
      <4>6. CASE nextGap # 0
        <5>1. fsync
          BY <3>6, <4>6 DEF fsync, lastBit
        <5>2. finished'
          BY <3>2, <4>3, <5>1
        <5>3. completeWord' = Kept(frame) /\ last' = Kept(frame)
          BY <2>2, <3>6, <4>2, <4>3, <5>1, <5>2 DEF SpiClock, Sender, lastBit
        <5> QED BY <4>4, <4>6, <5>2, <5>3 DEF SlaveFollows
      <4> QED BY <4>5, <4>6
    <3>7. CASE gap = 0 /\ synced /\ sent # FrameBits - 1
      <4>1. bit = frame[sent + 1] /\ sent' = sent + 1 /\ gap' = 0 /\ synced' /\ frame' = frame
        <5>1. bit = frame[sent + 1]
          BY <3>7 DEF Bits
        <5>2. sent' = sent + 1 /\ gap' = 0 /\ frame' = frame
          BY <2>2, <3>4, <3>7 DEF SpiClock, Sender, lastBit
        <5>3. synced'
          BY <3>3, <3>7
        <5> QED BY <5>1, <5>2, <5>3
      <4>2. ~finished' /\ counter' = (IF sent' = FrameBits - 1 THEN 0 ELSE sent' + 1)
        BY <3>1, <3>7, <4>1 DEF Slave, SlaveFollows, DisplayTypeOK
      <4>3. ASSUME NEW i \in 1 .. sent'
            PROVE  wordInput'[i + (FrameBits - sent')] = frame'[i]
        <5>1. wordInput' = Shifted(wordInput, bit)
          BY <3>7 DEF Slave, SlaveFollows
        <5>2. CASE i = sent + 1
          BY <4>1, <5>1, <5>2 DEF Shifted, DisplayTypeOK
        <5>3. CASE i \in 1 .. sent
          BY <3>7, <4>1, <5>1, <5>3 DEF Shifted, SlaveFollows, DisplayTypeOK
        <5> QED BY <4>1, <5>2, <5>3 DEF DisplayTypeOK
      <4>4. heard' => completeWord' = last'
        BY <2>2, <3>7, <4>2 DEF SpiClock, Sender, lastBit, SlaveFollows
      <4> QED BY <4>1, <4>2, <4>3, <4>4 DEF SlaveFollows
    <3> QED BY <3>5, <3>6, <3>7
  <2> QED BY <2>1, <2>2 DEF DisplayNext
<1>3. SlaveFollows => StoresLastFrame
  BY DEF SlaveFollows, StoresLastFrame
<1> QED BY <1>1, <1>2, <1>3, DisplayTypeCorrect, PTL DEF DisplaySpec

\* Each picture is drawn whole for any screen, blanking, frame length and sender
\* (vgaController, mouse_reader).
THEOREM PicturesAreWhole == DisplaySpec => PictureIsWhole
<1> QED BY DisplayTypeCorrect, ScanIsOrdered, CursorIsSteady, PTL DEF PictureIsWhole
===============================================================================
