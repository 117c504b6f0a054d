----------------------------- MODULE SelectionSort -----------------------------
(***************************************************************************)
(* The program of Lab 4: it shows the largest of the top words of the      *)
(* stack on the LEDs of port D and then sorts the stack in place, the      *)
(* smallest word at the bottom.  word[i] is the word at 4*i($sp), so the   *)
(* top of the stack is word[0]; an address in a register is that index.    *)
(* A step is one pass of the assembly code between two labels.             *)
(***************************************************************************)
EXTENDS Integers

CONSTANTS
  Size,     \* words on the stack, 12 in the source
  Top,      \* words of which the largest is shown, 5 in the source
  Values    \* the words, as the signed numbers that bge and ble compare

ASSUME SizeAssumption == Size \in Nat /\ Top \in 2 .. Size
ASSUME ValuesAssumption == Values \subseteq Int

Addresses == 0 .. Size - 1

VARIABLES
  sortPC,   \* the label the program is at
  given,    \* the words that stack_init pushed
  word,     \* the stack
  t1,       \* the largest word so far
  t2,       \* the word under consideration; later, where the next smallest goes
  t3,       \* where the smallest word so far is
  t4,       \* the smallest word so far
  t5,       \* the place that is scanned
  t6,       \* the word that is scanned
  portd     \* the LEDs

sortVars == <<sortPC, given, word, t1, t2, t3, t4, t5, t6, portd>>

\* stack_init: the words come from the macros S00 to S11.
SortInit ==
  /\ sortPC = "max_init"
  /\ given \in [Addresses -> Values]
  /\ word = given
  /\ t2 = 0 /\ t3 = 0 /\ t5 = 0
  /\ t1 = word[0] /\ t4 = word[0] /\ t6 = word[0]
  /\ portd = word[0]

MaxInit ==
  /\ sortPC = "max_init"
  /\ t2' = Top - 1
  /\ t1' = word[t2']
  /\ sortPC' = "max_loop"
  /\ UNCHANGED <<given, word, t3, t4, t5, t6, portd>>

MaxLoop ==
  /\ sortPC = "max_loop"
  /\ t2' = t2 - 1
  /\ t4' = word[t2']
  /\ t1' = IF t1 >= t4' THEN t1 ELSE t4'
  /\ sortPC' = IF t2' = 0 THEN "write" ELSE "max_loop"
  /\ UNCHANGED <<given, word, t3, t5, t6, portd>>

\* write and sort_init
Write ==
  /\ sortPC = "write"
  /\ portd' = t1
  /\ t2' = Size - 1
  /\ sortPC' = "min_init"
  /\ UNCHANGED <<given, word, t1, t3, t4, t5, t6>>

MinInit ==
  /\ sortPC = "min_init"
  /\ t5' = 0
  /\ t3' = 0
  /\ t4' = word[0]
  /\ sortPC' = "min_loop"
  /\ UNCHANGED <<given, word, t1, t2, t6, portd>>

MinLoop ==
  /\ sortPC = "min_loop"
  /\ t5' = t5 + 1
  /\ t6' = word[t5']
  /\ IF t4 <= t6' THEN UNCHANGED <<t3, t4>>
     ELSE t3' = t5' /\ t4' = t6'
  /\ sortPC' = IF t5' = t2 THEN "sort_check" ELSE "min_loop"
  /\ UNCHANGED <<given, word, t1, t2, portd>>

\* Mutant: only the smallest word is stored, the word it replaces is not.
MutSortCheckStore ==
  /\ sortPC = "sort_check"
  /\ word' = [word EXCEPT ![t2] = t4]
  /\ t2' = t2 - 1
  /\ sortPC' = IF t2' = 0 THEN "finish_loop" ELSE "min_init"
  /\ UNCHANGED <<given, t1, t3, t4, t5, t6, portd>>

\* The smallest word goes to the bottom, and the word that was there takes its
\* place.
SortCheck ==
  /\ sortPC = "sort_check"
  /\ word' = [word EXCEPT ![t2] = t4, ![t3] = t6]
  /\ t2' = t2 - 1
  /\ sortPC' = IF t2' = 0 THEN "finish_loop" ELSE "min_init"
  /\ UNCHANGED <<given, t1, t3, t4, t5, t6, portd>>

FinishLoop ==
  /\ sortPC = "finish_loop"
  /\ UNCHANGED sortVars

SortNext ==
  \/ MaxInit \/ MaxLoop \/ Write
  \/ MinInit \/ MinLoop \/ SortCheck \/ FinishLoop

SortSpec == SortInit /\ [][SortNext]_sortVars
FairSortSpec == SortSpec /\ WF_sortVars(SortNext)

-------------------------------------------------------------------------------
\* Every register and word stays in its range.
SortTypeOK ==
  /\ sortPC \in {"max_init", "max_loop", "write", "min_init", "min_loop",
                 "sort_check", "finish_loop"}
  /\ given \in [Addresses -> Values] /\ word \in [Addresses -> Values]
  /\ t2 \in Addresses /\ t3 \in Addresses /\ t5 \in Addresses
  /\ t1 \in Values /\ t4 \in Values /\ t6 \in Values /\ portd \in Values

\* "performs selection sort in place" (Lab 4/leds_hh.S:110): when the program is
\* done, no word is smaller than one below it.
Sorted ==
  sortPC = "finish_loop" =>
    \A i, j \in Addresses : i < j => word[j] <= word[i]

\* The orders in which the given words can stand.
Orders ==
  {p \in [Addresses -> Addresses] :
     \A i, j \in Addresses : p[i] = p[j] => i = j}

\* The exchange at the end of each round is made of two stores from registers;
\* after each round, and so in the end, the stack holds the given words, each as
\* often as it was given.
KeepsWords == \E p \in Orders : \A i \in Addresses : word[i] = given[p[i]]

\* "outputs the largest value to the LEDs" (Lab 4/leds_hh.S:72): what the LEDs
\* show from write on is the largest of the top words as they were given.
ShowsLargest ==
  sortPC \notin {"max_init", "max_loop", "write"} =>
    /\ \E i \in 0 .. Top - 1 : portd = given[i]
    /\ \A i \in 0 .. Top - 1 : given[i] <= portd

\* The program as a whole: the given words sorted in place, and the largest of those at the
\* top shown, the two loops over addresses reaching every word they should and no other.
SortCorrect == SortTypeOK /\ Sorted /\ KeepsWords /\ ShowsLargest

\* The loops, which end on address equality, all end.
SortEnds == <>(sortPC = "finish_loop")
===============================================================================
