-------------------------------- MODULE LabsMC --------------------------------
(***************************************************************************)
(* Bounded instances of the programs of Labs 4, 5 and 6 and of the display *)
(* of Lab 7.  Each behaviour runs one of them; the others have ended or    *)
(* wait.                                                                   *)
(***************************************************************************)
EXTENDS SelectionSort, SongPlayer, Calculator, Display

VARIABLE program
labVars == <<program, sortVars, songVars, calcVars, displayVars>>

MCValues == -1 .. 2

Low == <<[period |-> 3, duration |-> 1]>>
High == <<[period |-> 2, duration |-> 2]>>
Rest == <<[period |-> 0, duration |-> 2]>>
Op(p) == <<[period |-> p, duration |-> 0]>>
Loop(n, s) == Op(4 + n) \o s \o Op(8)

\* A rest so long that the period timer starts again from 0 in the note behind it.
LongRest == <<[period |-> 0, duration |-> 7]>> \o Op(62) \o Op(12) \o High \o Op(0)

\* Songs with a loop in a loop, with notes, rests and a skipped op around them.
MCSongs ==
  {a \o Loop(m, b \o Loop(n, c)) \o Low \o Op(0) :
     a \in {<<>>, High}, b \in {<<>>, Op(12) \o Low}, c \in {High, Rest},
     m \in {0, 2}, n \in {0, 1, 3}}
  \union {Op(0), LongRest}

MCDigit == [c \in {"0", "1", "6"} |-> IF c = "0" THEN 0 ELSE IF c = "1" THEN 1 ELSE 6]
MCCharacters == {"0", "1", "6", "+", "-", "*", "/", "(", ")", " ", "x"}
MCLines == {
  <<"1", "+", "1", "1", "nul", "-">>,
  <<"1", "/", "(", "6", "*", "6", ")">>,
  <<"(", "6", "-", "1", ")", "+", "1", "1">>,
  <<"1", "1", "/", "6", "*", "6", "-", "-", "1">>,
  <<"(", "0", "-", "1", "0", ")", "/", "-", "6", " ">>,
  <<"-", "1", "1", "-", " ", "1", "*", "6", "+", "1">>,
  <<"-", "(", "1", "/", "0", ")", "+", "6", "0">>}

SortOver ==
  /\ sortPC = "finish_loop"
  /\ word = [i \in Addresses |-> 0] /\ given = word
  /\ t1 = 0 /\ t2 = 0 /\ t3 = 0 /\ t4 = 0 /\ t5 = 0 /\ t6 = 0 /\ portd = 0

SongOver ==
  /\ songPC = "finish"
  /\ song = Op(0) /\ note = 1 /\ duration = 0 /\ period = 0 /\ loops = <<>> /\ played = <<>>
  /\ tmr1 = 0 /\ prescaler = 0 /\ tmr2 = 0 /\ pin = 0 /\ driven = FALSE
  /\ lag = FALSE /\ elapsed = 0 /\ halfWave = 0 /\ sounding = 0

\* The frames that the mouse sends to the display.
Bits4(k) == [i \in 1 .. 4 |-> IF i \in k THEN 1 ELSE 0]
MCFrames == {Bits4({}), Bits4({1, 2}), Bits4({2, 4})}

DisplayOff ==
  /\ DisplayInit /\ frame = Bits4({}) /\ nextGap = 0 /\ sent = 0 /\ gap = 1

LabsInit ==
  \/ program = "sort" /\ SortInit /\ SongOver /\ CalcInit /\ DisplayOff
  \/ program = "song" /\ SortOver /\ SongInit /\ CalcInit /\ DisplayOff
  \/ program = "calculator" /\ SortOver /\ SongOver /\ CalcInit /\ DisplayOff
  \/ program = "display" /\ SortOver /\ SongOver /\ CalcInit /\ DisplayInit

LabsNext ==
  \/ program = "sort" /\ SortNext /\ UNCHANGED <<program, songVars, calcVars, displayVars>>
  \/ program = "song" /\ SongNext /\ UNCHANGED <<program, sortVars, calcVars, displayVars>>
  \/ program = "calculator" /\ CalcNext
     /\ UNCHANGED <<program, sortVars, songVars, displayVars>>
  \/ program = "display" /\ DisplayNext /\ UNCHANGED <<program, sortVars, songVars, calcVars>>

LabsSpec ==
  /\ LabsInit /\ [][LabsNext]_labVars
  /\ WF_sortVars(program = "sort" /\ SortNext)
  /\ WF_songVars(program = "song" /\ SongProgram)
  /\ WF_songVars(program = "song" /\ Tick)
  /\ WF_<<calcPC, fifo>>(program = "calculator" /\ ProgramTurn)
  /\ WF_displayVars(program = "display" /\ VgaClock)

\* Each program gets somewhere: the sort and the song to their end, the calculator to an
\* answer, the display to the last word it was sent.
ProgramsProgress == SortEnds /\ SongEnds /\ LinesAreAnswered /\ CursorCatchesUp
===============================================================================
