------------------------------ MODULE SongPlayer ------------------------------
(***************************************************************************)
(* The program of Lab 5: it plays a song on pin G6.  A word of the song is *)
(* a note, [period, duration], or, when its duration is 0, an op whose     *)
(* code is in the upper digit of the period and whose immediate is in the  *)
(* lower one.  A step of the program is one pass of the assembly code      *)
(* between two labels; the two timers run on their own.                    *)
(***************************************************************************)
EXTENDS Integers, Sequences, SequencesExt, FiniteSets

CONSTANTS
  Songs,      \* the songs, sequences of words
  OpUnit,     \* OP_LOOP, 0x1000 in the source: an immediate is below it
  Ratio,      \* ticks of the period timer in a tick of the duration timer, 64
  MaxPlayed   \* bound: how many of the first notes are recorded

ASSUME SongAssumption == OpUnit \in Nat \ {0} /\ Ratio \in Nat \ {0, 1}

TimerSize == 16 * OpUnit
OpStop == 0
OpLoop == 1
OpEndLoop == 2

IsOp(w, op) == w.duration = 0 /\ w.period \div OpUnit = op

\* The loops that are opened and not yet closed before the i-th word of s.
Nesting(s, i) ==
  Cardinality({k \in 1 .. i - 1 : IsOp(s[k], OpLoop)})
    - Cardinality({k \in 1 .. i - 1 : IsOp(s[k], OpEndLoop)})

\* A song is made of words of two halfwords, has a loop for each end_loop, and ends with
\* a stop_play.
ASSUME SongsAssumption ==
  \A s \in Songs :
    /\ s \in Seq([period : 0 .. TimerSize - 1, duration : 0 .. TimerSize - 1]) /\ s # <<>>
    /\ \A i \in DOMAIN s : IsOp(s[i], OpEndLoop) => Nesting(s, i) > 0
    /\ IsOp(s[Len(s)], OpStop)

VARIABLES
  songPC,     \* the label the program is at
  song,       \* the words at _notes
  note,       \* t0: the word that is played, as an index of song
  duration,   \* t3
  period,     \* t4
  loops,      \* the stack: the start and the remaining count of each open loop
  tmr1,       \* the duration timer,
  prescaler,  \* the ticks of the period timer since it last moved
  tmr2,       \* the period timer
  pin,        \* the output, G6
  driven,     \* the tristate of G6
  lag,        \* whether the program had no turn since the last tick
  played,     \* the notes that are over, up to MaxPlayed
  elapsed,    \* ticks since the last note was over,
  halfWave,   \* since the pin last changed,
  sounding    \* and since the pin or the word last changed

songVars == <<songPC, song, note, duration, period, loops, tmr1, prescaler, tmr2,
              pin, driven, lag, played, elapsed, halfWave, sounding>>

\* More ticks than a timer counts are not told apart.
Counted(n, most) == IF n < most THEN n + 1 ELSE n

\* main: the timers start, and the first word is loaded.
SongInit ==
  /\ songPC = "check_dur"
  /\ song \in Songs
  /\ note = 1 /\ duration = song[1].duration /\ period = song[1].period
  /\ loops = <<>> /\ played = <<>>
  /\ tmr1 = 0 /\ prescaler = 0 /\ tmr2 = 0
  /\ pin \in {0, 1} /\ driven = TRUE
  /\ lag = FALSE /\ elapsed = 0 /\ halfWave = TimerSize /\ sounding = 0

\* The timers of the microcontroller: 16 bits that start again from 0.  The
\* program takes a turn in each tick (32 cycles of the processor); once it is over
\* nothing reads them.
Tick ==
  /\ songPC # "finish"
  /\ ~lag
  /\ lag' = TRUE
  /\ tmr2' = (tmr2 + 1) % TimerSize
  /\ prescaler' = (prescaler + 1) % Ratio
  /\ tmr1' = IF prescaler' = 0 THEN (tmr1 + 1) % TimerSize ELSE tmr1
  /\ elapsed' = Counted(elapsed, Ratio * TimerSize)
  /\ halfWave' = Counted(halfWave, TimerSize)
  /\ sounding' = Counted(sounding, TimerSize)
  /\ UNCHANGED <<songPC, song, note, duration, period, loops, pin, driven, played>>

Load(n) ==
  /\ note' = n
  /\ duration' = song[n].duration
  /\ period' = song[n].period

\* A duration of 0 is an op; otherwise the note is over once the timer has
\* reached its duration.
CheckDur ==
  /\ songPC = "check_dur"
  /\ lag' = FALSE
  /\ \/ /\ duration = 0
        /\ songPC' = "check_op"
        /\ UNCHANGED <<note, duration, period, tmr1, prescaler, played, elapsed, sounding>>
     \/ /\ duration # 0 /\ tmr1 < duration
        /\ songPC' = "check_per"
        /\ UNCHANGED <<note, duration, period, tmr1, prescaler, played, elapsed, sounding>>
     \/ /\ duration # 0 /\ tmr1 >= duration
        /\ tmr1' = 0 /\ prescaler' = 0
        /\ Load(note + 1)
        /\ played' = IF Len(played) < MaxPlayed THEN Append(played, song[note]) ELSE played
        /\ elapsed' = 0 /\ sounding' = 0
        /\ songPC' = "check_per"
  /\ UNCHANGED <<song, loops, tmr2, pin, driven, halfWave>>

\* Mutant: the period timer is not reset when the pin is swapped.
MutCheckPerKeep ==
  /\ songPC = "check_per"
  /\ lag' = FALSE
  /\ IF period = 0 \/ tmr2 < period THEN UNCHANGED <<pin, halfWave, sounding>>
     ELSE pin' = 1 - pin /\ halfWave' = 0 /\ sounding' = 0
  /\ songPC' = "check_dur"
  /\ UNCHANGED <<song, note, duration, period, loops, tmr1, prescaler, tmr2, driven, played, elapsed>>

\* The pin is swapped when the timer has reached the period; 0 is a rest.
CheckPer ==
  /\ songPC = "check_per"
  /\ lag' = FALSE
  /\ IF period = 0 \/ tmr2 < period THEN UNCHANGED <<tmr2, pin, halfWave, sounding>>
     ELSE tmr2' = 0 /\ pin' = 1 - pin /\ halfWave' = 0 /\ sounding' = 0
  /\ songPC' = "check_dur"
  /\ UNCHANGED <<song, note, duration, period, loops, tmr1, prescaler, driven, played, elapsed>>

opCode == period \div OpUnit
immediate == period % OpUnit

MarkLoop ==
  /\ opCode = OpLoop
  /\ loops' = <<[start |-> note, count |-> immediate]>> \o loops
  /\ Load(note + 1)
  /\ songPC' = "check_dur"

\* Mutant: the counter is tested before it is decremented, so that an endless loop is
\* not told apart and every other one is played once more.
MutLoopBackLate ==
  /\ opCode = OpEndLoop
  /\ LET count == Head(loops).count IN
     /\ loops' = IF count = 0 THEN Tail(loops) ELSE [loops EXCEPT ![1].count = count - 1]
     /\ Load((IF count = 0 THEN note ELSE Head(loops).start) + 1)
  /\ songPC' = "check_dur"

\* A count of 0 loops for ever.
LoopBack ==
  /\ opCode = OpEndLoop
  /\ LET count == Head(loops).count IN
     /\ loops' = IF count = 0 THEN loops
                 ELSE IF count = 1 THEN Tail(loops)
                 ELSE [loops EXCEPT ![1].count = count - 1]
     /\ Load((IF count = 1 THEN note ELSE Head(loops).start) + 1)
  /\ songPC' = "check_dur"

\* shut_down follows: the pin is cleared, then it is no longer driven.
StopPlay ==
  /\ opCode = OpStop
  /\ songPC' = "shut_down"
  /\ UNCHANGED <<note, duration, period, loops>>

\* An op that is none of these is skipped.
FinishOp ==
  /\ opCode \notin {OpLoop, OpEndLoop, OpStop}
  /\ Load(note + 1)
  /\ songPC' = "check_dur"
  /\ UNCHANGED loops

CheckOp ==
  /\ songPC = "check_op"
  /\ lag' = FALSE
  /\ MarkLoop \/ LoopBack \/ StopPlay \/ FinishOp
  /\ sounding' = 0
  /\ UNCHANGED <<song, tmr1, prescaler, tmr2, pin, driven, played, elapsed, halfWave>>

ShutDown ==
  /\ songPC = "shut_down"
  /\ lag' = FALSE
  /\ pin' = 0
  /\ driven' = FALSE
  /\ songPC' = "finish"
  /\ UNCHANGED <<song, note, duration, period, loops, tmr1, prescaler, tmr2,
                 played, elapsed, halfWave, sounding>>

Finish ==
  /\ songPC = "finish"
  /\ UNCHANGED songVars

SongProgram == CheckDur \/ CheckPer \/ CheckOp \/ ShutDown
SongNext == SongProgram \/ Tick \/ Finish

SongSpec == SongInit /\ [][SongNext]_songVars
FairSongSpec == SongSpec /\ WF_songVars(SongProgram) /\ WF_songVars(Tick)
-------------------------------------------------------------------------------
\* Every register, timer and stack entry stays in its range.
SongTypeOK ==
  /\ songPC \in {"check_dur", "check_per", "check_op", "shut_down", "finish"}
  /\ song \in Songs /\ note \in DOMAIN song
  /\ duration = song[note].duration /\ period = song[note].period
  /\ \A i \in DOMAIN loops : loops[i].start \in 1 .. note /\ loops[i].count \in 0 .. OpUnit - 1
  /\ tmr1 \in 0 .. TimerSize - 1 /\ tmr2 \in 0 .. TimerSize - 1 /\ prescaler \in 0 .. Ratio - 1
  /\ pin \in {0, 1} /\ driven \in BOOLEAN

\* "the nearest subsequent unmatched end_loop" (Lab 5/leds_hh.S:266)
MatchingEnd(s, i) ==
  CHOOSE m \in i + 1 .. Len(s) :
    /\ IsOp(s[m], OpEndLoop) /\ Nesting(s, m + 1) = Nesting(s, i)
    /\ \A k \in i + 1 .. m : Nesting(s, k) > Nesting(s, i)

\* The notes of song s in the order in which they sound: a section is played as
\* often as its loop op says, for ever (here: MaxPlayed times) when that is 0.
Score(s) ==
  LET notes[i \in 1 .. Len(s) + 1, j \in 1 .. Len(s) + 1] ==
        IF i >= j THEN <<>>
        ELSE IF s[i].duration # 0 THEN <<s[i]>> \o notes[i + 1, j]
        ELSE IF ~IsOp(s[i], OpLoop) THEN notes[i + 1, j]
        ELSE LET m == MatchingEnd(s, i)
                 n == s[i].period % OpUnit
                 times == IF n = 0 THEN MaxPlayed ELSE n
             IN  FlattenSeq([k \in 1 .. times |-> notes[i + 1, m]])
                   \o IF n = 0 THEN <<>> ELSE notes[m + 1, j]
  IN  notes[1, Len(s) + 1]

\* "The section of notes ... are played again until the number of times specified
\* at the top of the loop has been played" (Lab 5/leds_hh.S:273): with loops in
\* loops, the notes sound in the order of the score and none is missing at the end.
PlaysScore ==
  LET score == Score(song) IN
  /\ \A i \in DOMAIN played : i \in DOMAIN score /\ played[i] = score[i]
  /\ songPC = "finish" => Len(played) \in {Len(score), MaxPlayed}

\* The stack always holds the loops that are open at the word that is played, the
\* innermost first; so it is back where it was when the song is over.
StackIsNesting ==
  /\ Len(loops) = Nesting(song, note)
  /\ \A i \in DOMAIN loops :
       /\ IsOp(song[loops[i].start], OpLoop)
       /\ Nesting(song, loops[i].start) = Len(loops) - i

\* The song as it is written: the loop stack brings each note of the score, in its order.
FollowsScore == SongTypeOK /\ PlaysScore /\ StackIsNesting

\* The ops between the notes take none of their time: the timer runs on from the
\* end of a note, so each lasts its own duration and at most one pass more.
NotesLast ==
  [][duration # 0 /\ note' # note =>
       elapsed \in duration * Ratio .. duration * Ratio + 1]_songVars

\* The period timer is not reset between notes: a half wave may begin in one note
\* and end in the next, and is never shorter than the word that ends it says.
HalfWavesLast ==
  [][pin' # pin /\ songPC = "check_per" => halfWave >= period]_songVars

\* A note is heard for all of its duration, also when the period timer starts
\* again from 0 after a long rest: two ticks may be lost by that, and one with the pass
\* that sees the period over.
NotesSound == duration # 0 /\ period # 0 => sounding <= period + 3

\* The two timers together: how long a note lasts, how long it is heard, and how long a
\* half wave is, over notes, rests and the ops between them.
KeepsTime == NotesLast /\ HalfWavesLast /\ []NotesSound

\* A song without an endless loop comes to its end.
SongEnds ==
  (\A i \in DOMAIN song : ~(IsOp(song[i], OpLoop) /\ song[i].period % OpUnit = 0))
    ~> songPC = "finish"
===============================================================================
