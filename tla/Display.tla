-------------------------------- MODULE Display --------------------------------
(***************************************************************************)
(* The display of Lab 7 (vga.sv): a slave that receives the position of    *)
(* the mouse in serial frames, the registers that hand it to the picture,  *)
(* and the counters that scan the screen.  The two clocks, spi_clk and     *)
(* vgaclk, are independent.  The sender of the frames is external.         *)
(***************************************************************************)
EXTENDS Integers

CONSTANTS
  HMAX, HSTART, WIDTH, HSyncStart, HSyncEnd,    \* 800, 152, 640, 8 and 104
  VMAX, VSTART, HEIGHT, VSyncStart, VSyncEnd,   \* 525, 37, 480, 2 and 4
  FrameBits,    \* WIDTH of spi_frm_slave, 32
  WordBits,     \* the bits of a frame that mouse_reader keeps, 23
  Frames,       \* the frames that are sent, each the bits from 1 to FrameBits
  Gaps          \* the numbers of clocks between two frames

ASSUME ScanAssumption ==
  /\ HMAX \in Nat /\ HSTART \in Nat /\ WIDTH \in Nat /\ HSyncStart \in Nat /\ HSyncEnd \in Nat
  /\ VMAX \in Nat /\ VSTART \in Nat /\ HEIGHT \in Nat /\ VSyncStart \in Nat /\ VSyncEnd \in Nat
  /\ 0 < HSyncStart /\ HSyncStart < HSyncEnd /\ HSyncEnd < HSTART
  /\ 0 < WIDTH /\ HSTART + WIDTH <= HMAX + 1
  /\ 0 < VSyncStart /\ VSyncStart < VSyncEnd /\ VSyncEnd < VSTART
  /\ 0 < HEIGHT /\ VSTART + HEIGHT <= VMAX + 1
ASSUME FrameAssumption ==
  /\ FrameBits \in Nat \ {0, 1} /\ WordBits \in 1 .. FrameBits
  /\ Frames \subseteq [1 .. FrameBits -> {0, 1}] /\ Gaps \subseteq Nat

VARIABLES
  hcnt, vcnt, oldhsync,             \* the counters of vgaController
  wordInput, counter, finished,     \* the registers of spi_frm_slave
  completeWord, cursor,             \* the registers of mouse_reader
  frame, sent, gap, nextGap,        \* the sender: its frame, the bits sent, the clocks
                                    \* until the first and those after the last bit
  synced,                           \* whether the frame began after the FPGA was set up
  heard, last,                      \* the last frame that ended in a gap, if any
  nextX, nextY                      \* the pixel that is to be drawn next

scanVars == <<hcnt, vcnt, oldhsync, nextX, nextY>>
serialVars == <<wordInput, counter, finished, completeWord, frame, sent, gap, nextGap,
                synced, heard, last>>
displayVars == <<scanVars, cursor, serialVars>>

HSyncAt(h) == ~ (HSyncStart <= h /\ h < HSyncEnd)
VSyncAt(v) == ~ (VSyncStart <= v /\ v < VSyncEnd)
valid == /\ HSTART <= hcnt /\ hcnt < HSTART + WIDTH
         /\ VSTART <= vcnt /\ vcnt < VSTART + HEIGHT

Words == [1 .. WordBits -> {0, 1}]
Kept(w) == [i \in 1 .. WordBits |-> w[i + (FrameBits - WordBits)]]
Shifted(w, bit) == [i \in 1 .. FrameBits |-> IF i < FrameBits THEN w[i + 1] ELSE bit]

\* The registers are 0 when the FPGA is set up; the sender is anywhere in a frame
\* or in the gap before one.
DisplayInit ==
  /\ hcnt = 0 /\ vcnt = 0 /\ oldhsync = FALSE
  /\ wordInput = [i \in 1 .. FrameBits |-> 0] /\ counter = 0 /\ finished = FALSE
  /\ completeWord = [i \in 1 .. WordBits |-> 0] /\ cursor = completeWord
  /\ frame \in Frames /\ nextGap \in Gaps
  /\ \/ sent = 0 /\ gap \in Gaps \ {0} /\ synced = TRUE
     \/ sent \in 0 .. FrameBits - 1 /\ gap = 0 /\ synced = FALSE
  /\ heard = FALSE /\ last = completeWord
  /\ nextX = 0 /\ nextY = 0

NextColumn == IF hcnt >= HMAX THEN 0 ELSE hcnt + 1

\* The sync signals are active low: a line ends one clock after hsync has ended.
NextLine ==
  IF ~ (HSyncAt(hcnt) /\ ~oldhsync) THEN vcnt ELSE IF vcnt >= VMAX THEN 0 ELSE vcnt + 1

\* Mutant: the word is taken over when the picture begins.
MutNextCursor == IF vcnt # VSTART /\ NextLine = VSTART THEN completeWord ELSE cursor

\* mouse_reader takes the word over at the end of vsync.
NextCursor == IF ~VSyncAt(vcnt) /\ VSyncAt(NextLine) THEN completeWord ELSE cursor

\* A rising edge of vgaclk.
VgaClock ==
  /\ hcnt' = NextColumn
  /\ vcnt' = NextLine
  /\ oldhsync' = HSyncAt(hcnt)
  /\ cursor' = NextCursor
  /\ IF ~valid THEN UNCHANGED <<nextX, nextY>>
     ELSE /\ nextX' = (IF nextX = WIDTH - 1 THEN 0 ELSE nextX + 1)
          /\ nextY' = (IF nextX # WIDTH - 1 THEN nextY
                       ELSE IF nextY = HEIGHT - 1 THEN 0 ELSE nextY + 1)
  /\ UNCHANGED serialVars

\* What the sender drives: fsync is low for the clock before the first bit, which may
\* be that of the last bit of the frame before.
lastBit == gap = 0 /\ sent = FrameBits - 1
fsync == ~ (gap = 1 \/ (lastBit /\ nextGap = 0))
Bits == IF gap = 0 THEN {frame[sent + 1]} ELSE {0, 1}

Sender ==
  /\ IF gap > 0 THEN gap' = gap - 1 /\ UNCHANGED <<frame, sent, nextGap>>
     ELSE IF ~lastBit THEN sent' = sent + 1 /\ UNCHANGED <<frame, gap, nextGap>>
     ELSE sent' = 0 /\ gap' = nextGap /\ frame' \in Frames /\ nextGap' \in Gaps
  /\ synced' = (synced \/ lastBit)
  /\ IF lastBit /\ synced /\ fsync THEN heard' = TRUE /\ last' = Kept(frame)
     ELSE UNCHANGED <<heard, last>>

\* Mutant: the counter is not started by the pulse.
MutSlave(bit) ==
  /\ wordInput' = IF finished THEN wordInput ELSE Shifted(wordInput, bit)
  /\ counter' = IF finished THEN 0 ELSE (counter + 1) % FrameBits
  /\ finished' = (fsync /\ (finished \/ counter = 0))

\* spi_frm_slave: bits are shifted in until the counter has come round, when finished
\* is set unless a pulse begins the next frame.
Slave(bit) ==
  /\ wordInput' = IF finished THEN wordInput ELSE Shifted(wordInput, bit)
  /\ counter' = IF finished THEN 1 ELSE (counter + 1) % FrameBits
  /\ finished' = (fsync /\ (finished \/ counter = 0))

\* A rising edge of spi_clk; a rising edge of finished stores the word.
SpiClock ==
  /\ \E bit \in Bits : Slave(bit)
  /\ completeWord' = IF ~finished /\ finished' THEN Kept(wordInput') ELSE completeWord
  /\ Sender
  /\ UNCHANGED <<scanVars, cursor>>

DisplayNext == VgaClock \/ SpiClock
DisplaySpec == DisplayInit /\ [][DisplayNext]_displayVars
\* The pixel clock comes from a PLL and never stops.
FairDisplaySpec == DisplaySpec /\ WF_displayVars(VgaClock)

-------------------------------------------------------------------------------
DisplayTypeOK ==
  /\ hcnt \in 0 .. HMAX /\ vcnt \in 0 .. VMAX /\ oldhsync \in BOOLEAN
  /\ wordInput \in [1 .. FrameBits -> {0, 1}] /\ counter \in 0 .. FrameBits - 1
  /\ finished \in BOOLEAN /\ completeWord \in Words /\ cursor \in Words
  /\ frame \in Frames /\ sent \in 0 .. FrameBits - 1 /\ gap \in Nat /\ nextGap \in Gaps
  /\ synced \in BOOLEAN /\ heard \in BOOLEAN /\ last \in Words
  /\ nextX \in 0 .. WIDTH - 1 /\ nextY \in 0 .. HEIGHT - 1

\* The line counter runs on a pulse that falls into the line it counts: all the same
\* each pixel of the screen is drawn once in every pass, from left to right and row
\* by row, and each pass begins with the first.
ScansInOrder ==
  /\ valid => hcnt - HSTART = nextX /\ vcnt - VSTART = nextY
  /\ ~VSyncAt(vcnt) => nextX = 0 /\ nextY = 0

\* "signals the end of the transmission with finished" (vga.sv:198): whatever the gaps
\* between frames, and wherever in a frame the slave was set up, the stored word is
\* that of the last frame that ended in a gap, with every bit in its place.
StoresLastFrame == heard => completeWord = last

\* The picture is drawn from one word: the cursor does not move or change its colour
\* while any row of the screen is drawn, though words arrive at any time.
CursorSteady ==
  [][cursor' # cursor => ~ (VSTART <= vcnt' /\ vcnt' < VSTART + HEIGHT)]_displayVars

\* Each picture is drawn whole: every pixel in its turn, and all of them for one cursor.
PictureIsWhole == [](DisplayTypeOK /\ ScansInOrder) /\ CursorSteady

\* When no new words arrive the cursor ends up where the last one says.
CursorCatchesUp ==
  <>[][completeWord' = completeWord]_completeWord => <>[](cursor = completeWord)
===============================================================================
