------------------------------- MODULE Calculator -------------------------------
(***************************************************************************)
(* The calculator of Lab 6: a typist at the other end of the serial line,  *)
(* the receive buffer of the UART, and the program that reads a line,      *)
(* parses it and answers (calculator_hh.c and uartio_hh.c).                *)
(***************************************************************************)
EXTENDS CalcParser, SequencesExt

CONSTANTS
  BufferSize,   \* BUFFER_SIZE
  FifoSize,     \* the characters the UART holds until they are read
  FreeLength,   \* bound: up to here a line is any sequence of Characters
  Characters,   \* what is typed, except the end of a line
  Lines,        \* longer lines, which are also typed ahead of the answers
  Junk          \* what an unwritten local variable may hold

EndOfLine == "cr"
Nul == "nul"

VARIABLES
  typing,    \* the characters of the line that is being typed
  fifo,      \* the characters the UART has received
  overrun,   \* whether a character was lost: the UART takes no more of them
  calcPC,    \* "read", "parse" or "send"
  buf,       \* the buffer of parse_input, up to index
  tooLong,   \* buffer_overflow of get_str_serial
  answer,    \* what is sent for the line: a value or the most severe error
  pending,   \* the lines that were typed and are not answered yet
  meant      \* what the grammar says of the line that is answered

calcVars == <<typing, fifo, overrun, calcPC, buf, tooLong, answer, pending, meant>>

Idle == [value |-> 0, error |-> "none"]

\* uart_setup
CalcInit ==
  /\ typing = <<>> /\ fifo = <<>> /\ overrun = FALSE /\ pending = <<>>
  /\ calcPC = "read" /\ buf = <<>> /\ tooLong = FALSE
  /\ answer = Idle /\ meant = {}

\* The typist waits for the answer to a line that is not one of Lines.
MayType(text) ==
  \/ /\ \A i \in DOMAIN pending : pending[i] \in Lines
     /\ \E l \in Lines : IsPrefix(text, Append(l, EndOfLine))
  \/ /\ pending = <<>>
     /\ Len(text) <= FreeLength \/ Last(text) = EndOfLine
     /\ Len(text) <= FreeLength + 1

\* A character arrives.  When the UART is full it is lost, and so is every later
\* one: nothing in the program clears the error.
Type(c) ==
  /\ ~overrun
  /\ MayType(Append(typing, c))
  /\ IF Len(fifo) = FifoSize
     THEN overrun' = TRUE /\ UNCHANGED fifo
     ELSE fifo' = Append(fifo, c) /\ UNCHANGED overrun
  /\ IF c = EndOfLine
     THEN typing' = <<>> /\ pending' = Append(pending, typing)
     ELSE typing' = Append(typing, c) /\ UNCHANGED pending
  /\ UNCHANGED <<calcPC, buf, tooLong, answer, meant>>

\* The typist may stop; after an overrun what is typed goes nowhere.
Pause == UNCHANGED calcVars

\* A bug: an empty line is not an answer's worth.
MutGetCharEmpty ==
  /\ calcPC = "read" /\ fifo # <<>>
  /\ fifo' = Tail(fifo)
  /\ IF Head(fifo) = EndOfLine
     THEN calcPC' = (IF buf = <<>> THEN "read" ELSE "parse") /\ UNCHANGED <<buf, tooLong>>
     ELSE /\ IF Len(buf) < BufferSize - 1
             THEN buf' = Append(buf, Head(fifo)) /\ UNCHANGED tooLong
             ELSE tooLong' = TRUE /\ UNCHANGED buf
          /\ UNCHANGED calcPC
  /\ UNCHANGED <<typing, overrun, answer, pending, meant>>

\* One turn of the loop of get_str_serial.
GetChar ==
  /\ calcPC = "read" /\ fifo # <<>>
  /\ fifo' = Tail(fifo)
  /\ IF Head(fifo) = EndOfLine
     THEN calcPC' = "parse" /\ UNCHANGED <<buf, tooLong>>
     ELSE /\ IF Len(buf) < BufferSize - 1
             THEN buf' = Append(buf, Head(fifo)) /\ UNCHANGED tooLong
             ELSE tooLong' = TRUE /\ UNCHANGED buf
          /\ UNCHANGED calcPC
  /\ UNCHANGED <<typing, overrun, answer, pending, meant>>

\* write_error
MostSevere(errors) ==
  IF "BUFFER" \in errors THEN "BUFFER"
  ELSE IF "SYNTAX" \in errors THEN "SYNTAX"
  ELSE IF "VALUE" \in errors THEN "VALUE"
  ELSE IF "DIV_BY_ZERO" \in errors THEN "DIV_BY_ZERO"
  ELSE IF "OVERFLOW" \in errors THEN "OVERFLOW" ELSE "none"

\* What strlen sees of s.
UpToNul(s) ==
  LET first == SelectInSeq(s, LAMBDA c : c = Nul)
  IN  IF first = 0 THEN s ELSE SubSeq(s, 1, first - 1)

\* parse_start, then the value or the message of the most severe error.
ParseInput ==
  /\ calcPC = "parse"
  /\ \E junk \in Junk :
       LET result == ParseStart(UpToNul(buf), junk)
           error == MostSevere(result.errors \union (IF tooLong THEN {"BUFFER"} ELSE {}))
       IN  answer' = [value |-> IF error = "none" THEN result.value ELSE 0, error |-> error]
  /\ meant' = Derived(UpToNul(Head(pending)))
  /\ calcPC' = "send"
  /\ UNCHANGED <<typing, fifo, overrun, buf, tooLong, pending>>

\* The answer and an empty line are sent, and parse_input is called again.
SendStr ==
  /\ calcPC = "send"
  /\ calcPC' = "read" /\ buf' = <<>> /\ tooLong' = FALSE
  /\ answer' = Idle /\ meant' = {}
  /\ pending' = Tail(pending)
  /\ UNCHANGED <<typing, fifo, overrun>>

CalcProgram == GetChar \/ ParseInput \/ SendStr
CalcNext ==
  \/ \E c \in Characters \union {EndOfLine} : Type(c)
  \/ Pause
  \/ CalcProgram

CalcSpec == CalcInit /\ [][CalcNext]_calcVars

\* Whenever the program can take a step it takes one: this is what its steps do to
\* the label and the UART, and no other step does it.
ProgramTurn ==
  \/ calcPC = "read" /\ fifo # <<>> /\ fifo' = Tail(fifo) /\ calcPC' \in {"read", "parse"}
  \/ calcPC = "parse" /\ calcPC' = "send" /\ UNCHANGED fifo
  \/ calcPC = "send" /\ calcPC' = "read" /\ UNCHANGED fifo

FairCalcSpec == CalcSpec /\ WF_<<calcPC, fifo>>(ProgramTurn)

-------------------------------------------------------------------------------
\* The buffer holds at most BUFFER_SIZE - 1 characters and their NUL, the UART
\* what it has room for.
CalcTypeOK ==
  /\ Len(buf) < BufferSize /\ Len(fifo) <= FifoSize
  /\ overrun \in BOOLEAN /\ tooLong \in BOOLEAN
  /\ calcPC \in {"read", "parse", "send"}
  /\ answer.value \in ValueRange
  /\ answer.error \in {"none", "BUFFER", "SYNTAX", "VALUE", "DIV_BY_ZERO", "OVERFLOW"}

\* An answer to a line that is not too long.
Answered == calcPC = "send" /\ Len(Head(pending)) < BufferSize

\* A line is refused as too long when it is, and lines typed one behind the other
\* do not run into each other (uartio_hh.h:51-61).
LongLinesRefused ==
  calcPC = "send" => (answer.error = "BUFFER" <=> Len(Head(pending)) >= BufferSize)

\* "Parses the input with the grammar given below" (parser_hh.h:24): the parser,
\* which reads backwards with a lookahead, refuses the lines that the grammar
\* does not derive and no others.
AcceptsGrammar ==
  Answered => (answer.error = "SYNTAX" <=> meant = {})

\* "Usual order of operations is enforced, along with left associativity"
\* (parser_hh.h:62): a value that is answered is what the line means exactly, no
\* operation on the way to it has wrapped, and no variable was read unwritten.
ValuesAreExact ==
  Answered /\ answer.error = "none" =>
    meant = {Means(answer.value, {})}

\* "Only the most severe error will be addressed" (parser_hh.h:179).  What an
\* unwritten variable holds after an error never hides the error it came from,
\* but for one case: after an overflow it may pass for a division by zero.
ErrorsAreTrue ==
  Answered /\ answer.error \notin {"none", "SYNTAX"} =>
    \E m \in meant :
      \/ answer.error = MostSevere(m.errors)
      \/ answer.error = "DIV_BY_ZERO" /\ MostSevere(m.errors) = "OVERFLOW"

\* "Division by zero occurred." (parser_hh.h:189): an answer says so only if there
\* was one.
DivisionsAreReal ==
  Answered /\ answer.error = "DIV_BY_ZERO" =>
    \E m \in meant : "DIV_BY_ZERO" \in m.errors

\* A line is answered with its value if it has one that fits, with the worst of its errors
\* otherwise, and what earlier lines or unwritten variables hold makes no difference.
AnswersAreRight ==
  CalcTypeOK /\ LongLinesRefused /\ AcceptsGrammar /\ ValuesAreExact /\ ErrorsAreTrue

\* Each line that is typed is answered, unless the UART was overrun.
LinesAreAnswered == pending # <<>> ~> calcPC = "send" \/ overrun
===============================================================================
