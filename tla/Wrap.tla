-------------------------------- MODULE Wrap --------------------------------
(***************************************************************************)
(* print_wrapped() of src/src/wrap.c, by which pb prints its text.         *)
(*                                                                         *)
(* A text is a sequence of items: a positive number is a word of that many *)
(* characters, Blank and Newline are the characters that separate words.   *)
(* What is printed is a sequence of words and of line breaks; of these     *)
(* Newline is one of the text's own and Break one that the wrapping added. *)
(***************************************************************************)
EXTENDS Integers, Sequences

CONSTANTS
  Texts,            \* the texts that are printed
  Cols              \* the width, -w of pb or COLUMNS of the environment

Blank   == 0
Newline == -1
Break   == -2

IsWord(item) == item > 0

ASSUME ColsAssumption  == Cols \in Int \ {0}
ASSUME TextsAssumption ==
  \A t \in Texts :
    /\ t \in Seq(Int)
    /\ \A i \in 1 .. Len(t)     : t[i] >= Newline
    /\ \A i \in 1 .. Len(t) - 1 : ~(IsWord(t[i]) /\ IsWord(t[i + 1]))

VARIABLES
  text,             \* the argument s
  rest,             \* what s points to after all increments
  skipping,         \* whether the inner loop has skipped a separator
  start,            \* are we at the start of a line?
  space,            \* how much space is left to fill?
  out,              \* what was printed, without the blanks after words
  col,              \* auxiliary: the characters on the current line
  words             \* auxiliary: the words on the current line

vars == <<text, rest, skipping, start, space, out, col, words>>
-----------------------------------------------------------------------------
\* nextword_length(): nothing at a separator and at the end.
NextwordLength == IF rest # <<>> /\ IsWord(Head(rest)) THEN Head(rest) ELSE 0

Init ==
  /\ text \in Texts
  /\ rest = text
  /\ skipping = FALSE
  /\ start = TRUE
  /\ space = Cols - 1
  /\ out = <<>>
  /\ col = 0 /\ words = 0

\* A slip: the space is not reset at a newline of the text.
NewlineKeepsSpace ==
  /\ out' = Append(out, Newline)
  /\ start' = TRUE
  /\ col' = 0 /\ words' = 0
  /\ UNCHANGED space

\* A slip: an empty line is not printed.
NewlineSquashed ==
  /\ out' = IF start THEN out ELSE Append(out, Newline)
  /\ start' = TRUE
  /\ space' = Cols - 1
  /\ col' = 0 /\ words' = 0

\* A newline of the text is printed and begins a line.
NewlineSkipped ==
  /\ out' = Append(out, Newline)
  /\ start' = TRUE
  /\ space' = Cols - 1
  /\ col' = 0 /\ words' = 0

\* A slip: a blank is given back to the line.
BlankRefunded == space' = space + 1 /\ UNCHANGED <<out, start, col, words>>

BlankSkipped == UNCHANGED <<out, start, space, col, words>>

\* A slip: s is advanced at newlines only.
SkipStaysAtBlank ==
  /\ rest # <<>> /\ ~IsWord(Head(rest))
  /\ IF Head(rest) = Newline THEN NewlineSkipped ELSE BlankSkipped
  /\ rest' = IF Head(rest) = Newline THEN Tail(rest) ELSE rest
  /\ skipping' = TRUE
  /\ UNCHANGED text

\* An iteration of the loop that skips whitespace.
Skip ==
  /\ rest # <<>> /\ ~IsWord(Head(rest))
  /\ IF Head(rest) = Newline THEN NewlineSkipped ELSE BlankSkipped
  /\ rest' = Tail(rest)
  /\ skipping' = TRUE
  /\ UNCHANGED text

\* The skipping stopped at a word or at the end of the text.
AtWord == (rest # <<>> /\ IsWord(Head(rest))) \/ (rest = <<>> /\ skipping)

Breaks == NextwordLength > space /\ ~start

\* A slip: the blank after the word is not counted.
SpaceWithoutBlank == (IF Breaks THEN Cols - 1 ELSE space) - NextwordLength

\* The space that is left once the word and a blank are on their line.
SpaceAfterWord == (IF Breaks THEN Cols - 1 ELSE space) - (NextwordLength + 1)

\* The line is broken if the word does not fit; the word, which at the end of
\* the text is none, is printed with a blank after it.
PutWord ==
  /\ AtWord
  /\ LET line == IF Breaks THEN Append(out, Break) ELSE out
         n    == NextwordLength
     IN  /\ out'   = IF n > 0 THEN Append(line, n) ELSE line
         /\ rest'  = IF n > 0 THEN Tail(rest) ELSE rest
         /\ col'   = (IF Breaks THEN 0 ELSE col) + n + 1
         /\ words' = (IF Breaks THEN 0 ELSE words) + (IF n > 0 THEN 1 ELSE 0)
  /\ space' = SpaceAfterWord
  /\ start' = FALSE /\ skipping' = FALSE
  /\ UNCHANGED text

\* The outer loop ends.
Finished == rest = <<>> /\ ~skipping /\ UNCHANGED vars

Next == Skip \/ PutWord \/ Finished

Spec     == Init /\ [][Next]_vars
FairSpec == Spec /\ WF_vars(Skip \/ PutWord)
-----------------------------------------------------------------------------
TypeOK ==
  /\ rest \in Seq(Int) /\ out \in Seq(Int)
  /\ skipping \in BOOLEAN /\ start \in BOOLEAN
  /\ space \in Int /\ space < Cols
  /\ col \in Nat /\ words \in Nat

\* A line holds no more characters than there are columns, its last blank
\* included, unless it is a single word that is too long for any line.
LineFits == col <= Cols \/ words <= 1

\* No line is broken while the next word would still fit.
BreaksOnlyFullLines ==
  [][ Len(out') > Len(out) /\ out'[Len(out) + 1] = Break =>
        col + NextwordLength + 1 > Cols ]_vars

\* The line breaks of the text and its words, without the blanks.
Shows(item) == IsWord(item) \/ item = Newline

Visible(items) ==
  LET upto[n \in 0 .. Len(items)] ==
        IF n = 0 THEN <<>>
        ELSE IF Shows(items[n]) THEN Append(upto[n - 1], items[n])
        ELSE upto[n - 1]
  IN  upto[Len(items)]

\* Words and line breaks of the text are printed once each and in order.
TextKept == Visible(out) \o Visible(rest) = Visible(text)

\* The printing ends.
Ends == <>(rest = <<>> /\ ~skipping)
=============================================================================
