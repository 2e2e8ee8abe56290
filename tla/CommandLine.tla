----------------------------- MODULE CommandLine -----------------------------
(***************************************************************************)
(* How the page takes a line apart (smartSplit and parseAndRun of          *)
(* ui/app.js).                                                             *)
(*                                                                         *)
(* A line is a sequence of tokens: blanks, quote characters and ordinary   *)
(* ones.  An ordinary token stands for a run of letters, such as the name  *)
(* of a command, in lower case where the code lowers it.                   *)
(***************************************************************************)
EXTENDS Integers, Sequences, SequencesExt

CONSTANTS
  Gap,   \* blanks and tabs
  Mark,  \* the quote characters
  NoMark \* not inside quotes

-----------------------------------------------------------------------------
(* String.trim.                                                            *)

\* The line without the blanks at either end.
Trim(line) ==
  LET inside == {k \in DOMAIN line : line[k] \notin Gap}
  IN  IF inside = {} THEN <<>> ELSE SubSeq(line, Min(inside), Max(inside))

-----------------------------------------------------------------------------
(* smartSplit.                                                             *)

Fresh == [words |-> <<>>, cur |-> <<>>, mark |-> NoMark]

\* A word ends; an empty one, quoted or not, is no word.
Flush(st) ==
  IF st.cur = <<>> THEN st ELSE [st EXCEPT !.words = Append(@, st.cur), !.cur = <<>>]

\* One token: a closing quote, an opening one, the end of a word, or a part
\* of one.  A quote does not end a word.
Scan(st, c) ==
  CASE c = st.mark                               -> [st EXCEPT !.mark = NoMark]
    [] st.mark = NoMark /\ c \in Mark            -> [st EXCEPT !.mark = c]
    [] st.mark = NoMark /\ c \in Gap             -> Flush(st)
    [] OTHER                                     -> [st EXCEPT !.cur = Append(@, c)]

\* What is known after k tokens.
Scanned(line) ==
  LET read[k \in 0 .. Len(line)] == IF k = 0 THEN Fresh ELSE Scan(read[k - 1], line[k])
  IN  read

\* Quotes left open run to the end of the line.
Split(line) == Flush(Scanned(line)[Len(line)]).words

-----------------------------------------------------------------------------
(* The text of write and append.                                           *)

\* Words joined by single blanks.
Join(words, gap) ==
  FoldLeft(LAMBDA text, w : IF text = <<>> THEN w ELSE text \o <<gap>> \o w, <<>>, words)

\* One quote character goes at either end.
Stripped(text) ==
  LET tail == IF text # <<>> /\ Head(text) \in Mark THEN Tail(text) ELSE text
  IN  IF tail # <<>> /\ Last(tail) \in Mark THEN Front(tail) ELSE tail
=============================================================================
