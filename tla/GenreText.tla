----------------------------- MODULE GenreText ------------------------------
(***************************************************************************)
(* The names of genres (Utilities): what a person types is stored as a      *)
(* record, a record is displayed as a text, and selecting a row parses the  *)
(* displayed text back.  A text is a sequence of words, spaces and          *)
(* underscores; a word is told by its letters and its first one's case.     *)
(***************************************************************************)
EXTENDS Naturals, FiniteSets, SequencesExt

Token(word, upper) == [word |-> word, upper |-> upper]
\* The letters of words are given in lower case, so no word has these.
Space == Token("SPACE", FALSE)
Underscore == Token("UNDERSCORE", FALSE)

\* NO_GENRE, and the text displayed for it.
NullRecord == <<Token("null", FALSE)>>
NoGenreText == <<Token("no", TRUE), Space, Token("genre", TRUE)>>

connectors == {"of", "the", "and", "by", "at", "on", "in", "for", "with"}

\* trimmingCharacters: without the spaces at both ends.
Trim(text) ==
  LET kept == {i \in 1..Len(text) : text[i] # Space}
  IN  IF kept = {} THEN <<>> ELSE SubSeq(text, Min(kept), Max(kept))

Lowercased(token) == IF token = Space THEN Underscore ELSE Token(token.word, FALSE)

parseInputToRecord(text) ==
  LET clean == Trim(text)
  IN  IF clean = NoGenreText THEN NullRecord
      ELSE [i \in 1..Len(clean) |-> Lowercased(clean[i])]

Displayed(token) ==
  IF token = Underscore THEN Space
  ELSE Token(token.word, token.word \notin connectors)

parseRecordToDisplayText(record) ==
  IF record = NullRecord THEN NoGenreText
  ELSE [i \in 1..Len(record) |-> Displayed(record[i])]

\* What didSelectRowAt makes of the row that displays a record.
Reparsed(record) == parseInputToRecord(parseRecordToDisplayText(record))
=============================================================================
