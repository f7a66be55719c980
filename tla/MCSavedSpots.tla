---------------------------- MODULE MCSavedSpots ----------------------------
(* SavedSpots for TLC, with the genres a person gets by typing " Food",     *)
(* "_x" and "No Genre". The first survives its display, "_x" is displayed   *)
(* as " X" and parsed as "x", and "No Genre" is stored as "null".           *)
EXTENDS SavedSpots, TLC

LOCAL INSTANCE GenreText

MCNoGenre == NullRecord

MCFood == {parseInputToRecord(<<Space, Token("food", TRUE)>>)}
MCGenres == MCFood \cup
  {parseInputToRecord(t) : t \in {NoGenreText, <<Underscore, Token("x", FALSE)>>}}

MCReparse == [g \in Genres |-> Reparsed(g)]
=============================================================================
