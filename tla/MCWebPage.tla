------------------------------ MODULE MCWebPage ------------------------------
(***************************************************************************)
(* A page with a volume of 3 data blocks of 2 bytes and of 2 inodes, and a *)
(* terminal for the commands that create, show and remove files, that      *)
(* advance the tutorial or launch confetti, and that refuse.  How the      *)
(* others change the volume is the business of MCWebVolume.                *)
(***************************************************************************)
EXTENDS WebPage

\* Names of one token, and one with a blank.
MCName == {<<t>> : t \in {"a", "b", "x", "12", "2"}} \cup {<<"a", " ", "b">>}
MCChar == {"a", "b", "x", " ", "'", "\"", "12", "2"} \cup CmdWord

MCQuotes == "\""
MCMark   == {"'", MCQuotes}

MCParseInt(w)  == CASE w = <<"12">> -> 12 [] w = <<"2">> -> 2 [] OTHER -> NaN
MCParseMode(w) == 0

\* create "a b" makes a name with a blank.
MCLine ==
  {<<"create", " ", "\"", "a", " ", "b", "\"">>,
   <<"format", " ", "12", " ", "2">>,
   <<"delete", " ", "b">>,
   <<"append", " ", "b", " ", "x">>,
   <<"read", " ", "b">>,
   <<"ls">>, <<"statfs">>, <<"fsck">>, <<"help">>, <<"clear">>, <<" ">>}

MCNewName == {<<"a">>}

\* A text with a blank at its end: two characters, one block.
MCTyped == {<<"x", " ">>}
=============================================================================
