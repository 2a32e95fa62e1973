---------------------------- MODULE MCKnowledge ----------------------------
(* A small instance of Knowledge for TLC, with chunks of at most three runes. *)
EXTENDS Knowledge

(* A text cut at a sentence, at white space and into a blank chunk; a short   *)
(* one; and one with nothing in it.                                          *)
MCTexts ==
    {<<"letter", "stop", "letter", "letter", "space", "space", "space", "space", "letter">>,
     <<"letter", "letter">>, <<>>}
=============================================================================
