---------------------------- MODULE MCRibParser ----------------------------
(* Instances of RibParser for TLC: a lexeme of each kind with what it      *)
(* means, a number in front of a letter, "#" in strings, comments and      *)
(* newlines between lexemes.                                               *)
EXTENDS RibParser

Par(t, v) == [type |-> t, value |-> v]
MCLexemes ==
    { [text |-> <<"e", "1">>, words |-> <<>>, param |-> Par("name", <<"e", "1">>)],
      [text |-> <<"1", "2">>, words |-> <<>>, param |-> Par("INT", 12)],
      [text |-> <<".", "2">>, words |-> <<>>, param |-> Par("FLOAT", 2)],
      [text |-> <<Quote, "#", " ", "1", Quote>>, words |-> <<>>,
       param |-> Par("STRING", <<"#", " ", "1">>)],
      [text |-> <<"[", "2", "nl", "1", ".", "2", " ", "1", "]">>,
       words |-> <<<<2, 2>>, <<4, 6>>, <<8, 8>>>>,
       param |-> Par("FLOAT_ARRAY", <<20, 12, 10>>)],
      [text |-> <<"[", Quote, "a", "#", Quote, " ", Quote, "1", Quote, "]">>,
       words |-> <<<<2, 5>>, <<7, 9>>>>,
       param |-> Par("STRING_ARRAY", << <<"a", "#">>, <<"1">> >>)] }
MCBlanks == {<<"nl">>, <<" ", "#", Quote, "nl">>}
=============================================================================
