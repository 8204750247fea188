---------------------------- MODULE MCParamScan ----------------------------
(* Every text of a few characters, and arrays of two elements. *)
EXTENDS ParamScan
CONSTANT MaxLen

Alphabet == Chars \ {"newline", "-"}
MCTexts == UNION {[1 .. n -> Alphabet] : n \in 0 .. MaxLen}

Element(kind, chars) == [kind |-> kind, chars |-> chars]
MCElements ==
  {Element("string", <<"a">>), Element("string", <<"1", "a">>),
   Element("number", <<"-", "1">>), Element("word", <<"a", "a">>),
   Element("object", <<Quote, "a", Quote, ",", "{", "]", "}", " ">>)}
MCArrays == {<<d>> : d \in MCElements} \cup {<<d, e>> : d, e \in MCElements}
MCGaps == {<<>>, <<"newline", " ">>}
=============================================================================
