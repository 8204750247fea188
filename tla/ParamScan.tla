----------------------------- MODULE ParamScan -----------------------------
(***************************************************************************)
(* The loop of evmdb_json_parse_params (src/src/rpc/json.c), character by  *)
(* character: JsonRpc has what it makes of a request's tokens, here are    *)
(* the pointer it moves over the text and the array it writes to.  A text  *)
(* starts behind the bracket that opens the params, and may be anything:   *)
(* what a client sent, or what a short read left of it.                    *)
(***************************************************************************)
EXTENDS Integers, Sequences, SequencesExt

CONSTANTS
  Texts,        \* texts that are no array, or the beginning of one
  Arrays,       \* the elements of arrays
  Gaps,         \* the blanks a client sets before elements
  MaxParams,    \* max_params
  ParamSize     \* the size of params[count]

Nul == "nul"
Quote == "quote"
Blanks == {" ", "newline"}
Digits == {"-", "1"}
Chars == Blanks \cup Digits \cup {Quote, "{", "}", ",", "]", "a"}

\* An element is the characters of a string, a number or a word, shorter than
\* params[count], or those inside an object.
Balanced(chars) ==
  LET braces(n, c) == Cardinality({i \in 1 .. n : chars[i] = c})
  IN /\ \A n \in DOMAIN chars : braces(n, "{") >= braces(n, "}")
     /\ braces(Len(chars), "{") = braces(Len(chars), "}")
IsElement(e) ==
  /\ e \in [kind : {"string", "number", "word", "object"}, chars : Seq(Chars)]
  /\ IF e.kind = "object" THEN Balanced(e.chars)
     ELSE Len(e.chars) < ParamSize /\ Range(e.chars) \subseteq Digits \cup {"a"}
  /\ e.kind = "number" => e.chars # <<>> /\ e.chars[1] \in Digits
  /\ e.kind = "word" => e.chars # <<>> /\ e.chars[1] \notin Digits

ASSUME ScanAssumption ==
  /\ Texts \subseteq Seq(Chars) /\ Gaps \subseteq Seq(Blanks)
  /\ MaxParams \in Nat /\ ParamSize \in Nat \ {0}
  /\ \A elements \in Arrays :
       /\ elements = [n \in 1 .. Len(elements) |-> elements[n]] /\ Len(elements) \in 0 .. MaxParams
       /\ \A n \in DOMAIN elements : IsElement(elements[n])

VARIABLES
  text,
  array,        \* the elements the client wrote, if the text is an array
  pc,           \* which loop the thread is in, or "done"
  pos,          \* the character it looks at
  depth,        \* of the object it skips
  item,         \* params[count] as far as it is written
  params        \* the ones before; count is their number

vars == <<text, array, pc, pos, depth, item, params>>

\* *pos
At == IF pos <= Len(text) THEN text[pos] ELSE Nul

----------------------------------------------------------------------------
Written(e) ==
  CASE e.kind = "string" -> <<Quote>> \o e.chars \o <<Quote>>
    [] e.kind = "object" -> <<"{">> \o e.chars \o <<"}">>
    [] OTHER -> e.chars

ArrayText(elements, gap) ==
  FlattenSeq([n \in DOMAIN elements |->
    (IF n > 1 THEN <<",">> ELSE <<>>) \o gap \o Written(elements[n])]) \o gap \o <<"]">>

Init ==
  /\ \/ text \in Texts /\ array = <<>>
     \/ array \in Arrays /\ \E gap \in Gaps : text = ArrayText(array, gap)
  /\ pc = "params" /\ pos = 1 /\ depth = 0 /\ item = <<>> /\ params = <<>>

\* The condition of the outer loop.
params_loop ==
  /\ pc = "params"
  /\ pc' = IF At \in {Nul, "]"} \/ Len(params) = MaxParams THEN "done" ELSE "blanks"
  /\ UNCHANGED <<text, array, pos, depth, item, params>>

\* Blanks and commas are skipped, then the character decides.
blanks_loop ==
  /\ pc = "blanks"
  /\ \/ At \in Blanks \cup {","} /\ pos' = pos + 1 /\ UNCHANGED <<pc, depth>>
     \/ At = "]" /\ pc' = "done" /\ UNCHANGED <<pos, depth>>
     \/ At = Quote /\ pc' = "string" /\ pos' = pos + 1 /\ UNCHANGED depth
     \/ At = "{" /\ pc' = "object" /\ pos' = pos + 1 /\ depth' = 1
     \/ At \in Digits /\ pc' = "number" /\ UNCHANGED <<pos, depth>>
     \/ /\ At \notin Blanks \cup Digits \cup {",", "]", Quote, "{"}
        /\ pc' = "other" /\ UNCHANGED <<pos, depth>>
  /\ UNCHANGED <<text, array, item, params>>

\* One turn of a copying loop.
CopyChar ==
  /\ item' = Append(item, At) /\ pos' = pos + 1
  /\ UNCHANGED <<text, array, pc, depth, params>>

\* count++, and back to the outer loop.
NextParam(value) ==
  /\ params' = Append(params, value) /\ item' = <<>> /\ pc' = "params"
  /\ UNCHANGED <<text, array, depth>>

string_loop_no_limit ==
  /\ pc = "string"
  /\ \/ At \notin {Nul, Quote} /\ CopyChar
     \/ At \in {Nul, Quote} /\ NextParam(item) /\ pos' = pos + 1

string_loop ==
  LET more == At \notin {Nul, Quote} /\ Len(item) < ParamSize - 1
  IN /\ pc = "string"
     /\ \/ more /\ CopyChar
        \/ ~more /\ NextParam(item) /\ pos' = IF At = Quote THEN pos + 1 ELSE pos


object_loop ==
  /\ pc = "object"
  /\ \/ /\ At # Nul /\ depth > 0
        /\ pos' = pos + 1
        /\ depth' = CASE At = "{" -> depth + 1 [] At = "}" -> depth - 1 [] OTHER -> depth
        /\ UNCHANGED <<text, array, pc, item, params>>
     \/ (At = Nul \/ depth = 0) /\ NextParam(<<"{object}">>) /\ UNCHANGED pos

number_loop ==
  LET more == At \notin {Nul, ",", "]"} /\ Len(item) < ParamSize - 1
  IN /\ pc = "number"
     /\ \/ more /\ CopyChar
        \/ ~more /\ NextParam(item) /\ UNCHANGED pos

other_loop_stays ==
  pc = "other" /\ pc' = "blanks" /\ UNCHANGED <<text, array, pos, depth, item, params>>

\* null, true, false or anything else is skipped; params[count] stays empty.
other_loop ==
  /\ pc = "other"
  /\ \/ /\ At \notin {Nul, ",", "]"}
        /\ pos' = pos + 1 /\ UNCHANGED <<text, array, pc, depth, item, params>>
     \/ At \in {Nul, ",", "]"} /\ NextParam(<<>>) /\ UNCHANGED pos

Next ==
  \/ params_loop \/ blanks_loop
  \/ string_loop \/ object_loop \/ number_loop \/ other_loop

\* The thread runs on.
Spec == Init /\ [][Next]_vars /\ WF_vars(Next)

----------------------------------------------------------------------------
\* Whatever the text, no loop looks behind its terminating zero, no parameter
\* is written beyond its 256 bytes, the zero at its end included, and none
\* behind the last row of params.
ScanStaysInside ==
  /\ pos <= Len(text) + 1
  /\ Len(item) < ParamSize
  /\ pc \notin {"params", "blanks", "done"} => Len(params) < MaxParams

\* The text each element is handed over as: a string and a number as they are,
\* the blanks behind a number included, a word as nothing.
HandedOver(e, value) ==
  CASE e.kind = "string" -> value = e.chars
    [] e.kind = "number" -> IsPrefix(e.chars, value)
    [] e.kind = "object" -> value = <<"{object}">>
    [] e.kind = "word" -> value = <<>>


\* Every text, complete, cut short or no array at all, is dealt with: in each
\* branch of evmdb_json_parse_params the pointer moves on or the loop ends.
ScanEnds == <>(pc = "done")
=============================================================================
