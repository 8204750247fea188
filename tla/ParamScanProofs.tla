-------------------------- MODULE ParamScanProofs --------------------------
(***************************************************************************)
(* What evmdb_json_parse_params reads and writes stays inside the text and *)
(* inside params: for every text and for any sizes.                        *)
(***************************************************************************)
EXTENDS ParamScan, SequenceLemmas

\* ScanStaysInside is not inductive: an element is begun because there is a row
\* left for it, which the skipping of blanks before it must remember, and only
\* a copying loop leaves something in item.
ScanInv ==
  /\ Len(text) \in Nat /\ pos \in Nat /\ 1 <= pos /\ pos <= Len(text) + 1
  /\ item \in Seq(Chars) /\ Len(item) < ParamSize
  /\ pc \in {"params", "blanks", "string", "object", "number", "other", "done"}
  /\ pc \notin {"string", "number"} => item = <<>>
  /\ Len(params) \in Nat /\ Len(params) <= MaxParams
  /\ params \in Seq(Seq(Chars \cup {"{object}"}))
  /\ pc \notin {"params", "done"} => Len(params) < MaxParams
  /\ text \in Seq(Chars)

\* What joining and growing sequences gives.
LEMMA Joined3 ==
  ASSUME NEW A, NEW s \in Seq(A), NEW t \in Seq(A), NEW u \in Seq(A)
  PROVE  s \o t \o u \in Seq(A)
<1>1. s \o t \in Seq(A)
  OBVIOUS
<1>. QED
  BY <1>1

LEMMA OneMore ==
  ASSUME NEW A, NEW s \in Seq(A), NEW x \in A
  PROVE  Append(s, x) \in Seq(A) /\ Len(Append(s, x)) = Len(s) + 1 /\ Len(s) \in Nat
OBVIOUS

LEMMA Larger ==
  ASSUME NEW A, NEW B, A \subseteq B, NEW s \in Seq(A)
  PROVE  s \in Seq(B)
<1>1. Len(s) \in Nat /\ s = [i \in 1 .. Len(s) |-> s[i]] /\ \A i \in 1 .. Len(s) : s[i] \in B
  OBVIOUS
<1>. QED
  BY <1>1

\* The sizes of params.
LEMMA Sizes == MaxParams \in Nat /\ ParamSize \in Nat /\ 0 < ParamSize
<1>1. MaxParams \in Nat /\ ParamSize \in Nat /\ ParamSize # 0
  BY ScanAssumption
<1>. QED
  BY <1>1

LEMMA EmptySeq == ASSUME NEW A PROVE <<>> \in Seq(A) /\ Len(<<>>) = 0
OBVIOUS

\* Room for one more.
LEMMA Room ==
  ASSUME NEW n \in Nat, NEW limit \in Nat
  PROVE  /\ n < limit => n + 1 <= limit
         /\ n < limit - 1 => n + 1 < limit
         /\ n <= limit /\ n # limit => n < limit
         /\ n <= limit => n + 1 <= limit + 1
OBVIOUS

LEMMA RowLeft ==
  ASSUME NEW old \in Nat, NEW new, old < MaxParams, new = old + 1
  PROVE  new \in Nat /\ new <= MaxParams
BY Sizes

\* The texts of clients are sequences of characters.
LEMMA TextsAre ==
  ASSUME NEW elements \in Arrays, NEW gap \in Gaps
  PROVE  ArrayText(elements, gap) \in Seq(Chars)
<1> DEFINE piece(n) == (IF n > 1 THEN <<",">> ELSE <<>>) \o gap \o Written(elements[n])
           pieces == [n \in DOMAIN elements |-> piece(n)]
<1>1. Len(elements) \in Nat /\ DOMAIN elements = 1 .. Len(elements)
  BY ScanAssumption
<1>2. <<",">> \in Seq(Chars) /\ <<"]">> \in Seq(Chars) /\ <<>> \in Seq(Chars)
  BY DEF Chars
<1>3. gap \in Seq(Chars)
  <2>1. gap \in Seq(Blanks) /\ Blanks \subseteq Chars
    BY ScanAssumption DEF Chars
  <2>. QED
    BY <2>1, Larger
<1>4. ASSUME NEW n \in DOMAIN elements PROVE Written(elements[n]) \in Seq(Chars)
  <2>1. /\ elements[n].chars \in Seq(Chars)
    BY ScanAssumption DEF IsElement
  <2>2. <<Quote>> \in Seq(Chars) /\ <<"{">> \in Seq(Chars) /\ <<"}">> \in Seq(Chars)
    BY DEF Chars
  <2>3. /\ <<Quote>> \o elements[n].chars \o <<Quote>> \in Seq(Chars)
        /\ <<"{">> \o elements[n].chars \o <<"}">> \in Seq(Chars)
    BY <2>1, <2>2, Joined3
  <2>. QED
    BY <2>1, <2>3 DEF Written
<1>5. ASSUME NEW n \in DOMAIN elements PROVE piece(n) \in Seq(Chars)
  <2>1. (IF n > 1 THEN <<",">> ELSE <<>>) \in Seq(Chars)
    BY <1>2
  <2>. QED
    BY <1>3, <1>4, <2>1, Joined3
<1>. HIDE DEF piece
<1>6. pieces \in Seq(Seq(Chars))
  BY <1>1, <1>5
<1>. HIDE DEF pieces
<1>7. FlattenSeq(pieces) \in Seq(Chars)
  BY <1>2, <1>6, FlattenAppend
<1>8. FlattenSeq(pieces) \o gap \o <<"]">> \in Seq(Chars)
  BY <1>2, <1>3, <1>7, Joined3
<1>. QED
  BY <1>8 DEF ArrayText, pieces, piece

\* The scan starts inside.
LEMMA ScanInit == Init => ScanInv
<1>. SUFFICES ASSUME Init PROVE ScanInv
  OBVIOUS
<1>1. text \in Seq(Chars)
  BY TextsAre, ScanAssumption DEF Init
<1>2. Len(text) \in Nat /\ pos = 1
  BY <1>1 DEF Init
<1>3. item = <<>> /\ params = <<>> /\ pc = "params"
  BY DEF Init
<1>. QED
  BY <1>1, <1>2, <1>3, ScanAssumption DEF ScanInv

\* Where there is a character, there is a next position.
LEMMA NextPos ==
  ASSUME ScanInv, At # Nul
  PROVE  pos + 1 \in Nat /\ 1 <= pos + 1 /\ pos + 1 <= Len(text) + 1 /\ At \in Chars
<1>1. Len(text) \in Nat /\ pos \in Nat /\ text \in Seq(Chars) /\ 1 <= pos
  BY DEF ScanInv
<1>2. pos <= Len(text) /\ At = text[pos]
  BY DEF At
<1>3. At \in Chars
  BY <1>1, <1>2
<1>. QED
  BY <1>1, <1>2, <1>3, Room

\* A copying loop writes only while there is room.
LEMMA CopyKeeps ==
  ASSUME ScanInv, CopyChar, At # Nul, Len(item) < ParamSize - 1, pc \in {"string", "number"}
  PROVE  ScanInv'
<1>0. At \in Chars /\ item \in Seq(Chars) /\ item' = Append(item, At)
  BY NextPos DEF CopyChar, ScanInv
<1>1. item' \in Seq(Chars) /\ Len(item') = Len(item) + 1 /\ Len(item) \in Nat
  BY <1>0, OneMore
<1>2. Len(item') < ParamSize
  BY <1>1, Sizes, Room
<1>3. pos' \in Nat /\ 1 <= pos' /\ pos' <= Len(text) + 1
  BY NextPos DEF CopyChar
<1>. QED
  BY <1>1, <1>2, <1>3 DEF CopyChar, ScanInv

\* An element that ends has had a row to itself.
LEMMA ParamKeeps ==
  ASSUME ScanInv, NEW value \in Seq(Chars \cup {"{object}"}), NextParam(value),
         pc \in {"string", "object", "number", "other"},
         pos' \in Nat, 1 <= pos', pos' <= Len(text) + 1
  PROVE  ScanInv'
<1> DEFINE Values == Seq(Chars \cup {"{object}"})
<1>0. params \in Seq(Values) /\ params' = Append(params, value) /\ Len(params) < MaxParams
  BY DEF NextParam, ScanInv
<1>1. params' \in Seq(Values) /\ Len(params') = Len(params) + 1 /\ Len(params) \in Nat
  <2> HIDE DEF Values
  <2>1. value \in Values
    BY DEF Values
  <2>. QED
    BY <1>0, <2>1, OneMore
<1>2. Len(params') \in Nat /\ Len(params') <= MaxParams
  <2> DEFINE old == Len(params)
             new == Len(params')
  <2>1. old \in Nat /\ old < MaxParams /\ new = old + 1
    BY <1>0, <1>1
  <2> HIDE DEF old, new
  <2>2. new \in Nat /\ new <= MaxParams
    BY <2>1, RowLeft
  <2>. QED
    BY <2>2 DEF new
<1>3. item' = <<>> /\ item' \in Seq(Chars) /\ Len(item') < ParamSize
  <2>1. item' = <<>>
    BY DEF NextParam
  <2>. QED
    BY <2>1, EmptySeq, Sizes
<1>. QED
  BY <1>1, <1>2, <1>3 DEF NextParam, ScanInv

\* Every turn of every loop stays inside.
LEMMA ScanStep == ScanInv /\ [Next]_vars => ScanInv'
<1>. SUFFICES ASSUME ScanInv, [Next]_vars PROVE ScanInv'
  OBVIOUS
<1>0. item \in Seq(Chars \cup {"{object}"})
  <2>1. item \in Seq(Chars)
    BY DEF ScanInv
  <2>2. Chars \subseteq Chars \cup {"{object}"}
    OBVIOUS
  <2>. QED
    BY <2>1, <2>2, Larger
<1>1. CASE params_loop
  <2>1. Len(params) # MaxParams => Len(params) < MaxParams
    <3>1. Len(params) \in Nat /\ Len(params) <= MaxParams /\ MaxParams \in Nat
      BY Sizes DEF ScanInv
    <3>. QED
      BY <3>1, Room
  <2>2. UNCHANGED <<text, array, pos, depth, item, params>> /\ item = <<>>
    BY <1>1 DEF params_loop, ScanInv
  <2>3. pc' = "done" \/ (pc' = "blanks" /\ Len(params) # MaxParams)
    BY <1>1 DEF params_loop
  <2>. QED
    BY <2>1, <2>2, <2>3 DEF ScanInv
<1>2. CASE blanks_loop
  <2>1. pos' \in Nat /\ 1 <= pos' /\ pos' <= Len(text) + 1
    <3>1. Nul \notin Blanks \cup {",", Quote, "{"}
      BY DEF Nul, Blanks, Quote
    <3>2. pos' = pos \/ (pos' = pos + 1 /\ At # Nul)
      BY <1>2, <3>1 DEF blanks_loop
    <3>. QED
      BY <3>2, NextPos DEF ScanInv
  <2>. QED
    BY <1>2, <2>1 DEF blanks_loop, ScanInv
<1>3. CASE string_loop
  <2>1. CASE At \notin {Nul, Quote} /\ Len(item) < ParamSize - 1 /\ CopyChar
    BY <1>3, <2>1, CopyKeeps DEF string_loop
  <2>2. CASE NextParam(item) /\ pos' = IF At = Quote THEN pos + 1 ELSE pos
    <3>1. pos' \in Nat /\ 1 <= pos' /\ pos' <= Len(text) + 1
      BY <2>2, NextPos DEF ScanInv, Nul, Quote
    <3>. QED
      BY <1>0, <1>3, <2>2, <3>1, ParamKeeps DEF string_loop
  <2>. QED
    BY <1>3, <2>1, <2>2 DEF string_loop
<1>4. CASE object_loop
  <2>1. CASE UNCHANGED <<text, array, pc, item, params>> /\ At # Nul /\ pos' = pos + 1
    BY <2>1, NextPos DEF ScanInv
  <2>2. CASE NextParam(<<"{object}">>) /\ UNCHANGED pos
    <3>1. <<"{object}">> \in Seq(Chars \cup {"{object}"})
      OBVIOUS
    <3>2. pos' \in Nat /\ 1 <= pos' /\ pos' <= Len(text) + 1
      BY <2>2 DEF ScanInv
    <3>. QED
      BY <1>4, <2>2, <3>1, <3>2, ParamKeeps DEF object_loop
  <2>. QED
    BY <1>4, <2>1, <2>2 DEF object_loop
<1>5. CASE number_loop
  <2>1. CASE At \notin {Nul, ",", "]"} /\ Len(item) < ParamSize - 1 /\ CopyChar
    BY <1>5, <2>1, CopyKeeps DEF number_loop
  <2>2. CASE NextParam(item) /\ UNCHANGED pos
    <3>1. pos' \in Nat /\ 1 <= pos' /\ pos' <= Len(text) + 1
      BY <2>2 DEF ScanInv
    <3>. QED
      BY <1>0, <1>5, <2>2, <3>1, ParamKeeps DEF number_loop
  <2>. QED
    BY <1>5, <2>1, <2>2 DEF number_loop
<1>6. CASE other_loop
  <2>1. CASE UNCHANGED <<text, array, pc, depth, item, params>> /\ At # Nul /\ pos' = pos + 1
    BY <2>1, NextPos DEF ScanInv
  <2>2. CASE NextParam(<<>>) /\ UNCHANGED pos
    <3>1. <<>> \in Seq(Chars \cup {"{object}"})
      OBVIOUS
    <3>2. pos' \in Nat /\ 1 <= pos' /\ pos' <= Len(text) + 1
      BY <2>2 DEF ScanInv
    <3>. QED
      BY <1>6, <2>2, <3>1, <3>2, ParamKeeps DEF other_loop
  <2>. QED
    BY <1>6, <2>1, <2>2 DEF other_loop
<1>7. CASE UNCHANGED vars
  BY <1>7 DEF vars, ScanInv
<1>. QED
  BY <1>1, <1>2, <1>3, <1>4, <1>5, <1>6, <1>7 DEF Next

----------------------------------------------------------------------------
\* Whatever text reaches the scan, complete, cut short or no array, it never
\* looks behind the terminating zero and never writes outside params.
THEOREM ScanNeverLeavesItsBuffers == Spec => []ScanStaysInside
<1>1. ScanInv => ScanStaysInside
  BY DEF ScanInv, ScanStaysInside
<1>. QED
  BY <1>1, ScanInit, ScanStep, PTL DEF Spec

=============================================================================
