------------------------- MODULE RpcDispatchProofs -------------------------
(***************************************************************************)
(* evmdb_rpc_handle_request, for every batch of requests that clients may  *)
(* send, in every layout, complete or cut short at any token, with or      *)
(* without allocation failures: raw transactions are handed to the write   *)
(* path as the client means them, each at most once and in order; every    *)
(* request of a complete text gets its own answer; and no write leaves the *)
(* response buffer.                                                        *)
(*                                                                         *)
(* The argument, from the bottom: what the scans of json.c return; where   *)
(* the items of a rendered text stand and how deep its braces are; what    *)
(* the searches of dispatch_single find in the text of a request, whole or *)
(* cut (DispatchCut, DispatchWhole); what the batch loop cuts out of the   *)
(* text of a batch (TokenPassed, ObjectTaken); and the invariant           *)
(* DispatchInv, which says how far the loop is: i elements are behind p,   *)
(* what ran and what is answered follows the first i requests.             *)
(***************************************************************************)
EXTENDS RpcDispatch, SequenceLemmas, FiniteSetTheorems

----------------------------------------------------------------------------
(* The scans of json.c.                                                    *)

\* The smallest number of a set.
LEMMA MinIs ==
  ASSUME NEW S \in SUBSET Int, NEW x \in S, \A y \in S : x <= y
  PROVE  Min(S) = x
<1> DEFINE m == CHOOSE z \in S : \A y \in S : z <= y
<1>1. m \in S /\ \A y \in S : m <= y
  OBVIOUS
<1>2. Min(S) = m
  BY DEF Min
<1> HIDE DEF m
<1>3. m <= x /\ x <= m /\ m \in Int /\ x \in Int
  BY <1>1
<1>4. QED
  BY <1>2, <1>3

\* A set of positions has a first.
LEMMA First ==
  ASSUME NEW S \in SUBSET Nat, S # {}
  PROVE  \E x \in S : \A y \in S : x <= y
<1> SUFFICES ASSUME \A x \in S : \E y \in S : y < x PROVE FALSE
  OBVIOUS
<1> DEFINE T == {n \in Nat : \A m \in 0 .. n : m \notin S}
<1>1. 0 \in T
  OBVIOUS
<1>2. ASSUME NEW n \in Nat, n \in T PROVE n + 1 \in T
  <2> SUFFICES ASSUME NEW m \in 0 .. n + 1, m \in S PROVE FALSE
    OBVIOUS
  <2>1. PICK y \in S : y < m
    OBVIOUS
  <2>2. y \in 0 .. n
    BY <2>1
  <2>3. QED
    BY <1>2, <2>2
<1> HIDE DEF T
<1>3. \A n \in Nat : n \in T
  BY <1>1, <1>2, NatSetInduction
<1>4. \A n \in Nat : n \notin S
  BY <1>3 DEF T
<1>5. QED
  BY <1>4

\* A loop that skips tokens stops at q when it skips all before q and not q.
LEMMA SkipAllStops ==
  ASSUME NEW A, NEW t \in Seq(A), NEW from \in Nat \ {0}, NEW kinds,
         NEW q \in from .. Len(t) + 1,
         \A x \in from .. q - 1 : t[x].k \in kinds,
         q <= Len(t) => t[q].k \notin kinds
  PROVE  SkipAll(t, from, kinds) = q
<1> DEFINE hits == {x \in from .. Len(t) : t[x].k \notin kinds}
<1>0. Len(t) \in Nat
  OBVIOUS
<1>1. CASE q <= Len(t)
  <2>1. q \in hits /\ hits \in SUBSET Int /\ \A y \in hits : q <= y
    BY <1>0, <1>1
  <2> HIDE DEF hits
  <2>2. Min(hits) = q /\ hits # {}
    BY <2>1, MinIs
  <2>3. QED
    BY <2>2 DEF SkipAll, FirstOf, hits
<1>2. CASE q = Len(t) + 1
  <2>1. hits = {}
    BY <1>0, <1>2
  <2>2. FirstOf(hits, t, from) = q
    BY <1>0, <1>2, <2>1 DEF FirstOf
  <2>3. QED
    BY <2>2 DEF SkipAll
<1>3. QED
  BY <1>0, <1>1, <1>2

\* The tokens from a position on that read like a name.
Hits(t, from, key) == {q \in from .. Len(t) : t[q].k = "str" /\ t[q].v = key}

\* strstr finds the first of them, or nothing.
LEMMA FindValueIs ==
  ASSUME NEW A, NEW t \in Seq(A), NEW from \in Nat, NEW key
  PROVE  /\ Hits(t, from, key) = {} => find_value(t, from, key) = 0
         /\ \A h \in Hits(t, from, key) :
              (\A y \in Hits(t, from, key) : h <= y) =>
                find_value(t, from, key) = SkipAll(t, h + 1, {"sp", ":"})
<1>1. Hits(t, from, key) = {} => find_value(t, from, key) = 0
  BY DEF find_value, Hits
<1>2. ASSUME NEW h \in Hits(t, from, key), \A y \in Hits(t, from, key) : h <= y
      PROVE  find_value(t, from, key) = SkipAll(t, h + 1, {"sp", ":"})
  <2>1. Hits(t, from, key) \in SUBSET Int
    BY DEF Hits
  <2>2. Min(Hits(t, from, key)) = h
    BY <1>2, <2>1, MinIs
  <2>3. Blank \cup {":"} = {"sp", ":"}
    BY DEF Blank
  <2>4. Hits(t, from, key) # {}
    OBVIOUS
  <2>5. QED
    BY <2>2, <2>3, <2>4 DEF find_value, Hits
<1>3. QED
  BY <1>1, <1>2

----------------------------------------------------------------------------
(* Members in a text, and what is left of them when the text is cut.       *)

\* X is what is left of F: the string at the end may be open.
IsCut(X, F) ==
  /\ Len(X) <= Len(F)
  /\ \A i \in 1 .. Len(X) :
       X[i] = F[i] \/ (i = Len(X) /\ F[i].k = "str" /\ X[i].k = "open"
                       /\ X[i].v \in {F[i].v, "cut"})

\* A member with its name at h and its value at v.
MemberAt(F, h, v, name, value) ==
  /\ h \in Nat \ {0} /\ v \in Nat /\ h + 2 <= v
  /\ F[h] = Str(name, 0) /\ F[h + 1] = P(":")
  /\ \A x \in h + 2 .. v - 1 : F[x] = P("sp")
  /\ Holds(F, v - 1, value) /\ Len(value) \in Nat \ {0}

\* The kind of a token.
LEMMA KindOf ==
  /\ \A c : P(c).k = c
  /\ \A w, n : Str(w, n).k = "str" /\ Str(w, n).v = w /\ Str(w, n).len = n
BY DEF P, Str

\* Everything is a cut of itself.
LEMMA WholeIsCut ==
  ASSUME NEW A, NEW F \in Seq(A) PROVE IsCut(F, F)
BY DEF IsCut

\* Before its end a cut is as the whole.
LEMMA CutSame ==
  ASSUME NEW A, NEW X \in Seq(A), NEW F \in Seq(A), IsCut(X, F), NEW q \in 1 .. Len(X),
         q < Len(X) \/ F[q].k # "str" \/ X[q].k # "open"
  PROVE  X[q] = F[q] /\ q \in 1 .. Len(F)
<1>1. Len(X) \in Nat /\ Len(F) \in Nat /\ Len(X) <= Len(F)
  BY DEF IsCut
<1>2. X[q] = F[q]
  BY <1>1 DEF IsCut
<1>3. QED
  BY <1>1, <1>2

\* What reads like a name in a cut does so in the whole.
LEMMA CutHits ==
  ASSUME NEW A, NEW X \in Seq(A), NEW F \in Seq(A), IsCut(X, F), NEW from \in Nat \ {0}, NEW key
  PROVE  \A q \in Hits(X, from, key) : q \in Hits(F, from, key) /\ X[q] = F[q] /\ q <= Len(X)
<1> SUFFICES ASSUME NEW q \in Hits(X, from, key)
             PROVE  q \in Hits(F, from, key) /\ X[q] = F[q] /\ q <= Len(X)
  OBVIOUS
<1>1. q \in from .. Len(X) /\ X[q].k = "str" /\ X[q].v = key
  BY DEF Hits
<1>2. q \in 1 .. Len(X) /\ X[q].k # "open"
  BY <1>1
<1>3. X[q] = F[q] /\ q \in 1 .. Len(F)
  BY <1>2, CutSame
<1>4. QED
  BY <1>1, <1>2, <1>3 DEF Hits

\* In a cut the search for a name ends where it does in the whole, at the end,
\* or finds nothing.
LEMMA Found ==
  ASSUME NEW A, NEW X \in Seq(A), NEW F \in Seq(A), IsCut(X, F), NEW from \in Nat \ {0},
         NEW name, NEW value, NEW h, NEW v, MemberAt(F, h, v, name, value), from <= h,
         \A y \in Hits(F, from, name) : h <= y, F[v].k \notin {"sp", ":"}
  PROVE  /\ v <= Len(X) => find_value(X, from, name) = v
         /\ v > Len(X) => find_value(X, from, name) \in {0, Len(X) + 1}
<1>1. /\ h \in Nat \ {0} /\ v \in Nat /\ h + 2 <= v /\ v <= Len(F)
      /\ Len(X) \in Nat /\ Len(F) \in Nat /\ Len(X) <= Len(F)
  <2>1. h \in Nat \ {0} /\ v \in Nat /\ h + 2 <= v
    BY DEF MemberAt
  <2>2. v - 1 + Len(value) <= Len(F) /\ Len(value) \in Nat \ {0}
    BY DEF MemberAt, Holds
  <2>3. Len(X) \in Nat /\ Len(F) \in Nat /\ Len(X) <= Len(F)
    BY DEF IsCut
  <2>4. QED
    BY <2>1, <2>2, <2>3
<1>2. \A x \in h + 1 .. v - 1 : F[x].k \in {"sp", ":"} /\ F[x].k # "str"
  <2> TAKE x \in h + 1 .. v - 1
  <2>1. x = h + 1 \/ x \in h + 2 .. v - 1
    BY <1>1
  <2>2. F[x] = P(":") \/ F[x] = P("sp")
    BY <2>1 DEF MemberAt
  <2>3. QED
    BY <2>2, KindOf
<1>3. \A x \in h + 1 .. v - 1 : x <= Len(X) => X[x].k \in {"sp", ":"}
  <2> TAKE x \in h + 1 .. v - 1
  <2> HAVE x <= Len(X)
  <2>1. F[x].k # "str" /\ x \in 1 .. Len(X)
    BY <1>1, <1>2
  <2>2. X[x] = F[x]
    BY <2>1, CutSame
  <2>3. QED
    BY <1>2, <2>2
<1>4. \A y \in Hits(X, from, name) : h <= y /\ y <= Len(X) /\ y \in Nat
  <2> TAKE y \in Hits(X, from, name)
  <2>1. y \in Hits(F, from, name) /\ y <= Len(X)
    BY CutHits
  <2>2. y \in Nat
    BY DEF Hits
  <2>3. QED
    BY <2>1, <2>2
<1>5. CASE h < Len(X)
  <2>1. X[h] = F[h]
    BY <1>1, <1>5, CutSame
  <2>2. h \in Hits(X, from, name)
    <3>1. F[h].k = "str" /\ F[h].v = name
      BY DEF MemberAt, Str
    <3>2. h \in from .. Len(X)
      BY <1>1, <1>5
    <3>3. QED
      BY <2>1, <3>1, <3>2 DEF Hits
  <2>3. find_value(X, from, name) = SkipAll(X, h + 1, {"sp", ":"})
    BY <1>4, <2>2, FindValueIs
  <2>4. CASE v <= Len(X)
    <3>1. X[v].k \notin {"sp", ":"}
      <4>1. v \in 1 .. Len(X)
        BY <1>1, <2>4
      <4>2. X[v] = F[v] \/ X[v].k = "open"
        BY <4>1 DEF IsCut
      <4>3. QED
        BY <4>2
    <3>2. v \in h + 1 .. Len(X) + 1 /\ h + 1 \in Nat \ {0}
      BY <1>1, <2>4
    <3>3. \A x \in h + 1 .. v - 1 : X[x].k \in {"sp", ":"}
      BY <1>1, <1>3, <2>4
    <3>4. SkipAll(X, h + 1, {"sp", ":"}) = v
      BY <3>1, <3>2, <3>3, SkipAllStops
    <3>5. QED
      BY <1>1, <2>3, <2>4, <3>4
  <2>5. CASE v > Len(X)
    <3>1. Len(X) + 1 \in h + 1 .. Len(X) + 1 /\ h + 1 \in Nat \ {0} /\ ~(Len(X) + 1 <= Len(X))
      BY <1>1, <1>5
    <3>2. \A x \in h + 1 .. (Len(X) + 1) - 1 : X[x].k \in {"sp", ":"}
      BY <1>1, <1>3, <2>5
    <3>3. SkipAll(X, h + 1, {"sp", ":"}) = Len(X) + 1
      BY <3>1, <3>2, SkipAllStops
    <3>4. QED
      BY <1>1, <2>3, <2>5, <3>3
  <2>6. QED
    BY <1>1, <2>4, <2>5
<1>6. CASE ~(h < Len(X))
  <2>1. v > Len(X)
    BY <1>1, <1>6
  <2>2. CASE Hits(X, from, name) = {}
    BY <1>1, <2>1, <2>2, FindValueIs
  <2>3. CASE Hits(X, from, name) # {}
    <3>1. PICK y : y \in Hits(X, from, name)
      BY <2>3
    <3>2. y = h /\ h = Len(X)
      BY <1>1, <1>4, <1>6, <3>1
    <3>3. h \in Hits(X, from, name)
      BY <3>1, <3>2
    <3>4. find_value(X, from, name) = SkipAll(X, h + 1, {"sp", ":"})
      BY <1>4, <3>3, FindValueIs
    <3>5. h + 1 \in h + 1 .. Len(X) + 1 /\ h + 1 \in Nat \ {0} /\ ~(h + 1 <= Len(X))
      BY <1>1, <3>2
    <3>6. \A x \in h + 1 .. (h + 1) - 1 : X[x].k \in {"sp", ":"}
      BY <1>1
    <3>7. SkipAll(X, h + 1, {"sp", ":"}) = h + 1
      BY <3>5, <3>6, SkipAllStops
    <3>8. QED
      BY <1>1, <2>1, <3>2, <3>4, <3>7
  <2>4. QED
    BY <2>2, <2>3
<1>7. QED
  BY <1>5, <1>6

\* A name that is nowhere in the whole is not found in a cut.
LEMMA NotFound ==
  ASSUME NEW A, NEW X \in Seq(A), NEW F \in Seq(A), IsCut(X, F), NEW from \in Nat \ {0},
         NEW name, Hits(F, from, name) = {}
  PROVE  find_value(X, from, name) = 0
<1>1. Hits(X, from, name) = {}
  BY CutHits
<1>2. QED
  BY <1>1, FindValueIs

\* A member stays one in a larger text.
LEMMA MemberWithin ==
  ASSUME NEW A, NEW F \in Seq(A), NEW e \in Seq(A), NEW b, Holds(F, b, e),
         NEW h, NEW v, NEW name, NEW value, MemberAt(e, h, v, name, value)
  PROVE  MemberAt(F, b + h, b + v, name, value)
<1>1. /\ h \in Nat \ {0} /\ v \in Nat /\ h + 2 <= v /\ v - 1 + Len(value) <= Len(e)
      /\ Len(value) \in Nat \ {0} /\ Len(e) \in Nat /\ Len(F) \in Nat
      /\ b \in Nat /\ b + Len(e) <= Len(F)
  BY SMTT(60) DEF MemberAt, Holds
<1>2. \A x \in 1 .. Len(e) : F[b + x] = e[x]
  BY DEF Holds
<1>3. F[b + h] = Str(name, 0) /\ F[b + h + 1] = P(":")
  <2>1. h \in 1 .. Len(e) /\ h + 1 \in 1 .. Len(e) /\ b + (h + 1) = b + h + 1
    BY <1>1
  <2>2. F[b + h] = e[h] /\ F[b + (h + 1)] = e[h + 1]
    BY <1>2, <2>1
  <2>3. QED
    BY <2>1, <2>2 DEF MemberAt
<1>4. ASSUME NEW x \in b + h + 2 .. b + v - 1 PROVE F[x] = P("sp")
  <2>1. x - b \in h + 2 .. v - 1 /\ x - b \in 1 .. Len(e) /\ b + (x - b) = x
    BY <1>1
  <2>2. F[b + (x - b)] = e[x - b] /\ e[x - b] = P("sp")
    BY <1>2, <2>1 DEF MemberAt
  <2>3. QED
    BY <2>1, <2>2
<1>5. Holds(F, b + v - 1, value)
  <2>1. b + v - 1 \in Nat /\ b + v - 1 + Len(value) <= Len(F)
    BY <1>1
  <2>2. ASSUME NEW i \in 1 .. Len(value) PROVE F[b + v - 1 + i] = value[i]
    <3>1. v - 1 + i \in 1 .. Len(e) /\ b + (v - 1 + i) = b + v - 1 + i
      BY <1>1
    <3>2. e[v - 1 + i] = value[i]
      BY DEF MemberAt, Holds
    <3>3. QED
      BY <1>2, <3>1, <3>2
  <2>3. QED
    BY <2>1, <2>2 DEF Holds
<1>6. b + h \in Nat \ {0} /\ b + v \in Nat /\ b + h + 2 <= b + v
  BY <1>1
<1>7. QED
  BY <1>1, <1>3, <1>4, <1>5, <1>6 DEF MemberAt

----------------------------------------------------------------------------
(* Where the items between brackets or braces stand.                       *)

\* The tokens between items.
Separators == Blanks \cup {P(",")}

\* A sequence over a set is one over a larger set.
LEMMA SeqLarger ==
  ASSUME NEW A, NEW B, A \subseteq B, NEW s \in Seq(A)
  PROVE  s \in Seq(B)
<1>1. Len(s) \in Nat /\ s = [i \in 1 .. Len(s) |-> s[i]] /\ \A i \in 1 .. Len(s) : s[i] \in B
  OBVIOUS
<1>2. QED
  BY <1>1

\* The tokens of a client's text.  (The provers do not know that a quoted
\* text is in STRING, so those a client always writes are named.)
Tok == Token \cup {P(c) : c \in {"[", "]", "{", "}", ",", ":", "sp", "nl"}}
             \cup {Str(name, 0) : name \in Names} \cup {Str("2.0", 3)}

\* Punctuation and blanks are tokens.
LEMMA TokensAre ==
  /\ \A c \in {"[", "]", "{", "}", ",", ":", "sp", "nl"} : P(c) \in Tok
  /\ Blanks \subseteq Tok /\ Separators \subseteq Tok /\ Blanks \subseteq Separators
  /\ P(",") \in Separators /\ Token \subseteq Tok
<1>1. \A c \in {"[", "]", "{", "}", ",", ":", "sp", "nl"} : P(c) \in Tok
  BY DEF Tok
<1>2. Blanks \subseteq Tok /\ Separators \subseteq Tok
  BY <1>1 DEF Blanks, Separators
<1>3. Blanks \subseteq Separators /\ P(",") \in Separators
  BY DEF Separators
<1>4. QED
  BY <1>1, <1>2, <1>3 DEF Tok

\* Two sequences, one behind the other.
LEMMA Joined ==
  ASSUME NEW A, NEW s \in Seq(A), NEW t \in Seq(A)
  PROVE  /\ s \o t \in Seq(A) /\ Len(s \o t) = Len(s) + Len(t)
         /\ Len(s) \in Nat /\ Len(t) \in Nat
         /\ \A i \in 1 .. Len(s) : (s \o t)[i] = s[i]
         /\ \A i \in 1 .. Len(t) : (s \o t)[Len(s) + i] = t[i]
  OBVIOUS

\* A sequence of one element.
LEMMA OneIs ==
  ASSUME NEW A, NEW a \in A
  PROVE  <<a>> \in Seq(A) /\ Len(<<a>>) = 1 /\ <<a>>[1] = a
  OBVIOUS

\* A separator, blanks and an item.
LEMMA PieceIs ==
  ASSUME NEW sep \in Seq(Separators), NEW gap \in Seq(Blanks), NEW item \in Seq(Tok)
  PROVE  /\ sep \o gap \o item \in Seq(Tok)
         /\ Len(sep) \in Nat /\ Len(gap) \in Nat /\ Len(item) \in Nat
         /\ Len(sep \o gap \o item) = Len(sep) + Len(gap) + Len(item)
         /\ \A x \in 1 .. Len(sep) : (sep \o gap \o item)[x] = sep[x]
         /\ \A x \in 1 .. Len(sep) + Len(gap) : (sep \o gap \o item)[x] \in Separators
         /\ Holds(sep \o gap \o item, Len(sep) + Len(gap), item)
<1> DEFINE front == sep \o gap
           whole == front \o item
<1>1. gap \in Seq(Separators)
  BY TokensAre, SeqLarger
<1>2. /\ front \in Seq(Separators) /\ Len(front) = Len(sep) + Len(gap)
      /\ Len(sep) \in Nat /\ Len(gap) \in Nat
      /\ \A x \in 1 .. Len(sep) : front[x] = sep[x]
  BY <1>1, Joined
<1>3. front \in Seq(Tok)
  <2> HIDE DEF front
  <2>1. QED
    BY <1>2, TokensAre, SeqLarger
<1> HIDE DEF front
<1>4. /\ whole \in Seq(Tok) /\ Len(whole) = Len(front) + Len(item)
      /\ Len(item) \in Nat /\ Len(front) \in Nat
      /\ \A x \in 1 .. Len(front) : whole[x] = front[x]
      /\ \A x \in 1 .. Len(item) : whole[Len(front) + x] = item[x]
  BY <1>3, Joined
<1> HIDE DEF whole
<1>5. \A x \in 1 .. Len(front) : front[x] \in Separators
  BY <1>2
<1>6. \A x \in 1 .. Len(sep) : whole[x] = sep[x]
  BY <1>2, <1>4
<1>7. \A x \in 1 .. Len(sep) + Len(gap) : whole[x] \in Separators
  BY <1>2, <1>4, <1>5
<1>8. Holds(whole, Len(sep) + Len(gap), item)
  BY <1>2, <1>4 DEF Holds
<1>9. Len(whole) = Len(sep) + Len(gap) + Len(item)
  BY <1>2, <1>4
<1>10. QED
  BY <1>2, <1>4, <1>6, <1>7, <1>8, <1>9 DEF whole, front

\* The items stand in E behind the positions b, between an opening and a
\* closing token, with commas and blanks between them and nothing else.
LaidOut(E, items, b, opening, closing) ==
  /\ E \in Seq(Tok) /\ Len(E) >= 2 /\ E[1] = P(opening) /\ E[Len(E)] = P(closing)
  /\ \A i \in 1 .. Len(items) :
       b[i] \in Nat \ {0} /\ Holds(E, b[i], items[i]) /\ b[i] + Len(items[i]) < Len(E)
  /\ \A i, j \in 1 .. Len(items) : i < j => b[i] + Len(items[i]) < b[j]
  /\ \A i \in 1 .. Len(items) : i < Len(items) => E[b[i] + Len(items[i]) + 1] = P(",")
  /\ \A q \in 2 .. Len(E) - 1 :
       E[q] \in Separators \/ \E i \in 1 .. Len(items) : q \in b[i] + 1 .. b[i] + Len(items[i])

\* Lists of texts, and the blanks a client sets.
Lists == Seq(Seq(Tok))
Gaps == Seq(Blanks)

\* The elements of a list.
LEMMA ListIs ==
  ASSUME NEW items \in Lists
  PROVE  /\ Len(items) \in Nat /\ DOMAIN items = 1 .. Len(items)
         /\ \A i \in 1 .. Len(items) : items[i] \in Seq(Tok) /\ Len(items[i]) \in Nat
<1> DEFINE B == Seq(Tok)
<1>1. items \in Seq(B)
  BY DEF Lists
<1> HIDE DEF B
<1>2. /\ Len(items) \in Nat /\ DOMAIN items = 1 .. Len(items)
      /\ \A i \in 1 .. Len(items) : items[i] \in B
  BY <1>1
<1>3. \A s \in B : Len(s) \in Nat
  BY DEF B
<1>4. QED
  BY <1>2, <1>3 DEF B

\* A function on 1 .. n that gives sequences of tokens is a list.
LEMMA IsList ==
  ASSUME NEW n \in Nat, NEW f, f = [i \in 1 .. n |-> f[i]],
         \A i \in 1 .. n : f[i] \in Seq(Tok)
  PROVE  f \in Lists /\ Len(f) = n /\ DOMAIN f = 1 .. n
<1> DEFINE B == Seq(Tok)
<1>1. \A i \in 1 .. n : f[i] \in B
  OBVIOUS
<1> HIDE DEF B
<1>2. f \in Seq(B) /\ Len(f) = n /\ DOMAIN f = 1 .. n
  BY <1>1
<1>3. QED
  BY <1>2 DEF Lists, B

\* What precedes an item: a comma unless it is the first.
Comma(i) == IF i > 1 THEN <<P(",")>> ELSE <<>>

\* Its length.
LEMMA CommaIs ==
  ASSUME NEW i \in Nat
  PROVE  /\ Comma(i) \in Seq(Separators) /\ Len(Comma(i)) \in Nat
         /\ i > 1 => Len(Comma(i)) = 1 /\ Comma(i)[1] = P(",")
<1>1. <<P(",")>> \in Seq(Separators) /\ Len(<<P(",")>>) = 1 /\ <<P(",")>>[1] = P(",")
  BY TokensAre, OneIs
<1>2. <<>> \in Seq(Separators) /\ Len(<<>>) = 0
  OBVIOUS
<1>3. CASE i > 1
  <2>1. Comma(i) = <<P(",")>>
    BY <1>3 DEF Comma
  <2>2. QED
    BY <1>1, <2>1
<1>4. CASE ~(i > 1)
  <2>1. Comma(i) = <<>>
    BY <1>4 DEF Comma
  <2>2. QED
    BY <1>2, <1>4, <2>1
<1>5. QED
  BY <1>3, <1>4

\* An item with the comma and the blanks before it.
Pieces(gap, items) == [i \in DOMAIN items |-> Comma(i) \o gap \o items[i]]

\* Where the parts of a piece are.
LEMMA PiecesAre ==
  ASSUME NEW gap \in Seq(Blanks), NEW items \in Lists
  PROVE  /\ Pieces(gap, items) \in Lists /\ Len(Pieces(gap, items)) = Len(items)
         /\ \A i \in 1 .. Len(items) :
              /\ Pieces(gap, items)[i] \in Seq(Tok)
              /\ Len(Pieces(gap, items)[i]) = Len(Comma(i)) + Len(gap) + Len(items[i])
              /\ i > 1 => Pieces(gap, items)[i][1] = P(",")
              /\ \A x \in 1 .. Len(Comma(i)) + Len(gap) : Pieces(gap, items)[i][x] \in Separators
              /\ Holds(Pieces(gap, items)[i], Len(Comma(i)) + Len(gap), items[i])
<1> DEFINE g == Pieces(gap, items)
           n == Len(items)
<1>1. /\ n \in Nat /\ DOMAIN items = 1 .. n
      /\ \A i \in 1 .. n : items[i] \in Seq(Tok)
  BY ListIs
<1> HIDE DEF n
<1>2. g = [i \in 1 .. n |-> Comma(i) \o gap \o items[i]]
  BY <1>1 DEF Pieces
<1> HIDE DEF g
<1>3. ASSUME NEW i \in 1 .. n
      PROVE  /\ g[i] \in Seq(Tok) /\ Len(g[i]) = Len(Comma(i)) + Len(gap) + Len(items[i])
             /\ i > 1 => g[i][1] = P(",")
             /\ \A x \in 1 .. Len(Comma(i)) + Len(gap) : g[i][x] \in Separators
             /\ Holds(g[i], Len(Comma(i)) + Len(gap), items[i])
  <2>1. /\ Comma(i) \in Seq(Separators) /\ items[i] \in Seq(Tok)
        /\ i > 1 => Len(Comma(i)) = 1 /\ Comma(i)[1] = P(",")
    <3>1. i \in Nat
      BY <1>1
    <3>2. QED
      BY <1>1, <3>1, CommaIs
  <2>2. g[i] = Comma(i) \o gap \o items[i]
    BY <1>2
  <2> DEFINE s == Comma(i)
             e == items[i]
             w == s \o gap \o e
  <2>3. s \in Seq(Separators) /\ e \in Seq(Tok)
    BY <2>1
  <2> HIDE DEF s, e
  <2>4. /\ w \in Seq(Tok) /\ Len(w) = Len(s) + Len(gap) + Len(e)
        /\ \A x \in 1 .. Len(s) : w[x] = s[x]
        /\ \A x \in 1 .. Len(s) + Len(gap) : w[x] \in Separators
        /\ Holds(w, Len(s) + Len(gap), e)
    BY <2>3, PieceIs
  <2> HIDE DEF w
  <2>5. i > 1 => w[1] = P(",")
    <3> HAVE i > 1
    <3>1. Len(s) = 1 /\ s[1] = P(",")
      BY <2>1 DEF s
    <3>2. 1 \in 1 .. 1
      OBVIOUS
    <3>3. QED
      BY <2>4, <3>1, <3>2
  <2>6. g[i] = w
    BY <2>2 DEF w, s, e
  <2>7. QED
    BY <2>4, <2>5, <2>6 DEF s, e
<1>4. g = [i \in 1 .. n |-> g[i]]
  BY <1>2
<1>5. g \in Lists /\ Len(g) = n
  BY <1>1, <1>3, <1>4, IsList
<1>6. QED
  BY <1>3, <1>5 DEF g, n

\* Where the items are in the flattened pieces.
LEMMA BodyIs ==
  ASSUME NEW gap \in Gaps, NEW items \in Lists
  PROVE  LET w == FlattenSeq(Pieces(gap, items))
         IN /\ w \in Seq(Tok)
            /\ \E b :
                 /\ \A i \in 1 .. Len(items) : b[i] \in Nat /\ Holds(w, b[i], items[i])
                 /\ \A i, j \in 1 .. Len(items) : i < j =>
                      /\ b[i] + Len(items[i]) < b[j]
                      /\ w[b[i] + Len(items[i]) + 1] = P(",")
                 /\ \A q \in 1 .. Len(w) :
                      w[q] \in Separators \/ \E i \in 1 .. Len(items) :
                                               q \in b[i] + 1 .. b[i] + Len(items[i])
<1> DEFINE g == Pieces(gap, items)
           w == FlattenSeq(g)
           n == Len(items)
           C == [i \in 1 .. n |-> Len(Comma(i))]
           G == Len(gap)
           W == Len(w)
           L == [i \in 1 .. n |-> Len(items[i])]
<1>00. gap \in Seq(Blanks)
  BY DEF Gaps
<1>1. G \in Nat
  BY <1>00
<1>2. n \in Nat /\ g \in Lists /\ Len(g) = n
  BY <1>00, ListIs, PiecesAre
<1>3. \A i \in 1 .. n :
        /\ C[i] \in Nat /\ (i > 1 => C[i] = 1) /\ L[i] \in Nat
        /\ Len(g[i]) = C[i] + G + L[i]
        /\ i > 1 => g[i][1] = P(",")
        /\ \A x \in 1 .. C[i] + G : g[i][x] \in Separators
        /\ \A x \in 1 .. L[i] : g[i][C[i] + G + x] = items[i][x]
  <2> TAKE i \in 1 .. n
  <2>0. C[i] = Len(Comma(i)) /\ L[i] = Len(items[i])
    OBVIOUS
  <2> HIDE DEF C, L
  <2>1. C[i] \in Nat /\ (i > 1 => C[i] = 1)
    <3>1. i \in Nat
      BY <1>2
    <3>2. QED
      BY <2>0, <3>1, CommaIs
  <2>2. L[i] \in Nat
    BY <2>0, ListIs
  <2>3. /\ Len(g[i]) = C[i] + G + L[i]
        /\ i > 1 => g[i][1] = P(",")
        /\ \A x \in 1 .. C[i] + G : g[i][x] \in Separators
        /\ Holds(g[i], C[i] + G, items[i])
    <3>1. /\ Len(g[i]) = Len(Comma(i)) + G + Len(items[i])
          /\ i > 1 => g[i][1] = P(",")
          /\ \A x \in 1 .. Len(Comma(i)) + G : g[i][x] \in Separators
          /\ Holds(g[i], Len(Comma(i)) + G, items[i])
      BY <1>00, PiecesAre
    <3> HIDE DEF g, G
    <3>2. QED
      BY <2>0, <3>1
  <2>4. \A x \in 1 .. L[i] : g[i][C[i] + G + x] = items[i][x]
    BY <2>0, <2>3 DEF Holds
  <2> HIDE DEF G, g
  <2>5. QED
    BY <2>1, <2>2, <2>3, <2>4
<1>4. w \in Seq(Tok) /\ W \in Nat
  <2>1. <<>> \in Seq(Tok) /\ g \in Seq(Seq(Tok))
    BY <1>2 DEF Lists
  <2>2. w \in Seq(Tok)
    BY <2>1, FlattenAppend
  <2> HIDE DEF w
  <2>3. QED
    BY <2>2
<1>5. PICK off : IsOffsets(g, n, off)
  <2>1. g \in Seq(Seq(Tok))
    BY <1>2 DEF Lists
  <2>2. QED
    BY <1>2, <2>1, ItemsStand
<1>6. /\ \A i \in 0 .. n : off[i] \in Nat
      /\ off[n] = W
      /\ \A i \in 1 .. n : /\ off[i] = off[i - 1] + Len(g[i])
                           /\ \A y \in 1 .. Len(g[i]) : w[off[i - 1] + y] = g[i][y]
  BY <1>5 DEF IsOffsets, Holds
<1>7. /\ \A i, j \in 0 .. n : i <= j => off[i] <= off[j]
      /\ \A q \in 1 .. off[n] : \E i \in 1 .. n : q \in off[i - 1] + 1 .. off[i]
  <2>1. \A i \in 1 .. n : Len(g[i]) \in Nat
    <3> TAKE i \in 1 .. n
    <3>1. g \in Lists /\ i \in 1 .. Len(g)
      BY <1>2
    <3>2. QED
      BY <3>1, ListIs
  <2>2. QED
    BY <1>2, <1>5, <2>1, OffsetsCover
<1> DEFINE b == [i \in 1 .. n |-> off[i - 1] + C[i] + G]
<1>0. \A i \in 1 .. n : L[i] = Len(items[i])
  OBVIOUS
<1>8. \A i \in 1 .. n : b[i] = off[i - 1] + C[i] + G
  OBVIOUS
<1> HIDE DEF b, C, G, L, W, g, w, n
<1>9. \A i \in 1 .. n : /\ off[i - 1] \in Nat /\ off[i] \in Nat /\ off[i] <= W
                        /\ b[i] \in Nat /\ b[i] + L[i] = off[i]
                        /\ off[i] = off[i - 1] + (C[i] + G + L[i])
  <2> TAKE i \in 1 .. n
  <2>1. i - 1 \in 0 .. n /\ i \in 0 .. n /\ n \in 0 .. n /\ i <= n
    BY <1>2
  <2>2. off[i - 1] \in Nat /\ off[i] \in Nat /\ off[i] <= off[n]
    BY <1>6, <1>7, <2>1
  <2>3. off[i] = off[i - 1] + (C[i] + G + L[i]) /\ b[i] = off[i - 1] + C[i] + G
    BY <1>3, <1>6, <1>8
  <2>4. C[i] \in Nat /\ L[i] \in Nat
    BY <1>3
  <2>5. QED
    BY <1>1, <1>6, <2>2, <2>3, <2>4
<1>10. ASSUME NEW i \in 1 .. n, NEW y \in 1 .. C[i] + G + L[i]
       PROVE  w[off[i - 1] + y] = g[i][y]
  BY <1>3, <1>6
<1>11. ASSUME NEW i \in 1 .. n PROVE b[i] \in Nat /\ Holds(w, b[i], items[i])
  <2>1. /\ off[i - 1] \in Nat /\ off[i] <= W /\ b[i] \in Nat /\ b[i] + L[i] = off[i]
        /\ b[i] = off[i - 1] + C[i] + G /\ C[i] \in Nat /\ L[i] \in Nat
    BY <1>3, <1>8, <1>9
  <2>2. ASSUME NEW x \in 1 .. L[i] PROVE w[b[i] + x] = items[i][x]
    <3>1. C[i] + G + x \in 1 .. C[i] + G + L[i] /\ off[i - 1] + (C[i] + G + x) = b[i] + x
      BY <1>1, <2>1
    <3>2. w[off[i - 1] + (C[i] + G + x)] = g[i][C[i] + G + x]
      BY <1>10, <3>1
    <3>3. g[i][C[i] + G + x] = items[i][x]
      BY <1>3
    <3>4. QED
      BY <3>1, <3>2, <3>3
  <2>3. b[i] + L[i] <= W
    BY <2>1
  <2>4. QED
    BY <1>0, <2>1, <2>2, <2>3 DEF Holds, W
<1>12. ASSUME NEW i \in 1 .. n, NEW j \in 1 .. n, i < j
       PROVE  b[i] + L[i] < b[j] /\ w[b[i] + L[i] + 1] = P(",")
  <2>1. i \in 0 .. n /\ j - 1 \in 0 .. n /\ i <= j - 1 /\ j > 1 /\ i + 1 > 1
        /\ i + 1 \in 1 .. n /\ (i + 1) - 1 = i
    BY <1>2, <1>12
  <2>2. off[i] <= off[j - 1] /\ C[j] = 1 /\ C[i + 1] = 1 /\ L[i + 1] \in Nat
    BY <1>3, <1>7, <2>1
  <2>7. g[i + 1][1] = P(",")
    BY <1>3, <2>1
  <2>3. b[j] = off[j - 1] + C[j] + G /\ off[i] \in Nat /\ off[j - 1] \in Nat
        /\ b[i] + L[i] = off[i]
    BY <1>8, <1>9
  <2>4. 1 \in 1 .. C[i + 1] + G + L[i + 1]
    BY <1>1, <2>2
  <2>5. w[off[(i + 1) - 1] + 1] = P(",")
    BY <1>10, <2>1, <2>4, <2>7
  <2>8. w[b[i] + L[i] + 1] = P(",")
    BY <2>1, <2>3, <2>5
  <2>6. b[i] + L[i] < b[j]
    BY <1>1, <2>2, <2>3
  <2>9. QED
    BY <2>6, <2>8
<1>13. ASSUME NEW q \in 1 .. W
       PROVE  w[q] \in Separators \/ \E i \in 1 .. n : q \in b[i] + 1 .. b[i] + L[i]
  <2>1. PICK i \in 1 .. n : q \in off[i - 1] + 1 .. off[i]
    BY <1>6, <1>7
  <2>2. /\ off[i - 1] \in Nat /\ b[i] + L[i] = off[i] /\ off[i] \in Nat /\ b[i] \in Nat
        /\ b[i] = off[i - 1] + C[i] + G /\ C[i] \in Nat /\ L[i] \in Nat
        /\ off[i] = off[i - 1] + (C[i] + G + L[i])
    BY <1>3, <1>8, <1>9
  <2> DEFINE y == q - off[i - 1]
  <2>3. y \in 1 .. C[i] + G + L[i] /\ off[i - 1] + y = q
    BY <1>1, <2>1, <2>2
  <2>4. w[q] = g[i][y]
    BY <1>10, <2>3
  <2>5. CASE y <= C[i] + G
    <3>1. y \in 1 .. C[i] + G
      BY <1>1, <2>2, <2>3, <2>5
    <3>2. QED
      BY <1>3, <2>4, <3>1
  <2>6. CASE ~(y <= C[i] + G)
    <3>1. q \in b[i] + 1 .. b[i] + L[i]
      BY <1>1, <2>1, <2>2, <2>6
    <3>2. QED
      BY <3>1
  <2>7. QED
    BY <2>5, <2>6
<1>14. w \in Seq(Tok) /\ \E d :
         /\ \A i \in 1 .. n : d[i] \in Nat /\ Holds(w, d[i], items[i])
         /\ \A i, j \in 1 .. n : i < j =>
              d[i] + L[i] < d[j] /\ w[d[i] + L[i] + 1] = P(",")
         /\ \A q \in 1 .. W :
              w[q] \in Separators \/ \E i \in 1 .. n : q \in d[i] + 1 .. d[i] + L[i]
  BY <1>4, <1>11, <1>12, <1>13
<1>15. QED
  BY <1>0, <1>14 DEF w, g, n, W

\* The four parts of what Enclosed builds.
LEMMA EnclosedParts ==
  ASSUME NEW a \in Tok, NEW z \in Tok, NEW w \in Seq(Tok), NEW gap \in Gaps
  PROVE  LET E == <<a>> \o w \o gap \o <<z>>
         IN /\ E \in Seq(Tok) /\ Len(E) = 2 + Len(w) + Len(gap)
            /\ E[1] = a /\ E[Len(E)] = z
            /\ \A q \in 1 .. Len(w) : E[1 + q] = w[q]
            /\ \A q \in 1 .. Len(gap) : E[1 + Len(w) + q] \in Separators
<1> DEFINE f == <<a>> \o w
           d == f \o gap
           E == d \o <<z>>
<1>1. /\ <<a>> \in Seq(Tok) /\ Len(<<a>>) = 1 /\ <<a>>[1] = a
      /\ <<z>> \in Seq(Tok) /\ Len(<<z>>) = 1 /\ <<z>>[1] = z
  BY OneIs
<1>2. gap \in Seq(Tok) /\ Len(gap) \in Nat /\ \A q \in 1 .. Len(gap) : gap[q] \in Separators
  <2>1. gap \in Seq(Blanks)
    BY DEF Gaps
  <2>2. gap \in Seq(Tok) /\ gap \in Seq(Separators)
    BY <2>1, TokensAre, SeqLarger
  <2>3. QED
    BY <2>2
<1>3. /\ f \in Seq(Tok) /\ Len(f) = 1 + Len(w) /\ f[1] = a /\ Len(w) \in Nat
      /\ \A q \in 1 .. Len(w) : f[1 + q] = w[q]
  BY <1>1, Joined
<1> HIDE DEF f
<1>4. /\ d \in Seq(Tok) /\ Len(d) = Len(f) + Len(gap)
      /\ \A q \in 1 .. Len(f) : d[q] = f[q]
      /\ \A q \in 1 .. Len(gap) : d[Len(f) + q] = gap[q]
  <2>1. f \in Seq(Tok) /\ gap \in Seq(Tok)
    BY <1>2, <1>3
  <2>2. QED
    BY <2>1, Joined
<1> HIDE DEF d
<1>5. /\ E \in Seq(Tok) /\ Len(E) = Len(d) + 1
      /\ \A q \in 1 .. Len(d) : E[q] = d[q]
      /\ E[Len(d) + 1] = z
  <2> DEFINE l == <<z>>
  <2>1. d \in Seq(Tok) /\ l \in Seq(Tok)
    BY <1>1, <1>4
  <2>2. Len(l) = 1 /\ l[1] = z /\ 1 \in 1 .. 1
    OBVIOUS
  <2> HIDE DEF l
  <2>3. /\ d \o l \in Seq(Tok) /\ Len(d \o l) = Len(d) + Len(l)
        /\ \A q \in 1 .. Len(d) : (d \o l)[q] = d[q]
        /\ \A q \in 1 .. Len(l) : (d \o l)[Len(d) + q] = l[q]
    BY <2>1, Joined
  <2>4. (d \o l)[Len(d) + 1] = z
    BY <2>2, <2>3
  <2>5. QED
    BY <2>2, <2>3, <2>4 DEF l
<1> DEFINE W == Len(w)
           G == Len(gap)
           D == Len(d)
           N == Len(f)
<1>6. W \in Nat /\ G \in Nat /\ N = 1 + W /\ D = N + G
  BY <1>2, <1>3, <1>4
<1> HIDE DEF E
<1>7. Len(E) = 2 + W + G
  <2>1. Len(E) = D + 1
    BY <1>5
  <2> HIDE DEF W, G, D, N
  <2>2. QED
    BY <1>6, <2>1
<1>8. E[Len(E)] = z
  BY <1>5
<1>9. \A q \in 1 .. W : E[1 + q] = w[q]
  <2> TAKE q \in 1 .. W
  <2>1. 1 + q \in 1 .. N /\ 1 + q \in 1 .. D
    <3> HIDE DEF W, G, D, N
    <3>1. QED
      BY <1>6
  <2>2. E[1 + q] = d[1 + q] /\ d[1 + q] = f[1 + q] /\ f[1 + q] = w[q]
    BY <1>3, <1>4, <1>5, <2>1
  <2>3. QED
    BY <2>2
<1>10. E[1] = a
  <2>1. 1 \in 1 .. N /\ 1 \in 1 .. D
    <3> HIDE DEF W, G, D, N
    <3>1. QED
      BY <1>6
  <2>2. QED
    BY <1>3, <1>4, <1>5, <2>1
<1>11. \A q \in 1 .. G : E[1 + W + q] \in Separators
  <2> TAKE q \in 1 .. G
  <2>1. N + q \in 1 .. D /\ N + q = 1 + W + q
    <3> HIDE DEF W, G, D, N
    <3>1. QED
      BY <1>6
  <2>2. E[N + q] = d[N + q] /\ d[N + q] = gap[q] /\ gap[q] \in Separators
    BY <1>2, <1>4, <1>5, <2>1
  <2> HIDE DEF W, N
  <2>3. QED
    BY <2>1, <2>2
<1>12. QED
  BY <1>5, <1>7, <1>8, <1>9, <1>10, <1>11 DEF E, d, f

\* What Enclosed builds is laid out.
LEMMA EnclosedIs ==
  ASSUME NEW layout, layout.gap \in Gaps, NEW opening, NEW closing,
         P(opening) \in Tok, P(closing) \in Tok, NEW items \in Lists
  PROVE  \E b : LaidOut(Enclosed(opening, items, closing, layout), items, b, opening, closing)
<1> DEFINE n == Len(items)
           gap == layout.gap
           w == FlattenSeq(Pieces(gap, items))
           E == Enclosed(opening, items, closing, layout)
           W == Len(w)
           G == Len(gap)
           M == Len(E)
<1>1. gap \in Gaps
  OBVIOUS
<1>2. E = <<P(opening)>> \o w \o gap \o <<P(closing)>>
  BY DEF Enclosed, Pieces, Comma
<1> HIDE DEF gap
<1>3. w \in Seq(Tok)
  BY <1>1, BodyIs
<1>4. PICK b :
        /\ \A i \in 1 .. n : b[i] \in Nat /\ Holds(w, b[i], items[i])
        /\ \A i, j \in 1 .. n : i < j =>
             /\ b[i] + Len(items[i]) < b[j]
             /\ w[b[i] + Len(items[i]) + 1] = P(",")
        /\ \A q \in 1 .. W :
             w[q] \in Separators \/ \E i \in 1 .. n : q \in b[i] + 1 .. b[i] + Len(items[i])
  BY <1>1, BodyIs
<1> HIDE DEF w, E
<1>5. /\ E \in Seq(Tok) /\ M = 2 + W + G
      /\ E[1] = P(opening) /\ E[M] = P(closing)
      /\ \A q \in 1 .. W : E[1 + q] = w[q]
      /\ \A q \in 1 .. G : E[1 + W + q] \in Separators
  <2> DEFINE a == P(opening)
             z == P(closing)
  <2>1. a \in Tok /\ z \in Tok
    OBVIOUS
  <2>2. E = <<a>> \o w \o gap \o <<z>>
    BY <1>2
  <2> HIDE DEF a, z
  <2>3. LET e == <<a>> \o w \o gap \o <<z>>
        IN /\ e \in Seq(Tok) /\ Len(e) = 2 + Len(w) + Len(gap)
           /\ e[1] = a /\ e[Len(e)] = z
           /\ \A q \in 1 .. Len(w) : e[1 + q] = w[q]
           /\ \A q \in 1 .. Len(gap) : e[1 + Len(w) + q] \in Separators
    BY <1>1, <1>3, <2>1, EnclosedParts
  <2>4. /\ E \in Seq(Tok) /\ Len(E) = 2 + Len(w) + Len(gap)
        /\ E[1] = a /\ E[Len(E)] = z
        /\ \A q \in 1 .. Len(w) : E[1 + q] = w[q]
        /\ \A q \in 1 .. Len(gap) : E[1 + Len(w) + q] \in Separators
    BY <2>2, <2>3, Zenon
  <2>5. QED
    BY <2>4 DEF a, z
<1>6. W \in Nat /\ G \in Nat
  <2>1. gap \in Seq(Blanks)
    BY <1>1 DEF Gaps
  <2>2. QED
    BY <1>3, <2>1
<1>7. n \in Nat /\ \A i \in 1 .. n : Len(items[i]) \in Nat
  BY ListIs
<1> DEFINE L == [i \in 1 .. n |-> Len(items[i])]
           d == [i \in 1 .. n |-> 1 + b[i]]
<1>8. \A i \in 1 .. n : L[i] = Len(items[i]) /\ L[i] \in Nat /\ d[i] = 1 + b[i]
  BY <1>7
<1> HIDE DEF n, W, G, M, L, d
<1>9. \A i \in 1 .. n : /\ b[i] \in Nat /\ b[i] + L[i] <= W
                        /\ \A x \in 1 .. L[i] : w[b[i] + x] = items[i][x]
  BY <1>4, <1>8 DEF Holds, W
<1>10. ASSUME NEW i \in 1 .. n
       PROVE  d[i] \in Nat \ {0} /\ Holds(E, d[i], items[i]) /\ d[i] + L[i] < M
  <2>1. d[i] = 1 + b[i] /\ b[i] \in Nat /\ b[i] + L[i] <= W /\ L[i] \in Nat
    BY <1>8, <1>9
  <2>2. d[i] \in Nat \ {0} /\ d[i] + L[i] < M /\ d[i] + L[i] <= M
    <3>1. M = 2 + W + G
      BY <1>5
    <3>2. QED
      BY <1>6, <2>1, <3>1
  <2>3. ASSUME NEW x \in 1 .. L[i] PROVE E[d[i] + x] = items[i][x]
    <3>1. b[i] + x \in 1 .. W /\ d[i] + x = 1 + (b[i] + x)
      BY <1>6, <2>1
    <3>2. E[1 + (b[i] + x)] = w[b[i] + x] /\ w[b[i] + x] = items[i][x]
      BY <1>5, <1>9, <3>1
    <3>3. QED
      BY <3>1, <3>2
  <2>4. QED
    BY <1>8, <2>2, <2>3 DEF Holds, M
<1>11. ASSUME NEW i \in 1 .. n, NEW j \in 1 .. n, i < j
       PROVE  d[i] + L[i] < d[j] /\ E[d[i] + L[i] + 1] = P(",")
  <2>1. /\ d[i] = 1 + b[i] /\ b[i] \in Nat /\ b[i] + L[i] <= W /\ L[i] \in Nat
        /\ d[j] = 1 + b[j] /\ b[j] \in Nat /\ b[j] + L[j] <= W /\ L[j] \in Nat
    BY <1>8, <1>9
  <2>2. b[i] + L[i] < b[j]
    BY <1>4, <1>8, <1>11
  <2>3. w[b[i] + L[i] + 1] = P(",")
    BY <1>4, <1>8, <1>11
  <2>4. d[i] + L[i] < d[j]
    BY <2>1, <2>2
  <2>5. b[i] + L[i] + 1 \in 1 .. W /\ d[i] + L[i] + 1 = 1 + (b[i] + L[i] + 1)
    BY <1>6, <2>1, <2>2
  <2>6. E[1 + (b[i] + L[i] + 1)] = w[b[i] + L[i] + 1]
    BY <1>5, <2>5
  <2>7. QED
    BY <2>3, <2>4, <2>5, <2>6
<1>12. ASSUME NEW i \in 1 .. n, i < n PROVE E[d[i] + L[i] + 1] = P(",")
  <2>1. i + 1 \in 1 .. n /\ i < i + 1
    BY <1>7, <1>12
  <2>2. QED
    BY <1>11, <2>1
<1>13. ASSUME NEW q \in 2 .. M - 1
       PROVE  E[q] \in Separators \/ \E i \in 1 .. n : q \in d[i] + 1 .. d[i] + L[i]
  <2>0. M = 2 + W + G
    BY <1>5
  <2>1. CASE q - 1 <= W
    <3>1. q - 1 \in 1 .. W /\ 1 + (q - 1) = q
      BY <1>6, <2>0, <2>1
    <3>2. E[q] = w[q - 1]
      BY <1>5, <3>1
    <3>3. CASE w[q - 1] \in Separators
      BY <3>2, <3>3
    <3>4. CASE \E i \in 1 .. n : q - 1 \in b[i] + 1 .. b[i] + L[i]
      <4>1. PICK i \in 1 .. n : q - 1 \in b[i] + 1 .. b[i] + L[i]
        BY <3>4
      <4>2. d[i] = 1 + b[i] /\ b[i] \in Nat /\ L[i] \in Nat
        BY <1>8, <1>9
      <4>3. q \in d[i] + 1 .. d[i] + L[i]
        BY <4>1, <4>2
      <4>4. QED
        BY <4>3
    <3>5. w[q - 1] \in Separators \/ \E i \in 1 .. n : q - 1 \in b[i] + 1 .. b[i] + L[i]
      BY <1>4, <1>8, <3>1
    <3>6. QED
      BY <3>3, <3>4, <3>5
  <2>2. CASE ~(q - 1 <= W)
    <3> DEFINE y == q - 1 - W
    <3>1. y \in 1 .. G /\ 1 + W + y = q
      BY <1>6, <2>0, <2>2
    <3>2. QED
      BY <1>5, <3>1
  <2>3. QED
    BY <2>1, <2>2
<1>14. M >= 2
  <2>1. M = 2 + W + G
    BY <1>5
  <2>2. QED
    BY <1>6, <2>1
<1>15. LaidOut(E, items, d, opening, closing)
  BY <1>5, <1>8, <1>10, <1>11, <1>12, <1>13, <1>14 DEF LaidOut, n, M
<1>16. QED
  BY <1>15 DEF E

----------------------------------------------------------------------------
(* Braces.                                                                 *)

\* The tokens c from s to q.
Count(t, s, q, c) == Cardinality({i \in s .. q : t[i].k = c})

\* Counting one token further.
LEMMA CountStep ==
  ASSUME NEW t, NEW s \in Nat, NEW c, NEW q \in Int
  PROVE  /\ Count(t, s, q, c) \in Nat
         /\ q < s => Count(t, s, q, c) = 0
         /\ s <= q /\ t[q].k = c => Count(t, s, q, c) = Count(t, s, q - 1, c) + 1
         /\ s <= q /\ t[q].k # c => Count(t, s, q, c) = Count(t, s, q - 1, c)
<1> DEFINE H(x) == {i \in s .. x : t[i].k = c}
<1>1. ASSUME NEW x \in Int PROVE IsFiniteSet(H(x)) /\ Cardinality(H(x)) \in Nat
  <2>1. IsFiniteSet(s .. x)
    BY FS_Interval
  <2>2. H(x) \subseteq s .. x
    OBVIOUS
  <2> HIDE DEF H
  <2>3. IsFiniteSet(H(x))
    BY <2>1, <2>2, FS_Subset
  <2>4. QED
    BY <2>3, FS_CardinalityType
<1>2. ASSUME q < s PROVE Cardinality(H(q)) = 0
  <2>1. H(q) = {}
    BY <1>2
  <2>2. QED
    BY <2>1, FS_EmptySet
<1>3. ASSUME s <= q, t[q].k = c PROVE Cardinality(H(q)) = Cardinality(H(q - 1)) + 1
  <2>1. H(q) = H(q - 1) \cup {q} /\ q \notin H(q - 1)
    BY <1>3
  <2>2. q - 1 \in Int
    OBVIOUS
  <2> HIDE DEF H
  <2>3. IsFiniteSet(H(q - 1))
    BY <1>1, <2>2
  <2>4. Cardinality(H(q - 1) \cup {q}) = Cardinality(H(q - 1)) + 1
    BY <2>1, <2>3, FS_AddElement
  <2>5. QED
    BY <2>1, <2>4
<1>4. ASSUME s <= q, t[q].k # c PROVE Cardinality(H(q)) = Cardinality(H(q - 1))
  <2>1. H(q) = H(q - 1)
    BY <1>4
  <2> HIDE DEF H
  <2>2. QED
    BY <2>1
<1>5. QED
  BY <1>1, <1>2, <1>3, <1>4 DEF Count

\* The depth one token further.
LEMMA DepthStep ==
  ASSUME NEW t, NEW s \in Nat, NEW q \in Int
  PROVE  /\ Depth(t, s, q) \in Int
         /\ q < s => Depth(t, s, q) = 0
         /\ s <= q /\ t[q].k = "{" => Depth(t, s, q) = Depth(t, s, q - 1) + 1
         /\ s <= q /\ t[q].k = "}" => Depth(t, s, q) = Depth(t, s, q - 1) - 1
         /\ s <= q /\ t[q].k \notin {"{", "}"} => Depth(t, s, q) = Depth(t, s, q - 1)
<1> DEFINE O == Count(t, s, q, "{")
           C == Count(t, s, q, "}")
           O1 == Count(t, s, q - 1, "{")
           C1 == Count(t, s, q - 1, "}")
<1>1. Depth(t, s, q) = O - C /\ Depth(t, s, q - 1) = O1 - C1
  BY DEF Depth, Count
<1>2. q - 1 \in Int
  OBVIOUS
<1>3. O1 \in Nat /\ C1 \in Nat
  BY <1>2, CountStep
<1>4. O \in Nat /\ C \in Nat /\ (q < s => O = 0 /\ C = 0)
  BY CountStep
<1>5. s <= q /\ t[q].k = "{" => O = O1 + 1 /\ C = C1
  <2>1. "{" # "}"
    OBVIOUS
  <2>2. QED
    BY <2>1, CountStep
<1>6. s <= q /\ t[q].k = "}" => O = O1 /\ C = C1 + 1
  <2>1. "{" # "}"
    OBVIOUS
  <2>2. QED
    BY <2>1, CountStep
<1>7. s <= q /\ t[q].k \notin {"{", "}"} => O = O1 /\ C = C1
  BY CountStep
<1> DEFINE D == Depth(t, s, q)
           D1 == Depth(t, s, q - 1)
<1> HIDE DEF O, C, O1, C1, D, D1
<1>8. D = O - C /\ D1 = O1 - C1
  BY <1>1 DEF D, D1
<1>9. D \in Int /\ (q < s => D = 0)
  BY <1>4, <1>8
<1>14. (O = O1 + 1 /\ C = C1 => D = D1 + 1) /\ (O = O1 /\ C = C1 + 1 => D = D1 - 1)
  BY <1>3, <1>8
<1>10. s <= q /\ t[q].k = "{" => D = D1 + 1
  <2> HAVE s <= q /\ t[q].k = "{"
  <2>1. O = O1 + 1 /\ C = C1
    BY <1>5
  <2>2. QED
    BY <1>14, <2>1
<1>11. s <= q /\ t[q].k = "}" => D = D1 - 1
  <2> HAVE s <= q /\ t[q].k = "}"
  <2>1. O = O1 /\ C = C1 + 1
    BY <1>6
  <2>2. QED
    BY <1>14, <2>1
<1>12. s <= q /\ t[q].k \notin {"{", "}"} => D = D1
  <2> HAVE s <= q /\ t[q].k \notin {"{", "}"}
  <2>1. O = O1 /\ C = C1
    BY <1>7
  <2>2. QED
    BY <1>8, <2>1
<1>13. QED
  BY <1>9, <1>10, <1>11, <1>12 DEF D, D1

\* Both are opening braces, both are closing braces, or both are neither.
SameBrace(x, y) == \A c \in {"{", "}"} : x.k = c <=> y.k = c

\* Tokens that are the same brace change the depth alike.
LEMMA StepAlike ==
  ASSUME NEW t, NEW s \in Nat, NEW q \in Int, s <= q,
         NEW e, NEW r \in Nat, NEW x \in Int, r <= x, SameBrace(t[q], e[x])
  PROVE  Depth(t, s, q) = Depth(t, s, q - 1) + (Depth(e, r, x) - Depth(e, r, x - 1))
<1> DEFINE A == Depth(t, s, q)
           A1 == Depth(t, s, q - 1)
           B == Depth(e, r, x)
           B1 == Depth(e, r, x - 1)
<1>1. A1 \in Int /\ B1 \in Int
  <2>1. q - 1 \in Int /\ x - 1 \in Int
    OBVIOUS
  <2>2. QED
    BY <2>1, DepthStep
<1>2. CASE t[q].k = "{"
  <2>1. e[x].k = "{"
    BY <1>2 DEF SameBrace
  <2>2. A = A1 + 1
    BY <1>2, DepthStep
  <2>3. B = B1 + 1
    BY <2>1, DepthStep
  <2> HIDE DEF A, A1, B, B1
  <2>4. A = A1 + 1 /\ B = B1 + 1 /\ A1 \in Int /\ B1 \in Int => A = A1 + (B - B1)
    OBVIOUS
  <2>5. QED
    BY <1>1, <2>2, <2>3, <2>4 DEF A, A1, B, B1
<1>3. CASE t[q].k = "}"
  <2>1. e[x].k = "}"
    BY <1>3 DEF SameBrace
  <2>2. A = A1 - 1
    BY <1>3, DepthStep
  <2>3. B = B1 - 1
    BY <2>1, DepthStep
  <2> HIDE DEF A, A1, B, B1
  <2>4. A = A1 - 1 /\ B = B1 - 1 /\ A1 \in Int /\ B1 \in Int => A = A1 + (B - B1)
    OBVIOUS
  <2>5. QED
    BY <1>1, <2>2, <2>3, <2>4 DEF A, A1, B, B1
<1>4. CASE t[q].k \notin {"{", "}"}
  <2>1. e[x].k \notin {"{", "}"}
    BY <1>4 DEF SameBrace
  <2>2. A = A1
    BY <1>4, DepthStep
  <2>3. B = B1
    BY <2>1, DepthStep
  <2> HIDE DEF A, A1, B, B1
  <2>4. A = A1 /\ B = B1 /\ A1 \in Int /\ B1 \in Int => A = A1 + (B - B1)
    OBVIOUS
  <2>5. QED
    BY <1>1, <2>2, <2>3, <2>4 DEF A, A1, B, B1
<1>5. QED
  BY <1>2, <1>3, <1>4

\* From a to z the text t consists of the n pieces, of lengths L and behind the
\* positions b, and of tokens that are no braces.
Numbers(a, z, n, L, b) ==
  /\ \A i \in 1 .. n : L[i] \in Nat /\ b[i] \in Nat /\ a <= b[i] + 1 /\ b[i] + L[i] <= z
  /\ \A i, j \in 1 .. n : i < j => b[i] + L[i] <= b[j]
ArePieces(t, a, z, n, items, L, b) ==
  /\ Numbers(a, z, n, L, b)
  /\ \A i \in 1 .. n :
       /\ \A x \in 1 .. L[i] : SameBrace(t[b[i] + x], items[i][x]) /\ Depth(items[i], 1, x) >= 0
       /\ Depth(items[i], 1, L[i]) = 0
  /\ \A q \in a .. z : t[q].k \notin {"{", "}"} \/ \E i \in 1 .. n : q \in b[i] + 1 .. b[i] + L[i]

\* A text of balanced pieces without braces between them is balanced.
LEMMA DepthOfPieces ==
  ASSUME NEW t, NEW a \in Nat \ {0}, NEW z \in Nat, a <= z + 1,
         NEW n \in Nat, NEW items, NEW L, NEW b, ArePieces(t, a, z, n, items, L, b)
  PROVE  /\ \A q \in a .. z : Depth(t, 1, q) >= Depth(t, 1, a - 1)
         /\ Depth(t, 1, z) = Depth(t, 1, a - 1)
<1> DEFINE D(q) == Depth(t, 1, q)
           e(i, x) == Depth(items[i], 1, x)
           base == Depth(t, 1, a - 1)
           In(q, i) == q \in b[i] + 1 .. b[i] + L[i]
           Known(q) == /\ \A i \in 1 .. n : In(q, i) => D(q) = base + e(i, q - b[i])
                       /\ (\A i \in 1 .. n : ~In(q, i)) => D(q) = base
           S == {m \in Nat : m <= z - (a - 1) => Known((a - 1) + m)}
<1>1. base \in Int /\ \A q \in Int : D(q) \in Int
  <2>1. a - 1 \in Int
    OBVIOUS
  <2>2. 1 \in Nat
    OBVIOUS
  <2>3. QED
    BY <2>1, <2>2, DepthStep
<1>2. \A i \in 1 .. n : \A x \in Int : e(i, x) \in Int /\ (x < 1 => e(i, x) = 0)
  <2>1. 1 \in Nat
    OBVIOUS
  <2>2. QED
    BY <2>1, DepthStep
<1>3. ASSUME NEW i \in 1 .. n, NEW x \in 1 .. L[i]
      PROVE  D(b[i] + x) = D((b[i] + x) - 1) + (e(i, x) - e(i, x - 1))
  <2>1. L[i] \in Nat /\ b[i] \in Nat
    BY DEF ArePieces, Numbers
  <2>4. /\ b[i] + x \in Int /\ 1 <= b[i] + x /\ x \in Int /\ 1 <= x /\ 1 \in Nat
    BY <2>1
  <2>2. SameBrace(t[b[i] + x], items[i][x])
    BY DEF ArePieces
  <2> DEFINE y == b[i] + x
             f == items[i]
  <2>5. y \in Int /\ 1 <= y /\ SameBrace(t[y], f[x])
    BY <2>2, <2>4
  <2> HIDE DEF y, f
  <2>6. Depth(t, 1, y) = Depth(t, 1, y - 1) + (Depth(f, 1, x) - Depth(f, 1, x - 1))
    BY <2>4, <2>5, StepAlike
  <2>7. QED
    BY <2>6, Zenon DEF y, f
<1>4. ASSUME NEW q \in a .. z, \A i \in 1 .. n : ~In(q, i) PROVE D(q) = D(q - 1)
  <2>1. t[q].k \notin {"{", "}"}
    BY <1>4 DEF ArePieces
  <2>2. q \in Int /\ 1 <= q /\ 1 \in Nat
    OBVIOUS
  <2>3. QED
    BY <2>1, <2>2, DepthStep
<1>5. /\ \A i \in 1 .. n : /\ L[i] \in Nat /\ b[i] \in Nat /\ a <= b[i] + 1 /\ b[i] + L[i] <= z
                           /\ e(i, L[i]) = 0
                           /\ \A x \in 1 .. L[i] : e(i, x) >= 0
      /\ \A i, j \in 1 .. n : i < j => b[i] + L[i] <= b[j]
  BY DEF ArePieces, Numbers
<1>6. a \in Nat \ {0} /\ z \in Nat /\ a <= z + 1 /\ n \in Nat
  OBVIOUS
<1> HIDE DEF D, e, base
\* Behind a piece and outside of all pieces the depth is that of the start.
<1>7. ASSUME NEW q \in Int, Known(q), \A i \in 1 .. n : In(q, i) => q = b[i] + L[i]
      PROVE  D(q) = base
  <2>1. CASE \A i \in 1 .. n : ~In(q, i)
    BY <1>7, <2>1
  <2>2. CASE \E i \in 1 .. n : In(q, i)
    <3>1. PICK i \in 1 .. n : In(q, i)
      BY <2>2
    <3>2. q = b[i] + L[i] /\ D(q) = base + e(i, q - b[i])
      BY <1>7, <3>1
    <3>3. L[i] \in Nat /\ b[i] \in Nat /\ e(i, L[i]) = 0
      BY <1>5
    <3>4. q - b[i] = L[i]
      BY <3>2, <3>3
    <3>5. D(q) = base + 0
      BY <3>2, <3>3, <3>4
    <3>6. QED
      BY <1>1, <3>5
  <2>3. QED
    BY <2>1, <2>2
<1>8. 0 \in S
  <2>1. (a - 1) + 0 = a - 1
    OBVIOUS
  <2>2. \A i \in 1 .. n : ~In(a - 1, i)
    BY <1>5, <1>6
  <2>3. D(a - 1) = base
    BY DEF D, base
  <2>4. Known(a - 1)
    BY <2>2, <2>3
  <2> HIDE DEF Known
  <2>5. QED
    BY <2>1, <2>4
<1>9. ASSUME NEW m \in Nat, m \in S PROVE m + 1 \in S
  <2> SUFFICES ASSUME m + 1 <= z - (a - 1) PROVE Known((a - 1) + (m + 1))
    OBVIOUS
  <2> DEFINE q == (a - 1) + m
  <2>1. q + 1 \in a .. z /\ q \in Int /\ (a - 1) + (m + 1) = q + 1 /\ (q + 1) - 1 = q
    BY <1>6
  <2>2. Known(q)
    BY <1>6, <1>9
  <2> HIDE DEF q
  <2>3. ASSUME NEW i \in 1 .. n, In(q + 1, i) PROVE D(q + 1) = base + e(i, (q + 1) - b[i])
    <3>0. L[i] \in Nat /\ b[i] \in Nat
      BY <1>5
    <3> DEFINE x == (q + 1) - b[i]
    <3>1. x \in 1 .. L[i] /\ b[i] + x = q + 1 /\ (b[i] + x) - 1 = q /\ x \in Int /\ x - 1 \in Int
      BY <2>1, <2>3, <3>0
    <3>2. D(q + 1) = D(q) + (e(i, x) - e(i, x - 1))
      BY <1>3, <3>1
    <3>3. e(i, x) \in Int /\ e(i, x - 1) \in Int /\ (x - 1 < 1 => e(i, x - 1) = 0)
      BY <1>2, <3>1
    <3>4. CASE x = 1
      <4>1. ASSUME NEW j \in 1 .. n, In(q, j) PROVE q = b[j] + L[j]
        <5>1. L[j] \in Nat /\ b[j] \in Nat /\ q \in b[j] + 1 .. b[j] + L[j] /\ q = b[i]
          BY <1>5, <2>1, <3>0, <3>4, <4>1
        <5>2. CASE j < i
          <6>1. b[j] + L[j] <= b[i]
            BY <1>5, <5>2
          <6>2. QED
            BY <3>0, <5>1, <6>1
        <5>3. CASE i < j
          <6>1. b[i] + L[i] <= b[j]
            BY <1>5, <5>3
          <6>2. QED
            BY <3>0, <5>1, <6>1
        <5>4. CASE i = j
          BY <3>0, <5>1, <5>4
        <5>5. QED
          BY <5>2, <5>3, <5>4
      <4>2. D(q) = base
        BY <1>7, <2>1, <2>2, <4>1
      <4>3. e(i, x - 1) = 0
        BY <3>3, <3>4
      <4>4. D(q + 1) = base + (e(i, x) - 0)
        BY <3>2, <4>2, <4>3
      <4> HIDE DEF x
      <4>5. D(q + 1) = base + e(i, x)
        BY <1>1, <3>3, <4>4
      <4>6. QED
        BY <4>5 DEF x
    <3>5. CASE x # 1
      <4>1. In(q, i) /\ q - b[i] = x - 1
        BY <2>1, <3>0, <3>1, <3>5
      <4>2. D(q) = base + e(i, x - 1)
        BY <2>2, <4>1
      <4> HIDE DEF x
      <4>3. D(q + 1) = (base + e(i, x - 1)) + (e(i, x) - e(i, x - 1))
        BY <3>2, <4>2
      <4>4. D(q + 1) = base + e(i, x)
        BY <1>1, <3>3, <4>3
      <4>5. QED
        BY <4>4 DEF x
    <3>6. QED
      BY <3>4, <3>5
  <2>4. ASSUME \A i \in 1 .. n : ~In(q + 1, i) PROVE D(q + 1) = base
    <3>1. D(q + 1) = D(q)
      BY <1>4, <2>1, <2>4
    <3>2. ASSUME NEW i \in 1 .. n, In(q, i) PROVE q = b[i] + L[i]
      <4>1. L[i] \in Nat /\ b[i] \in Nat /\ ~In(q + 1, i)
        BY <1>5, <2>4
      <4>2. QED
        BY <2>1, <3>2, <4>1
    <3>3. D(q) = base
      BY <1>7, <2>1, <2>2, <3>2
    <3>4. QED
      BY <3>1, <3>3
  <2>5. Known(q + 1)
    <3> HIDE DEF In
    <3>1. \A i \in 1 .. n : In(q + 1, i) => D(q + 1) = base + e(i, (q + 1) - b[i])
      BY <2>3, Zenon
    <3>2. (\A i \in 1 .. n : ~In(q + 1, i)) => D(q + 1) = base
      BY <2>4, Zenon
    <3>3. QED
      BY <3>1, <3>2, Zenon
  <2> HIDE DEF Known
  <2>6. QED
    BY <2>1, <2>5
<1> HIDE DEF S
<1>10. \A m \in Nat : m \in S
  BY <1>8, <1>9, NatSetInduction
<1>11. ASSUME NEW q \in a - 1 .. z PROVE Known(q)
  <2> DEFINE m == q - (a - 1)
  <2>1. m \in Nat /\ m <= z - (a - 1) /\ (a - 1) + m = q
    BY <1>6
  <2>2. m \in S
    BY <1>10, <2>1
  <2> HIDE DEF m, Known
  <2>3. QED
    BY <2>1, <2>2 DEF S
<1>12. ASSUME NEW q \in a .. z PROVE D(q) >= base
  <2>1. q \in a - 1 .. z /\ q \in Int
    BY <1>6
  <2>2. Known(q)
    BY <1>11, <2>1
  <2>3. CASE \A i \in 1 .. n : ~In(q, i)
    BY <1>1, <2>2, <2>3
  <2>4. CASE \E i \in 1 .. n : In(q, i)
    <3>1. PICK i \in 1 .. n : In(q, i)
      BY <2>4
    <3>2. L[i] \in Nat /\ b[i] \in Nat
      BY <1>5
    <3>3. q - b[i] \in 1 .. L[i] /\ q - b[i] \in Int
      BY <2>1, <3>1, <3>2
    <3> DEFINE d == e(i, q - b[i])
    <3>4. d >= 0 /\ d \in Int
      BY <1>2, <1>5, <3>3
    <3>5. D(q) = base + d
      BY <2>2, <3>1
    <3> HIDE DEF d
    <3>6. QED
      BY <1>1, <3>4, <3>5
  <2>5. QED
    BY <2>3, <2>4
<1>13. D(z) = base
  <2>1. z \in a - 1 .. z /\ z \in Int
    BY <1>6
  <2>2. Known(z)
    BY <1>11, <2>1
  <2>3. ASSUME NEW i \in 1 .. n, In(z, i) PROVE z = b[i] + L[i]
    BY <1>5, <1>6, <2>3
  <2>4. QED
    BY <1>7, <2>1, <2>2, <2>3
<1>14. QED
  BY <1>12, <1>13 DEF D, base

\* What counts for balance in a sequence of tokens.
LEMMA BalancedIs ==
  ASSUME NEW t \in Seq(Tok)
  PROVE  Balanced(t) <=> /\ \A q \in 1 .. Len(t) : Depth(t, 1, q) >= 0
                         /\ Depth(t, 1, Len(t)) = 0
<1>1. DOMAIN t = 1 .. Len(t)
  OBVIOUS
<1>2. QED
  BY <1>1 DEF Balanced

\* Equal tokens are the same brace.
LEMMA SameIsSame == \A x, y : x = y => SameBrace(x, y)
BY DEF SameBrace

\* Separators are no braces and no strings.
LEMMA SeparatorKinds ==
  \A t \in Separators : t.k \in {"sp", "nl", ","}
BY KindOf DEF Separators, Blanks

\* Nothing has been counted before the first token.
LEMMA DepthBefore ==
  ASSUME NEW t
  PROVE  /\ Depth(t, 1, 0) = 0 /\ Depth(t, 1, 1) \in Int
         /\ t[1].k = "{" => Depth(t, 1, 1) = 1
         /\ t[1].k \notin {"{", "}"} => Depth(t, 1, 1) = 0
<1>1. 1 \in Nat /\ 1 \in Int /\ 1 - 1 = 0 /\ 0 \in Int /\ 0 < 1 /\ 1 <= 1
  OBVIOUS
<1>2. Depth(t, 1, 0) = 0 /\ Depth(t, 1, 1) \in Int
  BY <1>1, DepthStep
<1>3. t[1].k = "{" => Depth(t, 1, 1) = Depth(t, 1, 0) + 1
  <2>1. t[1].k = "{" => Depth(t, 1, 1) = Depth(t, 1, 1 - 1) + 1
    BY <1>1, DepthStep
  <2>2. QED
    BY <1>1, <2>1
<1>4. t[1].k \notin {"{", "}"} => Depth(t, 1, 1) = Depth(t, 1, 0)
  BY <1>1, DepthStep
<1>5. 0 + 1 = 1
  OBVIOUS
<1>6. QED
  BY <1>2, <1>3, <1>4, <1>5

\* There is no brace up to z.
Plain(t, z) == \A q \in 1 .. z : t[q].k \notin {"{", "}"}

\* Without braces there is no depth.
LEMMA PlainDepth ==
  ASSUME NEW t, NEW z \in Nat, Plain(t, z)
  PROVE  /\ \A q \in 1 .. z : Depth(t, 1, q) >= 0
         /\ Depth(t, 1, z) = 0
<1>1. 1 \in Nat \ {0} /\ 1 <= z + 1 /\ 0 \in Nat /\ 1 - 1 = 0
  OBVIOUS
<1>2. ArePieces(t, 1, z, 0, <<>>, <<>>, <<>>)
  <2>1. \A i \in 1 .. 0 : FALSE
    OBVIOUS
  <2>2. Numbers(1, z, 0, <<>>, <<>>)
    BY <2>1 DEF Numbers
  <2>3. QED
    BY <2>1, <2>2 DEF ArePieces, Plain
<1>3. /\ \A q \in 1 .. z : Depth(t, 1, q) >= Depth(t, 1, 1 - 1)
      /\ Depth(t, 1, z) = Depth(t, 1, 1 - 1)
  BY <1>1, <1>2, DepthOfPieces
<1>4. QED
  BY <1>1, <1>3, DepthBefore

\* Without braces a text is balanced.
LEMMA PlainBalanced ==
  ASSUME NEW t \in Seq(Tok), Plain(t, Len(t))
  PROVE  Balanced(t)
<1>1. Len(t) \in Nat
  OBVIOUS
<1>2. QED
  BY <1>1, PlainDepth, BalancedIs

\* Every item has its braces in pairs.
AllBalanced(items) == \A i \in 1 .. Len(items) : Balanced(items[i])

\* What is laid out has two ends.
LEMMA Ends ==
  ASSUME NEW E, NEW items, NEW b, NEW opening, NEW closing,
         LaidOut(E, items, b, opening, closing)
  PROVE  /\ E \in Seq(Tok) /\ Len(E) \in Nat /\ Len(E) - 1 \in Nat /\ Len(E) >= 2
         /\ E[1] = P(opening) /\ E[Len(E)] = P(closing)
<1>1. E \in Seq(Tok) /\ Len(E) >= 2 /\ E[1] = P(opening) /\ E[Len(E)] = P(closing)
  BY DEF LaidOut
<1>2. Len(E) \in Nat
  BY <1>1
<1>3. \A n \in Nat : n >= 2 => n - 1 \in Nat
  OBVIOUS
<1>4. QED
  BY <1>1, <1>2, <1>3

\* The pieces that are laid out.
LEMMA PiecesLaidOut ==
  ASSUME NEW E, NEW items \in Lists, NEW b, NEW opening, NEW closing,
         LaidOut(E, items, b, opening, closing), AllBalanced(items)
  PROVE  /\ \A q \in 2 .. Len(E) - 1 : Depth(E, 1, q) >= Depth(E, 1, 1)
         /\ Depth(E, 1, Len(E) - 1) = Depth(E, 1, 1)
<1> DEFINE n == Len(items)
           L == [i \in 1 .. n |-> Len(items[i])]
           N == Len(E)
           z == N - 1
<1>1. n \in Nat /\ \A i \in 1 .. n : items[i] \in Seq(Tok) /\ L[i] = Len(items[i]) /\ L[i] \in Nat
  BY ListIs
<1>2. z \in Nat /\ N \in Nat /\ N >= 2
  BY Ends
<1>10. /\ \A i \in 1 .. n : b[i] \in Nat \ {0} /\ b[i] + L[i] < N
       /\ \A i, j \in 1 .. n : i < j => b[i] + L[i] < b[j]
       /\ \A i \in 1 .. n : \A x \in 1 .. L[i] : E[b[i] + x] = items[i][x]
       /\ \A q \in 2 .. z :
            E[q] \in Separators \/ \E i \in 1 .. n : q \in b[i] + 1 .. b[i] + L[i]
  BY <1>1 DEF LaidOut, Holds
<1>11. \A i \in 1 .. n : /\ \A x \in 1 .. L[i] : Depth(items[i], 1, x) >= 0
                         /\ Depth(items[i], 1, L[i]) = 0
  BY <1>1, BalancedIs DEF AllBalanced
<1> HIDE DEF L, n, N
<1>3. Numbers(2, z, n, L, b)
  <2>1. ASSUME NEW i \in 1 .. n
        PROVE  L[i] \in Nat /\ b[i] \in Nat /\ 2 <= b[i] + 1 /\ b[i] + L[i] <= z
    <3>1. L[i] \in Nat /\ b[i] \in Nat \ {0} /\ b[i] + L[i] < N
      BY <1>1, <1>10
    <3>2. QED
      BY <1>2, <3>1
  <2>2. ASSUME NEW i \in 1 .. n, NEW j \in 1 .. n, i < j PROVE b[i] + L[i] <= b[j]
    <3>1. b[i] + L[i] < b[j]
      BY <1>10, <2>2
    <3>2. L[i] \in Nat /\ b[i] \in Nat /\ b[j] \in Nat
      BY <2>1
    <3>3. QED
      BY <3>1, <3>2
  <2>3. QED
    BY <2>1, <2>2 DEF Numbers
<1> HIDE DEF z
<1>4. ASSUME NEW i \in 1 .. n
      PROVE  /\ \A x \in 1 .. L[i] : /\ SameBrace(E[b[i] + x], items[i][x])
                                     /\ Depth(items[i], 1, x) >= 0
             /\ Depth(items[i], 1, L[i]) = 0
  BY <1>10, <1>11, SameIsSame
<1>5. ASSUME NEW q \in 2 .. z
      PROVE  E[q].k \notin {"{", "}"} \/ \E i \in 1 .. n : q \in b[i] + 1 .. b[i] + L[i]
  <2>1. E[q] \in Separators \/ \E i \in 1 .. n : q \in b[i] + 1 .. b[i] + L[i]
    BY <1>10
  <2>2. CASE E[q] \in Separators
    BY <2>2, SeparatorKinds
  <2>3. QED
    BY <2>1, <2>2
<1>6. ArePieces(E, 2, z, n, items, L, b)
  BY <1>3, <1>4, <1>5 DEF ArePieces
<1>12. 2 \in Nat \ {0} /\ 2 <= z + 1 /\ 2 - 1 = 1
  BY <1>2 DEF z
<1>7. /\ \A q \in 2 .. z : Depth(E, 1, q) >= Depth(E, 1, 2 - 1)
      /\ Depth(E, 1, z) = Depth(E, 1, 2 - 1)
  BY <1>1, <1>2, <1>6, <1>12, DepthOfPieces
<1>9. QED
  BY <1>7, <1>12 DEF z, N

\* The depth of a text of N tokens from what it is between the ends.
LEMMA DepthEnds ==
  ASSUME NEW E, NEW N \in Nat, N >= 2, NEW d \in Int, NEW c \in Int,
         Depth(E, 1, 1) = d, \A q \in 2 .. N - 1 : Depth(E, 1, q) >= d,
         Depth(E, 1, N - 1) = d, Depth(E, 1, N) = c
  PROVE  /\ \A q \in 1 .. N - 1 : Depth(E, 1, q) >= d
         /\ c >= d => \A q \in 1 .. N : Depth(E, 1, q) >= d
<1> DEFINE D(q) == Depth(E, 1, q)
<1>1. D(1) = d /\ (\A q \in 2 .. N - 1 : D(q) >= d) /\ D(N - 1) = d /\ D(N) = c
  OBVIOUS
<1> HIDE DEF D
<1>2. ASSUME NEW q \in 1 .. N - 1 PROVE D(q) >= d
  <2>1. q = 1 \/ q \in 2 .. N - 1
    OBVIOUS
  <2>2. QED
    BY <1>1, <2>1
<1>3. ASSUME c >= d, NEW q \in 1 .. N PROVE D(q) >= d
  <2>1. q = N \/ q \in 1 .. N - 1
    OBVIOUS
  <2>2. QED
    BY <1>1, <1>2, <1>3, <2>1
<1>4. QED
  BY <1>2, <1>3 DEF D

\* Items between braces, and between brackets.
IsObjectText(E, items, b) == LaidOut(E, items, b, "{", "}")
IsArrayText(E, items, b) == LaidOut(E, items, b, "[", "]")

\* Between braces, from the first to the last, the depth is at least one.
LEMMA ObjectDepth ==
  ASSUME NEW E, NEW items \in Lists, NEW b, IsObjectText(E, items, b), AllBalanced(items)
  PROVE  /\ \A q \in 1 .. Len(E) - 1 : Depth(E, 1, q) >= 1
         /\ Depth(E, 1, Len(E)) = 0
<1> DEFINE N == Len(E)
<1>1. /\ \A q \in 2 .. N - 1 : Depth(E, 1, q) >= Depth(E, 1, 1)
      /\ Depth(E, 1, N - 1) = Depth(E, 1, 1)
  BY PiecesLaidOut DEF IsObjectText
<1>2. N \in Nat /\ N >= 2 /\ E[1] = P("{") /\ E[N] = P("}")
  BY Ends DEF IsObjectText
<1> HIDE DEF N
<1>9. N \in Nat /\ N >= 2
  BY <1>2
<1>10. E[1].k = "{" /\ E[N].k = "}"
  BY <1>2, KindOf
<1>3. Depth(E, 1, 1) = 1
  BY <1>10, DepthBefore
<1>4. Depth(E, 1, N) = 0
  <2>1. 1 \in Nat /\ N \in Int /\ 1 <= N /\ 1 - 1 = 0
    BY <1>9
  <2>2. Depth(E, 1, N) = Depth(E, 1, N - 1) - 1
    BY <1>10, <2>1, DepthStep
  <2>3. Depth(E, 1, N - 1) = 1
    BY <1>1, <1>3
  <2>4. QED
    BY <2>1, <2>2, <2>3
<1>7. 0 \in Int /\ 1 \in Int
  OBVIOUS
<1>8. /\ \A q \in 2 .. N - 1 : Depth(E, 1, q) >= 1
      /\ Depth(E, 1, N - 1) = 1
  BY <1>1, <1>3
<1>5. \A q \in 1 .. N - 1 : Depth(E, 1, q) >= 1
  BY <1>9, <1>3, <1>4, <1>7, <1>8, DepthEnds
<1>6. QED
  BY <1>4, <1>5 DEF N

\* What stands between brackets is balanced when its items are.
LEMMA ArrayBalanced ==
  ASSUME NEW E, NEW items \in Lists, NEW b, IsArrayText(E, items, b), AllBalanced(items)
  PROVE  Balanced(E)
<1> DEFINE N == Len(E)
<1>1. /\ \A q \in 2 .. N - 1 : Depth(E, 1, q) >= Depth(E, 1, 1)
      /\ Depth(E, 1, N - 1) = Depth(E, 1, 1)
  BY PiecesLaidOut DEF IsArrayText
<1>2. N \in Nat /\ N >= 2 /\ E[1].k = "[" /\ E[N].k = "]" /\ E \in Seq(Tok)
  BY KindOf, Ends DEF IsArrayText
<1>3. E[1].k \notin {"{", "}"} /\ E[N].k \notin {"{", "}"}
  BY <1>2
<1> HIDE DEF N
<1>4. Depth(E, 1, 1) = 0
  BY <1>3, DepthBefore
<1>5. Depth(E, 1, N) = 0
  <2>1. 1 \in Nat /\ N \in Int /\ 1 <= N
    BY <1>2
  <2>2. Depth(E, 1, N) = Depth(E, 1, N - 1)
    BY <1>3, <2>1, DepthStep
  <2>3. QED
    BY <1>1, <1>4, <2>2
<1>7. 0 \in Int /\ 0 >= 0
  OBVIOUS
<1>8. /\ \A q \in 2 .. N - 1 : Depth(E, 1, q) >= 0
      /\ Depth(E, 1, N - 1) = 0
  BY <1>1, <1>4
<1>6. \A q \in 1 .. N : Depth(E, 1, q) >= 0
  BY <1>2, <1>4, <1>5, <1>7, <1>8, DepthEnds
<1>9. QED
  BY <1>2, <1>5, <1>6, BalancedIs DEF N

----------------------------------------------------------------------------
(* The members of an object.                                               *)

\* The blanks behind a colon.
Colons == Seq({P("sp")})

\* M is a member, its value from v on.
IsMember(M, name, value, v) ==
  /\ M \in Seq(Tok) /\ v \in Nat /\ v >= 3 /\ Len(value) \in Nat /\ Len(M) = (v - 1) + Len(value)
  /\ MemberAt(M, 1, v, name, value)
  /\ \A q \in 2 .. v - 1 : M[q].k \in {":", "sp"}

\* The name and the colon.
LEMMA NameIs ==
  ASSUME NEW A, NEW a \in A, NEW c \in A
  PROVE  <<a, c>> \in Seq(A) /\ Len(<<a, c>>) = 2 /\ <<a, c>>[1] = a /\ <<a, c>>[2] = c
OBVIOUS

\* What Member builds.
LEMMA MemberIs ==
  ASSUME NEW layout, layout.colon \in Colons, NEW name, Str(name, 0) \in Tok,
         NEW value \in Seq(Tok), value # <<>>
  PROVE  IsMember(Member(name, value, layout), name, value, 3 + Len(layout.colon))
<1> DEFINE a == <<Str(name, 0), P(":")>>
           c == layout.colon
           d == a \o c
           M == d \o value
           C == Len(c)
           V == Len(value)
<1>1. /\ a \in Seq(Tok) /\ Len(a) = 2 /\ a[1] = Str(name, 0) /\ a[2] = P(":")
  BY NameIs, TokensAre
<1>2. c \in Seq(Tok) /\ C \in Nat /\ \A q \in 1 .. C : c[q] = P("sp")
  <2>1. c \in Seq({P("sp")})
    BY DEF Colons
  <2> HIDE DEF c
  <2>2. C \in Nat /\ \A q \in 1 .. C : c[q] \in {P("sp")}
    BY <2>1
  <2>3. {P("sp")} \subseteq Tok
    BY TokensAre
  <2>4. c \in Seq(Tok)
    BY <2>1, <2>3, SeqLarger
  <2>5. QED
    BY <2>2, <2>4
<1> HIDE DEF a, c
<1>3. /\ d \in Seq(Tok) /\ Len(d) = Len(a) + Len(c)
      /\ \A i \in 1 .. Len(a) : d[i] = a[i]
      /\ \A i \in 1 .. Len(c) : d[Len(a) + i] = c[i]
  <2>1. a \in Seq(Tok) /\ c \in Seq(Tok)
    BY <1>1, <1>2
  <2>2. QED
    BY <2>1, Joined
<1> HIDE DEF d
<1>4. /\ M \in Seq(Tok) /\ Len(M) = Len(d) + Len(value) /\ Len(value) \in Nat
      /\ \A i \in 1 .. Len(d) : M[i] = d[i]
      /\ \A i \in 1 .. Len(value) : M[Len(d) + i] = value[i]
  <2>1. d \in Seq(Tok) /\ value \in Seq(Tok)
    BY <1>3
  <2>2. QED
    BY <2>1, Joined
<1>5. V # 0
  <2>1. value = [i \in 1 .. Len(value) |-> value[i]]
    OBVIOUS
  <2>2. QED
    BY <2>1
<1>6. M = Member(name, value, layout)
  BY DEF Member, M, d, a, c
<1> DEFINE N == Len(M)
           D == Len(d)
<1>7. D = 2 + C /\ N = D + V /\ V \in Nat /\ C \in Nat
  BY <1>1, <1>2, <1>3, <1>4
<1>8. \A i \in 1 .. 2 : d[i] = a[i]
  BY <1>1, <1>3
<1>9. \A i \in 1 .. C : d[2 + i] = P("sp")
  BY <1>1, <1>2, <1>3
<1>10. /\ \A i \in 1 .. D : M[i] = d[i]
       /\ \A i \in 1 .. V : M[D + i] = value[i]
  BY <1>4
<1> HIDE DEF M, N, D, C, V
<1>11. M[1] = Str(name, 0) /\ M[2] = P(":")
  <2>1. 1 \in 1 .. D /\ 2 \in 1 .. D /\ 1 \in 1 .. 2 /\ 2 \in 1 .. 2
    BY <1>7
  <2>2. M[1] = a[1] /\ M[2] = a[2]
    BY <1>8, <1>10, <2>1
  <2>3. QED
    BY <1>1, <2>2
<1>12. ASSUME NEW x \in 3 .. 2 + C PROVE M[x] = P("sp")
  <2> DEFINE i == x - 2
  <2>1. i \in 1 .. C /\ 2 + i = x /\ x \in 1 .. D
    BY <1>7
  <2> HIDE DEF i
  <2>2. QED
    BY <1>9, <1>10, <2>1
<1> DEFINE v == 3 + C
<1>13. v \in Nat /\ v >= 3 /\ v - 1 = D /\ 1 + 2 <= v /\ N = (v - 1) + V /\ 1 \in Nat \ {0}
  BY <1>7
<1>14. Holds(M, v - 1, value)
  <2>1. D \in Nat /\ D + V <= N
    BY <1>7
  <2>2. Holds(M, D, value)
    BY <1>10, <2>1 DEF Holds, N, V
  <2>3. QED
    BY <1>13, <2>2
<1>15. \A x \in 1 + 2 .. v - 1 : M[x] = P("sp")
  <2>1. 1 + 2 = 3 /\ v - 1 = 2 + C
    BY <1>7
  <2>2. QED
    BY <1>12, <2>1
<1>16. \A q \in 2 .. v - 1 : M[q].k \in {":", "sp"}
  <2> TAKE q \in 2 .. v - 1
  <2>1. q = 2 \/ q \in 3 .. 2 + C
    BY <1>7
  <2>2. M[q] = P(":") \/ M[q] = P("sp")
    BY <1>11, <1>12, <2>1
  <2>3. QED
    BY <2>2, KindOf
<1> HIDE DEF v
<1>20. Len(value) \in Nat \ {0}
  BY <1>5, <1>7 DEF V
<1>21. 1 + 1 = 2
  OBVIOUS
<1>17. MemberAt(M, 1, v, name, value)
  BY <1>11, <1>13, <1>14, <1>15, <1>20, <1>21 DEF MemberAt
<1>18. IsMember(M, name, value, v)
  <2>1. M \in Seq(Tok) /\ Len(value) \in Nat
    BY <1>4, <1>20 DEF M
  <2>2. Len(M) = (v - 1) + Len(value)
    BY <1>13 DEF N, V
  <2>3. QED
    BY <1>13, <1>16, <1>17, <2>1, <2>2 DEF IsMember
<1>19. QED
  BY <1>6, <1>18 DEF v, C, c

\* A member is balanced when its value is.
LEMMA MemberBalanced ==
  ASSUME NEW M, NEW name, NEW value \in Seq(Tok), NEW v, IsMember(M, name, value, v),
         Balanced(value)
  PROVE  Balanced(M)
<1> DEFINE N == Len(M)
           V == Len(value)
           L == <<V>>
           b == <<v - 1>>
           items == <<value>>
<1>1. M \in Seq(Tok) /\ v \in Nat /\ v >= 3 /\ V \in Nat /\ N = (v - 1) + V
  BY DEF IsMember
<1>2. /\ \A x \in 1 .. V : M[(v - 1) + x] = value[x]
      /\ M[1].k = "str"
      /\ \A q \in 2 .. v - 1 : M[q].k \in {":", "sp"}
  BY KindOf DEF IsMember, MemberAt, Holds
<1>3. /\ \A x \in 1 .. V : Depth(value, 1, x) >= 0
      /\ Depth(value, 1, V) = 0
  BY BalancedIs
<1>4. L[1] = V /\ b[1] = v - 1 /\ items[1] = value
  OBVIOUS
<1> HIDE DEF N, V, L, b, items
<1>5. \A i \in 1 .. 1 : i = 1
  OBVIOUS
<1>6. 1 \in Nat \ {0} /\ N \in Nat /\ 1 <= N + 1 /\ 1 - 1 = 0 /\ 1 \in Nat /\ 1 \in 1 .. 1
  BY <1>1
<1>7. Numbers(1, N, 1, L, b)
  <2>1. L[1] \in Nat /\ b[1] \in Nat /\ 1 <= b[1] + 1 /\ b[1] + L[1] <= N
    BY <1>1, <1>4
  <2>2. \A i, j \in 1 .. 1 : ~(i < j)
    OBVIOUS
  <2>3. QED
    BY <1>5, <2>1, <2>2 DEF Numbers
<1>8. ASSUME NEW i \in 1 .. 1
      PROVE  /\ \A x \in 1 .. L[i] : SameBrace(M[b[i] + x], items[i][x]) /\ Depth(items[i], 1, x) >= 0
             /\ Depth(items[i], 1, L[i]) = 0
  <2>1. i = 1
    BY <1>5
  <2>2. /\ \A x \in 1 .. V : SameBrace(M[(v - 1) + x], value[x]) /\ Depth(value, 1, x) >= 0
        /\ Depth(value, 1, V) = 0
    BY <1>2, <1>3, SameIsSame
  <2>3. QED
    BY <1>4, <2>1, <2>2
<1>9. ASSUME NEW q \in 1 .. N
      PROVE  M[q].k \notin {"{", "}"} \/ \E i \in 1 .. 1 : q \in b[i] + 1 .. b[i] + L[i]
  <2>1. q = 1 \/ q \in 2 .. v - 1 \/ q \in (v - 1) + 1 .. (v - 1) + V
    BY <1>1
  <2>2. q \in (v - 1) + 1 .. (v - 1) + V => q \in b[1] + 1 .. b[1] + L[1]
    BY <1>4
  <2>3. q = 1 \/ q \in 2 .. v - 1 => M[q].k \notin {"{", "}"}
    BY <1>2
  <2>4. QED
    BY <1>6, <2>1, <2>2, <2>3
<1>10. ArePieces(M, 1, N, 1, items, L, b)
  BY <1>7, <1>8, <1>9 DEF ArePieces
<1>11. /\ \A q \in 1 .. N : Depth(M, 1, q) >= Depth(M, 1, 1 - 1)
       /\ Depth(M, 1, N) = Depth(M, 1, 1 - 1)
  BY <1>6, <1>10, DepthOfPieces
<1>12. Depth(M, 1, 1 - 1) = 0
  BY <1>6, DepthBefore
<1>13. QED
  BY <1>1, <1>11, <1>12, BalancedIs DEF N

\* The members of the object O, their names at h and their values at v; no other
\* string is in O.
Members(O, n, nm, vl, h, v) ==
  /\ O \in Seq(Tok)
  /\ \A i \in 1 .. n : MemberAt(O, h[i], v[i], nm[i], vl[i]) /\ h[i] > 1
  /\ \A q \in 1 .. Len(O) : O[q].k = "str" =>
       \E i \in 1 .. n : q = h[i] \/ q \in v[i] .. (v[i] - 1) + Len(vl[i])

\* Each of the items is a member with its name and value.
AreMembers(items, nm, vl, c) ==
  \A i \in 1 .. Len(items) : IsMember(items[i], nm[i], vl[i], c)

\* Where the members of an object are.
LEMMA ObjectMembers ==
  ASSUME NEW O, NEW items \in Lists, NEW b, IsObjectText(O, items, b),
         NEW nm, NEW vl, NEW c, c \in Nat, AreMembers(items, nm, vl, c)
  PROVE  LET n == Len(items)
         IN Members(O, n, nm, vl, [i \in 1 .. n |-> b[i] + 1], [i \in 1 .. n |-> b[i] + c])
<1> DEFINE n == Len(items)
           h == [i \in 1 .. n |-> b[i] + 1]
           v == [i \in 1 .. n |-> b[i] + c]
           N == Len(O)
           L == [i \in 1 .. n |-> Len(items[i])]
           V == [i \in 1 .. n |-> Len(vl[i])]
<1>1. O \in Seq(Tok) /\ N \in Nat /\ N >= 2 /\ O[1] = P("{") /\ O[N] = P("}")
  BY Ends DEF IsObjectText
<1>2. n \in Nat /\ \A i \in 1 .. n : items[i] \in Seq(Tok) /\ L[i] = Len(items[i]) /\ L[i] \in Nat
  BY ListIs
<1>3. \A i \in 1 .. n : /\ V[i] = Len(vl[i]) /\ V[i] \in Nat /\ c \in Nat /\ c >= 3
                        /\ L[i] = (c - 1) + V[i] /\ MemberAt(items[i], 1, c, nm[i], vl[i])
                        /\ \A q \in 2 .. c - 1 : items[i][q].k \in {":", "sp"}
  BY <1>2 DEF AreMembers, IsMember
<1>4. /\ \A i \in 1 .. n : b[i] \in Nat \ {0} /\ Holds(O, b[i], items[i])
      /\ \A q \in 2 .. N - 1 :
           O[q] \in Separators \/ \E i \in 1 .. n : q \in b[i] + 1 .. b[i] + L[i]
  BY <1>2 DEF IsObjectText, LaidOut
<1>5. \A i \in 1 .. n : h[i] = b[i] + 1 /\ v[i] = b[i] + c
  OBVIOUS
<1>6. \A i \in 1 .. n : \A x \in 1 .. L[i] : O[b[i] + x] = items[i][x]
  BY <1>2, <1>4 DEF Holds
<1> HIDE DEF n, h, v, N, L, V
<1>11. O[1].k # "str" /\ O[N].k # "str"
  <2>1. O[1].k = "{" /\ O[N].k = "}"
    BY <1>1, KindOf
  <2>2. QED
    BY <2>1
<1>12. N \in Nat /\ N >= 2
  BY <1>1
<1>7. ASSUME NEW i \in 1 .. n
      PROVE  MemberAt(O, h[i], v[i], nm[i], vl[i]) /\ h[i] > 1
  <2>1. MemberAt(O, b[i] + 1, b[i] + c, nm[i], vl[i])
    BY <1>1, <1>2, <1>3, <1>4, MemberWithin
  <2>2. b[i] \in Nat \ {0} /\ h[i] = b[i] + 1
    BY <1>4, <1>5
  <2>3. h[i] > 1
    BY <2>2
  <2>4. QED
    BY <1>5, <2>1, <2>3
<1>8. ASSUME NEW q \in 1 .. N, O[q].k = "str"
      PROVE  \E i \in 1 .. n : q = h[i] \/ q \in v[i] .. (v[i] - 1) + V[i]
  <2>1. q # 1 /\ q # N
    BY <1>8, <1>11
  <2>2. q \in 2 .. N - 1
    BY <1>12, <2>1
  <2>3. O[q] \notin Separators
    BY <1>8, SeparatorKinds
  <2>4. PICK i \in 1 .. n : q \in b[i] + 1 .. b[i] + L[i]
    BY <1>4, <2>2, <2>3
  <2> DEFINE x == q - b[i]
  <2>5. b[i] \in Nat /\ L[i] \in Nat /\ V[i] \in Nat /\ c \in Nat /\ c >= 3 /\ L[i] = (c - 1) + V[i]
    BY <1>2, <1>3, <1>4
  <2>6. x \in 1 .. L[i] /\ b[i] + x = q
    BY <2>4, <2>5
  <2>7. O[q] = items[i][x]
    BY <1>6, <2>6
  <2>8. x \notin 2 .. c - 1
    <3> SUFFICES ASSUME x \in 2 .. c - 1 PROVE FALSE
      OBVIOUS
    <3>1. items[i][x].k \in {":", "sp"}
      BY <1>3
    <3>2. QED
      BY <1>8, <2>7, <3>1
  <2>9. x = 1 \/ x \in c .. (c - 1) + V[i]
    BY <2>5, <2>6, <2>8
  <2>10. h[i] = b[i] + 1 /\ v[i] = b[i] + c
    BY <1>5
  <2> HIDE DEF x
  <2>11. q = h[i] \/ q \in v[i] .. (v[i] - 1) + V[i]
    BY <2>5, <2>6, <2>9, <2>10
  <2>12. QED
    BY <2>11
<1>9. Members(O, n, nm, vl, h, v)
  <2>1. \A q \in 1 .. Len(O) : O[q].k = "str" =>
          \E i \in 1 .. n : q = h[i] \/ q \in v[i] .. (v[i] - 1) + Len(vl[i])
    BY <1>3, <1>8 DEF N
  <2>2. QED
    BY <1>1, <1>7, <2>1 DEF Members
<1>10. QED
  BY <1>9 DEF h, v, n

----------------------------------------------------------------------------
(* The parameters of a request.                                            *)

\* A layout's blanks.
LEMMA LayoutIs ==
  ASSUME NEW layout, IsLayout(layout)
  PROVE  /\ layout.gap \in Gaps /\ layout.colon \in Colons
         /\ Len(layout.colon) \in Nat /\ 3 + Len(layout.colon) \in Nat
<1>1. layout.gap \in Gaps /\ layout.colon \in Colons
  BY DEF IsLayout, Gaps, Colons
<1>2. \A s \in Colons : Len(s) \in Nat
  BY DEF Colons
<1>3. \A n \in Nat : 3 + n \in Nat
  OBVIOUS
<1>4. QED
  BY <1>1, <1>2, <1>3

\* No string of the tokens is one of the words.
Avoids(tokens, words) ==
  \A q \in 1 .. Len(tokens) : tokens[q].k = "str" => tokens[q].v \notin words

\* The set of the strings of a sequence of tokens.
LEMMA StringsAre ==
  ASSUME NEW tokens \in Seq(Tok), NEW words, Strings(tokens) \cap words = {}
  PROVE  Avoids(tokens, words)
<1>1. DOMAIN tokens = 1 .. Len(tokens)
  OBVIOUS
<1>2. QED
  BY <1>1 DEF Strings, Avoids

\* A string with a name that is in STRING is a token.
LEMMA NameTok ==
  \A name \in STRING : Str(name, 0) \in Tok
<1>1. ASSUME NEW name \in STRING PROVE Str(name, 0) \in Token
  BY DEF Token, Str
<1>2. QED
  BY <1>1, TokensAre

\* What is known of a field.
FieldOk(name, value) ==
  /\ name \notin Names /\ Str(name, 0) \in Tok
  /\ value \in Seq(Tok) /\ value # <<>> /\ value[1].k \notin {"sp", ":"}
  /\ Balanced(value) /\ Avoids(value, Names \cup Fields)

\* Every field of a client has what FieldOk says.
LEMMA FieldIs ==
  ASSUME NEW f, IsField(f)
  PROVE  FieldOk(f.name, f.value)
<1>1. /\ f.name \in STRING \ Names
      /\ f.value \in Seq(Token) \ {<<>>} /\ f.value[1].k \notin {"sp", ":"}
      /\ Balanced(f.value) /\ Strings(f.value) \cap (Names \cup Fields) = {}
  BY DEF IsField
<1>2. f.value \in Seq(Tok)
  <2>1. f.value \in Seq(Token)
    BY <1>1
  <2>2. QED
    BY <2>1, TokensAre, SeqLarger
<1>3. Avoids(f.value, Names \cup Fields)
  BY <1>1, <1>2, StringsAre
<1>4. QED
  BY <1>1, <1>2, <1>3, NameTok DEF FieldOk

\* The names and the values of an object's fields.
names(e) == [i \in 1 .. Len(e.fields) |-> e.fields[i].name]
values(e) == [i \in 1 .. Len(e.fields) |-> e.fields[i].value]
FieldsOk(e) == \A i \in 1 .. Len(e.fields) : FieldOk(names(e)[i], values(e)[i])

\* A parameter that is an object, with its fields.
IsObjectParam(e) ==
  e.token = Nul /\ IsSeq(e.fields) /\ \A i \in DOMAIN e.fields : IsField(e.fields[i])

\* Where the fields of an object are.
LEMMA ObjectParamIs ==
  ASSUME NEW e, IsObjectParam(e), NEW layout, IsLayout(layout)
  PROVE  LET O == RenderParam(e, layout)
         IN /\ O \in Seq(Tok) /\ Len(O) >= 2 /\ O[1] = P("{") /\ Balanced(O)
            /\ Len(e.fields) \in Nat /\ DOMAIN e.fields = 1 .. Len(e.fields) /\ FieldsOk(e)
            /\ \E h, v : Members(O, Len(e.fields), names(e), values(e), h, v)
<1> DEFINE n == Len(e.fields)
           c == 3 + Len(layout.colon)
           items == [i \in DOMAIN e.fields |-> Member(e.fields[i].name, e.fields[i].value, layout)]
           O == RenderParam(e, layout)
<1>1. /\ n \in Nat /\ DOMAIN e.fields = 1 .. n /\ \A i \in 1 .. n : IsField(e.fields[i])
  BY DEF IsObjectParam, IsSeq
<1>2. O = Enclosed("{", items, "}", layout)
  BY DEF RenderParam, IsObjectParam
<1>3. \A i \in 1 .. n : FieldOk(names(e)[i], values(e)[i])
  BY <1>1, FieldIs DEF names, values
<1>4. \A i \in 1 .. n : items[i] = Member(names(e)[i], values(e)[i], layout)
  BY <1>1 DEF names, values
<1>5. items = [i \in 1 .. n |-> items[i]]
  BY <1>1
<1>6. c \in Nat /\ layout.colon \in Colons /\ layout.gap \in Gaps
  BY LayoutIs
<1> HIDE DEF items, n, c, O
<1>7. ASSUME NEW i \in 1 .. n
      PROVE  IsMember(items[i], names(e)[i], values(e)[i], c) /\ Balanced(items[i])
  <2> DEFINE a == names(e)[i]
             d == values(e)[i]
  <2>1. Str(a, 0) \in Tok /\ d \in Seq(Tok) /\ d # <<>> /\ Balanced(d)
    BY <1>3 DEF FieldOk
  <2>2. items[i] = Member(a, d, layout)
    BY <1>4
  <2> HIDE DEF a, d
  <2>3. IsMember(Member(a, d, layout), a, d, c)
    BY <1>6, <2>1, MemberIs DEF c
  <2>4. IsMember(items[i], a, d, c)
    BY <2>2, <2>3
  <2>5. Balanced(items[i])
    BY <2>1, <2>4, MemberBalanced
  <2>6. QED
    BY <2>4, <2>5 DEF a, d
<1>8. \A i \in 1 .. n : items[i] \in Seq(Tok)
  BY <1>7 DEF IsMember
<1>9. items \in Lists /\ Len(items) = n
  BY <1>1, <1>5, <1>8, IsList
<1>10. PICK b : IsObjectText(O, items, b)
  <2>1. P("{") \in Tok /\ P("}") \in Tok
    BY TokensAre
  <2>2. QED
    BY <1>2, <1>6, <1>9, <2>1, EnclosedIs DEF IsObjectText
<1>11. AllBalanced(items) /\ AreMembers(items, names(e), values(e), c)
  BY <1>7, <1>9 DEF AllBalanced, AreMembers
<1>12. \E h, v : Members(O, n, names(e), values(e), h, v)
  BY <1>6, <1>9, <1>10, <1>11, ObjectMembers
<1>13. O \in Seq(Tok) /\ Len(O) >= 2 /\ Len(O) \in Nat /\ O[1] = P("{")
  BY <1>10, Ends DEF IsObjectText
<1>14. Balanced(O)
  <2> DEFINE N == Len(O)
  <2>1. /\ \A q \in 1 .. N - 1 : Depth(O, 1, q) >= 1
        /\ Depth(O, 1, N) = 0
    BY <1>9, <1>10, <1>11, ObjectDepth
  <2>2. N \in Nat
    BY <1>13
  <2> HIDE DEF N
  <2>3. ASSUME NEW q \in 1 .. N PROVE Depth(O, 1, q) >= 0
    <3> DEFINE d == Depth(O, 1, q)
    <3>1. (q \in 1 .. N - 1 => d >= 1) /\ (q = N => d = 0)
      BY <2>1
    <3>2. q \in 1 .. N - 1 \/ q = N
      BY <2>2
    <3>6. q \in Int /\ 1 \in Nat
      BY <2>2
    <3>3. d \in Int
      BY <3>6, DepthStep
    <3> HIDE DEF d
    <3>4. d >= 0
      BY <3>1, <3>2, <3>3
    <3>5. QED
      BY <3>4 DEF d
  <2>4. QED
    BY <1>13, <2>1, <2>3, BalancedIs DEF N
<1>15. QED
  BY <1>1, <1>3, <1>12, <1>13, <1>14 DEF FieldsOk, n, O

\* A parameter that is one token.
IsScalarParam(e) ==
  /\ e.token \in Token /\ e.token.k \in {"str", "num", "word"} /\ e.fields = <<>>
  /\ Strings(<<e.token>>) \cap (Names \cup Fields) = {}
  /\ e.token.k = "num" => e.token.len <= 31

\* The end of the text is no token of a client.
LEMMA NulKind == \A t : t.k \in {"str", "num", "word"} => t # Nul
<1>1. Nul.k = "nul"
  BY DEF Nul
<1>2. QED
  BY <1>1

\* A parameter is a token or an object.
LEMMA ParamKinds ==
  ASSUME NEW e, IsParam(e)
  PROVE  /\ IsScalarParam(e) \/ IsObjectParam(e)
         /\ IsScalarParam(e) => e.token # Nul
         /\ IsObjectParam(e) => e.token = Nul
<1>1. IsScalarParam(e) \/ IsObjectParam(e)
  BY DEF IsParam, IsScalarParam, IsObjectParam
<1>2. e.token.k \in {"str", "num", "word"} => e.token # Nul
  BY NulKind
<1>3. QED
  BY <1>1, <1>2 DEF IsScalarParam, IsObjectParam

\* A token alone.
LEMMA ScalarParamIs ==
  ASSUME NEW e, IsScalarParam(e), NEW layout
  PROVE  LET O == RenderParam(e, layout)
         IN /\ O \in Seq(Tok) /\ Len(O) = 1 /\ O[1] = e.token /\ e.token \in Tok
            /\ e.token.k \in {"str", "num", "word"} /\ Balanced(O)
            /\ Avoids(O, Names \cup Fields) /\ Len(e.fields) = 0
<1> DEFINE t == e.token
           O == RenderParam(e, layout)
<1>1. t \in Token /\ t.k \in {"str", "num", "word"} /\ Strings(<<t>>) \cap (Names \cup Fields) = {}
  BY DEF IsScalarParam
<1>2. t # Nul
  BY <1>1, NulKind
<1>3. O = <<t>>
  BY <1>2 DEF RenderParam
<1> HIDE DEF t, O
<1>4. t \in Tok
  BY <1>1, TokensAre
<1>5. O \in Seq(Tok) /\ Len(O) = 1 /\ O[1] = t
  BY <1>3, <1>4, OneIs
<1>6. Plain(O, Len(O))
  <2>1. \A q \in 1 .. 1 : q = 1
    OBVIOUS
  <2>2. QED
    BY <1>1, <1>5, <2>1 DEF Plain
<1>7. Balanced(O)
  BY <1>5, <1>6, PlainBalanced
<1>8. Avoids(O, Names \cup Fields)
  BY <1>1, <1>3, <1>5, StringsAre
<1>9. Len(e.fields) = 0
  BY DEF IsScalarParam
<1>10. QED
  BY <1>1, <1>4, <1>5, <1>7, <1>8, <1>9 DEF t, O

\* What is known of a parameter in the text.
ParamOk(O, e) ==
  /\ O \in Seq(Tok) /\ Len(O) \in Nat \ {0} /\ Balanced(O)
  /\ Len(e.fields) \in Nat /\ DOMAIN e.fields = 1 .. Len(e.fields) /\ FieldsOk(e)
  /\ \/ IsScalarParam(e) /\ Len(O) = 1 /\ O[1] = e.token /\ Avoids(O, Names \cup Fields)
     \/ IsObjectParam(e) /\ O[1] = P("{")
  /\ Avoids(O, Names \cup Fields) \/ \E h, v : Members(O, Len(e.fields), names(e), values(e), h, v)
  /\ Len(e.fields) # 0 => \E h, v : Members(O, Len(e.fields), names(e), values(e), h, v)

\* What RenderParam writes is what ParamOk says.
LEMMA ParamIs ==
  ASSUME NEW e, IsParam(e), NEW layout, IsLayout(layout)
  PROVE  ParamOk(RenderParam(e, layout), e)
<1> DEFINE O == RenderParam(e, layout)
<1>1. CASE IsScalarParam(e)
  <2>1. /\ O \in Seq(Tok) /\ Len(O) = 1 /\ O[1] = e.token /\ Balanced(O)
        /\ Avoids(O, Names \cup Fields) /\ Len(e.fields) = 0
    BY <1>1, ScalarParamIs
  <2>2. Len(e.fields) \in Nat /\ DOMAIN e.fields = 1 .. Len(e.fields)
    BY <1>1 DEF IsScalarParam
  <2>3. FieldsOk(e)
    BY <2>1 DEF FieldsOk
  <2>4. 1 \in Nat \ {0}
    OBVIOUS
  <2> HIDE DEF O
  <2>5. ParamOk(O, e)
    BY <1>1, <2>1, <2>2, <2>3, <2>4 DEF ParamOk
  <2>6. QED
    BY <2>5 DEF O
<1>2. CASE IsObjectParam(e)
  <2>1. /\ O \in Seq(Tok) /\ Len(O) >= 2 /\ O[1] = P("{") /\ Balanced(O)
        /\ Len(e.fields) \in Nat /\ DOMAIN e.fields = 1 .. Len(e.fields) /\ FieldsOk(e)
        /\ \E h, v : Members(O, Len(e.fields), names(e), values(e), h, v)
    BY <1>2, ObjectParamIs
  <2> HIDE DEF O
  <2>6. O \in Seq(Tok)
    BY <2>1
  <2>2. Len(O) \in Nat
    BY <2>6
  <2>3. \A n \in Nat : n >= 2 => n \in Nat \ {0}
    OBVIOUS
  <2>4. ParamOk(O, e)
    BY <1>2, <2>1, <2>2, <2>3 DEF ParamOk
  <2>5. QED
    BY <2>4 DEF O
<1>3. QED
  BY <1>1, <1>2, ParamKinds

\* A string in an object is a member's name or in a member's value.
LEMMA MemberStrings ==
  ASSUME NEW O, NEW n, NEW nm, NEW vl, NEW h, NEW v, Members(O, n, nm, vl, h, v),
         NEW q \in 1 .. Len(O), O[q].k = "str"
  PROVE  \E i \in 1 .. n :
           \/ O[q].v = nm[i] /\ q = h[i] /\ MemberAt(O, q, v[i], nm[i], vl[i]) /\ q > 1
           \/ \E y \in 1 .. Len(vl[i]) : O[q] = vl[i][y] /\ q = (v[i] - 1) + y
<1>1. PICK i \in 1 .. n : q = h[i] \/ q \in v[i] .. (v[i] - 1) + Len(vl[i])
  BY DEF Members
<1>2. MemberAt(O, h[i], v[i], nm[i], vl[i]) /\ h[i] > 1
  BY DEF Members
<1>3. CASE q = h[i]
  <2>1. O[q] = Str(nm[i], 0)
    BY <1>2, <1>3 DEF MemberAt
  <2>2. O[q].v = nm[i]
    BY <2>1, KindOf
  <2>3. QED
    BY <1>2, <1>3, <2>2
<1>4. CASE q \in v[i] .. (v[i] - 1) + Len(vl[i])
  <2> DEFINE V == Len(vl[i])
             w == v[i]
             y == q - (w - 1)
  <2>1. w \in Nat /\ V \in Nat /\ \A x \in 1 .. V : O[(w - 1) + x] = vl[i][x]
    BY <1>2 DEF MemberAt, Holds
  <2>2. q \in w .. (w - 1) + V
    BY <1>4
  <2> HIDE DEF V, w
  <2>3. y \in 1 .. V /\ q = (w - 1) + y
    BY <2>1, <2>2
  <2>4. O[q] = vl[i][y]
    BY <2>1, <2>3
  <2> HIDE DEF y
  <2>5. QED
    BY <2>3, <2>4 DEF V, w
<1>5. QED
  BY <1>1, <1>3, <1>4

\* What reads like a word in a parameter.
LEMMA ParamStrings ==
  ASSUME NEW O, NEW e, ParamOk(O, e), NEW q \in 1 .. Len(O), O[q].k = "str"
  PROVE  /\ O[q].v \notin Names
         /\ O[q].v \in Fields =>
              \E x \in 1 .. Len(e.fields) : \E w :
                O[q].v = names(e)[x] /\ MemberAt(O, q, w, names(e)[x], values(e)[x])
<1>1. CASE Avoids(O, Names \cup Fields)
  BY <1>1 DEF Avoids
<1>2. ASSUME NEW h, NEW v, Members(O, Len(e.fields), names(e), values(e), h, v)
      PROVE  /\ O[q].v \notin Names
             /\ O[q].v \in Fields =>
                  \E x \in 1 .. Len(e.fields) : \E w :
                    O[q].v = names(e)[x] /\ MemberAt(O, q, w, names(e)[x], values(e)[x])
  <2> DEFINE nm == names(e)
             vl == values(e)
             n == Len(e.fields)
  <2> HIDE DEF nm, vl, n
  <2>1. PICK x \in 1 .. n :
          \/ O[q].v = nm[x] /\ q = h[x] /\ MemberAt(O, q, v[x], nm[x], vl[x]) /\ q > 1
          \/ \E y \in 1 .. Len(vl[x]) : O[q] = vl[x][y] /\ q = (v[x] - 1) + y
    BY <1>2, MemberStrings DEF nm, vl, n
  <2>2. nm[x] \notin Names /\ Avoids(vl[x], Names \cup Fields)
    BY DEF ParamOk, FieldsOk, FieldOk, nm, vl, n
  <2>3. CASE O[q].v = nm[x] /\ MemberAt(O, q, v[x], nm[x], vl[x])
    BY <2>2, <2>3 DEF nm, vl, n
  <2>4. CASE \E y \in 1 .. Len(vl[x]) : O[q] = vl[x][y]
    BY <2>2, <2>4 DEF Avoids
  <2>5. QED
    BY <2>1, <2>3, <2>4
<1>3. QED
  BY <1>1, <1>2 DEF ParamOk

\* The array A of the parameters, the text of each behind the position b.
ParamsText(A, params, items, b) ==
  /\ Len(params) \in Nat /\ DOMAIN params = 1 .. Len(params)
  /\ items \in Lists /\ Len(items) = Len(params) /\ IsArrayText(A, items, b)
  /\ \A i \in 1 .. Len(params) : ParamOk(items[i], params[i])

\* The parameters of a request are written as such an array.
LEMMA ParamsTextIs ==
  ASSUME NEW r, IsSeq(r.params), \A i \in DOMAIN r.params : IsParam(r.params[i]),
         NEW layout, IsLayout(layout)
  PROVE  \E items, b : ParamsText(Value(r, "params", layout), r.params, items, b)
<1> DEFINE ps == r.params
           n == Len(ps)
           items == [i \in DOMAIN ps |-> RenderParam(ps[i], layout)]
           A == Value(r, "params", layout)
<1>1. n \in Nat /\ DOMAIN ps = 1 .. n
  BY DEF IsSeq
<1>2. A = Enclosed("[", items, "]", layout)
  BY DEF Value
<1>3. \A i \in 1 .. n : ParamOk(items[i], ps[i])
  BY <1>1, ParamIs
<1>4. \A i \in 1 .. n : items[i] \in Seq(Tok)
  BY <1>3 DEF ParamOk
<1>5. items = [i \in 1 .. n |-> items[i]]
  BY <1>1
<1> HIDE DEF items, n, A, ps
<1>6. items \in Lists /\ Len(items) = n
  BY <1>1, <1>4, <1>5, IsList
<1>7. layout.gap \in Gaps
  BY LayoutIs
<1>8. PICK b : IsArrayText(A, items, b)
  <2>1. P("[") \in Tok /\ P("]") \in Tok
    BY TokensAre
  <2>2. QED
    BY <1>2, <1>6, <1>7, <2>1, EnclosedIs DEF IsArrayText
<1>9. ParamsText(A, ps, items, b)
  BY <1>1, <1>3, <1>6, <1>8 DEF ParamsText, n
<1>10. QED
  BY <1>9 DEF A, ps

\* What the layout of the array says, in numbers.
LEMMA ParamsTextAt ==
  ASSUME NEW A, NEW params, NEW items, NEW b, ParamsText(A, params, items, b)
  PROVE  /\ A \in Seq(Tok) /\ Len(A) \in Nat /\ Len(A) >= 2 /\ A[1] = P("[") /\ A[Len(A)] = P("]")
         /\ \A i \in 1 .. Len(params) :
              /\ b[i] \in Nat \ {0} /\ b[i] + Len(items[i]) < Len(A) /\ Len(items[i]) \in Nat \ {0}
              /\ Holds(A, b[i], items[i]) /\ items[i] \in Seq(Tok)
              /\ \A x \in 1 .. Len(items[i]) : A[b[i] + x] = items[i][x]
              /\ i < Len(params) => A[b[i] + Len(items[i]) + 1] = P(",")
         /\ \A i, j \in 1 .. Len(params) : i < j => b[i] + Len(items[i]) < b[j]
         /\ \A q \in 2 .. Len(A) - 1 :
              A[q].k \in {"sp", "nl", ","}
              \/ \E i \in 1 .. Len(params) : q \in b[i] + 1 .. b[i] + Len(items[i])
<1>1. items \in Lists /\ Len(items) = Len(params) /\ LaidOut(A, items, b, "[", "]")
  BY DEF ParamsText, IsArrayText
<1>2. A \in Seq(Tok) /\ Len(A) \in Nat /\ Len(A) >= 2 /\ A[1] = P("[") /\ A[Len(A)] = P("]")
  BY <1>1, Ends
<1>3. \A i \in 1 .. Len(params) : items[i] \in Seq(Tok) /\ Len(items[i]) \in Nat \ {0}
  BY DEF ParamsText, ParamOk
<1>4. \A i \in 1 .. Len(params) :
        /\ b[i] \in Nat \ {0} /\ b[i] + Len(items[i]) < Len(A) /\ Holds(A, b[i], items[i])
        /\ i < Len(params) => A[b[i] + Len(items[i]) + 1] = P(",")
  BY <1>1 DEF LaidOut
<1>5. \A i, j \in 1 .. Len(params) : i < j => b[i] + Len(items[i]) < b[j]
  BY <1>1 DEF LaidOut
<1>6. ASSUME NEW q \in 2 .. Len(A) - 1
      PROVE  A[q].k \in {"sp", "nl", ","}
             \/ \E i \in 1 .. Len(params) : q \in b[i] + 1 .. b[i] + Len(items[i])
  <2>1. A[q] \in Separators \/ \E i \in 1 .. Len(params) : q \in b[i] + 1 .. b[i] + Len(items[i])
    BY <1>1 DEF LaidOut
  <2>2. QED
    BY <2>1, SeparatorKinds
<1>7. \A i \in 1 .. Len(params) : \A x \in 1 .. Len(items[i]) : A[b[i] + x] = items[i][x]
  BY <1>4 DEF Holds
<1>8. QED
  BY <1>2, <1>3, <1>4, <1>5, <1>6, <1>7

\* The field x of the parameter i stands at q in A.
FieldAt(A, q, w, params, i, x) ==
  MemberAt(A, q, w, names(params[i])[x], values(params[i])[x])

\* What reads like a word in the array of the parameters is a field's name.
LEMMA ArrayStrings ==
  ASSUME NEW A, NEW params, NEW items, NEW b, ParamsText(A, params, items, b),
         NEW q \in 1 .. Len(A), A[q].k = "str"
  PROVE  /\ A[q].v \notin Names /\ q > 1
         /\ A[q].v \in Fields =>
              \E i \in 1 .. Len(params) : \E x \in 1 .. Len(params[i].fields) : \E w :
                A[q].v = names(params[i])[x] /\ FieldAt(A, q, w, params, i, x)
<1> DEFINE n == Len(params)
           N == Len(A)
           L == [i \in 1 .. n |-> Len(items[i])]
<1>1. /\ A[1] = P("[") /\ A[N] = P("]") /\ A \in Seq(Tok)
      /\ \A i \in 1 .. n : Holds(A, b[i], items[i]) /\ items[i] \in Seq(Tok)
  BY ParamsTextAt
<1>2. N \in Nat /\ N >= 2
  BY ParamsTextAt
<1>3. \A i \in 1 .. n : L[i] \in Nat /\ b[i] \in Nat /\ L[i] = Len(items[i])
  BY ParamsTextAt
<1>4. \A i \in 1 .. n : \A x \in 1 .. L[i] : A[b[i] + x] = items[i][x]
  <2>1. \A i \in 1 .. n : \A x \in 1 .. Len(items[i]) : A[b[i] + x] = items[i][x]
    BY <1>1 DEF Holds
  <2>2. QED
    BY <1>3, <2>1
<1>5. \A y \in 2 .. N - 1 :
        A[y].k \in {"sp", "nl", ","} \/ \E i \in 1 .. n : y \in b[i] + 1 .. b[i] + L[i]
  BY ParamsTextAt
<1>6. \A i \in 1 .. n : ParamOk(items[i], params[i])
  BY DEF ParamsText
<1>7. A[1].k # "str" /\ A[N].k # "str"
  <2>1. A[1].k = "[" /\ A[N].k = "]"
    BY <1>1, KindOf
  <2>2. QED
    BY <2>1
<1>8. q # 1 /\ q # N /\ q \in 1 .. N
  BY <1>7
<1> HIDE DEF n, N, L
<1>9. q \in 2 .. N - 1 /\ q > 1
  BY <1>2, <1>8
<1>10. A[q].k \notin {"sp", "nl", ","}
  OBVIOUS
<1>11. PICK i \in 1 .. n : q \in b[i] + 1 .. b[i] + L[i]
  BY <1>5, <1>9, <1>10
<1> DEFINE y == q - b[i]
<1>12. y \in 1 .. L[i] /\ b[i] + y = q
  BY <1>3, <1>9, <1>11
<1> HIDE DEF y
<1>13. A[q] = items[i][y] /\ y \in 1 .. Len(items[i])
  BY <1>3, <1>4, <1>12
<1> DEFINE e == params[i]
<1>14. ParamOk(items[i], e)
  BY <1>6
<1> HIDE DEF e
<1>15. /\ items[i][y].v \notin Names
       /\ items[i][y].v \in Fields =>
            \E x \in 1 .. Len(e.fields) : \E w :
              items[i][y].v = names(e)[x] /\ MemberAt(items[i], y, w, names(e)[x], values(e)[x])
  BY <1>13, <1>14, ParamStrings
<1>16. ASSUME A[q].v \in Fields
       PROVE  \E x \in 1 .. Len(e.fields) : \E w :
                A[q].v = names(e)[x] /\ MemberAt(A, q, w, names(e)[x], values(e)[x])
  <2>1. PICK x \in 1 .. Len(e.fields) : \E w :
          items[i][y].v = names(e)[x] /\ MemberAt(items[i], y, w, names(e)[x], values(e)[x])
    BY <1>13, <1>15, <1>16
  <2>2. PICK w : items[i][y].v = names(e)[x]
                 /\ MemberAt(items[i], y, w, names(e)[x], values(e)[x])
    BY <2>1
  <2> DEFINE B == b[i]
             O == items[i]
  <2>3. Holds(A, B, O) /\ O \in Seq(Tok) /\ A \in Seq(Tok) /\ B + y = q
    BY <1>1, <1>12
  <2>4. MemberAt(O, y, w, names(e)[x], values(e)[x])
    BY <2>2
  <2> HIDE DEF B, O
  <2>5. MemberAt(A, B + y, B + w, names(e)[x], values(e)[x])
    BY <2>3, <2>4, MemberWithin
  <2>6. MemberAt(A, q, B + w, names(e)[x], values(e)[x])
    BY <2>3, <2>5
  <2>7. QED
    BY <1>13, <2>2, <2>6
<1>17. QED
  BY <1>9, <1>13, <1>15, <1>16 DEF FieldAt, e, n

\* Every field of a parameter stands in the array.
LEMMA FieldsThere ==
  ASSUME NEW A, NEW params, NEW items, NEW b, ParamsText(A, params, items, b),
         NEW i \in 1 .. Len(params), NEW x \in 1 .. Len(params[i].fields)
  PROVE  \E q, w : FieldAt(A, q, w, params, i, x) /\ q > 1
<1> DEFINE e == params[i]
           O == items[i]
           B == b[i]
<1>1. ParamOk(O, e)
  BY DEF ParamsText
<1>2. Len(e.fields) \in Nat /\ Len(e.fields) # 0
  <2> DEFINE m == Len(e.fields)
  <2>1. m \in Nat
    BY <1>1 DEF ParamOk
  <2>2. x \in 1 .. m
    OBVIOUS
  <2> HIDE DEF m
  <2>3. m # 0
    BY <2>1, <2>2
  <2>4. QED
    BY <2>1, <2>3 DEF m
<1>3. Holds(A, B, O) /\ O \in Seq(Tok) /\ A \in Seq(Tok) /\ B \in Nat \ {0}
  BY ParamsTextAt
<1>4. x \in 1 .. Len(e.fields)
  OBVIOUS
<1> HIDE DEF O, B, e
<1>5. PICK h, v : Members(O, Len(e.fields), names(e), values(e), h, v)
  BY <1>1, <1>2 DEF ParamOk
<1>6. MemberAt(O, h[x], v[x], names(e)[x], values(e)[x]) /\ h[x] > 1
  BY <1>4, <1>5 DEF Members
<1>7. MemberAt(A, B + h[x], B + v[x], names(e)[x], values(e)[x])
  BY <1>3, <1>6, MemberWithin
<1>8. B + h[x] > 1
  <2> DEFINE y == h[x]
  <2>1. y \in Nat \ {0} /\ B \in Nat \ {0}
    BY <1>3, <1>6 DEF MemberAt
  <2> HIDE DEF y
  <2>2. B + y > 1
    BY <2>1
  <2>3. QED
    BY <2>2 DEF y
<1>9. QED
  BY <1>7, <1>8 DEF FieldAt, e

----------------------------------------------------------------------------
(* The text of a request.                                                  *)

\* The value of a member other than params is one token.
TokenOk(t) ==
  t \in Tok /\ t.k \in {"str", "num"} /\ (t.k = "str" => t.v \notin (Names \cup Fields) \ {"id"})

\* A text of one such token.
LEMMA OneToken ==
  ASSUME NEW t, TokenOk(t)
  PROVE  /\ <<t>> \in Seq(Tok) /\ <<t>> # <<>> /\ Len(<<t>>) = 1 /\ <<t>>[1] = t
         /\ t.k \notin {"sp", ":"} /\ Balanced(<<t>>)
<1> DEFINE s == <<t>>
<1>1. t \in Tok /\ t.k \in {"str", "num"}
  BY DEF TokenOk
<1>2. s \in Seq(Tok) /\ Len(s) = 1 /\ s[1] = t
  BY <1>1, OneIs
<1>3. s # <<>>
  OBVIOUS
<1> HIDE DEF s
<1>4. Plain(s, Len(s))
  <2>1. \A q \in 1 .. 1 : q = 1
    OBVIOUS
  <2>2. QED
    BY <1>1, <1>2, <2>1 DEF Plain
<1>5. Balanced(s)
  BY <1>2, <1>4, PlainBalanced
<1>6. t.k \notin {"sp", ":"}
  BY <1>1
<1>7. QED
  BY <1>2, <1>3, <1>5, <1>6 DEF s

\* The tokens of a request.
LEMMA RequestTokens ==
  ASSUME NEW r, IsRequest(r)
  PROVE  /\ TokenOk(Str("2.0", 3)) /\ Str("2.0", 3).v \notin Names
         /\ TokenOk(r.id)
         /\ TokenOk(Str(r.method, 20)) /\ Str(r.method, 20).v \notin Names
         /\ r.members \in SUBSET Names
<1>1. TokenOk(Str("2.0", 3)) /\ Str("2.0", 3).v \notin Names
  <2>1. Str("2.0", 3) \in Tok
    BY DEF Tok
  <2>2. "2.0" \notin Names \cup Fields
    BY DEF Names, Fields
  <2>3. QED
    BY <2>1, <2>2, KindOf DEF TokenOk
<1>2. TokenOk(Str(r.method, 20)) /\ Str(r.method, 20).v \notin Names
  <2>1. r.method \in STRING /\ r.method \notin Names \cup Fields
    BY DEF IsRequest
  <2>2. Str(r.method, 20) \in Token
    BY <2>1 DEF Token, Str
  <2>3. Str(r.method, 20) \in Tok
    BY <2>2, TokensAre
  <2>4. QED
    BY <2>1, <2>3, KindOf DEF TokenOk
<1>3. TokenOk(r.id)
  <2> DEFINE t == r.id
  <2>1. t \in Token /\ t.k \in {"str", "num"}
        /\ Strings(<<t>>) \cap ((Names \cup Fields) \ {"id"}) = {}
    BY DEF IsRequest
  <2> HIDE DEF t
  <2>2. t \in Tok
    BY <2>1, TokensAre
  <2>3. Avoids(<<t>>, (Names \cup Fields) \ {"id"})
    BY <2>1, <2>2, OneIs, StringsAre
  <2>4. t.k = "str" => t.v \notin (Names \cup Fields) \ {"id"}
    <3>1. 1 \in 1 .. 1
      OBVIOUS
    <3>2. Len(<<t>>) = 1 /\ <<t>>[1] = t
      BY <2>2, OneIs
    <3>3. QED
      BY <2>3, <3>1, <3>2 DEF Avoids
  <2>5. TokenOk(t)
    BY <2>1, <2>2, <2>4 DEF TokenOk
  <2>6. QED
    BY <2>5 DEF t
<1>4. r.members \in SUBSET Names
  BY DEF IsRequest
<1>5. QED
  BY <1>1, <1>2, <1>3, <1>4

\* What is known of the value of a member.
ValueOk(val, name) ==
  /\ val \in Seq(Tok) /\ val # <<>> /\ val[1].k \notin {"sp", ":"} /\ Balanced(val)
  /\ name # "params" => Len(val) = 1 /\ TokenOk(val[1])
  /\ name # "id" => Avoids(val, Names)

\* Each member of a request is written with such a value.
LEMMA ValueIs ==
  ASSUME NEW r, IsRequest(r), NEW layout, IsLayout(layout)
  PROVE  /\ \A name \in Names : ValueOk(Value(r, name, layout), name)
         /\ \E items, b : ParamsText(Value(r, "params", layout), r.params, items, b)
         /\ Value(r, "id", layout) = <<r.id>>
         /\ Value(r, "method", layout) = <<Str(r.method, 20)>>
<1>0. /\ Value(r, "jsonrpc", layout) = <<Str("2.0", 3)>>
      /\ Value(r, "id", layout) = <<r.id>>
      /\ Value(r, "method", layout) = <<Str(r.method, 20)>>
  BY DEF Value
<1>1. ASSUME NEW t, TokenOk(t), NEW name, name # "params", name # "id" => t.v \notin Names
      PROVE  ValueOk(<<t>>, name)
  <2> DEFINE s == <<t>>
  <2>1. /\ s \in Seq(Tok) /\ s # <<>> /\ Len(s) = 1 /\ s[1] = t
        /\ t.k \notin {"sp", ":"} /\ Balanced(s)
    BY <1>1, OneToken
  <2> HIDE DEF s
  <2>2. \A q \in 1 .. 1 : q = 1
    OBVIOUS
  <2>3. name # "id" => Avoids(s, Names)
    BY <1>1, <2>1, <2>2 DEF Avoids
  <2>4. ValueOk(s, name)
    BY <1>1, <2>1, <2>3 DEF ValueOk
  <2>5. QED
    BY <2>4 DEF s
<1>2. ValueOk(Value(r, "jsonrpc", layout), "jsonrpc")
  BY <1>0, <1>1, RequestTokens
<1>3. ValueOk(Value(r, "id", layout), "id")
  BY <1>0, <1>1, RequestTokens
<1>4. ValueOk(Value(r, "method", layout), "method")
  BY <1>0, <1>1, RequestTokens
<1>5. \E items, b : ParamsText(Value(r, "params", layout), r.params, items, b)
  <2>1. IsSeq(r.params) /\ \A i \in DOMAIN r.params : IsParam(r.params[i])
    BY DEF IsRequest, AreParams
  <2>2. QED
    BY <2>1, ParamsTextIs
<1>6. ValueOk(Value(r, "params", layout), "params")
  <2> DEFINE A == Value(r, "params", layout)
             ps == r.params
  <2>1. PICK items, b : ParamsText(A, ps, items, b)
    BY <1>5
  <2> HIDE DEF A, ps
  <2>2. A \in Seq(Tok) /\ Len(A) \in Nat /\ Len(A) >= 2 /\ A[1] = P("[")
    BY <2>1, ParamsTextAt
  <2>3. Avoids(A, Names)
    BY <2>1, ArrayStrings DEF Avoids
  <2>4. items \in Lists /\ IsArrayText(A, items, b) /\ AllBalanced(items)
    BY <2>1 DEF ParamsText, ParamOk, AllBalanced
  <2>5. Balanced(A)
    BY <2>4, ArrayBalanced
  <2>6. A[1].k = "["
    BY <2>2, KindOf
  <2>7. A # <<>>
    <3>1. Len(<<>>) = 0 /\ ~(0 >= 2)
      OBVIOUS
    <3>2. Len(A) >= 2
      BY <2>2
    <3>3. QED
      BY <3>1, <3>2
  <2>8. A[1].k \notin {"sp", ":"} /\ "params" # "id"
    BY <2>6
  <2>9. ValueOk(A, "params")
    BY <2>2, <2>3, <2>5, <2>7, <2>8 DEF ValueOk
  <2>10. QED
    BY <2>9 DEF A
<1>7. ASSUME NEW name \in Names PROVE ValueOk(Value(r, name, layout), name)
  <2>1. name \in {"jsonrpc", "id", "method", "params"}
    BY DEF Names
  <2>2. QED
    BY <1>2, <1>3, <1>4, <1>6, <2>1
<1>8. QED
  BY <1>0, <1>5, <1>7

\* The order of the members.
LEMMA OrderIs ==
  ASSUME NEW layout, IsLayout(layout), NEW members \in SUBSET Names
  PROVE  LET order == layout.order[members]
             n == Len(order)
         IN /\ n \in Nat /\ DOMAIN order = 1 .. n
            /\ \A i \in 1 .. n : order[i] \in members
            /\ \A key \in members : \E i \in 1 .. n : order[i] = key
            /\ \A i, j \in 1 .. n : order[i] = order[j] => i = j
<1> DEFINE order == layout.order[members]
           n == Len(order)
<1>1. /\ order \in Seq(members) /\ members = {order[i] : i \in DOMAIN order}
      /\ \A i, j \in DOMAIN order : order[i] = order[j] => i = j
  BY DEF IsLayout
<1> HIDE DEF order
<1>2. n \in Nat /\ DOMAIN order = 1 .. n
  BY <1>1
<1>3. QED
  BY <1>1, <1>2 DEF order

\* A request that is an object, as a text: its members are found where they
\* are, and what reads like the name of a field is among the parameters.
RequestAt(F, r, layout, h, v) ==
  /\ F \in Seq(Tok)
  /\ \A key \in r.members :
       /\ MemberAt(F, h[key], v[key], key, Value(r, key, layout))
       /\ \A y \in Hits(F, 1, key) : h[key] <= y
  /\ \A key \in Names \ r.members : Hits(F, 1, key) = {}
  /\ \A key \in Fields : \A q \in Hits(F, 1, key) :
       /\ "params" \in r.members
       /\ \E y \in 1 .. Len(Value(r, "params", layout)) :
            F[q] = Value(r, "params", layout)[y] /\ q = (v["params"] - 1) + y

\* Its braces.
Closed(F) ==
  /\ F \in Seq(Tok) /\ Len(F) >= 2 /\ F[1] = P("{") /\ F[Len(F)] = P("}")
  /\ \A q \in 1 .. Len(F) - 1 : Depth(F, 1, q) >= 1
  /\ Depth(F, 1, Len(F)) = 0

\* What Render builds.
LEMMA RenderIs ==
  ASSUME NEW r, IsRequest(r), r.members # {}, NEW layout, IsLayout(layout)
  PROVE  LET n == Len(layout.order[r.members])
             nm == layout.order[r.members]
             vl == [i \in 1 .. n |-> Value(r, nm[i], layout)]
         IN Closed(Render(r, layout)) /\ \E h, v : Members(Render(r, layout), n, nm, vl, h, v)
<1> DEFINE nm == layout.order[r.members]
           n == Len(nm)
           vl == [i \in 1 .. n |-> Value(r, nm[i], layout)]
           c == 3 + Len(layout.colon)
           items == [i \in DOMAIN nm |-> Member(nm[i], Value(r, nm[i], layout), layout)]
           O == Render(r, layout)
<1>1. r.members \in SUBSET Names
  BY RequestTokens
<1>2. n \in Nat /\ DOMAIN nm = 1 .. n /\ \A i \in 1 .. n : nm[i] \in Names
  BY <1>1, OrderIs
<1>3. O = Enclosed("{", items, "}", layout)
  BY DEF Render
<1>4. \A i \in 1 .. n : vl[i] = Value(r, nm[i], layout) /\ items[i] = Member(nm[i], vl[i], layout)
  BY <1>2
<1>5. items = [i \in 1 .. n |-> items[i]]
  BY <1>2
<1>6. c \in Nat /\ layout.colon \in Colons /\ layout.gap \in Gaps
  BY LayoutIs
<1> HIDE DEF items, n, c, O, nm, vl
<1>7. ASSUME NEW i \in 1 .. n
      PROVE  IsMember(items[i], nm[i], vl[i], c) /\ Balanced(items[i])
  <2> DEFINE a == nm[i]
             d == vl[i]
  <2>1. ValueOk(d, a) /\ a \in Names
    BY <1>2, <1>4, ValueIs
  <2>2. items[i] = Member(a, d, layout)
    BY <1>4
  <2> HIDE DEF a, d
  <2>3. Str(a, 0) \in Tok /\ d \in Seq(Tok) /\ d # <<>> /\ Balanced(d)
    BY <2>1 DEF ValueOk, Tok
  <2>4. IsMember(Member(a, d, layout), a, d, c)
    BY <1>6, <2>3, MemberIs DEF c
  <2>5. IsMember(items[i], a, d, c)
    BY <2>2, <2>4
  <2>6. Balanced(items[i])
    BY <2>3, <2>5, MemberBalanced
  <2>7. QED
    BY <2>5, <2>6 DEF a, d
<1>8. \A i \in 1 .. n : items[i] \in Seq(Tok)
  BY <1>7 DEF IsMember
<1>9. items \in Lists /\ Len(items) = n
  BY <1>2, <1>5, <1>8, IsList
<1>10. PICK b : IsObjectText(O, items, b)
  <2>1. P("{") \in Tok /\ P("}") \in Tok
    BY TokensAre
  <2>2. QED
    BY <1>3, <1>6, <1>9, <2>1, EnclosedIs DEF IsObjectText
<1>11. AllBalanced(items) /\ AreMembers(items, nm, vl, c)
  BY <1>7, <1>9 DEF AllBalanced, AreMembers
<1>12. \E h, v : Members(O, n, nm, vl, h, v)
  BY <1>6, <1>9, <1>10, <1>11, ObjectMembers
<1>13. O \in Seq(Tok) /\ Len(O) >= 2 /\ O[1] = P("{") /\ O[Len(O)] = P("}")
  BY <1>10, Ends DEF IsObjectText
<1>14. /\ \A q \in 1 .. Len(O) - 1 : Depth(O, 1, q) >= 1
       /\ Depth(O, 1, Len(O)) = 0
  BY <1>9, <1>10, <1>11, ObjectDepth
<1>15. Closed(O)
  BY <1>13, <1>14 DEF Closed
<1>16. QED
  BY <1>12, <1>15 DEF O, n, nm, vl

\* Where the strings of a request are.
LEMMA RequestAtIs ==
  ASSUME NEW r, IsRequest(r), r.members # {}, NEW layout, IsLayout(layout)
  PROVE  \E h, v : RequestAt(Render(r, layout), r, layout, h, v)
<1> DEFINE nm == layout.order[r.members]
           n == Len(nm)
           vl == [i \in 1 .. n |-> Value(r, nm[i], layout)]
           F == Render(r, layout)
           N == Len(F)
           val(key) == Value(r, key, layout)
<1>1. r.members \in SUBSET Names
  BY RequestTokens
<1>2. /\ \A i \in 1 .. n : nm[i] \in r.members
      /\ \A key \in r.members : \E i \in 1 .. n : nm[i] = key
      /\ \A i, j \in 1 .. n : nm[i] = nm[j] => i = j
  BY <1>1, OrderIs
<1>3. PICK h, v : Members(F, n, nm, vl, h, v)
  BY RenderIs
<1>4. \A i \in 1 .. n : vl[i] = val(nm[i])
  OBVIOUS
<1>5. \A key \in Names : ValueOk(val(key), key)
  BY ValueIs
<1> HIDE DEF nm, n, vl, F, N
<1>6. /\ F \in Seq(Tok)
      /\ \A i \in 1 .. n : MemberAt(F, h[i], v[i], nm[i], vl[i])
  BY <1>3 DEF Members
<1> HIDE DEF val
<1>20. \A i \in 1 .. n : h[i] \in Nat /\ v[i] \in Nat /\ h[i] + 2 <= v[i]
  BY <1>6 DEF MemberAt
\* A string is a name or in a value.
<1>7. ASSUME NEW q \in 1 .. Len(F), F[q].k = "str"
      PROVE  \E i \in 1 .. n :
               \/ F[q].v = nm[i] /\ q = h[i]
               \/ \E y \in 1 .. Len(val(nm[i])) : F[q] = val(nm[i])[y] /\ q = (v[i] - 1) + y
  <2>1. PICK i \in 1 .. n :
          \/ F[q].v = nm[i] /\ q = h[i] /\ MemberAt(F, q, v[i], nm[i], vl[i]) /\ q > 1
          \/ \E y \in 1 .. Len(vl[i]) : F[q] = vl[i][y] /\ q = (v[i] - 1) + y
    BY <1>3, <1>7, MemberStrings
  <2>2. vl[i] = val(nm[i])
    BY <1>4
  <2>3. QED
    BY <2>1, <2>2
\* What reads like a member's name is that name, or the value of the id.
<1>8. ASSUME NEW key \in Names, NEW q \in Hits(F, 1, key)
      PROVE  \E i \in 1 .. n : nm[i] = key /\ h[i] <= q
  <2>1. q \in 1 .. Len(F) /\ F[q].k = "str" /\ F[q].v = key /\ q \in Nat
    BY DEF Hits
  <2>2. PICK i \in 1 .. n :
               \/ F[q].v = nm[i] /\ q = h[i]
               \/ \E y \in 1 .. Len(val(nm[i])) : F[q] = val(nm[i])[y] /\ q = (v[i] - 1) + y
    BY <1>7, <2>1
  <2>3. CASE F[q].v = nm[i] /\ q = h[i]
    <3>1. h[i] <= q
      BY <2>1, <2>3
    <3>2. QED
      BY <2>1, <2>3, <3>1
  <2>4. CASE \E y \in 1 .. Len(val(nm[i])) : F[q] = val(nm[i])[y] /\ q = (v[i] - 1) + y
    <3> DEFINE a == val(nm[i])
               A == Len(a)
    <3>1. PICK y \in 1 .. A : F[q] = a[y] /\ q = (v[i] - 1) + y
      BY <2>4
    <3>2. ValueOk(a, nm[i]) /\ nm[i] \in Names
      BY <1>1, <1>2, <1>5
    <3> HIDE DEF a
    <3>3. A \in Nat
      BY <3>2 DEF ValueOk
    <3> HIDE DEF A
    <3>4. nm[i] = "id"
      <4>1. nm[i] # "id" => Avoids(a, Names)
        BY <3>2 DEF ValueOk
      <4>2. QED
        BY <2>1, <3>1, <4>1 DEF Avoids, A
    <3>5. A = 1 /\ TokenOk(a[1])
      BY <3>2, <3>4 DEF ValueOk, A
    <3>6. y = 1
      BY <3>5
    <3>7. key = "id"
      <4>1. F[q].v \notin (Names \cup Fields) \ {"id"}
        BY <2>1, <3>1, <3>5, <3>6 DEF TokenOk
      <4>2. QED
        BY <2>1, <4>1
    <3>8. h[i] <= q
      <4>1. h[i] \in Nat /\ v[i] \in Nat /\ h[i] + 2 <= v[i] /\ q = (v[i] - 1) + 1
        BY <1>20, <3>1, <3>6
      <4>2. QED
        BY <4>1
    <3>9. QED
      BY <3>4, <3>7, <3>8
  <2>5. QED
    BY <2>2, <2>3, <2>4
\* What reads like a field's name is among the parameters.
<1>9. ASSUME NEW key \in Fields, NEW q \in Hits(F, 1, key)
      PROVE  \E i \in 1 .. n : /\ nm[i] = "params"
                               /\ \E y \in 1 .. Len(val("params")) :
                                    F[q] = val("params")[y] /\ q = (v[i] - 1) + y
  <2>1. q \in 1 .. Len(F) /\ F[q].k = "str" /\ F[q].v = key
    BY DEF Hits
  <2>2. PICK i \in 1 .. n :
               \/ F[q].v = nm[i] /\ q = h[i]
               \/ \E y \in 1 .. Len(val(nm[i])) : F[q] = val(nm[i])[y] /\ q = (v[i] - 1) + y
    BY <1>7, <2>1
  <2>3. nm[i] \in Names /\ ValueOk(val(nm[i]), nm[i])
    BY <1>1, <1>2, <1>5
  <2>4. key \notin Names /\ key # "id"
    BY DEF Names, Fields
  <2>5. PICK y \in 1 .. Len(val(nm[i])) : F[q] = val(nm[i])[y] /\ q = (v[i] - 1) + y
    BY <2>1, <2>2, <2>3, <2>4
  <2>6. nm[i] = "params"
    <3> SUFFICES ASSUME nm[i] # "params" PROVE FALSE
      OBVIOUS
    <3>1. Len(val(nm[i])) = 1 /\ TokenOk(val(nm[i])[1])
      BY <2>3 DEF ValueOk
    <3>2. y = 1
      <4>1. \A z \in 1 .. 1 : z = 1
        OBVIOUS
      <4>2. QED
        BY <3>1, <4>1
    <3>3. QED
      BY <2>1, <2>4, <2>5, <3>1, <3>2 DEF TokenOk
  <2>7. QED
    BY <2>5, <2>6
<1> DEFINE at == [key \in r.members |-> CHOOSE i \in 1 .. n : nm[i] = key]
           hh == [key \in r.members |-> h[at[key]]]
           vv == [key \in r.members |-> v[at[key]]]
<1>10. \A key \in r.members : /\ at[key] \in 1 .. n /\ nm[at[key]] = key
                              /\ \A i \in 1 .. n : nm[i] = key => i = at[key]
                              /\ hh[key] = h[at[key]] /\ vv[key] = v[at[key]]
  BY <1>2
<1> HIDE DEF at, hh, vv
<1>11. ASSUME NEW key \in r.members
       PROVE  /\ MemberAt(F, hh[key], vv[key], key, val(key))
              /\ \A y \in Hits(F, 1, key) : hh[key] <= y
  <2>1. MemberAt(F, hh[key], vv[key], key, val(key))
    BY <1>4, <1>6, <1>10
  <2>2. \A y \in Hits(F, 1, key) : hh[key] <= y
    BY <1>1, <1>8, <1>10
  <2>3. QED
    BY <2>1, <2>2
<1>12. ASSUME NEW key \in Names \ r.members PROVE Hits(F, 1, key) = {}
  BY <1>2, <1>8
<1>13. ASSUME NEW key \in Fields, NEW q \in Hits(F, 1, key)
       PROVE  /\ "params" \in r.members
              /\ \E y \in 1 .. Len(val("params")) :
                   F[q] = val("params")[y] /\ q = (vv["params"] - 1) + y
  <2>1. PICK i \in 1 .. n : /\ nm[i] = "params"
                            /\ \E y \in 1 .. Len(val("params")) :
                                    F[q] = val("params")[y] /\ q = (v[i] - 1) + y
    BY <1>9
  <2>2. "params" \in r.members
    BY <1>2, <2>1
  <2>3. vv["params"] = v[i]
    BY <1>10, <2>1, <2>2
  <2>4. QED
    BY <2>1, <2>2, <2>3
<1>14. RequestAt(F, r, layout, hh, vv)
  BY <1>6, <1>11, <1>12, <1>13 DEF RequestAt, val
<1>15. QED
  BY <1>14 DEF F

----------------------------------------------------------------------------
(* What is extracted from a request, whole or cut.                         *)

\* The first token of a member's value.
LEMMA ValueAt ==
  ASSUME NEW F \in Seq(Tok), NEW h, NEW v, NEW name, NEW value, MemberAt(F, h, v, name, value)
  PROVE  v \in 1 .. Len(F) /\ F[v] = value[1] /\ h \in Nat /\ h >= 1 /\ v \in Nat
<1> DEFINE V == Len(value)
           N == Len(F)
<1>1. /\ h \in Nat \ {0} /\ v \in Nat /\ h + 2 <= v /\ V \in Nat \ {0}
      /\ (v - 1) + V <= N
  BY DEF MemberAt, Holds
<1>2. \A x \in 1 .. V : F[(v - 1) + x] = value[x]
  BY DEF MemberAt, Holds
<1>3. N \in Nat
  OBVIOUS
<1> HIDE DEF V, N
<1>4. v \in 1 .. N /\ h >= 1 /\ 1 \in 1 .. V /\ (v - 1) + 1 = v
  BY <1>1, <1>3
<1>5. F[v] = value[1]
  BY <1>2, <1>4
<1>6. QED
  BY <1>1, <1>4, <1>5 DEF N

\* The tokens of a text that is cut.
AnyTok == Tok \cup {[k |-> "open", v |-> w, len |-> 3] : w \in {t.v : t \in Tok} \cup {"cut"}}

\* X is what a read that may have come up short left of F.
CutOf(X, F) == X \in Seq(AnyTok) /\ F \in Seq(Tok) /\ F \in Seq(AnyTok) /\ IsCut(X, F)

\* A text is a cut of itself.
LEMMA WholeCutOf ==
  ASSUME NEW F \in Seq(Tok) PROVE CutOf(F, F)
<1>1. Tok \subseteq AnyTok
  BY DEF AnyTok
<1>2. F \in Seq(AnyTok)
  BY <1>1, SeqLarger
<1>3. QED
  BY <1>2, WholeIsCut DEF CutOf

\* The numbers of a cut.
LEMMA CutLens ==
  ASSUME NEW X, NEW F, CutOf(X, F)
  PROVE  /\ Len(X) \in Nat /\ Len(F) \in Nat /\ Len(X) <= Len(F) /\ DOMAIN X = 1 .. Len(X)
         /\ \A q \in 1 .. Len(X) : X[q] = F[q] \/ (F[q].k = "str" /\ X[q].k = "open"
                                                   /\ X[q].v \in {F[q].v, "cut"})
         /\ \A q \in 1 .. Len(X) : X[q].k # "open" \/ F[q].k # "str" => X[q] = F[q]
BY DEF CutOf, IsCut

\* What is behind the end.
LEMMA AtEnd ==
  ASSUME NEW X, NEW F, CutOf(X, F)
  PROVE  /\ \A q \in 1 .. Len(X) : At(X, q) = X[q]
         /\ \A q \in Int : q > Len(X) => At(X, q) = Nul
         /\ At(X, Len(X) + 1) = Nul /\ Nul.k = "nul"
<1> DEFINE N == Len(X)
<1>1. N \in Nat /\ DOMAIN X = 1 .. N
  BY CutLens
<1> HIDE DEF N
<1>2. ASSUME NEW q \in 1 .. N PROVE At(X, q) = X[q]
  BY <1>1 DEF At
<1>3. ASSUME NEW q \in Int, q > N PROVE At(X, q) = Nul
  <2>1. q \notin 1 .. N
    BY <1>1, <1>3
  <2>2. QED
    BY <1>1, <2>1 DEF At
<1>4. N + 1 \in Int /\ N + 1 > N
  BY <1>1
<1>5. Nul.k = "nul"
  BY DEF Nul
<1>6. QED
  BY <1>2, <1>3, <1>4, <1>5 DEF N

\* In a cut a loop that skips blanks stops where it does in the whole, or at the
\* end.
LEMMA SkipCut ==
  ASSUME NEW X, NEW F, CutOf(X, F), NEW kinds, "str" \notin kinds, "open" \notin kinds,
         NEW from \in Nat \ {0}, from <= Len(X) + 1, NEW s \in from .. Len(F),
         \A x \in from .. s - 1 : F[x].k \in kinds, F[s].k \notin kinds
  PROVE  /\ s <= Len(X) => SkipAll(X, from, kinds) = s
         /\ s > Len(X) => SkipAll(X, from, kinds) = Len(X) + 1
<1> DEFINE N == Len(X)
           M == Len(F)
<1>1. N \in Nat /\ M \in Nat /\ N <= M /\ from \in Nat \ {0} /\ s \in from .. M /\ from <= N + 1
  BY CutLens
<1>2. \A q \in 1 .. N : X[q] = F[q] \/ X[q].k = "open"
  BY CutLens
<1>3. \A q \in 1 .. N : F[q].k # "str" => X[q] = F[q]
  BY CutLens
<1>4. X \in Seq(AnyTok)
  BY DEF CutOf
<1> HIDE DEF N, M
<1>5. ASSUME NEW x \in from .. s - 1, x <= N PROVE X[x].k \in kinds
  <2>1. x \in 1 .. N
    BY <1>1, <1>5
  <2>2. F[x].k \in kinds /\ F[x].k # "str"
    OBVIOUS
  <2>3. QED
    BY <1>3, <2>1, <2>2
<1>6. CASE s <= N
  <2>1. s \in from .. N + 1 /\ s \in 1 .. N
    BY <1>1, <1>6
  <2>2. X[s].k \notin kinds
    BY <1>2, <2>1
  <2>3. ASSUME NEW x \in from .. s - 1 PROVE X[x].k \in kinds
    <3>1. x <= N
      BY <1>1, <1>6
    <3>2. QED
      BY <1>5, <3>1
  <2>4. SkipAll(X, from, kinds) = s
    BY <1>4, <2>1, <2>2, <2>3, SkipAllStops DEF N
  <2>5. ~(s > N)
    BY <1>1, <1>6
  <2>6. QED
    BY <2>4, <2>5 DEF N
<1>7. CASE s > N
  <2>1. N + 1 \in from .. N + 1 /\ ~(N + 1 <= N) /\ ~(s <= N)
    BY <1>1, <1>7
  <2>3. ASSUME NEW x \in from .. (N + 1) - 1 PROVE X[x].k \in kinds
    <3>1. x <= N /\ x \in from .. s - 1
      BY <1>1, <1>7
    <3>2. QED
      BY <1>5, <3>1
  <2>4. SkipAll(X, from, kinds) = N + 1
    BY <1>4, <2>1, <2>3, SkipAllStops DEF N
  <2>6. QED
    BY <2>1, <2>4 DEF N
<1>8. s <= N \/ s > N
  BY <1>1
<1>9. QED
  BY <1>6, <1>7, <1>8 DEF N

\* The value of a member, looked for in a cut.
LEMMA FoundCut ==
  ASSUME NEW X, NEW F, CutOf(X, F), NEW from \in Nat \ {0},
         NEW name, NEW value, NEW h, NEW v, MemberAt(F, h, v, name, value), from <= h,
         \A y \in Hits(F, from, name) : h <= y, value[1].k \notin {"sp", ":"}
  PROVE  /\ v \in 1 .. Len(F) /\ F[v] = value[1]
         /\ v <= Len(X) => find_value(X, from, name) = v /\ At(X, v) = X[v]
         /\ v > Len(X) => find_value(X, from, name) = 0 \/ At(X, find_value(X, from, name)) = Nul
         /\ v \in Nat \ {0} /\ Len(X) \in Nat
<1>1. X \in Seq(AnyTok) /\ F \in Seq(AnyTok) /\ F \in Seq(Tok) /\ IsCut(X, F)
  BY DEF CutOf
<1>2. v \in 1 .. Len(F) /\ F[v] = value[1] /\ v \in Nat
  BY <1>1, ValueAt
<1>3. F[v].k \notin {"sp", ":"}
  BY <1>2
<1>4. /\ v <= Len(X) => find_value(X, from, name) = v
      /\ v > Len(X) => find_value(X, from, name) \in {0, Len(X) + 1}
  BY <1>1, <1>3, Found
<1>5. v > Len(X) => find_value(X, from, name) = 0 \/ At(X, find_value(X, from, name)) = Nul
  BY <1>4, AtEnd
<1>6. v \in Nat \ {0} /\ Len(X) \in Nat
  <2> DEFINE N == Len(F)
  <2>1. N \in Nat /\ Len(X) \in Nat
    BY CutLens
  <2>2. v \in 1 .. N
    BY <1>2
  <2> HIDE DEF N
  <2>3. v \in Nat \ {0}
    BY <2>1, <2>2
  <2>4. QED
    BY <2>1, <2>3
<1>7. v <= Len(X) => At(X, v) = X[v]
  <2> DEFINE N == Len(X)
  <2>1. v \in Nat \ {0} /\ N \in Nat
    BY <1>6
  <2> HIDE DEF N
  <2>2. v <= N => v \in 1 .. N
    BY <2>1
  <2>3. QED
    BY <2>2, AtEnd DEF N
<1>8. QED
  BY <1>2, <1>4, <1>5, <1>6, <1>7

\* The method that is read.
LEMMA MethodIs ==
  ASSUME NEW r, IsRequest(r), NEW layout, IsLayout(layout), NEW F, NEW h, NEW v,
         RequestAt(F, r, layout, h, v), NEW X, CutOf(X, F)
  PROVE  LET m == json_extract_string(X, "method", 63).v
         IN /\ "method" \notin r.members => m = ""
            /\ "method" \in r.members => m \in {"", "cut", r.method} /\ (X = F => m = r.method)
<1> DEFINE p0 == find_value(X, 1, "method")
           m == json_extract_string(X, "method", 63)
<1>0. Empty.v = ""
  BY DEF Empty, Str
<1>1. m = IF p0 # 0 /\ At(X, p0).k \in Quoted THEN Cut(X[p0], 63) ELSE Empty
  BY DEF json_extract_string
<1>2. CASE "method" \notin r.members
  <2>1. Hits(F, 1, "method") = {}
    BY <1>2 DEF RequestAt, Names
  <2>2. p0 = 0
    <3>1. 1 \in Nat \ {0}
      OBVIOUS
    <3>2. QED
      BY <2>1, <3>1, NotFound DEF CutOf
  <2>3. QED
    BY <1>0, <1>1, <1>2, <2>2
<1>3. CASE "method" \in r.members
  <2> DEFINE w == v["method"]
             t == Str(r.method, 20)
             value == Value(r, "method", layout)
  <2>1. /\ MemberAt(F, h["method"], w, "method", value)
        /\ \A y \in Hits(F, 1, "method") : h["method"] <= y
    BY <1>3 DEF RequestAt
  <2>2. value = <<t>> /\ TokenOk(t)
    BY ValueIs, RequestTokens
  <2>3. value[1] = t /\ t.k \notin {"sp", ":"}
    BY <2>2, OneToken
  <2>4. t.k = "str" /\ t.v = r.method /\ t.len = 20
    BY KindOf
  <2>5. 1 \in Nat \ {0} /\ 1 <= h["method"]
    <3>1. F \in Seq(Tok)
      BY DEF CutOf
    <3>2. h["method"] \in Nat /\ h["method"] >= 1
      BY <2>1, <3>1, ValueAt
    <3>3. \A n \in Nat : n >= 1 => 1 <= n
      OBVIOUS
    <3>4. QED
      BY <3>2, <3>3
  <2> HIDE DEF t, value, w, p0, m
  <2>6. /\ w \in 1 .. Len(F) /\ F[w] = t
        /\ w <= Len(X) => p0 = w /\ At(X, w) = X[w]
        /\ w > Len(X) => p0 = 0 \/ At(X, p0) = Nul
        /\ w \in Nat \ {0} /\ Len(X) \in Nat
    BY <2>1, <2>3, <2>5, FoundCut DEF p0
  <2>7. CASE w > Len(X)
    <3>1. p0 = 0 \/ At(X, p0) = Nul
      BY <2>6, <2>7
    <3>2. m = Empty
      BY <1>1, <3>1, AtEnd DEF Quoted
    <3>3. X # F
      <4> DEFINE N == Len(X)
      <4>1. w > N /\ N \in Nat
        BY <2>6, <2>7
      <4>2. w \in 1 .. Len(F)
        BY <2>6
      <4> HIDE DEF N
      <4>3. ~(w \in 1 .. N)
        BY <4>1
      <4>4. QED
        BY <4>2, <4>3 DEF N
    <3>4. QED
      BY <1>0, <1>3, <3>2, <3>3 DEF m
  <2>8. CASE w <= Len(X)
    <3> DEFINE s == X[w]
    <3>1. w \in 1 .. Len(X) /\ p0 = w /\ w # 0 /\ At(X, p0) = s
      <4> DEFINE N == Len(X)
      <4>1. w <= N /\ N \in Nat /\ w \in Nat \ {0}
        BY <2>6, <2>8
      <4> HIDE DEF N
      <4>2. w \in 1 .. N /\ w # 0
        BY <4>1
      <4>3. QED
        BY <2>6, <2>8, <4>2 DEF N
    <3>2. s = t \/ (s.k = "open" /\ s.v \in {t.v, "cut"})
      BY <2>6, <3>1, CutLens
    <3>3. X = F => s = t
      BY <2>6
    <3> HIDE DEF s
    <3>4. s.k \in Quoted
      BY <2>4, <3>2 DEF Quoted
    <3>5. m = Cut(s, 63)
      BY <1>1, <3>1, <3>4 DEF s
    <3>6. Cut(s, 63).v \in {s.v, "cut"}
      BY KindOf DEF Cut
    <3>7. Cut(t, 63).v = t.v
      <4>1. 20 <= 63
        OBVIOUS
      <4>2. Cut(t, 63) = [t EXCEPT !.k = "str"]
        BY <2>4, <4>1 DEF Cut
      <4>3. t = [k |-> "str", v |-> r.method, len |-> 20]
        BY DEF t, Str
      <4>4. [t EXCEPT !.k = "str"].v = t.v
        BY <4>3
      <4>5. QED
        BY <4>2, <4>4
    <3>8. m.v \in {r.method, "cut"} /\ (X = F => m.v = r.method)
      BY <2>4, <3>2, <3>3, <3>5, <3>6, <3>7
    <3>9. QED
      BY <1>3, <3>8 DEF m
  <2>9. w <= Len(X) \/ w > Len(X)
    <3>1. \A a, c \in Nat : a <= c \/ a > c
      OBVIOUS
    <3>2. QED
      BY <2>6, <3>1
  <2>10. QED
    BY <2>7, <2>8, <2>9
<1>4. QED
  BY <1>2, <1>3

\* Where the params array is found.
LEMMA ParamsArrayIs ==
  ASSUME NEW r, IsRequest(r), NEW layout, IsLayout(layout), NEW F, NEW h, NEW v,
         RequestAt(F, r, layout, h, v), NEW X, CutOf(X, F)
  PROVE  /\ "params" \notin r.members => find_params_array(X) = 0
         /\ "params" \in r.members =>
              LET w == v["params"]
              IN /\ w \in Nat \ {0} /\ Len(X) \in Nat
                 /\ Holds(F, w - 1, Value(r, "params", layout))
                 /\ w <= Len(X) => find_params_array(X) = w + 1
                 /\ w > Len(X) => find_params_array(X) = 0
<1> DEFINE p0 == find_value(X, 1, "params")
<1>1. find_params_array(X) = IF p0 # 0 /\ At(X, p0).k = "[" THEN p0 + 1 ELSE 0
  BY DEF find_params_array
<1>2. CASE "params" \notin r.members
  <2>1. Hits(F, 1, "params") = {}
    BY <1>2 DEF RequestAt, Names
  <2>2. p0 = 0
    <3>1. 1 \in Nat \ {0}
      OBVIOUS
    <3>2. QED
      BY <2>1, <3>1, NotFound DEF CutOf
  <2>3. QED
    BY <1>1, <1>2, <2>2
<1>3. CASE "params" \in r.members
  <2> DEFINE w == v["params"]
             value == Value(r, "params", layout)
  <2>1. /\ MemberAt(F, h["params"], w, "params", value)
        /\ \A y \in Hits(F, 1, "params") : h["params"] <= y
    BY <1>3 DEF RequestAt
  <2>2. value[1] = P("[")
    BY ValueIs, ParamsTextAt
  <2>3. value[1].k = "["
    BY <2>2, KindOf
  <2>4. value[1].k \notin {"sp", ":"}
    BY <2>3
  <2>5. 1 \in Nat \ {0} /\ 1 <= h["params"]
    <3>1. F \in Seq(Tok)
      BY DEF CutOf
    <3>2. h["params"] \in Nat /\ h["params"] >= 1
      BY <2>1, <3>1, ValueAt
    <3>3. \A n \in Nat : n >= 1 => 1 <= n
      OBVIOUS
    <3>4. QED
      BY <3>2, <3>3
  <2>10. Holds(F, w - 1, value)
    BY <2>1 DEF MemberAt
  <2> HIDE DEF value, w, p0
  <2>6. /\ w \in 1 .. Len(F) /\ F[w] = value[1]
        /\ w <= Len(X) => p0 = w /\ At(X, w) = X[w]
        /\ w > Len(X) => p0 = 0 \/ At(X, p0) = Nul
        /\ w \in Nat \ {0} /\ Len(X) \in Nat
    BY <2>1, <2>4, <2>5, FoundCut DEF p0
  <2>7. ASSUME w > Len(X) PROVE find_params_array(X) = 0
    <3>1. p0 = 0 \/ At(X, p0) = Nul
      BY <2>6, <2>7
    <3>2. QED
      BY <1>1, <3>1, AtEnd
  <2>8. ASSUME w <= Len(X) PROVE find_params_array(X) = w + 1
    <3>1. w \in 1 .. Len(X) /\ p0 = w /\ w # 0 /\ At(X, p0) = X[w]
      <4> DEFINE N == Len(X)
      <4>1. w <= N /\ N \in Nat /\ w \in Nat \ {0}
        BY <2>6, <2>8
      <4> HIDE DEF N
      <4>2. w \in 1 .. N /\ w # 0
        BY <4>1
      <4>3. QED
        BY <2>6, <2>8, <4>2 DEF N
    <3>2. X[w] = F[w]
      <4>1. F[w].k # "str"
        BY <2>3, <2>6
      <4>2. QED
        BY <3>1, <4>1, CutLens
    <3>3. QED
      BY <1>1, <2>3, <2>6, <3>1, <3>2
  <2>9. QED
    BY <1>3, <2>6, <2>7, <2>8, <2>10 DEF w, value
<1>4. QED
  BY <1>2, <1>3

\* The first token behind the bracket that is no separator.
FirstToken(A, params, items, b, s) ==
  /\ s \in 2 .. Len(A)
  /\ \A y \in 2 .. s - 1 : A[y].k \in {"sp", "nl", ","}
  /\ Len(params) = 0 => A[s] = P("]")
  /\ Len(params) # 0 => s = b[1] + 1 /\ A[s] = items[1][1]

\* Behind the opening bracket such a token comes, after blanks only.
LEMMA FirstAt ==
  ASSUME NEW A, NEW params, NEW items, NEW b, ParamsText(A, params, items, b)
  PROVE  \E s : FirstToken(A, params, items, b, s)
<1> DEFINE n == Len(params)
           N == Len(A)
           L == [i \in 1 .. n |-> Len(items[i])]
<1>1. A[N] = P("]")
  BY ParamsTextAt
<1>2. N \in Nat /\ N >= 2
  BY ParamsTextAt
<1>3. n \in Nat
  BY DEF ParamsText
<1>4. \A i \in 1 .. n : L[i] \in Nat \ {0} /\ b[i] \in Nat \ {0} /\ b[i] + L[i] < N
  BY ParamsTextAt
<1>5. \A i, j \in 1 .. n : i < j => b[i] + L[i] < b[j]
  BY ParamsTextAt
<1>6. \A i \in 1 .. n : \A x \in 1 .. L[i] : A[b[i] + x] = items[i][x]
  <2>1. \A i \in 1 .. n : Holds(A, b[i], items[i])
    BY ParamsTextAt
  <2>2. QED
    BY <2>1 DEF Holds
<1>7. \A y \in 2 .. N - 1 :
        A[y].k \in {"sp", "nl", ","} \/ \E i \in 1 .. n : y \in b[i] + 1 .. b[i] + L[i]
  BY ParamsTextAt
<1> HIDE DEF n, N, L
<1>8. CASE n = 0
  <2>1. \A y \in 2 .. N - 1 : A[y].k \in {"sp", "nl", ","}
    <3>1. \A i \in 1 .. n : FALSE
      BY <1>8
    <3>2. QED
      BY <1>7, <3>1
  <2>2. N \in 2 .. N
    BY <1>2
  <2>3. QED
    BY <1>1, <1>8, <2>1, <2>2 DEF n, N, FirstToken
<1>9. CASE n # 0
  <2> DEFINE s == b[1] + 1
  <2>1. 1 \in 1 .. n
    BY <1>3, <1>9
  <2>2. b[1] \in Nat \ {0} /\ L[1] \in Nat \ {0} /\ b[1] + L[1] < N
    BY <1>4, <2>1
  <2>3. s \in 2 .. N /\ 1 \in 1 .. L[1]
    BY <1>2, <2>2
  <2>4. A[s] = items[1][1]
    BY <1>6, <2>1, <2>3
  <2>5. ASSUME NEW y \in 2 .. s - 1 PROVE A[y].k \in {"sp", "nl", ","}
    <3>1. y \in 2 .. N - 1
      BY <1>2, <2>2
    <3>2. ASSUME NEW i \in 1 .. n, y \in b[i] + 1 .. b[i] + L[i] PROVE FALSE
      <4>1. b[i] >= b[1]
        <5>1. CASE i = 1
          BY <2>2, <5>1
        <5>2. CASE 1 < i
          <6>1. b[1] + L[1] < b[i] /\ b[i] \in Nat
            BY <1>4, <1>5, <2>1, <5>2
          <6>2. QED
            BY <2>2, <6>1
        <5>3. i = 1 \/ 1 < i
          BY <1>3
        <5>4. QED
          BY <5>1, <5>2, <5>3
      <4>2. b[i] \in Nat /\ L[i] \in Nat
        BY <1>4
      <4>3. QED
        BY <2>2, <3>2, <4>1, <4>2
    <3>3. QED
      BY <1>7, <3>1, <3>2
  <2> HIDE DEF s
  <2>6. s = b[1] + 1
    BY DEF s
  <2>7. QED
    BY <1>9, <2>3, <2>4, <2>5, <2>6 DEF n, N, FirstToken
<1>10. QED
  BY <1>8, <1>9

\* The first parameter as a string.
LEMMA FirstParamIs ==
  ASSUME NEW r, IsRequest(r), NEW layout, IsLayout(layout), NEW F, NEW h, NEW v,
         RequestAt(F, r, layout, h, v), NEW X, CutOf(X, F)
  PROVE  LET e == extract_first_param_string(X)
             given == "params" \in r.members /\ Len(r.params) # 0
         IN /\ e = Nul \/ (given /\ e = r.params[1].token /\ e.k = "str")
            /\ X = F /\ given /\ r.params[1].token.k = "str" => e = r.params[1].token
<1> DEFINE e == extract_first_param_string(X)
           w == v["params"]
           A == Value(r, "params", layout)
           ps == r.params
           kinds == {"sp", "nl", ","}
<1>1. find_params_array(X) = 0 => e = Nul
  BY DEF extract_first_param_string
<1>2. CASE "params" \notin r.members
  BY <1>1, <1>2, ParamsArrayIs
<1>3. CASE "params" \in r.members
  <2>1. /\ w \in Nat \ {0} /\ Len(X) \in Nat
        /\ Holds(F, w - 1, A)
        /\ w <= Len(X) => find_params_array(X) = w + 1
        /\ w > Len(X) => find_params_array(X) = 0
    BY <1>3, ParamsArrayIs
  <2>2. PICK items, b : ParamsText(A, ps, items, b)
    BY ValueIs
  <2>14. Space \cup {","} = kinds
    BY DEF Space
  <2> HIDE DEF w, A, ps, kinds
  <2>19. PICK s : FirstToken(A, ps, items, b, s)
    BY <2>2, FirstAt
  <2>3. /\ s \in 2 .. Len(A)
        /\ \A y \in 2 .. s - 1 : A[y].k \in {"sp", "nl", ","}
        /\ Len(ps) = 0 => A[s] = P("]")
        /\ Len(ps) # 0 => s = b[1] + 1 /\ A[s] = items[1][1]
    BY <2>19 DEF FirstToken
  <2> DEFINE N == Len(X)
             M == Len(F)
             a == Len(A)
             g == (w - 1) + s
  <2>4. N \in Nat /\ M \in Nat /\ N <= M
    BY CutLens
  <2>5. a \in Nat
    BY <2>2, ParamsTextAt
  <2>6. (w - 1) + a <= M /\ \A y \in 1 .. a : F[(w - 1) + y] = A[y]
    BY <2>1 DEF Holds
  <2>7. s \in 2 .. a /\ w \in Nat \ {0}
    BY <2>1, <2>3
  <2> HIDE DEF N, M, a
  <2>8. g \in w + 1 .. M /\ w + 1 \in Nat \ {0} /\ s \in 1 .. a
    BY <2>4, <2>5, <2>6, <2>7
  <2>9. F[g] = A[s]
    BY <2>6, <2>8
  <2>10. ASSUME NEW x \in w + 1 .. g - 1 PROVE F[x].k \in kinds
    <3> DEFINE y == x - (w - 1)
    <3>1. y \in 2 .. s - 1 /\ y \in 1 .. a /\ (w - 1) + y = x
      BY <2>5, <2>7
    <3> HIDE DEF y
    <3>2. F[x] = A[y]
      BY <2>6, <3>1
    <3>3. QED
      BY <2>3, <3>1, <3>2 DEF kinds
  <2>11. Len(ps) \in Nat
    BY <2>2 DEF ParamsText
  <2>12. \/ Len(ps) = 0 /\ A[s].k = "]"
         \/ Len(ps) # 0 /\ A[s] = ps[1].token /\ A[s].k \in {"str", "num", "word"}
         \/ Len(ps) # 0 /\ A[s].k = "{" /\ ps[1].token = Nul
    <3>1. CASE Len(ps) = 0
      BY <2>3, <3>1, KindOf
    <3>2. CASE Len(ps) # 0
      <4> DEFINE n == Len(ps)
      <4>1. n \in Nat /\ n # 0
        BY <2>11, <3>2
      <4> HIDE DEF n
      <4>2. 1 \in 1 .. n
        BY <4>1
      <4>3. ParamOk(items[1], ps[1]) /\ A[s] = items[1][1]
        BY <2>2, <2>3, <3>2, <4>2 DEF ParamsText, n
      <4>4. CASE IsScalarParam(ps[1]) /\ items[1][1] = ps[1].token
        BY <3>2, <4>3, <4>4 DEF IsScalarParam
      <4>5. CASE IsObjectParam(ps[1]) /\ items[1][1] = P("{")
        BY <3>2, <4>3, <4>5, KindOf DEF IsObjectParam
      <4>6. QED
        BY <4>3, <4>4, <4>5 DEF ParamOk
    <3>3. QED
      BY <3>1, <3>2
  <2>13. A[s].k \notin kinds /\ "str" \notin kinds /\ "open" \notin kinds
    BY <2>12 DEF kinds
  <2> HIDE DEF g
  <2>15. CASE w <= N
    <3>1. w + 1 <= N + 1 /\ w + 1 # 0
      BY <2>4, <2>7, <2>15
    <3>2. /\ g <= N => SkipAll(X, w + 1, kinds) = g
          /\ g > N => SkipAll(X, w + 1, kinds) = N + 1
      BY <2>8, <2>9, <2>10, <2>13, <3>1, SkipCut DEF N, M
    <3>3. e = extract_quoted_string(X, SkipAll(X, w + 1, kinds))
      BY <2>1, <2>14, <2>15, <3>1 DEF extract_first_param_string, N
    <3>4. CASE g > N
      <4>1. e = Nul
        BY <3>2, <3>3, <3>4, AtEnd DEF extract_quoted_string, N
      <4>2. X # F
        <5>1. N # M
          BY <2>4, <2>8, <3>4
        <5>2. QED
          BY <5>1 DEF N, M
      <4>3. QED
        BY <4>1, <4>2
    <3>5. CASE g <= N
      <4>1. g \in 1 .. N
        BY <2>4, <2>7, <2>8, <3>5
      <4>2. e = IF X[g].k = "str" THEN X[g] ELSE Nul
        BY <3>2, <3>3, <3>5, <4>1, AtEnd DEF extract_quoted_string, N
      <4>3. X[g] = F[g] \/ X[g].k = "open"
        BY <4>1, CutLens DEF N
      <4>4. X[g].k = "str" => X[g] = A[s]
        BY <2>9, <4>3
      <4>5. X = F => X[g] = A[s]
        BY <2>9
      <4>6. e = Nul \/ (Len(ps) # 0 /\ e = ps[1].token /\ e.k = "str")
        BY <2>12, <4>2, <4>4
      <4>7. X = F /\ Len(ps) # 0 /\ ps[1].token.k = "str" => e = ps[1].token
        <5>1. SUFFICES ASSUME X = F, Len(ps) # 0, ps[1].token.k = "str" PROVE e = ps[1].token
          OBVIOUS
        <5>2. ps[1].token # Nul
          BY <5>1, NulKind
        <5>3. A[s] = ps[1].token
          BY <2>12, <5>1, <5>2
        <5>4. QED
          BY <4>2, <4>5, <5>1, <5>3
      <4>8. QED
        BY <1>3, <4>6, <4>7 DEF ps
    <3>6. g <= N \/ g > N
      BY <2>4, <2>8
    <3>7. QED
      BY <3>4, <3>5, <3>6
  <2>16. CASE w > N
    <3>1. e = Nul
      BY <1>1, <2>1, <2>16 DEF N
    <3>2. X # F
      <4>1. N # M
        BY <2>4, <2>7, <2>8, <2>16
      <4>2. QED
        BY <4>1 DEF N, M
    <3>3. QED
      BY <3>1, <3>2
  <2>17. w <= N \/ w > N
    BY <2>4, <2>7
  <2>18. QED
    BY <2>15, <2>16, <2>17
<1>4. QED
  BY <1>2, <1>3

----------------------------------------------------------------------------
(* What a request makes the server do.                                     *)

\* The handler that runs a transaction.
Raw == "handle_send_raw_transaction"

\* The cases of handle.
LEMMA HandleIs ==
  ASSUME NEW m, NEW first, NEW f, NEW params
  PROVE  LET c == handle(m, first, f, params)
             w == HandlerOf(m)
         IN /\ w = Raw => c = raw_transaction(first)
            /\ w = "handle_call" => c = call_fields(f)
            /\ w = "handle_estimate_gas" => c = estimate_fields(f)
            /\ w \in DOMAIN Widths => c = positional(w, params)
            /\ w \notin DOMAIN Widths \cup {"none", Raw, "handle_call", "handle_estimate_gas"} =>
                 c = Call(w, <<>>)
            /\ w = "none" => c = IF m \in Constants THEN Call("make_response", <<>>) ELSE Error
<1> DEFINE w == HandlerOf(m)
<1>1. DOMAIN Widths = {"handle_get_balance", "handle_get_transaction_count", "handle_get_code",
                       "handle_get_storage_at", "handle_get_transaction_receipt"}
  BY DEF Widths
<1>2. handle(m, first, f, params) =
        CASE w = "handle_send_raw_transaction" -> raw_transaction(first)
          [] w = "handle_call" -> call_fields(f)
          [] w = "handle_estimate_gas" -> estimate_fields(f)
          [] w \in DOMAIN Widths -> positional(w, params)
          [] w \notin DOMAIN Widths \cup {"none", "handle_send_raw_transaction",
                                          "handle_call", "handle_estimate_gas"} -> Call(w, <<>>)
          [] w = "none" /\ m \in Constants -> Call("make_response", <<>>)
          [] OTHER -> Error
  BY DEF handle, HandlerOf
<1> HIDE DEF w
<1>3. QED
  BY <1>1, <1>2 DEF w, Raw

\* Only handle_send_raw_transaction has its name.
LEMMA RawOnly ==
  ASSUME NEW m, NEW first, NEW f, NEW params, handle(m, first, f, params).handler = Raw
  PROVE  HandlerOf(m) = Raw /\ first # Nul
<1> DEFINE w == HandlerOf(m)
           c == handle(m, first, f, params)
<1>1. \A a, d : Call(a, d).handler = a
  BY DEF Call
<1>2. Error.handler = "make_error"
  BY <1>1 DEF Error
<1>3. DOMAIN Widths = {"handle_get_balance", "handle_get_transaction_count", "handle_get_code",
                       "handle_get_storage_at", "handle_get_transaction_receipt"}
  BY DEF Widths
<1>4. /\ w = Raw => c = raw_transaction(first)
      /\ w = "handle_call" => c = call_fields(f)
      /\ w = "handle_estimate_gas" => c = estimate_fields(f)
      /\ w \in DOMAIN Widths => c = positional(w, params)
      /\ w \notin DOMAIN Widths \cup {"none", Raw, "handle_call", "handle_estimate_gas"} =>
           c = Call(w, <<>>)
      /\ w = "none" => c = IF m \in Constants THEN Call("make_response", <<>>) ELSE Error
  BY HandleIs
<1>5. c.handler = Raw
  OBVIOUS
<1> HIDE DEF w, c
<1>6. call_fields(f).handler \in {"handle_call", "make_error"}
  BY <1>1, <1>2 DEF call_fields
<1>7. estimate_fields(f).handler \in {"handle_estimate_gas", "make_error"}
  BY <1>1, <1>2 DEF estimate_fields
<1>8. \A x : positional(x, params).handler \in {x, "make_error"}
  BY <1>1, <1>2 DEF positional
<1>9. raw_transaction(Nul) = Error
  <2>1. Nul.len = 0
    BY DEF Nul
  <2>2. byte_len(Nul, Nul.len) = 0
    BY <2>1 DEF byte_len
  <2>3. QED
    BY <2>2 DEF raw_transaction
<1>10. w \notin DOMAIN Widths
  <2> SUFFICES ASSUME w \in DOMAIN Widths PROVE FALSE
    OBVIOUS
  <2>1. c.handler \in {w, "make_error"} /\ w # Raw
    BY <1>3, <1>4, <1>8 DEF Raw
  <2>2. QED
    BY <1>5, <2>1 DEF Raw
<1>11. w \notin {"handle_call", "handle_estimate_gas"}
  BY <1>4, <1>5, <1>6, <1>7 DEF Raw
<1>12. w # "none"
  BY <1>1, <1>2, <1>4, <1>5 DEF Raw
<1>13. w = Raw
  BY <1>1, <1>4, <1>5, <1>10, <1>11, <1>12
<1>14. first # Nul
  BY <1>2, <1>4, <1>5, <1>9, <1>13 DEF Raw
<1>15. QED
  BY <1>13, <1>14 DEF w

\* The parts of Meaning.
Given(r) == IF "params" \in r.members THEN r.params ELSE <<>>
Arg(r, i) ==
  IF i \in DOMAIN Given(r) /\ Given(r)[i].token.k = "str" THEN Given(r)[i].token ELSE Nul
GivenFields(r) == UNION {Range(Given(r)[i].fields) : i \in DOMAIN Given(r)}
Named(r, name) == {x \in GivenFields(r) : x.name = name /\ x.value[1].k = "str"}
FieldOf(r, name) == IF Named(r, name) = {} THEN Nul ELSE (CHOOSE x \in Named(r, name) : TRUE).value[1]

\* A string unless there is no memory to copy it.
Copied(s, name, lost) == IF name \in lost THEN Nul ELSE s

\* Meaning, told with the names above.
LEMMA MeaningIs ==
  ASSUME NEW r, NEW lost
  PROVE  Meaning(r, lost) = handle(IF "method" \in r.members THEN r.method ELSE "", Arg(r, 1),
                                   [name \in Fields |-> Copied(FieldOf(r, name), name, lost)],
                                   [i \in DOMAIN Given(r) |-> Arg(r, i)])
<1> DEFINE kept == {x \in GivenFields(r) : x.name \notin lost}
           texts(name) == {x \in kept : x.name = name /\ x.value[1].k = "str"}
           field(name) == IF texts(name) = {} THEN Nul ELSE (CHOOSE x \in texts(name) : TRUE).value[1]
<1>1. ASSUME NEW name PROVE field(name) = Copied(FieldOf(r, name), name, lost)
  <2>1. CASE name \in lost
    <3>1. texts(name) = {}
      BY <2>1
    <3>2. QED
      BY <2>1, <3>1 DEF Copied
  <2>2. CASE name \notin lost
    <3>1. texts(name) = Named(r, name)
      BY <2>2 DEF Named
    <3> HIDE DEF texts
    <3>2. QED
      BY <2>2, <3>1 DEF Copied, FieldOf
  <2>3. QED
    BY <2>1, <2>2
<1>2. Meaning(r, lost) = handle(IF "method" \in r.members THEN r.method ELSE "", Arg(r, 1),
                                [name \in Fields |-> field(name)],
                                [i \in DOMAIN Given(r) |-> Arg(r, i)])
  BY DEF Meaning, Given, Arg, GivenFields
<1> HIDE DEF field
<1>3. [name \in Fields |-> field(name)] = [name \in Fields |-> Copied(FieldOf(r, name), name, lost)]
  BY <1>1
<1>4. QED
  BY <1>2, <1>3

\* What a handler is called with when lost cannot be allocated.
CallOf(X, lost) ==
  handle(json_extract_string(X, "method", 63).v,
         Copied(extract_first_param_string(X), "first", lost),
         [key \in Fields |-> Copied(extract_param_field_string(X, key), key, lost)],
         evmdb_json_parse_params(X, 8))

\* An outcome of dispatch_single is that of some allocations that fail.
LEMMA OutcomeIs ==
  ASSUME NEW X, NEW o, NEW d \in dispatch_single(X, o)
  PROVE  \E lost : /\ d = [id |-> json_extract_id(X), call |-> decoded(CallOf(X, lost), lost)]
                   /\ ~o => lost = {}
<1> DEFINE m == json_extract_string(X, "method", 63).v
           losses == IF o /\ HandlerOf(m) \in DOMAIN Allocations
                     THEN SUBSET Allocations[HandlerOf(m)] ELSE {{}}
           f == [key \in Fields |-> extract_param_field_string(X, key)]
           g(lost) == [key \in Fields |-> Copied(f[key], key, lost)]
           h(lost) == [key \in Fields |-> Copied(extract_param_field_string(X, key), key, lost)]
           call(lost) == handle(m, Copied(extract_first_param_string(X), "first", lost), g(lost),
                                evmdb_json_parse_params(X, 8))
<1>1. dispatch_single(X, o) =
        {[id |-> json_extract_id(X), call |-> decoded(call(lost), lost)] : lost \in losses}
  BY DEF dispatch_single, Copied
<1>2. ASSUME NEW lost PROVE call(lost) = CallOf(X, lost)
  <2>1. \A key \in Fields : f[key] = extract_param_field_string(X, key)
    OBVIOUS
  <2> HIDE DEF f
  <2>2. g(lost) = h(lost)
    BY <2>1
  <2> HIDE DEF g
  <2>3. QED
    BY <2>2 DEF CallOf
<1>3. ~o => losses = {{}}
  OBVIOUS
<1> HIDE DEF call, losses
<1>4. PICK lost \in losses :
             d = [id |-> json_extract_id(X), call |-> decoded(call(lost), lost)]
  BY <1>1
<1>5. QED
  BY <1>2, <1>3, <1>4

\* What becomes of a call that finds no memory for its bytes.
LEMMA DecodedIs ==
  ASSUME NEW c, NEW lost
  PROVE  /\ decoded(c, lost) = c \/ (lost # {} /\ decoded(c, lost) = Error)
<1>1. "bytes" \in lost => lost # {}
  OBVIOUS
<1> DEFINE data == CASE c.handler = "handle_call" -> c.args[3]
                     [] c.handler \in {"handle_send_raw_transaction", "handle_estimate_gas"} ->
                          c.args[1]
                     [] OTHER -> Nul
<1>2. decoded(c, lost) = IF "bytes" \in lost /\ data.len > 1 THEN Error ELSE c
  BY DEF decoded
<1> HIDE DEF data
<1>3. QED
  BY <1>1, <1>2

\* A transaction read from a text, whole or cut, is the one the client meant.
LEMMA DispatchCut ==
  ASSUME NEW r, IsRequest(r), r.members # {}, NEW layout, IsLayout(layout),
         NEW X, CutOf(X, Render(r, layout)), NEW o,
         NEW d \in dispatch_single(X, o), d.call.handler = Raw
  PROVE  d.call = Meaning(r, {})
<1>0. PICK lost : d = [id |-> json_extract_id(X), call |-> decoded(CallOf(X, lost), lost)]
  BY OutcomeIs
<1> DEFINE F == Render(r, layout)
           m == json_extract_string(X, "method", 63).v
           all == extract_first_param_string(X)
           first == Copied(all, "first", lost)
           f == [key \in Fields |-> Copied(extract_param_field_string(X, key), key, lost)]
           params == evmdb_json_parse_params(X, 8)
<1>1. PICK h, v : RequestAt(F, r, layout, h, v)
  BY RequestAtIs
<1>2. d.call = handle(m, first, f, params)
  <2>1. d.call = decoded(CallOf(X, lost), lost)
    BY <1>0
  <2>2. Error.handler # Raw
    BY DEF Error, Call, Raw
  <2>3. d.call = CallOf(X, lost)
    BY <2>1, <2>2, DecodedIs
  <2>4. QED
    BY <2>3 DEF CallOf
<1>3. /\ "method" \notin r.members => m = ""
      /\ "method" \in r.members => m \in {"", "cut", r.method}
  BY <1>1, MethodIs
<1>4. all = Nul \/ ("params" \in r.members /\ Len(r.params) # 0 /\ all = r.params[1].token
                    /\ all.k = "str")
  BY <1>1, FirstParamIs
<1>13. first # Nul => first = all
  BY DEF Copied
<1> HIDE DEF F, m, first, f, params, all
<1>5. HandlerOf(m) = Raw /\ first # Nul
  BY <1>2, RawOnly
<1>6. m # "" /\ m # "cut"
  <2>1. "" \notin DOMAIN Handlers /\ "cut" \notin DOMAIN Handlers
    BY DEF Handlers
  <2>2. HandlerOf("") = "none" /\ HandlerOf("cut") = "none"
    BY <2>1 DEF HandlerOf
  <2>3. QED
    BY <1>5, <2>2 DEF Raw
<1>7. "method" \in r.members /\ m = r.method
  BY <1>3, <1>6
<1>8. first = Arg(r, 1)
  <2>1. "params" \in r.members /\ Len(r.params) # 0 /\ first = r.params[1].token /\ first.k = "str"
    BY <1>4, <1>5, <1>13
  <2>2. Len(r.params) \in Nat /\ DOMAIN r.params = 1 .. Len(r.params)
    BY DEF IsRequest, AreParams, IsSeq
  <2>3. \A n \in Nat : n # 0 => 1 \in 1 .. n
    OBVIOUS
  <2>4. 1 \in DOMAIN r.params
    BY <2>1, <2>2, <2>3
  <2>5. QED
    BY <2>1, <2>4 DEF Arg, Given
<1>9. handle(m, first, f, params) = raw_transaction(first)
  BY <1>5, HandleIs
<1>10. Meaning(r, {}) = raw_transaction(Arg(r, 1))
  <2> DEFINE a == Arg(r, 1)
             g == [name \in Fields |-> Copied(FieldOf(r, name), name, {})]
             q == [i \in DOMAIN Given(r) |-> Arg(r, i)]
  <2>1. Meaning(r, {}) = handle(IF "method" \in r.members THEN r.method ELSE "", a, g, q)
    BY MeaningIs
  <2> HIDE DEF a, g, q
  <2>2. Meaning(r, {}) = handle(m, a, g, q)
    BY <1>7, <2>1
  <2>3. handle(m, a, g, q) = raw_transaction(a)
    BY <1>5, HandleIs
  <2>4. QED
    BY <2>2, <2>3 DEF a
<1>11. QED
  BY <1>2, <1>8, <1>9, <1>10

\* The id of the answer is that of the request.
LEMMA IdIs ==
  ASSUME NEW r, IsRequest(r), NEW layout, IsLayout(layout), NEW F, NEW h, NEW v,
         RequestAt(F, r, layout, h, v), r.id.len <= 29
  PROVE  json_extract_id(F) = IF "id" \in r.members THEN r.id ELSE Num("1", 1)
<1> DEFINE p0 == find_value(F, 1, "id")
           t == r.id
<1>0. F \in Seq(Tok)
  BY DEF RequestAt
<1>1. CutOf(F, F)
  BY <1>0, WholeCutOf
<1>2. CASE "id" \notin r.members
  <2>1. Hits(F, 1, "id") = {}
    BY <1>2 DEF RequestAt, Names
  <2>2. p0 = 0
    <3>1. 1 \in Nat \ {0}
      OBVIOUS
    <3>2. QED
      BY <1>1, <2>1, <3>1, NotFound DEF CutOf
  <2>3. At(F, 0).k = "nul"
    <3>1. DOMAIN F = 1 .. Len(F) /\ Len(F) \in Nat
      BY <1>1, CutLens
    <3>2. \A n \in Nat : 0 \notin 1 .. n
      OBVIOUS
    <3>3. QED
      BY <3>1, <3>2 DEF At, Nul
  <2>4. json_extract_id(F) = Num("1", 1)
    <3> HIDE DEF p0, t
    <3>1. At(F, p0).k \notin Quoted /\ At(F, p0).k # "num"
      BY <2>2, <2>3 DEF Quoted
    <3>2. QED
      BY <2>2, <3>1 DEF json_extract_id, p0
  <2>5. QED
    BY <1>2, <2>4
<1>3. CASE "id" \in r.members
  <2> DEFINE w == v["id"]
             value == Value(r, "id", layout)
  <2>1. /\ MemberAt(F, h["id"], w, "id", value)
        /\ \A y \in Hits(F, 1, "id") : h["id"] <= y
    BY <1>3 DEF RequestAt
  <2>2. value = <<t>> /\ TokenOk(t)
    BY ValueIs, RequestTokens
  <2>3. value[1] = t /\ t.k \notin {"sp", ":"}
    BY <2>2, OneToken
  <2>4. t \in Token /\ t.k \in {"str", "num"} /\ (t.k = "num" => t.len <= 31) /\ t.len <= 29
    BY DEF IsRequest
  <2>5. 1 \in Nat \ {0} /\ 1 <= h["id"]
    <3>2. h["id"] \in Nat /\ h["id"] >= 1
      BY <1>0, <2>1, ValueAt
    <3>3. \A n \in Nat : n >= 1 => 1 <= n
      OBVIOUS
    <3>4. QED
      BY <3>2, <3>3
  <2> HIDE DEF t, value, w, p0
  <2>6. /\ w \in 1 .. Len(F) /\ F[w] = t
        /\ w <= Len(F) => p0 = w /\ At(F, w) = F[w]
        /\ w \in Nat \ {0} /\ Len(F) \in Nat
    BY <1>1, <2>1, <2>3, <2>5, FoundCut DEF p0
  <2>7. w <= Len(F) /\ w # 0
    <3> DEFINE N == Len(F)
    <3>1. w \in 1 .. N /\ N \in Nat
      BY <2>6
    <3> HIDE DEF N
    <3>2. w <= N /\ w # 0
      BY <3>1
    <3>3. QED
      BY <3>2 DEF N
  <2>8. p0 # 0 /\ At(F, p0) = t /\ F[p0] = t
    BY <2>6, <2>7
  <2>9. CASE t.k = "str"
    <3>1. json_extract_id(F) = Cut(t, 29)
      BY <2>8, <2>9 DEF json_extract_id, Quoted, p0
    <3>2. Cut(t, 29) = t
      <4>1. Cut(t, 29) = [t EXCEPT !.k = "str"]
        BY <2>4 DEF Cut
      <4>2. t = [k |-> t.k, v |-> t.v, len |-> t.len]
        BY <2>4 DEF Token
      <4>3. [t EXCEPT !.k = "str"] = t
        BY <2>9, <4>2
      <4>4. QED
        BY <4>1, <4>3
    <3>3. QED
      BY <1>3, <3>1, <3>2 DEF t
  <2>10. CASE t.k = "num"
    <3>1. json_extract_id(F) = IF t.len <= 31 THEN t ELSE Num("cut", 31)
      BY <2>8, <2>10 DEF json_extract_id, Quoted, p0
    <3>2. QED
      BY <1>3, <2>4, <2>10, <3>1 DEF t
  <2>11. QED
    BY <2>4, <2>9, <2>10
<1>4. QED
  BY <1>2, <1>3

\* The fields that are given have different names.
LEMMA FieldsDiffer ==
  ASSUME NEW r, IsRequest(r), "params" \in r.members,
         NEW i \in 1 .. Len(r.params), NEW x \in 1 .. Len(r.params[i].fields)
  PROVE  LET z == r.params[i].fields[x]
         IN /\ z \in GivenFields(r)
            /\ \A y \in GivenFields(r) : y.name = z.name => y = z
<1> DEFINE ps == r.params
           z == ps[i].fields[x]
<1>1. Given(r) = ps
  BY DEF Given
<1>2. IsSeq(ps) /\ DOMAIN ps = 1 .. Len(ps)
  BY DEF IsRequest, AreParams, IsSeq
<1>3. \A a \in DOMAIN ps : DOMAIN ps[a].fields = 1 .. Len(ps[a].fields)
  <2>1. \A a \in DOMAIN ps : IsParam(ps[a])
    BY DEF IsRequest, AreParams
  <2>2. \A e : IsParam(e) => DOMAIN e.fields = 1 .. Len(e.fields)
    <3>1. \A e : IsScalarParam(e) => DOMAIN e.fields = 1 .. Len(e.fields)
      BY DEF IsScalarParam
    <3>2. \A e : IsObjectParam(e) => DOMAIN e.fields = 1 .. Len(e.fields)
      BY DEF IsObjectParam, IsSeq
    <3>3. QED
      BY <3>1, <3>2, ParamKinds
  <2>3. QED
    BY <2>1, <2>2
<1>4. \A a, c \in DOMAIN ps : \A s \in DOMAIN ps[a].fields, t \in DOMAIN ps[c].fields :
        ps[a].fields[s].name = ps[c].fields[t].name => a = c /\ s = t
  BY DEF IsRequest, AreParams
<1>5. i \in DOMAIN ps /\ x \in DOMAIN ps[i].fields
  BY <1>2, <1>3
<1>6. GivenFields(r) = UNION {Range(ps[a].fields) : a \in DOMAIN ps}
  BY <1>1 DEF GivenFields
<1> HIDE DEF ps, z
<1>7. \A y : y \in GivenFields(r) <=>
               \E a \in DOMAIN ps : \E s \in DOMAIN ps[a].fields : y = ps[a].fields[s]
  BY <1>6 DEF Range
<1>8. z \in GivenFields(r)
  BY <1>5, <1>7 DEF z
<1>9. ASSUME NEW y \in GivenFields(r), y.name = z.name PROVE y = z
  <2>1. PICK a \in DOMAIN ps : \E s \in DOMAIN ps[a].fields : y = ps[a].fields[s]
    BY <1>7
  <2>2. PICK s \in DOMAIN ps[a].fields : y = ps[a].fields[s]
    BY <2>1
  <2>3. a = i /\ s = x
    BY <1>4, <1>5, <1>9, <2>2 DEF z
  <2>4. QED
    BY <2>2, <2>3 DEF z
<1>10. QED
  BY <1>8, <1>9 DEF z, ps

\* A field that is read is the one that is given.
LEMMA FieldRead ==
  ASSUME NEW r, IsRequest(r), NEW layout, IsLayout(layout), NEW F, NEW h, NEW v,
         RequestAt(F, r, layout, h, v), NEW key \in Fields
  PROVE  extract_param_field_string(F, key) = FieldOf(r, key)
<1> DEFINE e == extract_param_field_string(F, key)
           p0 == find_params_array(F)
<1>0. F \in Seq(Tok) /\ CutOf(F, F)
  BY WholeCutOf DEF RequestAt
<1>1. CASE "params" \notin r.members
  <2>1. p0 = 0
    BY <1>0, <1>1, ParamsArrayIs
  <2>2. e = Nul
    BY <2>1 DEF extract_param_field_string
  <2>3. GivenFields(r) = {}
    <3>1. Given(r) = <<>>
      BY <1>1 DEF Given
    <3>2. DOMAIN Given(r) = {}
      BY <3>1
    <3>3. QED
      BY <3>2 DEF GivenFields
  <2>4. Named(r, key) = {}
    BY <2>3 DEF Named
  <2>5. QED
    BY <2>2, <2>4 DEF FieldOf
<1>2. CASE "params" \in r.members
  <2> DEFINE w == v["params"]
             A == Value(r, "params", layout)
             ps == r.params
             N == Len(F)
             from == w + 1
             off == w - 1
  <2>1. /\ w \in Nat \ {0} /\ N \in Nat /\ Holds(F, w - 1, A)
        /\ w <= N => p0 = w + 1
    BY <1>0, <1>2, ParamsArrayIs
  <2>2. PICK items, b : ParamsText(A, ps, items, b)
    BY ValueIs
  <2>3. \A q \in Hits(F, 1, key) : \E y \in 1 .. Len(A) : F[q] = A[y] /\ q = (w - 1) + y
    BY DEF RequestAt
  <2> HIDE DEF w, A, ps
  <2>4. A \in Seq(Tok) /\ Len(A) \in Nat /\ Len(A) >= 2
    BY <2>2, ParamsTextAt
  <2>5. (w - 1) + Len(A) <= N
    BY <2>1 DEF Holds
  <2> HIDE DEF N
  <2>6. w <= N
    <3> DEFINE a == Len(A)
    <3>1. a \in Nat /\ a >= 2 /\ (w - 1) + a <= N /\ w \in Nat \ {0} /\ N \in Nat
      BY <2>1, <2>4, <2>5
    <3> HIDE DEF a
    <3>2. QED
      BY <3>1
  <2>7. p0 = from /\ from \in Nat \ {0} /\ from # 0 /\ off \in Nat /\ 1 <= from
    BY <2>1, <2>6
  <2>8. \A q \in Hits(F, from, key) : q \in Hits(F, 1, key)
    <3>1. \A q \in from .. N : q \in 1 .. N
      BY <2>1, <2>7
    <3>2. QED
      BY <3>1 DEF Hits, N
  <2> DEFINE u == find_value(F, from, key)
  <2>9. e = IF u = 0 THEN Nul ELSE extract_quoted_string(F, u)
    BY <2>7 DEF extract_param_field_string
  <2> HIDE DEF from, off, u, e, p0
  \* A field of that name is a hit.
  <2>10. ASSUME NEW i \in 1 .. Len(ps), NEW x \in 1 .. Len(ps[i].fields), names(ps[i])[x] = key
         PROVE  Hits(F, from, key) # {}
    <3>1. PICK q, z : FieldAt(A, q, z, ps, i, x) /\ q > 1
      BY <2>2, FieldsThere
    <3>2. MemberAt(A, q, z, key, values(ps[i])[x])
      BY <2>10, <3>1 DEF FieldAt
    <3>3. Holds(F, off, A)
      BY <2>1 DEF off
    <3>4. MemberAt(F, off + q, off + z, key, values(ps[i])[x])
      BY <1>0, <2>4, <3>2, <3>3, MemberWithin
    <3> DEFINE g == off + q
    <3>5. F[g] = Str(key, 0)
      BY <3>4 DEF MemberAt
    <3>6. off + z \in 1 .. N /\ g \in Nat /\ g + 2 <= off + z /\ q \in Nat
      BY <1>0, <3>2, <3>4, ValueAt DEF MemberAt, N
    <3>7. g \in from .. N
      <4>1. off = w - 1 /\ from = w + 1 /\ w \in Nat \ {0} /\ N \in Nat
        BY <2>1 DEF off, from
      <4>2. QED
        BY <3>1, <3>6, <4>1
    <3>8. F[g].k = "str" /\ F[g].v = key
      BY <3>5, KindOf
    <3> HIDE DEF g
    <3>9. g \in Hits(F, from, key)
      BY <3>7, <3>8 DEF Hits, N
    <3>10. QED
      BY <3>9
  <2>11. CASE Hits(F, from, key) = {}
    <3>1. u = 0
      BY <1>0, <2>7, <2>11, NotFound DEF u, CutOf
    <3>2. e = Nul
      BY <2>9, <3>1
    <3>3. Named(r, key) = {}
      <4> SUFFICES ASSUME NEW z \in Named(r, key) PROVE FALSE
        OBVIOUS
      <4>1. z \in GivenFields(r) /\ z.name = key
        BY DEF Named
      <4>2. PICK i \in DOMAIN Given(r) : z \in Range(Given(r)[i].fields)
        BY <4>1 DEF GivenFields
      <4>3. Given(r) = ps
        BY <1>2 DEF Given, ps
      <4>4. i \in 1 .. Len(ps) /\ ParamOk(items[i], ps[i])
        BY <2>2, <4>3 DEF ParamsText
      <4>5. PICK x \in DOMAIN ps[i].fields : z = ps[i].fields[x]
        BY <4>2, <4>3 DEF Range
      <4>6. x \in 1 .. Len(ps[i].fields)
        BY <4>4 DEF ParamOk
      <4>7. names(ps[i])[x] = key
        BY <4>1, <4>5, <4>6 DEF names
      <4>8. QED
        BY <2>10, <2>11, <4>4, <4>6, <4>7
    <3>4. QED
      BY <3>2, <3>3 DEF FieldOf, e
  <2>12. CASE Hits(F, from, key) # {}
    <3>0. Hits(F, from, key) \in SUBSET Nat
      BY <2>1, <2>7 DEF Hits, N
    <3>1. PICK q \in Hits(F, from, key) : \A y \in Hits(F, from, key) : q <= y
      BY <2>12, <3>0, First
    <3>2. PICK y \in 1 .. Len(A) : F[q] = A[y] /\ q = off + y
      BY <2>3, <2>8 DEF off
    <3>3. A[y].k = "str" /\ A[y].v = key
      BY <3>2 DEF Hits
    <3>4. PICK i \in 1 .. Len(ps) : \E x \in 1 .. Len(ps[i].fields) : \E z :
                A[y].v = names(ps[i])[x] /\ FieldAt(A, y, z, ps, i, x)
      BY <2>2, <3>3, ArrayStrings
    <3>5. PICK x \in 1 .. Len(ps[i].fields) : \E z :
                A[y].v = names(ps[i])[x] /\ FieldAt(A, y, z, ps, i, x)
      BY <3>4
    <3>6. PICK z : A[y].v = names(ps[i])[x] /\ FieldAt(A, y, z, ps, i, x)
      BY <3>5
    <3> DEFINE val == values(ps[i])[x]
    <3>7. MemberAt(A, y, z, key, val)
      BY <3>3, <3>6 DEF FieldAt
    <3>8. FieldOk(key, val)
      BY <2>2, <3>3, <3>6 DEF ParamsText, ParamOk, FieldsOk
    <3>9. ps[i].fields[x].name = key /\ ps[i].fields[x].value = val
      BY <3>3, <3>6 DEF names, values
    <3> HIDE DEF val
    <3>10. Holds(F, off, A)
      BY <2>1 DEF off
    <3>11. MemberAt(F, q, off + z, key, val)
      BY <1>0, <2>4, <3>2, <3>7, <3>10, MemberWithin
    <3>12. val[1].k \notin {"sp", ":"}
      BY <3>8 DEF FieldOk
    <3>13. from <= q
      <4>1. q \in from .. N
        BY DEF Hits, N
      <4>2. QED
        BY <2>1, <2>7, <4>1
    <3> DEFINE t == off + z
    <3>14. /\ t \in 1 .. Len(F) /\ F[t] = val[1]
           /\ t <= Len(F) => u = t /\ At(F, t) = F[t]
           /\ t \in Nat \ {0} /\ Len(F) \in Nat
      BY <1>0, <2>7, <3>1, <3>11, <3>12, <3>13, FoundCut DEF u
    <3> HIDE DEF t
    <3>15. t <= Len(F) /\ t # 0
      <4>1. t \in 1 .. N /\ N \in Nat
        BY <3>14 DEF N
      <4>2. t <= N /\ t # 0
        BY <4>1
      <4>3. QED
        BY <4>2 DEF N
    <3>16. e = IF val[1].k = "str" THEN val[1] ELSE Nul
      BY <2>9, <3>14, <3>15 DEF extract_quoted_string
    <3> DEFINE f == ps[i].fields[x]
    <3>17. f \in GivenFields(r) /\ \A g \in GivenFields(r) : g.name = f.name => g = f
      BY <1>2, FieldsDiffer DEF ps
    <3>18. f.name = key /\ f.value = val
      BY <3>9
    <3> HIDE DEF f
    <3>19. CASE val[1].k = "str"
      <4>1. f \in Named(r, key) /\ \A g \in Named(r, key) : g = f
        BY <3>17, <3>18, <3>19 DEF Named
      <4>2. FieldOf(r, key) = f.value[1]
        BY <4>1 DEF FieldOf
      <4>3. QED
        BY <3>16, <3>18, <3>19, <4>2 DEF e
    <3>20. CASE val[1].k # "str"
      <4>1. Named(r, key) = {}
        BY <3>17, <3>18, <3>20 DEF Named
      <4>2. QED
        BY <3>16, <3>20, <4>1 DEF FieldOf, e
    <3>21. QED
      BY <3>19, <3>20
  <2>13. QED
    BY <2>11, <2>12
<1>3. QED
  BY <1>1, <1>2

----------------------------------------------------------------------------
(* Parameters that are taken by their position.                            *)

\* The elements a parameter may be parsed into.
Parm == {Empty, Str("{object}", 8)} \cup {Cut(x, 255) : x \in Tok \cup {Nul}}

\* No address and no word of 32 bytes.
Short(x) == byte_len(x, 20) # 20 /\ byte_len(x, 32) # 32

\* A text of at most 31 characters is short.
LEMMA ShortIs ==
  ASSUME NEW x, x.len \in Nat, x.len <= 31
  PROVE  Short(x)
<1> DEFINE n == x.len
<1>1. n \in Nat /\ n <= 31
  OBVIOUS
<1> HIDE DEF n
<1>2. (n - 2) \div 2 # 20 /\ (n - 2) \div 2 # 32
  BY <1>1
<1>3. \A k : byte_len(x, k) \in {0, -1, (n - 2) \div 2}
  BY DEF byte_len, n
<1>4. QED
  BY <1>2, <1>3 DEF Short

\* What becomes of a parameter.
LEMMA ParsedToken ==
  ASSUME NEW t \in Token, t.len <= 255
  PROVE  /\ t.k = "str" => Cut(t, 255) = t
         /\ Cut(t, 255).len = t.len
<1>1. Cut(t, 255) = [t EXCEPT !.k = "str"]
  BY DEF Cut
<1>2. t = [k |-> t.k, v |-> t.v, len |-> t.len]
  BY DEF Token
<1>3. t.k = "str" => [t EXCEPT !.k = "str"] = t
  BY <1>2
<1>4. [t EXCEPT !.k = "str"].len = t.len
  BY <1>2
<1>5. QED
  BY <1>1, <1>3, <1>4

\* What is parsed is one parameter: the text, or something short.
Like(x, a) == x = a \/ (a = Nul /\ Short(x))

\* As a hash or an address both are taken alike.
LEMMA LikeIs ==
  ASSUME NEW x, NEW a, Like(x, a)
  PROVE  /\ \A k \in {20, 32} : byte_len(x, k) = k <=> byte_len(a, k) = k
         /\ \A k \in {20, 32} : byte_len(x, k) = k => x = a
<1>1. Nul.len \in Nat /\ Nul.len <= 31
  BY DEF Nul
<1>2. Short(Nul)
  BY <1>1, ShortIs
<1>3. QED
  BY <1>2 DEF Like, Short

\* The parameters parsed from the text and those the client gave.
Agree(pa, args) ==
  /\ Len(args) = 0 => Len(pa) = 0
  /\ Len(args) >= 1 => Len(pa) >= 1 /\ Like(pa[1], args[1])
  /\ Short(pa[1]) \/ (Len(args) >= 2 <=> Len(pa) >= 2)
  /\ Len(args) >= 2 => Short(pa[1]) \/ Like(pa[2], args[2])

\* The first one or two elements.
LEMMA FirstElements ==
  ASSUME NEW A, NEW s \in Seq(A)
  PROVE  /\ Len(s) >= 1 => SubSeq(s, 1, 1) = <<s[1]>>
         /\ Len(s) >= 2 => SubSeq(s, 1, 2) = <<s[1], s[2]>>
<1>1. ASSUME Len(s) >= 1 PROVE SubSeq(s, 1, 1) = <<s[1]>>
  <2> DEFINE c == SubSeq(s, 1, 1)
             d == <<s[1]>>
  <2>1. c \in Seq(A) /\ Len(c) = 1 /\ c[1] = s[1]
    BY <1>1
  <2>2. d \in Seq(A) /\ Len(d) = 1 /\ d[1] = s[1]
    BY <1>1
  <2> HIDE DEF c, d
  <2>3. \A i \in 1 .. 1 : c[i] = d[i]
    <3>1. \A i \in 1 .. 1 : i = 1
      OBVIOUS
    <3>2. QED
      BY <2>1, <2>2, <3>1
  <2>4. c = d
    BY <2>1, <2>2, <2>3
  <2>5. QED
    BY <2>4 DEF c, d
<1>2. ASSUME Len(s) >= 2 PROVE SubSeq(s, 1, 2) = <<s[1], s[2]>>
  <2> DEFINE c == SubSeq(s, 1, 2)
             d == <<s[1], s[2]>>
  <2>1. c \in Seq(A) /\ Len(c) = 2 /\ c[1] = s[1] /\ c[2] = s[2]
    BY <1>2
  <2>2. d \in Seq(A) /\ Len(d) = 2 /\ d[1] = s[1] /\ d[2] = s[2]
    BY <1>2
  <2> HIDE DEF c, d
  <2>3. \A i \in 1 .. 2 : c[i] = d[i]
    <3>1. \A i \in 1 .. 2 : i = 1 \/ i = 2
      OBVIOUS
    <3>2. QED
      BY <2>1, <2>2, <3>1
  <2>4. c = d
    BY <2>1, <2>2, <2>3
  <2>5. QED
    BY <2>4 DEF c, d
<1>3. QED
  BY <1>1, <1>2

\* A handler with one parameter.
LEMMA PositionalOne ==
  ASSUME NEW A, NEW params \in Seq(A), NEW handler, NEW k, Widths[handler] = <<k>>
  PROVE  positional(handler, params) =
           IF Len(params) >= 1 /\ byte_len(params[1], k) = k
           THEN Call(handler, <<params[1]>>) ELSE Error
<1> DEFINE w == Widths[handler]
<1>1. Len(w) = 1 /\ DOMAIN w = {1} /\ w[1] = k
  OBVIOUS
<1>2. Len(params) >= 1 => SubSeq(params, 1, 1) = <<params[1]>>
  BY FirstElements
<1> HIDE DEF w
<1>3. positional(handler, params) =
        IF Len(params) >= Len(w) /\ \A i \in DOMAIN w : byte_len(params[i], w[i]) = w[i]
        THEN Call(handler, SubSeq(params, 1, Len(w))) ELSE Error
  BY DEF positional, w
<1>4. QED
  BY <1>1, <1>2, <1>3

\* A handler with two parameters.
LEMMA PositionalTwo ==
  ASSUME NEW A, NEW params \in Seq(A), NEW handler, NEW k, NEW m, Widths[handler] = <<k, m>>
  PROVE  positional(handler, params) =
           IF Len(params) >= 2 /\ byte_len(params[1], k) = k /\ byte_len(params[2], m) = m
           THEN Call(handler, <<params[1], params[2]>>) ELSE Error
<1> DEFINE w == Widths[handler]
<1>1. Len(w) = 2 /\ DOMAIN w = {1, 2} /\ w[1] = k /\ w[2] = m
  OBVIOUS
<1>2. Len(params) >= 2 => SubSeq(params, 1, 2) = <<params[1], params[2]>>
  BY FirstElements
<1> HIDE DEF w
<1>3. positional(handler, params) =
        IF Len(params) >= Len(w) /\ \A i \in DOMAIN w : byte_len(params[i], w[i]) = w[i]
        THEN Call(handler, SubSeq(params, 1, Len(w))) ELSE Error
  BY DEF positional, w
<1>4. QED
  BY <1>1, <1>2, <1>3

\* Parameters that agree are the same to every handler.
LEMMA PositionalAgree ==
  ASSUME NEW A, NEW pa \in Seq(A), NEW B, NEW args \in Seq(B), Agree(pa, args),
         NEW handler \in DOMAIN Widths
  PROVE  positional(handler, pa) = positional(handler, args)
<1> DEFINE n == Len(args)
           m == Len(pa)
<1>1. n \in Nat /\ m \in Nat
  OBVIOUS
<1>2. /\ n = 0 => m = 0
      /\ n >= 1 => m >= 1 /\ Like(pa[1], args[1])
      /\ Short(pa[1]) \/ (n >= 2 <=> m >= 2)
      /\ n >= 2 => Short(pa[1]) \/ Like(pa[2], args[2])
  BY DEF Agree
<1> HIDE DEF n, m
<1>7. n >= 1 <=> m >= 1
  BY <1>1, <1>2
<1>8. n >= 2 => n >= 1
  BY <1>1
<1>3. ASSUME NEW k \in {20, 32}, Widths[handler] = <<k>>
      PROVE  positional(handler, pa) = positional(handler, args)
  <2>1. /\ positional(handler, pa) = IF m >= 1 /\ byte_len(pa[1], k) = k
                                     THEN Call(handler, <<pa[1]>>) ELSE Error
        /\ positional(handler, args) = IF n >= 1 /\ byte_len(args[1], k) = k
                                       THEN Call(handler, <<args[1]>>) ELSE Error
    BY <1>3, PositionalOne DEF m, n
  <2>2. CASE n >= 1
    <3>1. (byte_len(pa[1], k) = k <=> byte_len(args[1], k) = k)
          /\ (byte_len(pa[1], k) = k => pa[1] = args[1])
      BY <1>2, <2>2, LikeIs
    <3>2. QED
      BY <1>7, <2>1, <2>2, <3>1
  <2>3. CASE ~(n >= 1)
    BY <1>7, <2>1, <2>3
  <2>4. QED
    BY <2>2, <2>3
<1>4. ASSUME Widths[handler] = <<20, 32>>
      PROVE  positional(handler, pa) = positional(handler, args)
  <2>1. /\ positional(handler, pa) =
             IF m >= 2 /\ byte_len(pa[1], 20) = 20 /\ byte_len(pa[2], 32) = 32
             THEN Call(handler, <<pa[1], pa[2]>>) ELSE Error
        /\ positional(handler, args) =
             IF n >= 2 /\ byte_len(args[1], 20) = 20 /\ byte_len(args[2], 32) = 32
             THEN Call(handler, <<args[1], args[2]>>) ELSE Error
    <3> DEFINE a == 20
               c == 32
    <3>1. Widths[handler] = <<a, c>>
      BY <1>4
    <3> HIDE DEF a, c
    <3>2. /\ positional(handler, pa) =
               IF Len(pa) >= 2 /\ byte_len(pa[1], a) = a /\ byte_len(pa[2], c) = c
               THEN Call(handler, <<pa[1], pa[2]>>) ELSE Error
          /\ positional(handler, args) =
               IF Len(args) >= 2 /\ byte_len(args[1], a) = a /\ byte_len(args[2], c) = c
               THEN Call(handler, <<args[1], args[2]>>) ELSE Error
      BY <3>1, PositionalTwo
    <3>3. QED
      BY <3>2 DEF m, n, a, c
  <2>2. n >= 1 => /\ byte_len(pa[1], 20) = 20 <=> byte_len(args[1], 20) = 20
                  /\ byte_len(pa[1], 20) = 20 => pa[1] = args[1]
    BY <1>2, LikeIs
  <2>3. CASE byte_len(pa[1], 20) # 20
    BY <1>7, <1>8, <2>1, <2>2, <2>3
  <2>4. CASE byte_len(pa[1], 20) = 20
    <3>1. ~Short(pa[1])
      BY <2>4 DEF Short
    <3>2. n >= 2 <=> m >= 2
      BY <1>2, <3>1
    <3>3. n >= 2 => /\ byte_len(pa[2], 32) = 32 <=> byte_len(args[2], 32) = 32
                    /\ byte_len(pa[2], 32) = 32 => pa[2] = args[2]
      BY <1>2, <3>1, LikeIs, SMTT(60)
    <3>4. QED
      BY <1>8, <2>1, <2>2, <3>2, <3>3
  <2>5. QED
    BY <2>3, <2>4
<1>5. Widths[handler] \in {<<20>>, <<32>>, <<20, 32>>}
  BY DEF Widths
<1>6. QED
  BY <1>3, <1>4, <1>5

\* What the loop of evmdb_json_parse_params has after each round.
Begin(start) == [params |-> <<>>, pos |-> start]
Rounds(T, start, n, f) ==
  f = [i \in 0 .. n |-> IF i = 0 THEN Begin(start) ELSE next_param(T, f[i - 1])]

\* Any number of rounds has such a function.
LEMMA RoundsExist ==
  ASSUME NEW T, NEW start
  PROVE  \A n \in Nat : \E f : Rounds(T, start, n, f)
<1> DEFINE S == {n \in Nat : \E f : Rounds(T, start, n, f)}
           B == Begin(start)
           step(s) == next_param(T, s)
<1> HIDE DEF B, step
<1>0. \A n, f : Rounds(T, start, n, f) <=>
                f = [i \in 0 .. n |-> IF i = 0 THEN B ELSE step(f[i - 1])]
  BY DEF Rounds, B, step
<1>1. 0 \in S
  <2> DEFINE f == [i \in 0 .. 0 |-> B]
  <2>1. \A i \in 0 .. 0 : i = 0
    OBVIOUS
  <2>2. f = [i \in 0 .. 0 |-> IF i = 0 THEN B ELSE step(f[i - 1])]
    BY <2>1
  <2> HIDE DEF f
  <2>3. Rounds(T, start, 0, f)
    BY <1>0, <2>2
  <2>4. QED
    BY <2>3
<1>2. ASSUME NEW n \in Nat, n \in S PROVE n + 1 \in S
  <2>1. PICK f : Rounds(T, start, n, f)
    BY <1>2
  <2>2. f = [i \in 0 .. n |-> IF i = 0 THEN B ELSE step(f[i - 1])]
    BY <1>0, <2>1
  <2> DEFINE g == [i \in 0 .. n + 1 |-> IF i = n + 1 THEN step(f[n]) ELSE f[i]]
             h == [i \in 0 .. n + 1 |-> IF i = 0 THEN B ELSE step(g[i - 1])]
  <2>3. ASSUME NEW i \in 0 .. n + 1 PROVE g[i] = h[i]
    <3>1. CASE i = 0
      <4>1. i # n + 1 /\ i \in 0 .. n
        BY <3>1
      <4>2. g[i] = f[i] /\ f[i] = B
        BY <2>2, <3>1, <4>1
      <4>3. QED
        BY <3>1, <4>2
    <3>2. CASE i = n + 1
      <4>1. i # 0 /\ i - 1 = n /\ n \in 0 .. n + 1 /\ n # n + 1
        BY <3>2
      <4>2. g[n] = f[n]
        BY <4>1
      <4>3. g[i] = step(f[n]) /\ h[i] = step(g[i - 1])
        BY <3>2, <4>1
      <4> HIDE DEF g, h
      <4>4. QED
        BY <4>1, <4>2, <4>3
    <3>3. CASE i # 0 /\ i # n + 1
      <4>1. i \in 0 .. n /\ i - 1 \in 0 .. n + 1 /\ i - 1 # n + 1
        BY <3>3
      <4>2. g[i] = f[i] /\ g[i - 1] = f[i - 1] /\ h[i] = step(g[i - 1])
        BY <3>3, <4>1
      <4>3. f[i] = step(f[i - 1])
        BY <2>2, <3>3, <4>1
      <4> HIDE DEF g, h
      <4>4. QED
        BY <4>2, <4>3
    <3>4. QED
      BY <3>1, <3>2, <3>3
  <2>4. g = h
    <3>1. g = [i \in 0 .. n + 1 |-> g[i]] /\ h = [i \in 0 .. n + 1 |-> h[i]]
      OBVIOUS
    <3> HIDE DEF g, h
    <3>2. QED
      BY <2>3, <3>1
  <2>5. g = [i \in 0 .. n + 1 |-> IF i = 0 THEN B ELSE step(g[i - 1])]
    BY <2>4
  <2> HIDE DEF g
  <2>6. Rounds(T, start, n + 1, g)
    BY <1>0, <2>5
  <2>7. n + 1 \in Nat
    OBVIOUS
  <2>8. QED
    BY <2>6, <2>7
<1> HIDE DEF S
<1>3. \A n \in Nat : n \in S
  BY <1>1, <1>2, NatSetInduction
<1>4. QED
  BY <1>3 DEF S

\* The elements that are kept.
Kept(all) == SubSeq(all, 1, IF Len(all) < 8 THEN Len(all) ELSE 8)

\* evmdb_json_parse_params is eight such rounds.
LEMMA ParseIs ==
  ASSUME NEW T
  PROVE  LET start == find_params_array(T)
         IN /\ start = 0 => evmdb_json_parse_params(T, 8) = <<>>
            /\ start # 0 =>
                 \E f : /\ f[0] = Begin(start)
                        /\ \A i \in 1 .. 8 : f[i] = next_param(T, f[i - 1])
                        /\ evmdb_json_parse_params(T, 8) = Kept(f[8].params)
<1> DEFINE start == find_params_array(T)
           parsed == CHOOSE f : Rounds(T, start, 8, f)
<1>1. Rounds(T, start, 8, parsed)
  <2>1. 8 \in Nat
    OBVIOUS
  <2>2. QED
    BY <2>1, RoundsExist
<1>2. evmdb_json_parse_params(T, 8) = IF start = 0 THEN <<>> ELSE Kept(parsed[8].params)
  BY DEF evmdb_json_parse_params, Rounds, Begin, Kept
<1> HIDE DEF parsed, start
<1>3. parsed[0] = Begin(start) /\ \A i \in 1 .. 8 : parsed[i] = next_param(T, parsed[i - 1])
  <2>1. parsed = [i \in 0 .. 8 |-> IF i = 0 THEN Begin(start) ELSE next_param(T, parsed[i - 1])]
    BY <1>1 DEF Rounds
  <2>2. 0 \in 0 .. 8 /\ \A i \in 1 .. 8 : i \in 0 .. 8 /\ i # 0
    OBVIOUS
  <2>3. QED
    BY <2>1, <2>2
<1>4. QED
  BY <1>2, <1>3 DEF start

\* c begins with a.
Grows(a, c) ==
  /\ a \in Seq(Parm) /\ c \in Seq(Parm) /\ Len(a) <= Len(c)
  /\ \A i \in 1 .. Len(a) : c[i] = a[i]

\* What begins with a beginning begins with its beginning.
LEMMA GrowsTrans ==
  ASSUME NEW a, NEW c, NEW d, Grows(a, c), Grows(c, d)
  PROVE  Grows(a, d)
<1> DEFINE A == Len(a)
           C == Len(c)
           D == Len(d)
<1>1. /\ A \in Nat /\ C \in Nat /\ D \in Nat /\ A <= C /\ C <= D
      /\ \A i \in 1 .. A : c[i] = a[i]
      /\ \A i \in 1 .. C : d[i] = c[i]
  BY DEF Grows
<1> HIDE DEF A, C, D
<1>2. A <= D /\ \A i \in 1 .. A : i \in 1 .. C
  BY <1>1
<1>3. \A i \in 1 .. A : d[i] = a[i]
  BY <1>1, <1>2
<1>4. QED
  BY <1>2, <1>3 DEF Grows, A, D

\* A sequence begins with itself, also when something is appended.
LEMMA GrowsBy ==
  ASSUME NEW a \in Seq(Parm), NEW s \in Seq(Parm)
  PROVE  Grows(a, a) /\ Grows(a, a \o s)
<1> DEFINE c == a \o s
<1>1. /\ c \in Seq(Parm) /\ Len(c) = Len(a) + Len(s) /\ Len(a) \in Nat /\ Len(s) \in Nat
      /\ \A i \in 1 .. Len(a) : c[i] = a[i]
  BY Joined
<1> HIDE DEF c
<1>2. Len(a) <= Len(c) /\ Len(a) <= Len(a)
  BY <1>1
<1>3. QED
  BY <1>1, <1>2 DEF Grows, c

\* Where a round looks.
Look(T, pos) == SkipAll(T, pos, Space \cup {","})

\* At the closing bracket nothing happens any more.
LEMMA NextStays ==
  ASSUME NEW T, NEW before, At(T, Look(T, before.pos)).k = "]"
  PROVE  next_param(T, before) = before
BY DEF next_param, Look, Quoted

\* What a round that sees a token of kind k and length n at q, which is copied
\* as x, makes of its state; the next comma or bracket is at to.
RoundIs(c, before, first, k, n, x, q, to) ==
  /\ first \in {"nul", "]"} \/ k = "]" => c = before
  /\ first \notin {"nul", "]"} /\ k \in Quoted /\ n \in Nat /\ n <= 255 =>
       c.params = before.params \o <<x>> /\ c.pos = q + 1
  /\ first \notin {"nul", "]"} /\ k \in Quoted /\ n \in Nat /\ n > 255 =>
       c.params = before.params \o <<x, Empty>>
  /\ first \notin {"nul", "]"} /\ k = "{" => c.params = before.params \o <<Str("{object}", 8)>>
  /\ first \notin {"nul", "]"} /\ k = "num" => c.params = before.params \o <<x>> /\ c.pos = to
  /\ first \notin {"nul", "]"} /\ k \notin {"str", "open", "{", "num", "]"} =>
       c.params = before.params \o <<Empty>> /\ c.pos = to

\* Every round does one of these.
LEMMA NextIs ==
  ASSUME NEW T, NEW before
  PROVE  LET q == Look(T, before.pos)
             t == At(T, q)
         IN RoundIs(next_param(T, before), before, At(T, before.pos).k, t.k, t.len,
                    Cut(t, 255), q, SkipTo(T, q, {",", "]"}))
<1> DEFINE q == Look(T, before.pos)
           t == At(T, q)
           to == SkipTo(T, q, {",", "]"})
           c == next_param(T, before)
           k == t.k
           n == t.len
           first == At(T, before.pos).k
           a == before.params
           x == Cut(t, 255)
           past == PastObject(T, q)
           s1 == a \o <<x>>
           s2 == a \o <<x, Empty>>
           s3 == a \o <<Str("{object}", 8)>>
           s5 == a \o <<Empty>>
           Rec(s, pos) == [params |-> s, pos |-> pos]
           q1 == q + 1
<1>0. \A s, pos : Rec(s, pos).params = s /\ Rec(s, pos).pos = pos
  OBVIOUS
<1>1. c = IF first \in {"nul", "]"} \/ k = "]" THEN before ELSE
          CASE k \in Quoted /\ n <= 255 -> Rec(s1, q1) [] k \in Quoted /\ n > 255 -> Rec(s2, to)
            [] k = "{" -> Rec(s3, past) [] k = "num" -> Rec(s1, to) [] OTHER -> Rec(s5, to)
  BY DEF next_param, Look
<1>2. k \in Quoted <=> k = "str" \/ k = "open"
  BY DEF Quoted
<1> HIDE DEF q, t, to, c, k, n, first, a, x, past, s1, s2, s3, s5, Rec, q1
<1>3. n \in Nat => (n <= 255 <=> ~(n > 255))
  OBVIOUS
<1>5. first \in {"nul", "]"} \/ k = "]" => c = before
  BY <1>1
<1>6. first \notin {"nul", "]"} /\ k \in Quoted /\ n \in Nat /\ n <= 255 => c = Rec(s1, q1)
  BY <1>1, <1>2, <1>3
<1>7. first \notin {"nul", "]"} /\ k \in Quoted /\ n \in Nat /\ n > 255 => c = Rec(s2, to)
  BY <1>1, <1>2, <1>3
<1>8. first \notin {"nul", "]"} /\ k = "{" => c = Rec(s3, past)
  BY <1>1, <1>2
<1>9. first \notin {"nul", "]"} /\ k = "num" => c = Rec(s1, to)
  BY <1>1, <1>2
<1>10. first \notin {"nul", "]"} /\ k \notin {"str", "open", "{", "num", "]"} => c = Rec(s5, to)
  BY <1>1, <1>2
<1>11. first \notin {"nul", "]"} /\ k \in Quoted /\ n \in Nat /\ n <= 255 => c.params = s1 /\ c.pos = q1
  BY <1>0, <1>6
<1>14. first \notin {"nul", "]"} /\ k \in Quoted /\ n \in Nat /\ n > 255 => c.params = s2
  BY <1>0, <1>7
<1>15. first \notin {"nul", "]"} /\ k = "{" => c.params = s3
  BY <1>0, <1>8
<1>16. first \notin {"nul", "]"} /\ k = "num" => c.params = s1 /\ c.pos = to
  BY <1>0, <1>9
<1>17. first \notin {"nul", "]"} /\ k \notin {"str", "open", "{", "num", "]"} =>
         c.params = s5 /\ c.pos = to
  BY <1>0, <1>10
<1>12. RoundIs(c, before, first, k, n, x, q, to)
  BY <1>5, <1>11, <1>14, <1>15, <1>16, <1>17 DEF RoundIs, s1, s2, s3, s5, q1, a
<1>13. QED
  BY <1>12 DEF q, t, to, c, k, n, first, x

\* Tokens have a length.
LEMMA TokenLen ==
  ASSUME NEW t \in Tok \cup {Nul}
  PROVE  t.len \in Nat
<1>1. \A v, n : Str(v, n).len = n
  BY DEF Str
<1>2. \A c : P(c).len = 1
  BY DEF P
<1>3. Nul.len = 0
  BY DEF Nul
<1>4. t \in Token => t.len \in Nat
  BY DEF Token
<1>5. 0 \in Nat /\ 1 \in Nat /\ 3 \in Nat
  OBVIOUS
<1>6. \/ t \in Token
      \/ t = Nul
      \/ \E c : t = P(c)
      \/ \E v : t = Str(v, 0)
      \/ t = Str("2.0", 3)
  BY Zenon DEF Tok
<1>7. ASSUME NEW c, t = P(c) PROVE t.len \in Nat
  BY <1>2, <1>5, <1>7
<1>8. ASSUME NEW v, NEW n \in {0, 3}, t = Str(v, n) PROVE t.len \in Nat
  BY <1>1, <1>5, <1>8
<1>9. QED
  BY <1>3, <1>4, <1>5, <1>6, <1>7, <1>8

\* No round takes anything back.
LEMMA NextGrows ==
  ASSUME NEW T \in Seq(Tok), NEW before, before.params \in Seq(Parm)
  PROVE  Grows(before.params, next_param(T, before).params)
<1> DEFINE q == Look(T, before.pos)
           t == At(T, q)
           to == SkipTo(T, q, {",", "]"})
           c == next_param(T, before)
           k == t.k
           n == t.len
           first == At(T, before.pos).k
           a == before.params
           x == Cut(t, 255)
           o == Str("{object}", 8)
           e == Empty
<1>1. RoundIs(c, before, first, k, n, x, q, to)
  BY NextIs
<1>2. t \in Tok \cup {Nul}
  BY DEF At
<1>3. n \in Nat
  BY <1>2, TokenLen
<1>4. x \in Parm /\ e \in Parm /\ o \in Parm /\ a \in Seq(Parm)
  BY <1>2, ZenonT(60) DEF Parm
<1> HIDE DEF q, t, to, c, k, n, first, a, x, o, e
<1>5. k \in Quoted \/ k = "{" \/ k = "num" \/ k = "]" \/ k \notin {"str", "open", "{", "num", "]"}
  BY DEF Quoted
<1>6. n <= 255 \/ n > 255
  BY <1>3
<1>7. <<x>> \in Seq(Parm) /\ <<e>> \in Seq(Parm) /\ <<o>> \in Seq(Parm) /\ <<x, e>> \in Seq(Parm)
  BY <1>4, OneIs, NameIs
<1>8. \A s \in Seq(Parm) : Grows(a, a) /\ Grows(a, a \o s)
  BY <1>4, GrowsBy
<1>9. c = before \/ c.params = a \o <<x>> \/ c.params = a \o <<x, e>> \/ c.params = a \o <<o>>
        \/ c.params = a \o <<e>>
  BY <1>1, <1>3, <1>5, <1>6 DEF RoundIs, a, e, o
<1>10. QED
  BY <1>7, <1>8, <1>9 DEF a, c

----------------------------------------------------------------------------
(* Between the elements of an array.                                       *)

\* Behind element i, and the next element or the closing bracket.
After(items, b, i) == IF i = 0 THEN 2 ELSE b[i] + Len(items[i]) + 1
Target(E, items, b, i) == IF i < Len(items) THEN b[i + 1] + 1 ELSE Len(E)

\* The items stand in the array E behind the positions b, none of them empty.
Elements(E, items, b) ==
  /\ items \in Lists /\ IsArrayText(E, items, b)
  /\ \A i \in 1 .. Len(items) : Len(items[i]) \in Nat \ {0}

\* From behind an element to the next one there are only separators.
LEMMA GapIs ==
  ASSUME NEW E, NEW items, NEW b, Elements(E, items, b), NEW i \in 0 .. Len(items)
  PROVE  LET a == After(items, b, i)
             z == Target(E, items, b, i)
         IN /\ a \in 2 .. z /\ z \in 2 .. Len(E) /\ Len(E) \in Nat
            /\ \A x \in a .. z - 1 : E[x].k \in {"sp", "nl", ","}
            /\ i < Len(items) => E[z] = items[i + 1][1]
            /\ i = Len(items) => E[z] = P("]")
            /\ i # 0 /\ i < Len(items) => E[a] = P(",")
<1> DEFINE n == Len(items)
           N == Len(E)
           L == [j \in 1 .. n |-> Len(items[j])]
           a == After(items, b, i)
           z == Target(E, items, b, i)
<1>1. n \in Nat /\ items \in Lists
  BY ListIs DEF Elements
<1>2. N \in Nat /\ N >= 2 /\ E[N] = P("]")
  BY Ends DEF Elements, IsArrayText
<1>3. \A j \in 1 .. n : b[j] \in Nat \ {0} /\ L[j] \in Nat \ {0} /\ b[j] + L[j] < N
  BY DEF Elements, IsArrayText, LaidOut
<1>4. \A j, k \in 1 .. n : j < k => b[j] + L[j] < b[k]
  BY DEF Elements, IsArrayText, LaidOut
<1>5. \A j \in 1 .. n : \A x \in 1 .. L[j] : E[b[j] + x] = items[j][x]
  BY DEF Elements, IsArrayText, LaidOut, Holds
<1>6. \A q \in 2 .. N - 1 :
        E[q].k \in {"sp", "nl", ","} \/ \E j \in 1 .. n : q \in b[j] + 1 .. b[j] + L[j]
  BY SeparatorKinds DEF Elements, IsArrayText, LaidOut
<1>7. \A j \in 1 .. n : j < n => E[b[j] + L[j] + 1] = P(",")
  BY DEF Elements, IsArrayText, LaidOut
<1>8. a = IF i = 0 THEN 2 ELSE b[i] + L[i] + 1
  BY DEF After
<1>9. z = IF i < n THEN b[i + 1] + 1 ELSE N
  BY DEF Target
<1>10. i \in 0 .. n
  OBVIOUS
<1> HIDE DEF n, N, L, a, z
<1>11. i # 0 => i \in 1 .. n
  BY <1>1, <1>10
<1>12. i < n => i + 1 \in 1 .. n
  BY <1>1, <1>10
<1>13. i < n \/ i = n
  BY <1>1, <1>10
<1>14. i \in Nat /\ i < i + 1
  BY <1>10
<1>15. a \in 2 .. z /\ z \in 2 .. N
  <2>1. CASE i < n
    <3>1. b[i + 1] \in Nat \ {0} /\ L[i + 1] \in Nat \ {0} /\ b[i + 1] + L[i + 1] < N
      BY <1>3, <1>12, <2>1
    <3>2. i # 0 => b[i] \in Nat \ {0} /\ L[i] \in Nat \ {0} /\ b[i] + L[i] < b[i + 1]
      BY <1>3, <1>4, <1>11, <1>12, <1>14, <2>1
    <3>3. z = b[i + 1] + 1
      BY <1>9, <2>1
    <3>4. CASE i = 0
      BY <1>2, <1>8, <3>1, <3>3, <3>4
    <3>5. CASE i # 0
      <4>1. a = b[i] + L[i] + 1
        BY <1>8, <3>5
      <4> DEFINE u == b[i]
                 l == L[i]
                 w == b[i + 1]
                 m == L[i + 1]
      <4>2. u \in Nat \ {0} /\ l \in Nat \ {0} /\ u + l < w /\ w \in Nat /\ m \in Nat /\ w + m < N
        BY <3>1, <3>2, <3>5
      <4>3. a = (u + l) + 1 /\ z = w + 1 /\ N \in Nat
        BY <1>2, <3>3, <4>1
      <4> HIDE DEF u, l, w, m
      <4>4. QED
        BY <4>2, <4>3
    <3>6. QED
      BY <3>4, <3>5
  <2>2. CASE i = n
    <3>1. z = N
      BY <1>1, <1>9, <2>2
    <3>2. CASE i = 0
      BY <1>2, <1>8, <3>1, <3>2
    <3>3. CASE i # 0
      <4>1. b[i] \in Nat \ {0} /\ L[i] \in Nat \ {0} /\ b[i] + L[i] < N /\ a = b[i] + L[i] + 1
        BY <1>3, <1>8, <1>11, <3>3
      <4>2. QED
        BY <1>2, <3>1, <4>1
    <3>4. QED
      BY <3>2, <3>3
  <2>3. QED
    BY <1>13, <2>1, <2>2
<1>16. ASSUME NEW x \in a .. z - 1 PROVE E[x].k \in {"sp", "nl", ","}
  <2>1. x \in 2 .. N - 1
    BY <1>2, <1>15
  <2>2. ASSUME NEW j \in 1 .. n, x \in b[j] + 1 .. b[j] + L[j] PROVE FALSE
    <3>1. b[j] \in Nat /\ L[j] \in Nat /\ x >= b[j] + 1 /\ x <= b[j] + L[j] /\ x \in Nat
      BY <1>3, <2>1, <2>2
    <3>2. CASE j <= i
      <4>1. i # 0 /\ i \in 1 .. n
        BY <1>1, <1>10, <3>2
      <4>2. b[i] \in Nat /\ L[i] \in Nat /\ a = b[i] + L[i] + 1
        BY <1>3, <1>8, <4>1
      <4>3. j = i \/ b[j] + L[j] < b[i]
        <5>1. j = i \/ j < i
          BY <1>14, <3>2
        <5>2. QED
          BY <1>4, <4>1, <5>1
      <4>4. x >= a
        BY <1>15
      <4>5. CASE j = i
        BY <3>1, <4>2, <4>4, <4>5
      <4>6. CASE b[j] + L[j] < b[i]
        BY <3>1, <4>2, <4>4, <4>6, SMTT(60)
      <4>7. QED
        BY <4>3, <4>5, <4>6
    <3>3. CASE j > i
      <4>1. i < n /\ (j = i + 1 \/ i + 1 < j)
        BY <1>1, <1>14, <3>3
      <4>2. z = b[i + 1] + 1 /\ b[i + 1] \in Nat /\ L[i + 1] \in Nat
        BY <1>3, <1>9, <1>12, <4>1
      <4>3. j = i + 1 \/ b[i + 1] + L[i + 1] < b[j]
        BY <1>4, <1>12, <4>1
      <4>4. x <= z - 1
        BY <1>15
      <4>5. CASE j = i + 1
        BY <3>1, <4>2, <4>4, <4>5
      <4>6. CASE b[i + 1] + L[i + 1] < b[j]
        BY <3>1, <4>2, <4>4, <4>6, SMTT(60)
      <4>7. QED
        BY <4>3, <4>5, <4>6
    <3>4. j <= i \/ j > i
      BY <1>14
    <3>5. QED
      BY <3>2, <3>3, <3>4
  <2>3. QED
    BY <1>6, <2>1, <2>2
<1>17. i < n => E[z] = items[i + 1][1]
  <2> SUFFICES ASSUME i < n PROVE E[z] = items[i + 1][1]
    OBVIOUS
  <2>1. L[i + 1] \in Nat \ {0} /\ z = b[i + 1] + 1
    BY <1>3, <1>9, <1>12
  <2>2. \A k \in Nat \ {0} : 1 \in 1 .. k
    OBVIOUS
  <2>3. QED
    BY <1>5, <1>12, <2>1, <2>2
<1>18. i = n => E[z] = P("]")
  BY <1>1, <1>2, <1>9
<1>19. i # 0 /\ i < n => E[a] = P(",")
  BY <1>7, <1>8, <1>11
<1>20. QED
  BY <1>2, <1>15, <1>16, <1>17, <1>18, <1>19 DEF n, N, a, z

\* q is between element i and the next one.
Between(E, items, b, i, q) ==
  i \in 0 .. Len(items) /\ q \in After(items, b, i) .. Target(E, items, b, i)

\* There it is, at z.
NextAt(E, items, b, i, z) == z = Target(E, items, b, i) /\ E[z].k \notin {"sp", "nl", ","}

\* Positions in an array and in the text that holds it.
LEMMA Positions ==
  ASSUME NEW a \in Nat, NEW z \in Nat, NEW N \in Nat, NEW M \in Nat, NEW o \in Nat, NEW q \in Nat,
         2 <= a, a <= z, z <= N, o + N <= M, a <= q, q <= z
  PROVE  /\ q \in 1 .. N /\ z \in 1 .. N /\ (q < z => q \in a .. z - 1)
         /\ o + q \in 1 .. M /\ o + z \in 1 .. M
         /\ o + q \in Nat \ {0} /\ o + z \in (o + q) .. M + 1
         /\ \A x \in (o + q) .. (o + z) - 1 :
              x - o \in a .. z - 1 /\ x - o \in 1 .. N /\ o + (x - o) = x
<1>1. /\ q \in 1 .. N /\ z \in 1 .. N /\ (q < z => q \in a .. z - 1)
      /\ o + q \in 1 .. M /\ o + z \in 1 .. M
      /\ o + q \in Nat \ {0} /\ o + z \in (o + q) .. M + 1
  OBVIOUS
<1>2. ASSUME NEW x \in (o + q) .. (o + z) - 1
      PROVE  x - o \in a .. z - 1 /\ x - o \in 1 .. N /\ o + (x - o) = x
  OBVIOUS
<1>3. QED
  BY <1>1, <1>2

\* A look in the text from q in the array finds z.
Sees(F, A, o, q, z) ==
  /\ Look(F, o + q) = o + z /\ At(F, o + z) = A[z] /\ At(F, o + q) = A[q]
  /\ q < z => A[q].k \in {"sp", "nl", ","}
  /\ q \in Nat /\ z \in Nat /\ q <= z

\* A look from behind an element finds the next one, or the closing bracket.
LEMMA LookIs ==
  ASSUME NEW F, F \in Seq(Tok), NEW A, NEW items, NEW b, Elements(A, items, b),
         NEW o, Holds(F, o, A), NEW i, NEW q, Between(A, items, b, i, q),
         NEW z, NextAt(A, items, b, i, z)
  PROVE  Sees(F, A, o, q, z)
<1> DEFINE a == After(items, b, i)
           M == Len(F)
           N == Len(A)
           kinds == {"sp", "nl", ","}
           from == o + q
           to == o + z
<1>1. a \in 2 .. z /\ z \in 2 .. N /\ N \in Nat
  BY GapIs DEF Between, NextAt
<1>2. \A x \in a .. z - 1 : A[x].k \in kinds
  BY GapIs DEF Between, NextAt
<1>3. o \in Nat /\ o + N <= M /\ \A x \in 1 .. N : F[o + x] = A[x]
  BY DEF Holds
<1>4. M \in Nat /\ DOMAIN F = 1 .. M
  OBVIOUS
<1>5. q \in a .. z /\ A[z].k \notin kinds
  BY DEF Between, NextAt
<1>6. Look(F, o + q) = SkipAll(F, from, kinds)
  <2>1. Space \cup {","} = kinds
    BY DEF Space
  <2>2. QED
    BY <2>1 DEF Look
<1> HIDE DEF a, M, N, kinds
<1>7. a \in Nat /\ z \in Nat /\ q \in Nat /\ 2 <= a /\ a <= z /\ z <= N /\ a <= q /\ q <= z
  BY <1>1, <1>5
<1>8. /\ q \in 1 .. N /\ z \in 1 .. N /\ (q < z => q \in a .. z - 1)
      /\ from \in 1 .. M /\ to \in 1 .. M
      /\ from \in Nat \ {0} /\ to \in from .. M + 1
      /\ \A x \in from .. to - 1 :
           x - o \in a .. z - 1 /\ x - o \in 1 .. N /\ o + (x - o) = x
  BY <1>1, <1>3, <1>4, <1>7, Positions
<1>9. F[from] = A[q] /\ F[to] = A[z]
  BY <1>3, <1>8
<1>10. ASSUME NEW x \in from .. to - 1 PROVE F[x].k \in kinds
  <2>1. F[x] = A[x - o]
    BY <1>3, <1>8
  <2>2. QED
    BY <1>2, <1>8, <2>1
<1> HIDE DEF from, to
<1>11. SkipAll(F, from, kinds) = to
  <2>1. to \in from .. Len(F) + 1
    BY <1>8 DEF M
  <2>2. F[to].k \notin kinds
    BY <1>5, <1>9
  <2>3. QED
    BY <1>8, <1>10, <2>1, <2>2, SkipAllStops
<1>12. At(F, to) = A[z] /\ At(F, from) = A[q]
  BY <1>4, <1>8, <1>9 DEF At
<1>13. q < z => A[q].k \in kinds
  BY <1>2, <1>8
<1>14. QED
  BY <1>6, <1>7, <1>11, <1>12, <1>13 DEF Sees, kinds, from, to

\* What is given at a position, as a handler sees it.
ArgOf(e) == IF e.token.k = "str" THEN e.token ELSE Nul

\* The next parameter is taken.
Takes(F, items, b, o, s, i, e) ==
  \E x \in Parm : /\ next_param(F, s).params = s.params \o <<x>>
                  /\ Like(x, ArgOf(e))
                  /\ Short(x) \/ next_param(F, s).pos = o + After(items, b, i + 1)

\* One round takes one parameter.
LEMMA OneRound ==
  ASSUME NEW F \in Seq(Tok), NEW A, NEW params, NEW items, NEW b, ParamsText(A, params, items, b),
         NEW o, Holds(F, o, A), NEW i, i < Len(items), params[i + 1].token.len <= 255,
         NEW q, Between(A, items, b, i, q), NEW s, s.pos = o + q
  PROVE  Takes(F, items, b, o, s, i, params[i + 1])
<1> DEFINE z == Target(A, items, b, i)
           e == params[i + 1]
           I == items[i + 1]
           t == A[z]
           c == next_param(F, s)
           to == SkipTo(F, o + z, {",", "]"})
<1>1. Elements(A, items, b)
  BY DEF Elements, ParamsText, ParamOk
<1>2. i + 1 \in 1 .. Len(items) /\ Len(items) = Len(params) /\ i + 1 \in 1 .. Len(params) /\ i + 1 # 0
  <2> DEFINE n == Len(items)
  <2>1. n \in Nat /\ n = Len(params) /\ i \in 0 .. n /\ i < n
    BY ListIs DEF ParamsText, Between
  <2> HIDE DEF n
  <2>2. i + 1 \in 1 .. n /\ i + 1 # 0
    BY <2>1
  <2>3. QED
    BY <2>1, <2>2 DEF n
<1>3. ParamOk(I, e)
  BY <1>2 DEF ParamsText
<1>4. t = I[1]
  BY <1>1, GapIs, ZenonT(60) DEF Between
<1>5. \/ IsScalarParam(e) /\ Len(I) = 1 /\ t = e.token
      \/ IsObjectParam(e) /\ t = P("{")
  BY <1>3, <1>4 DEF ParamOk
<1>6. After(items, b, i + 1) = (b[i + 1] + Len(I)) + 1
  BY <1>2 DEF After
<1>7. z = b[i + 1] + 1
  BY DEF Target
<1>8. b[i + 1] \in Nat /\ o \in Nat
  BY <1>2, ParamsTextAt DEF Holds
<1>9. t.k \in {"str", "num", "word", "{"}
  BY <1>5, KindOf DEF IsScalarParam
<1>10. /\ Look(F, s.pos) = o + z /\ At(F, o + z) = t /\ At(F, s.pos) = A[q]
       /\ q < z => A[q].k \in {"sp", "nl", ","}
       /\ q \in Nat /\ z \in Nat /\ q <= z
  <2>1. NextAt(A, items, b, i, z)
    BY <1>9 DEF NextAt
  <2> HIDE DEF z
  <2>2. Sees(F, A, o, q, z)
    BY <1>1, <2>1, LookIs
  <2>3. QED
    BY <2>2 DEF Sees
<1>11. RoundIs(c, s, A[q].k, t.k, t.len, Cut(t, 255), o + z, to)
  <2> DEFINE l == Look(F, s.pos)
  <2>1. RoundIs(next_param(F, s), s, At(F, s.pos).k, At(F, l).k, At(F, l).len,
                Cut(At(F, l), 255), l, SkipTo(F, l, {",", "]"}))
    BY NextIs
  <2>2. l = o + z /\ At(F, l) = t /\ At(F, s.pos) = A[q]
    BY <1>10
  <2> HIDE DEF l
  <2>3. QED
    BY <2>1, <2>2
<1>12. A[q].k \notin {"nul", "]"}
  <2>1. q < z \/ q = z
    <3> HIDE DEF z
    <3>1. q \in Nat /\ z \in Nat /\ q <= z
      BY <1>10
    <3>2. QED
      BY <3>1
  <2>2. QED
    BY <1>9, <1>10, <2>1
<1>13. t \in Tok \cup {Nul}
  <2>1. t = At(F, o + z)
    BY <1>10
  <2>2. QED
    BY <2>1 DEF At
<1>14. t.len \in Nat
  BY <1>13, TokenLen
<1>15. IsScalarParam(e) /\ t = e.token => t.len <= 255 /\ t \in Token /\ (t.k = "num" => t.len <= 31)
  BY SMTT(60) DEF IsScalarParam
<1>16. Empty \in Parm /\ Str("{object}", 8) \in Parm /\ Cut(t, 255) \in Parm
  BY <1>13 DEF Parm
<1>17. Short(Empty) /\ Short(Str("{object}", 8))
  <2>1. Empty.len = 0 /\ Str("{object}", 8).len = 8
    BY DEF Empty, Str
  <2>2. 0 \in Nat /\ 8 \in Nat /\ 0 <= 31 /\ 8 <= 31
    OBVIOUS
  <2>3. QED
    BY <2>1, <2>2, ShortIs, ZenonT(60)
<1> HIDE DEF z, e, I, t, c, to
<1>18. CASE t.k = "str"
  <2>1. IsScalarParam(e) /\ Len(I) = 1 /\ t = e.token
    BY <1>5, <1>18, KindOf
  <2>2. t.len <= 255 /\ t \in Token
    BY <1>15, <2>1
  <2>3. Cut(t, 255) = t
    BY <1>18, <2>2, ParsedToken
  <2>4. c.params = s.params \o <<Cut(t, 255)>> /\ c.pos = (o + z) + 1
    BY <1>11, <1>12, <1>14, <1>18, <2>2 DEF RoundIs, Quoted
  <2>5. After(items, b, i + 1) = z + 1
    BY <1>6, <1>7, <1>8, <2>1
  <2>6. c.pos = o + After(items, b, i + 1)
    <3>1. o \in Nat /\ z \in Nat
      BY <1>8, <1>10
    <3>2. (o + z) + 1 = o + (z + 1)
      BY <3>1
    <3>3. QED
      BY <2>4, <2>5, <3>2
  <2>7. ArgOf(e) = t
    BY <1>18, <2>1 DEF ArgOf
  <2>8. Like(Cut(t, 255), ArgOf(e))
    BY <2>3, <2>7 DEF Like
  <2>9. QED
    BY <1>16, <2>4, <2>6, <2>8 DEF Takes, c, e
<1>19. CASE t.k = "num"
  <2>1. IsScalarParam(e) /\ t = e.token
    BY <1>5, <1>19, KindOf
  <2>2. t.len <= 255 /\ t \in Token /\ t.len <= 31
    BY <1>15, <1>19, <2>1
  <2>3. Cut(t, 255).len = t.len
    BY <2>2, ParsedToken
  <2>4. Short(Cut(t, 255))
    BY <1>14, <2>2, <2>3, ShortIs
  <2>5. c.params = s.params \o <<Cut(t, 255)>>
    BY <1>11, <1>12, <1>19 DEF RoundIs
  <2>6. Like(Cut(t, 255), ArgOf(e))
    BY <1>19, <2>1, <2>4 DEF Like, ArgOf
  <2>7. QED
    BY <1>16, <2>4, <2>5, <2>6 DEF Takes, c, e
<1>20. CASE t.k = "word"
  <2>1. IsScalarParam(e) /\ t = e.token
    BY <1>5, <1>20, KindOf
  <2>2. c.params = s.params \o <<Empty>>
    BY <1>11, <1>12, <1>20 DEF RoundIs
  <2>3. Like(Empty, ArgOf(e))
    BY <1>17, <1>20, <2>1 DEF Like, ArgOf
  <2>4. QED
    BY <1>16, <1>17, <2>2, <2>3 DEF Takes, c, e
<1>21. CASE t.k = "{"
  <2>1. e.token = Nul
    BY <1>5, <1>21 DEF IsScalarParam, IsObjectParam
  <2>2. c.params = s.params \o <<Str("{object}", 8)>>
    BY <1>11, <1>12, <1>21 DEF RoundIs
  <2>3. Like(Str("{object}", 8), ArgOf(e))
    <3>1. ArgOf(e) = Nul
      BY <2>1 DEF ArgOf
    <3>2. QED
      BY <1>17, <3>1 DEF Like
  <2>4. QED
    BY <1>16, <1>17, <2>2, <2>3 DEF Takes, c, e
<1>22. QED
  BY <1>9, <1>18, <1>19, <1>20, <1>21

\* The rounds, from one to the next.
AreRounds(F, f) == \A i \in 1 .. 8 : f[i] = next_param(F, f[i - 1])

\* A round that changes nothing is followed by such rounds.
LEMMA RoundsStay ==
  ASSUME NEW F, NEW f, AreRounds(F, f)
  PROVE  /\ f[1] = next_param(F, f[0]) /\ f[2] = next_param(F, f[1])
         /\ next_param(F, f[0]) = f[0] => f[8] = f[0]
         /\ next_param(F, f[1]) = f[1] => f[8] = f[1]
<1> DEFINE N(s) == next_param(F, s)
<1>1. \A i \in 1 .. 8 : f[i] = N(f[i - 1])
  BY DEF AreRounds
<1> HIDE DEF N
<1>2. /\ f[1] = N(f[0]) /\ f[2] = N(f[1]) /\ f[3] = N(f[2]) /\ f[4] = N(f[3])
      /\ f[5] = N(f[4]) /\ f[6] = N(f[5]) /\ f[7] = N(f[6]) /\ f[8] = N(f[7])
  <2>1. ASSUME NEW i \in 1 .. 8, NEW j, i - 1 = j PROVE f[i] = N(f[j])
    BY <1>1, <2>1
  <2>2. /\ 1 - 1 = 0 /\ 2 - 1 = 1 /\ 3 - 1 = 2 /\ 4 - 1 = 3 /\ 5 - 1 = 4 /\ 6 - 1 = 5 /\ 7 - 1 = 6
        /\ 8 - 1 = 7
        /\ 1 \in 1 .. 8 /\ 2 \in 1 .. 8 /\ 3 \in 1 .. 8 /\ 4 \in 1 .. 8 /\ 5 \in 1 .. 8
        /\ 6 \in 1 .. 8 /\ 7 \in 1 .. 8 /\ 8 \in 1 .. 8
    OBVIOUS
  <2>3. QED
    BY <2>1, <2>2
<1>3. N(f[0]) = f[0] => f[8] = f[0]
  BY <1>2
<1>4. N(f[1]) = f[1] => f[8] = f[1]
  BY <1>2
<1>5. QED
  BY <1>2, <1>3, <1>4 DEF N

\* What has been taken stays.
LEMMA RoundsGrow ==
  ASSUME NEW F \in Seq(Tok), NEW f, AreRounds(F, f)
  PROVE  \A j \in 0 .. 2 : f[j].params \in Seq(Parm) => Grows(f[j].params, f[8].params)
<1> DEFINE a == [i \in 0 .. 8 |-> f[i].params]
<1>1. \A i \in 1 .. 8 : a[i - 1] \in Seq(Parm) => Grows(a[i - 1], a[i])
  <2> SUFFICES ASSUME NEW i \in 1 .. 8, a[i - 1] \in Seq(Parm) PROVE Grows(a[i - 1], a[i])
    OBVIOUS
  <2>1. i - 1 \in 0 .. 8 /\ i \in 0 .. 8
    OBVIOUS
  <2>2. a[i] = f[i].params /\ a[i - 1] = f[i - 1].params
    BY <2>1
  <2>3. f[i] = next_param(F, f[i - 1])
    BY DEF AreRounds
  <2> HIDE DEF a
  <2>4. f[i - 1].params \in Seq(Parm)
    BY <2>2
  <2>5. Grows(f[i - 1].params, next_param(F, f[i - 1]).params)
    BY <2>4, NextGrows
  <2>6. QED
    BY <2>2, <2>3, <2>5
<1>2. \A i \in 0 .. 8 : a[i] = f[i].params
  OBVIOUS
<1> HIDE DEF a
<1>3. \A x, y : Grows(x, y) => y \in Seq(Parm)
  BY DEF Grows
<1>4. \A x : x \in Seq(Parm) => Grows(x, x)
  <2>1. \A x : x \in Seq(Parm) => Len(x) \in Nat /\ Len(x) <= Len(x)
    OBVIOUS
  <2>2. QED
    BY <2>1 DEF Grows
<1> DEFINE S == {i \in Nat : \A j \in 0 .. 2 : j <= i /\ i <= 8 /\ a[j] \in Seq(Parm) => Grows(a[j], a[i])}
<1>5. 0 \in S
  <2>1. \A j \in 0 .. 2 : j <= 0 => j = 0
    OBVIOUS
  <2>2. QED
    BY <1>4, <2>1
<1>6. ASSUME NEW i \in Nat, i \in S PROVE i + 1 \in S
  <2>1. ASSUME NEW j \in 0 .. 2, j <= i + 1, i + 1 <= 8, a[j] \in Seq(Parm) PROVE Grows(a[j], a[i + 1])
    <3>1. CASE j = i + 1
      BY <1>4, <2>1, <3>1
    <3>2. CASE j <= i
      <4>1. i <= 8 /\ i + 1 \in 1 .. 8 /\ (i + 1) - 1 = i
        BY <2>1
      <4>2. Grows(a[j], a[i])
        BY <1>6, <2>1, <3>2, <4>1
      <4>3. a[i] \in Seq(Parm)
        BY <1>3, <4>2
      <4>4. Grows(a[i], a[i + 1])
        BY <1>1, <4>1, <4>3
      <4>5. QED
        BY <4>2, <4>4, GrowsTrans
    <3>3. j = i + 1 \/ j <= i
      BY <2>1
    <3>4. QED
      BY <3>1, <3>2, <3>3
  <2>2. QED
    BY <2>1
<1> HIDE DEF S
<1>7. \A i \in Nat : i \in S
  BY <1>5, <1>6, NatSetInduction
<1>8. 8 \in Nat /\ \A j \in 0 .. 2 : j <= 8 /\ 8 <= 8 /\ j \in 0 .. 8
  OBVIOUS
<1>9. 8 \in S
  BY <1>7, <1>8
<1>10. \A j \in 0 .. 2 : a[j] \in Seq(Parm) => Grows(a[j], a[8])
  BY <1>8, <1>9 DEF S
<1>11. 8 \in 0 .. 8
  OBVIOUS
<1>12. QED
  BY <1>2, <1>8, <1>10, <1>11

\* The elements that are kept are the first ones.
LEMMA KeptIs ==
  ASSUME NEW s \in Seq(Parm)
  PROVE  /\ Kept(s) \in Seq(Parm) /\ Len(Kept(s)) \in Nat /\ Len(s) \in Nat
         /\ Len(s) <= 8 => Len(Kept(s)) = Len(s)
         /\ Len(s) > 8 => Len(Kept(s)) = 8
         /\ \A i \in 1 .. Len(Kept(s)) : Kept(s)[i] = s[i]
<1> DEFINE m == IF Len(s) < 8 THEN Len(s) ELSE 8
           c == SubSeq(s, 1, m)
<1>1. Len(s) \in Nat
  OBVIOUS
<1>2. m \in Nat /\ m <= Len(s) /\ (Len(s) <= 8 => m = Len(s)) /\ (Len(s) > 8 => m = 8)
  <2> DEFINE L == Len(s)
  <2>1. L \in Nat /\ m = IF L < 8 THEN L ELSE 8
    BY <1>1
  <2> HIDE DEF L, m
  <2>2. m \in Nat /\ m <= L /\ (L <= 8 => m = L) /\ (L > 8 => m = 8)
    BY <2>1
  <2>3. QED
    BY <2>2 DEF L
<1>3. c \in Seq(Parm) /\ Len(c) = m /\ \A i \in 1 .. m : c[i] = s[i]
  <2> HIDE DEF m
  <2>1. QED
    BY <1>2
<1>4. Kept(s) = c
  BY DEF Kept
<1> HIDE DEF m, c
<1>5. QED
  BY <1>1, <1>2, <1>3, <1>4

\* What Agree asks for, told by the first two elements.
LEMMA AgreeIs ==
  ASSUME NEW pa, NEW args, NEW n \in Nat, NEW m \in Nat, Len(args) = n, Len(pa) = m,
         n = 0 => m = 0, n >= 1 => m >= 1 /\ Like(pa[1], args[1]),
         n >= 1 => Short(pa[1]) \/ ((n >= 2 <=> m >= 2) /\ (n >= 2 => Like(pa[2], args[2])))
  PROVE  Agree(pa, args)
<1>1. n = 0 \/ n >= 1
  OBVIOUS
<1>2. CASE n = 0
  <2>1. ~(n >= 1) /\ ~(n >= 2) /\ ~(m >= 2) /\ m = 0
    BY <1>2
  <2>2. QED
    BY <2>1 DEF Agree
<1>3. CASE n >= 1
  <2>1. n # 0
    BY <1>3
  <2>2. QED
    BY <1>3, <2>1 DEF Agree
<1>4. QED
  BY <1>1, <1>2, <1>3

\* The parameters of a text and how a text of them is parsed.
ParamsAt(F, A, params, items, b, o) ==
  /\ F \in Seq(Tok) /\ ParamsText(A, params, items, b) /\ Holds(F, o, A)
  /\ \A i \in 1 .. Len(params) : params[i].token.len <= 255
ParsedBy(F, o, f) == f[0] = Begin(o + 2) /\ AreRounds(F, f)

\* At the end of the array a round changes nothing.
LEMMA LastRound ==
  ASSUME NEW F, NEW A, NEW params, NEW items, NEW b, NEW o, ParamsAt(F, A, params, items, b, o),
         NEW s, s.pos = o + After(items, b, Len(items))
  PROVE  next_param(F, s) = s
<1> DEFINE n == Len(items)
           q == After(items, b, n)
           z == Target(A, items, b, n)
<1>1. Elements(A, items, b) /\ F \in Seq(Tok) /\ Holds(F, o, A)
  BY DEF ParamsAt, Elements, ParamsText, ParamOk
<1>2. n \in 0 .. n
  <2>1. n \in Nat
    BY <1>1, ListIs DEF Elements
  <2>2. QED
    BY <2>1
<1>3. q \in 2 .. z /\ z \in 2 .. Len(A) /\ A[z] = P("]") /\ Len(A) \in Nat
  BY <1>1, <1>2, GapIs
<1> HIDE DEF n, q, z
<1>4. q \in q .. z
  BY <1>3
<1>5. Between(A, items, b, n, q)
  BY <1>2, <1>4 DEF Between, n, q, z
<1>6. NextAt(A, items, b, n, z)
  BY <1>3, KindOf DEF NextAt, z
<1>7. Sees(F, A, o, q, z)
  BY <1>1, <1>5, <1>6, LookIs
<1>8. Look(F, s.pos) = o + z /\ At(F, o + z).k = "]"
  BY <1>3, <1>7, KindOf DEF Sees, q, n
<1>9. QED
  BY <1>8, NextStays

\* A round takes the next parameter.
LEMMA NextRound ==
  ASSUME NEW F, NEW A, NEW params, NEW items, NEW b, NEW o, ParamsAt(F, A, params, items, b, o),
         NEW i \in Nat, i < Len(items), NEW s, s.pos = o + After(items, b, i)
  PROVE  Takes(F, items, b, o, s, i, params[i + 1])
<1> DEFINE n == Len(items)
           q == After(items, b, i)
           z == Target(A, items, b, i)
<1>1. Elements(A, items, b) /\ F \in Seq(Tok) /\ Holds(F, o, A) /\ ParamsText(A, params, items, b)
  BY DEF ParamsAt, Elements, ParamsText, ParamOk
<1>2. n \in Nat /\ n = Len(params) /\ i < n
  BY <1>1, ListIs DEF ParamsText
<1> HIDE DEF n
<1>3. i \in 0 .. n /\ i + 1 \in 1 .. n
  BY <1>2
<1>4. q \in 2 .. z
  BY <1>1, <1>3, GapIs DEF n
<1> HIDE DEF q, z
<1>5. q \in q .. z
  BY <1>4
<1>6. Between(A, items, b, i, q)
  BY <1>3, <1>5 DEF Between, n, q, z
<1>7. params[i + 1].token.len <= 255
  BY <1>2, <1>3 DEF ParamsAt
<1>8. s.pos = o + q /\ i < Len(items)
  BY DEF q
<1>9. QED
  BY <1>1, <1>6, <1>7, <1>8, OneRound

\* The parameters a handler takes by position are those the client gave.
LEMMA RoundsAgree ==
  ASSUME NEW F, NEW A, NEW params, NEW items, NEW b, NEW o, ParamsAt(F, A, params, items, b, o),
         NEW f, ParsedBy(F, o, f), NEW args, Len(args) = Len(params),
         \A i \in 1 .. Len(params) : args[i] = ArgOf(params[i])
  PROVE  Kept(f[8].params) \in Seq(Parm) /\ Agree(Kept(f[8].params), args)
<1> DEFINE n == Len(params)
           last == f[8].params
           pa == Kept(last)
           m == Len(pa)
           a0 == f[0].params
           a1 == f[1].params
           a2 == f[2].params
<1>1. n \in Nat /\ n = Len(items) /\ n = Len(args)
  BY ListIs DEF ParamsAt, ParamsText
<1>2. F \in Seq(Tok) /\ AreRounds(F, f) /\ f[0] = Begin(o + 2)
  BY DEF ParamsAt, ParsedBy
<1>3. a0 = <<>> /\ f[0].pos = o + 2
  BY <1>2 DEF Begin
<1>4. f[0].pos = o + After(items, b, 0)
  BY <1>3 DEF After
<1>5. f[1] = next_param(F, f[0]) /\ f[2] = next_param(F, f[1])
  BY <1>2, RoundsStay
<1>6. /\ a0 \in Seq(Parm) => Grows(a0, last)
      /\ a1 \in Seq(Parm) => Grows(a1, last)
      /\ a2 \in Seq(Parm) => Grows(a2, last)
  <2>1. 0 \in 0 .. 2 /\ 1 \in 0 .. 2 /\ 2 \in 0 .. 2
    OBVIOUS
  <2>2. QED
    BY <1>2, <2>1, RoundsGrow
<1>7. a0 \in Seq(Parm) /\ Len(a0) = 0
  BY <1>3
<1>8. last \in Seq(Parm)
  BY <1>6, <1>7 DEF Grows
<1>9. /\ pa \in Seq(Parm) /\ m \in Nat /\ Len(last) \in Nat
      /\ Len(last) <= 8 => m = Len(last)
      /\ Len(last) > 8 => m = 8
      /\ \A i \in 1 .. m : pa[i] = last[i]
  BY <1>8, KeptIs
<1>10. 0 \in Nat /\ 1 \in Nat /\ 0 + 1 = 1 /\ 1 + 1 = 2
  OBVIOUS
<1> HIDE DEF n, last, pa, m, a0, a1, a2
<1>11. CASE n = 0
  <2>1. f[0].pos = o + After(items, b, Len(items))
    BY <1>1, <1>4, <1>11
  <2>2. next_param(F, f[0]) = f[0]
    BY <2>1, LastRound
  <2>3. f[8] = f[0]
    BY <1>2, <2>2, RoundsStay
  <2>4. Len(last) = 0
    BY <1>7, <2>3 DEF last, a0
  <2>5. m = 0
    BY <1>9, <2>4
  <2>6. ~(n >= 1)
    BY <1>11
  <2>7. Agree(pa, args)
    BY <1>1, <1>9, <1>11, <2>5, <2>6, AgreeIs DEF m
  <2>8. QED
    BY <1>9, <2>7 DEF pa, last
<1>12. CASE n >= 1
  <2>1. 0 < Len(items) /\ 1 \in 1 .. n /\ n # 0
    BY <1>1, <1>12
  <2>2. Takes(F, items, b, o, f[0], 0, params[1])
    <3>1. Takes(F, items, b, o, f[0], 0, params[0 + 1])
      BY <1>4, <1>10, <2>1, NextRound
    <3>2. QED
      BY <1>10, <3>1
  <2>3. PICK x \in Parm : /\ a1 = a0 \o <<x>>
                          /\ Like(x, ArgOf(params[1]))
                          /\ Short(x) \/ f[1].pos = o + After(items, b, 1)
    BY <1>5, <1>10, <2>2 DEF Takes, a0, a1
  <2>4. a1 \in Seq(Parm) /\ Len(a1) = 1 /\ a1[1] = x
    BY <1>3, <2>3 DEF a0
  <2>5. Grows(a1, last)
    BY <1>6, <2>4
  <2>6. Len(last) >= 1 /\ last[1] = x
    <3>1. 1 \in 1 .. 1
      OBVIOUS
    <3>2. Len(a1) <= Len(last) /\ \A i \in 1 .. Len(a1) : last[i] = a1[i]
      BY <2>5 DEF Grows
    <3>3. 1 <= Len(last) /\ \A i \in 1 .. 1 : last[i] = a1[i]
      BY <2>4, <3>2
    <3>4. Len(last) >= 1
      BY <1>9, <3>3
    <3>5. QED
      BY <2>4, <3>1, <3>3, <3>4
  <2>7. m >= 1
    <3> DEFINE l == Len(last)
    <3>1. l \in Nat /\ m \in Nat /\ (l <= 8 => m = l) /\ (l > 8 => m = 8) /\ l >= 1
      BY <1>9, <2>6
    <3> HIDE DEF l
    <3>2. QED
      BY <3>1
  <2>8. pa[1] = x
    <3>1. 1 \in 1 .. m
      BY <1>9, <2>7
    <3>2. QED
      BY <1>9, <2>6, <3>1
  <2>9. Like(pa[1], args[1])
    BY <2>1, <2>3, <2>8 DEF n
  <2>10. Short(pa[1]) \/ ((n >= 2 <=> m >= 2) /\ (n >= 2 => Like(pa[2], args[2])))
    <3>1. CASE Short(x)
      BY <2>8, <3>1
    <3>2. CASE ~Short(x) /\ n = 1
      <4>1. f[1].pos = o + After(items, b, Len(items))
        BY <1>1, <2>3, <3>2
      <4>2. next_param(F, f[1]) = f[1]
        BY <4>1, LastRound
      <4>3. f[8] = f[1]
        BY <1>2, <4>2, RoundsStay
      <4>4. Len(last) = 1
        BY <2>4, <4>3 DEF last, a1
      <4>5. m = 1
        BY <1>9, <4>4
      <4>6. ~(n >= 2) /\ ~(m >= 2)
        BY <3>2, <4>5
      <4>7. QED
        BY <4>6
    <3>3. CASE ~Short(x) /\ n >= 2
      <4>1. 1 < Len(items) /\ 2 \in 1 .. n
        BY <1>1, <3>3
      <4>2. f[1].pos = o + After(items, b, 1)
        BY <2>3, <3>3
      <4>3. Takes(F, items, b, o, f[1], 1, params[2])
        <5>1. Takes(F, items, b, o, f[1], 1, params[1 + 1])
          BY <1>10, <4>1, <4>2, NextRound
        <5>2. QED
          BY <1>10, <5>1
      <4>4. PICK y \in Parm : a2 = a1 \o <<y>> /\ Like(y, ArgOf(params[2]))
        BY <1>5, <4>3 DEF Takes, a1, a2
      <4>5. a2 \in Seq(Parm) /\ Len(a2) = 2 /\ a2[2] = y
        <5>1. <<y>> \in Seq(Parm) /\ Len(<<y>>) = 1 /\ <<y>>[1] = y
          BY OneIs
        <5> DEFINE c == <<y>>
        <5>2. c \in Seq(Parm) /\ a1 \in Seq(Parm)
          BY <2>4, <5>1
        <5>3. Len(c) = 1 /\ c[1] = y
          BY <5>1
        <5> HIDE DEF c
        <5>4. /\ a1 \o c \in Seq(Parm) /\ Len(a1 \o c) = Len(a1) + Len(c)
              /\ \A i \in 1 .. Len(c) : (a1 \o c)[Len(a1) + i] = c[i]
          BY <5>2, Joined
        <5>5. 1 \in 1 .. 1
          OBVIOUS
        <5>6. Len(a1 \o c) = 2 /\ (a1 \o c)[2] = y
          BY <1>10, <2>4, <5>3, <5>4, <5>5
        <5>7. QED
          BY <4>4, <5>4, <5>6 DEF c
      <4>6. Grows(a2, last)
        BY <1>6, <4>5
      <4>7. Len(last) >= 2 /\ last[2] = y
        <5>1. 2 \in 1 .. 2
          OBVIOUS
        <5>2. Len(a2) <= Len(last) /\ \A i \in 1 .. Len(a2) : last[i] = a2[i]
          BY <4>6 DEF Grows
        <5>3. 2 <= Len(last) /\ \A i \in 1 .. 2 : last[i] = a2[i]
          BY <4>5, <5>2
        <5>4. Len(last) >= 2
          BY <1>9, <5>3
        <5>5. QED
          BY <4>5, <5>1, <5>3, <5>4
      <4>8. m >= 2
        <5> DEFINE l == Len(last)
        <5>1. l \in Nat /\ m \in Nat /\ (l <= 8 => m = l) /\ (l > 8 => m = 8) /\ l >= 2
          BY <1>9, <4>7
        <5> HIDE DEF l
        <5>2. QED
          BY <5>1
      <4>9. pa[2] = y
        <5>1. 2 \in 1 .. m
          BY <1>9, <4>8
        <5>2. QED
          BY <1>9, <4>7, <5>1
      <4>10. Like(pa[2], args[2])
        BY <4>1, <4>4, <4>9 DEF n
      <4>11. QED
        BY <3>3, <4>8, <4>10
    <3>4. n = 1 \/ n >= 2
      BY <1>1, <1>12
    <3>5. QED
      BY <3>1, <3>2, <3>3, <3>4
  <2>11. Agree(pa, args)
    BY <1>1, <1>9, <2>1, <2>7, <2>9, <2>10, AgreeIs DEF m
  <2>12. QED
    BY <1>9, <2>11 DEF pa, last
<1>13. n = 0 \/ n >= 1
  BY <1>1
<1>14. QED
  BY <1>11, <1>12, <1>13

\* What the client gave by position.
Args(r) == [i \in DOMAIN Given(r) |-> Arg(r, i)]

\* They are as many as the parameters, each told from its own parameter.
LEMMA ArgsAre ==
  ASSUME NEW r, IsRequest(r)
  PROVE  /\ Len(Given(r)) \in Nat /\ DOMAIN Given(r) = 1 .. Len(Given(r))
         /\ Args(r) \in Seq({Arg(r, i) : i \in 1 .. Len(Given(r))}) /\ Len(Args(r)) = Len(Given(r))
         /\ \A i \in 1 .. Len(Given(r)) : Args(r)[i] = ArgOf(Given(r)[i])
<1> DEFINE n == Len(Given(r))
           B == {Arg(r, i) : i \in 1 .. n}
<1>1. Len(r.params) \in Nat /\ DOMAIN r.params = 1 .. Len(r.params)
  BY DEF IsRequest, AreParams, IsSeq
<1>2. Len(<<>>) = 0 /\ 0 \in Nat /\ DOMAIN <<>> = 1 .. 0
  OBVIOUS
<1>3. n \in Nat /\ DOMAIN Given(r) = 1 .. n
  BY <1>1, <1>2 DEF Given
<1> HIDE DEF n
<1>4. Args(r) = [i \in 1 .. n |-> Arg(r, i)]
  BY <1>3 DEF Args
<1>5. Args(r) \in Seq(B) /\ Len(Args(r)) = n
  BY <1>3, <1>4
<1>6. \A i \in 1 .. n : Args(r)[i] = ArgOf(Given(r)[i])
  BY <1>3, <1>4 DEF Arg, ArgOf
<1>7. QED
  BY <1>3, <1>5, <1>6 DEF n

\* What is parsed agrees with it.
LEMMA ParamsAgree ==
  ASSUME NEW r, IsRequest(r), NEW layout, IsLayout(layout), NEW F, NEW h, NEW v,
         RequestAt(F, r, layout, h, v), HandlerOf(r.method) \in DOMAIN Widths
  PROVE  LET pa == evmdb_json_parse_params(F, 8)
         IN pa \in Seq(Parm) /\ Agree(pa, Args(r))
<1> DEFINE pa == evmdb_json_parse_params(F, 8)
           args == Args(r)
           start == find_params_array(F)
           A == Value(r, "params", layout)
           ps == r.params
           w == v["params"]
           o == w - 1
<1>1. F \in Seq(Tok)
  BY DEF RequestAt
<1>2. CutOf(F, F)
  BY <1>1, WholeCutOf
<1>3. /\ start = 0 => pa = <<>>
      /\ start # 0 => \E f : /\ f[0] = Begin(start)
                             /\ \A i \in 1 .. 8 : f[i] = next_param(F, f[i - 1])
                             /\ pa = Kept(f[8].params)
  BY ParseIs
<1>4. CASE "params" \notin r.members
  <2>1. start = 0
    BY <1>2, <1>4, ParamsArrayIs
  <2>2. pa = <<>>
    BY <1>3, <2>1
  <2>3. Given(r) = <<>>
    BY <1>4 DEF Given
  <2>4. Len(args) = 0
    BY <2>3, ArgsAre
  <2> HIDE DEF pa, args
  <2>5. Len(pa) = 0 /\ pa \in Seq(Parm)
    BY <2>2
  <2>6. 0 \in Nat /\ ~(0 >= 1)
    OBVIOUS
  <2>7. Agree(pa, args)
    BY <2>4, <2>5, <2>6, AgreeIs
  <2>8. QED
    BY <2>5, <2>7 DEF pa, args
<1>5. CASE "params" \in r.members
  <2>1. /\ w \in Nat \ {0} /\ Len(F) \in Nat
        /\ Holds(F, w - 1, A)
        /\ w <= Len(F) => start = w + 1
    BY <1>2, <1>5, ParamsArrayIs
  <2>2. PICK items, b : ParamsText(A, ps, items, b)
    BY ValueIs
  <2>3. Len(A) \in Nat /\ Len(A) >= 2
    BY <2>2, ParamsTextAt
  <2>4. o + Len(A) <= Len(F) /\ Holds(F, o, A)
    BY <2>1 DEF Holds
  <2>5. w <= Len(F) /\ o + 2 = w + 1 /\ w + 1 # 0
    <3> DEFINE a == Len(A)
               N == Len(F)
    <3>1. a \in Nat /\ a >= 2 /\ N \in Nat /\ w \in Nat \ {0} /\ (w - 1) + a <= N
      BY <2>1, <2>3, <2>4
    <3> HIDE DEF a, N, w
    <3>2. w <= N /\ (w - 1) + 2 = w + 1 /\ w + 1 # 0
      BY <3>1
    <3>3. QED
      BY <3>2 DEF N
  <2>6. start = o + 2 /\ start # 0
    BY <2>1, <2>5
  <2>7. \A i \in 1 .. Len(ps) : ps[i].token.len <= 255
    <3>1. "none" \notin DOMAIN Widths
      BY DEF Widths
    <3>2. r.method \in DOMAIN Handlers /\ Handlers[r.method] \in DOMAIN Widths
      BY <3>1 DEF HandlerOf
    <3>3. \A i \in DOMAIN ps : ps[i].token.len <= 255
      BY <3>2 DEF IsRequest, AreParams
    <3>4. DOMAIN ps = 1 .. Len(ps)
      BY <2>2 DEF ParamsText
    <3>5. QED
      BY <3>3, <3>4
  <2>8. Given(r) = ps
    BY <1>5 DEF Given
  <2>9. Len(args) = Len(ps) /\ \A i \in 1 .. Len(ps) : args[i] = ArgOf(ps[i])
    BY <2>8, ArgsAre
  <2> HIDE DEF pa, args, start, A, ps, w, o
  <2>10. PICK f : f[0] = Begin(start) /\ (\A i \in 1 .. 8 : f[i] = next_param(F, f[i - 1]))
                  /\ pa = Kept(f[8].params)
    BY <1>3, <2>6
  <2>11. ParsedBy(F, o, f)
    BY <2>6, <2>10 DEF ParsedBy, AreRounds
  <2>12. ParamsAt(F, A, ps, items, b, o)
    BY <1>1, <2>2, <2>4, <2>7 DEF ParamsAt
  <2>13. Kept(f[8].params) \in Seq(Parm) /\ Agree(Kept(f[8].params), args)
    BY <2>9, <2>11, <2>12, RoundsAgree
  <2>14. QED
    BY <2>10, <2>13 DEF pa, args
<1>6. QED
  BY <1>4, <1>5

\* A handler that does not run a transaction has no use for the first parameter,
\* and without it that one answers an error.
LEMMA FirstLost ==
  ASSUME NEW m, NEW a, NEW f, NEW params
  PROVE  handle(m, Nul, f, params) \in {handle(m, a, f, params), Error}
<1> DEFINE t == HandlerOf(m)
           c == handle(m, Nul, f, params)
           d == handle(m, a, f, params)
<1>1. /\ t = Raw => c = raw_transaction(Nul)
      /\ t = "handle_call" => c = call_fields(f)
      /\ t = "handle_estimate_gas" => c = estimate_fields(f)
      /\ t \in DOMAIN Widths => c = positional(t, params)
      /\ t \notin DOMAIN Widths \cup {"none", Raw, "handle_call", "handle_estimate_gas"} =>
           c = Call(t, <<>>)
      /\ t = "none" => c = IF m \in Constants THEN Call("make_response", <<>>) ELSE Error
  BY HandleIs
<1>2. /\ t = "handle_call" => d = call_fields(f)
      /\ t = "handle_estimate_gas" => d = estimate_fields(f)
      /\ t \in DOMAIN Widths => d = positional(t, params)
      /\ t \notin DOMAIN Widths \cup {"none", Raw, "handle_call", "handle_estimate_gas"} =>
           d = Call(t, <<>>)
      /\ t = "none" => d = IF m \in Constants THEN Call("make_response", <<>>) ELSE Error
  BY HandleIs
<1>3. raw_transaction(Nul) = Error
  <2>1. Nul.len = 0
    BY DEF Nul
  <2>2. byte_len(Nul, Nul.len) = 0
    BY <2>1 DEF byte_len
  <2>3. QED
    BY <2>2 DEF raw_transaction
<1> HIDE DEF t, c, d
<1>4. c \in {d, Error}
  BY <1>1, <1>2, <1>3
<1>5. QED
  BY <1>4 DEF c, d

\* Answers, for any allocations.
Accepted(d, r, o) ==
  \/ \E lost \in IF o THEN SUBSET Fields ELSE {{}} : d = Meant(r, lost)
  \/ o /\ d = [Meant(r, {}) EXCEPT !.call = Error]

\* A whole request is taken as it is meant.
LEMMA DispatchWhole ==
  ASSUME NEW r, IsRequest(r), r.members # {}, r.id.len <= 29, NEW layout, IsLayout(layout),
         NEW o, NEW d \in dispatch_single(Render(r, layout), o)
  PROVE  Accepted(d, r, o)
<1> DEFINE F == Render(r, layout)
<1>0. PICK lost : /\ d = [id |-> json_extract_id(F), call |-> decoded(CallOf(F, lost), lost)]
                  /\ ~o => lost = {}
  BY OutcomeIs
<1> DEFINE m == json_extract_string(F, "method", 63).v
           first == extract_first_param_string(F)
           g == [key \in Fields |-> Copied(extract_param_field_string(F, key), key, lost)]
           pa == evmdb_json_parse_params(F, 8)
           m2 == IF "method" \in r.members THEN r.method ELSE ""
           g2 == [key \in Fields |-> Copied(FieldOf(r, key), key, lost)]
           args == Args(r)
<1>1. PICK h, v : RequestAt(F, r, layout, h, v)
  BY RequestAtIs
<1>2. F \in Seq(Tok)
  BY <1>1 DEF RequestAt
<1>3. CutOf(F, F)
  BY <1>2, WholeCutOf
<1>4. CallOf(F, lost) = handle(m, Copied(first, "first", lost), g, pa)
  BY DEF CallOf
<1>5. \A x : Meant(r, x) = [id |-> IF "id" \in r.members THEN r.id ELSE Num("1", 1),
                            call |-> Meaning(r, x)]
  BY DEF Meant
<1>6. json_extract_id(F) = IF "id" \in r.members THEN r.id ELSE Num("1", 1)
  BY <1>1, IdIs
<1>7. m = m2
  <2>1. /\ "method" \notin r.members => m = ""
        /\ "method" \in r.members => (F = F => m = r.method)
    BY <1>1, <1>3, MethodIs
  <2>2. QED
    BY <2>1
<1>8. first = Arg(r, 1)
  <2> DEFINE given == "params" \in r.members /\ Len(r.params) # 0
  <2>1. /\ first = Nul \/ (given /\ first = r.params[1].token /\ first.k = "str")
        /\ F = F /\ given /\ r.params[1].token.k = "str" => first = r.params[1].token
    BY <1>1, <1>3, FirstParamIs
  <2>2. /\ Len(Given(r)) \in Nat /\ DOMAIN Given(r) = 1 .. Len(Given(r))
    BY ArgsAre
  <2>3. given <=> 1 \in DOMAIN Given(r)
    <3> DEFINE n == Len(Given(r))
    <3>1. given <=> n # 0
      BY DEF Given
    <3>2. n \in Nat /\ DOMAIN Given(r) = 1 .. n
      BY <2>2
    <3> HIDE DEF n
    <3>3. n # 0 <=> 1 \in 1 .. n
      BY <3>2
    <3>4. QED
      BY <3>1, <3>2, <3>3
  <2>4. given => Given(r) = r.params
    BY DEF Given
  <2> HIDE DEF given, first
  <2>5. CASE given /\ r.params[1].token.k = "str"
    BY <2>1, <2>3, <2>4, <2>5 DEF Arg
  <2>6. CASE ~(given /\ r.params[1].token.k = "str")
    <3>1. first = Nul
      BY <2>1, <2>6
    <3>2. Arg(r, 1) = Nul
      BY <2>3, <2>4, <2>6 DEF Arg
    <3>3. QED
      BY <3>1, <3>2
  <2>7. QED
    BY <2>5, <2>6
<1>9. g = g2
  BY <1>1, FieldRead
<1>10. HandlerOf(m2) \in DOMAIN Widths => positional(HandlerOf(m2), pa) = positional(HandlerOf(m2), args)
  <2> SUFFICES ASSUME HandlerOf(m2) \in DOMAIN Widths
               PROVE  positional(HandlerOf(m2), pa) = positional(HandlerOf(m2), args)
    OBVIOUS
  <2>1. "none" \notin DOMAIN Widths /\ "" \notin DOMAIN Handlers
    BY DEF Widths, Handlers
  <2>2. m2 # ""
    BY <2>1 DEF HandlerOf
  <2>3. m2 = r.method
    BY <2>2
  <2>4. HandlerOf(r.method) \in DOMAIN Widths
    BY <2>3
  <2>5. pa \in Seq(Parm) /\ Agree(pa, args)
    BY <1>1, <2>4, ParamsAgree
  <2> DEFINE B == {Arg(r, i) : i \in 1 .. Len(Given(r))}
             t == HandlerOf(m2)
  <2>6. args \in Seq(B)
    BY ArgsAre
  <2>7. t \in DOMAIN Widths
    OBVIOUS
  <2> HIDE DEF B, t, pa, args, m2
  <2>8. positional(t, pa) = positional(t, args)
    BY <2>5, <2>6, <2>7, PositionalAgree
  <2>9. QED
    BY <2>8 DEF t
<1>11. Meaning(r, lost) = handle(m2, Arg(r, 1), g2, args)
  BY MeaningIs DEF Args
<1>14. Meaning(r, lost \cap Fields) = Meaning(r, lost)
  <2> DEFINE g3 == [key \in Fields |-> Copied(FieldOf(r, key), key, lost \cap Fields)]
  <2>1. g3 = g2
    BY DEF Copied
  <2>2. Meaning(r, lost \cap Fields) = handle(m2, Arg(r, 1), g3, args)
    BY MeaningIs DEF Args
  <2> HIDE DEF g2, g3, m2, args
  <2>3. QED
    BY <1>11, <2>1, <2>2
<1> HIDE DEF m, first, g, pa, m2, g2, args, F
<1>12. handle(m2, Arg(r, 1), g2, pa) = handle(m2, Arg(r, 1), g2, args)
  <2> DEFINE a == Arg(r, 1)
             t == HandlerOf(m2)
             c == handle(m2, a, g2, pa)
             e == handle(m2, a, g2, args)
  <2>1. /\ t = Raw => c = raw_transaction(a)
        /\ t = "handle_call" => c = call_fields(g2)
        /\ t = "handle_estimate_gas" => c = estimate_fields(g2)
        /\ t \in DOMAIN Widths => c = positional(t, pa)
        /\ t \notin DOMAIN Widths \cup {"none", Raw, "handle_call", "handle_estimate_gas"} =>
             c = Call(t, <<>>)
        /\ t = "none" => c = IF m2 \in Constants THEN Call("make_response", <<>>) ELSE Error
    BY HandleIs
  <2>2. /\ t = Raw => e = raw_transaction(a)
        /\ t = "handle_call" => e = call_fields(g2)
        /\ t = "handle_estimate_gas" => e = estimate_fields(g2)
        /\ t \in DOMAIN Widths => e = positional(t, args)
        /\ t \notin DOMAIN Widths \cup {"none", Raw, "handle_call", "handle_estimate_gas"} =>
             e = Call(t, <<>>)
        /\ t = "none" => e = IF m2 \in Constants THEN Call("make_response", <<>>) ELSE Error
    BY HandleIs
  <2>3. t \in DOMAIN Widths => positional(t, pa) = positional(t, args)
    BY <1>10
  <2> HIDE DEF a, t, c, e
  <2>4. c = e
    BY <2>1, <2>2, <2>3
  <2>5. QED
    BY <2>4 DEF a, c, e
<1>15. CallOf(F, lost) = handle(m2, Copied(Arg(r, 1), "first", lost), g2, pa)
  BY <1>4, <1>7, <1>8, <1>9
<1>16. CallOf(F, lost) = Meaning(r, lost) \/ (CallOf(F, lost) = Error /\ lost # {})
  <2>1. CASE "first" \in lost
    <3>1. CallOf(F, lost) = handle(m2, Nul, g2, pa)
      BY <1>15, <2>1 DEF Copied
    <3>2. handle(m2, Nul, g2, pa) \in {handle(m2, Arg(r, 1), g2, pa), Error}
      BY FirstLost
    <3>3. QED
      BY <1>11, <1>12, <2>1, <3>1, <3>2
  <2>2. CASE "first" \notin lost
    BY <1>11, <1>12, <1>15, <2>2 DEF Copied
  <2>3. QED
    BY <2>1, <2>2
<1>17. decoded(CallOf(F, lost), lost) = Meaning(r, lost)
         \/ (decoded(CallOf(F, lost), lost) = Error /\ lost # {})
  BY <1>16, DecodedIs
<1>18. CASE decoded(CallOf(F, lost), lost) = Meaning(r, lost)
  <2>1. d = Meant(r, lost \cap Fields)
    BY <1>0, <1>5, <1>6, <1>14, <1>18
  <2>2. lost \cap Fields \in IF o THEN SUBSET Fields ELSE {{}}
    BY <1>0
  <2>3. QED
    BY <2>1, <2>2 DEF Accepted
<1>19. CASE decoded(CallOf(F, lost), lost) = Error /\ lost # {}
  <2>1. d = [Meant(r, {}) EXCEPT !.call = Error]
    BY <1>0, <1>5, <1>6, <1>19
  <2>2. o
    BY <1>0, <1>19
  <2>3. QED
    BY <2>1, <2>2 DEF Accepted
<1>13. QED
  BY <1>17, <1>18, <1>19

----------------------------------------------------------------------------
(* The objects of a batch.                                                 *)

\* An object that stands in a whole text, of which X is there.
ObjectIn(X, F, O, b) == CutOf(X, F) /\ Closed(O) /\ Holds(F, b, O)

\* Its tokens, as far as they are there.
LEMMA ObjectTokens ==
  ASSUME NEW X, NEW F, NEW O, NEW b, ObjectIn(X, F, O, b)
  PROVE  /\ b \in Nat /\ Len(X) \in Nat /\ Len(F) \in Nat /\ Len(O) \in Nat
         /\ Len(X) <= Len(F) /\ b + Len(O) <= Len(F) /\ 2 <= Len(O)
         /\ \A x \in 1 .. Len(O) : b + x <= Len(X) =>
              /\ b + x \in 1 .. Len(X)
              /\ X[b + x] = O[x] \/ (b + x = Len(X) /\ O[x].k = "str" /\ X[b + x].k = "open"
                                     /\ X[b + x].v \in {O[x].v, "cut"})
              /\ SameBrace(X[b + x], O[x])
<1> DEFINE N == Len(X)
           M == Len(F)
           K == Len(O)
<1>1. N \in Nat /\ M \in Nat /\ N <= M
  BY CutLens DEF ObjectIn
<1>2. K \in Nat /\ 2 <= K
  <2>1. O \in Seq(Tok) /\ Len(O) >= 2
    BY DEF ObjectIn, Closed
  <2>2. K \in Nat /\ K >= 2
    BY <2>1
  <2> HIDE DEF K
  <2>3. QED
    BY <2>2
<1>3. b \in Nat /\ b + K <= M /\ \A x \in 1 .. K : F[b + x] = O[x]
  BY DEF ObjectIn, Holds
<1>4. \A y \in 1 .. N : X[y] = F[y] \/ (y = N /\ F[y].k = "str" /\ X[y].k = "open"
                                        /\ X[y].v \in {F[y].v, "cut"})
  BY DEF ObjectIn, CutOf, IsCut
<1> HIDE DEF N, M, K
<1>5. ASSUME NEW x \in 1 .. K, b + x <= N
      PROVE  /\ b + x \in 1 .. N
             /\ X[b + x] = O[x] \/ (b + x = N /\ O[x].k = "str" /\ X[b + x].k = "open"
                                    /\ X[b + x].v \in {O[x].v, "cut"})
             /\ SameBrace(X[b + x], O[x])
  <2> DEFINE y == b + x
  <2>1. y \in 1 .. N
    BY <1>1, <1>2, <1>3, <1>5
  <2> HIDE DEF y
  <2>2. F[y] = O[x]
    BY <1>3 DEF y
  <2>3. X[y] = O[x] \/ (y = N /\ O[x].k = "str" /\ X[y].k = "open" /\ X[y].v \in {O[x].v, "cut"})
    BY <1>4, <2>1, <2>2
  <2>4. SameBrace(X[y], O[x])
    BY <2>3 DEF SameBrace
  <2>5. QED
    BY <2>1, <2>3, <2>4 DEF y
<1>6. QED
  BY <1>1, <1>2, <1>3, <1>5 DEF N, M, K

\* Counting from its brace, the depth in the text is the depth in the object.
LEMMA DepthInObject ==
  ASSUME NEW X, NEW F, NEW O, NEW b, ObjectIn(X, F, O, b)
  PROVE  \A x \in 1 .. Len(O) : b + x <= Len(X) => Depth(X, b + 1, b + x) = Depth(O, 1, x)
<1> DEFINE N == Len(X)
           K == Len(O)
           D(x) == Depth(X, b + 1, b + x)
           E(x) == Depth(O, 1, x)
           S == {x \in Nat : x <= K /\ b + x <= N => D(x) = E(x)}
<1>1. b \in Nat /\ N \in Nat /\ K \in Nat
  BY ObjectTokens
<1>2. b + 1 \in Nat /\ b + 0 < b + 1 /\ b + 0 \in Int /\ 1 \in Nat /\ 0 \in Int /\ 0 < 1
  BY <1>1
<1>3. D(0) = 0 /\ E(0) = 0
  BY <1>2, DepthStep
<1>4. 0 \in S
  BY <1>3
<1>5. ASSUME NEW x \in Nat, x \in S PROVE x + 1 \in S
  <2> SUFFICES ASSUME x + 1 <= K, b + (x + 1) <= N PROVE D(x + 1) = E(x + 1)
    BY <1>5
  <2> DEFINE y == x + 1
             q == b + y
             s == b + 1
  <2> HIDE DEF D, E, N, K
  <2>1. /\ x <= K /\ b + x <= N /\ y \in 1 .. K /\ q <= N /\ y \in Int /\ 1 <= y /\ y - 1 = x
        /\ q \in Int /\ s \in Nat /\ s <= q /\ q - 1 = b + x /\ 1 \in Nat
    BY <1>1
  <2>2. D(x) = E(x)
    BY <1>5, <2>1
  <2>3. SameBrace(X[q], O[y])
    BY <2>1, ObjectTokens DEF K, N
  <2> HIDE DEF y, q, s
  <2>4. Depth(X, s, q) = Depth(X, s, q - 1) + (Depth(O, 1, y) - Depth(O, 1, y - 1))
    BY <2>1, <2>3, StepAlike
  <2>5. Depth(X, s, q - 1) = D(x) /\ Depth(O, 1, y - 1) = E(x) /\ Depth(X, s, q) = D(y) /\ Depth(O, 1, y) = E(y)
    BY <2>1 DEF D, E, s, q
  <2>6. D(y) = D(x) + (E(y) - E(x))
    BY <2>4, <2>5
  <2>7. E(y) \in Int /\ E(x) \in Int
    <3>1. \A z \in Int : Depth(O, 1, z) \in Int
      BY <2>1, DepthStep
    <3>2. x \in Int
      OBVIOUS
    <3>3. QED
      BY <2>1, <3>1, <3>2 DEF E
  <2>8. D(y) = E(y)
    BY <2>2, <2>6, <2>7
  <2>9. QED
    BY <2>8 DEF y
<1> HIDE DEF S, D, E
<1>6. \A x \in Nat : x \in S
  BY <1>4, <1>5, NatSetInduction
<1>7. ASSUME NEW x \in 1 .. K, b + x <= N PROVE D(x) = E(x)
  <2> HIDE DEF K, N
  <2>1. x \in Nat /\ x <= K
    BY <1>1
  <2>2. QED
    BY <1>6, <1>7, <2>1 DEF S
<1>8. QED
  BY <1>7 DEF D, E

\* The scan for the closing brace ends behind the object, or at the end.
LEMMA PastObjectIs ==
  ASSUME NEW X, NEW F, NEW O, NEW b, ObjectIn(X, F, O, b), b + 1 <= Len(X)
  PROVE  /\ b + Len(O) <= Len(X) => PastObject(X, b + 1) = (b + Len(O)) + 1
         /\ b + Len(O) > Len(X) => PastObject(X, b + 1) = Len(X) + 1
<1> DEFINE N == Len(X)
           K == Len(O)
           from == b + 1
           closing == {q \in from .. N : X[q].k = "}" /\ Depth(X, from, q) = 0}
<1>1. b \in Nat /\ N \in Nat /\ K \in Nat /\ 2 <= K
  BY ObjectTokens
<1>2. PastObject(X, from) = IF closing = {} THEN N + 1 ELSE Min(closing) + 1
  BY DEF PastObject
<1>3. \A x \in 1 .. K : b + x <= N => Depth(X, from, b + x) = Depth(O, 1, x)
  BY DepthInObject
<1>4. /\ \A x \in 1 .. K - 1 : Depth(O, 1, x) >= 1
      /\ Depth(O, 1, K) = 0 /\ O[K].k = "}"
  BY KindOf DEF ObjectIn, Closed
<1>5. \A x \in 1 .. K : b + x <= N => X[b + x] = O[x] \/ O[x].k = "str"
  BY ObjectTokens
<1>6. \A q \in closing : q \in from .. N /\ X[q].k = "}" /\ Depth(X, from, q) = 0
  OBVIOUS
<1>7. \A q \in from .. N : X[q].k = "}" /\ Depth(X, from, q) = 0 => q \in closing
  OBVIOUS
<1> HIDE DEF N, K, closing
<1>8. ASSUME NEW q \in closing PROVE q >= b + K
  <2> SUFFICES ASSUME ~(q >= b + K) PROVE FALSE
    OBVIOUS
  <2> DEFINE x == q - b
  <2>1. q \in from .. N /\ Depth(X, from, q) = 0
    BY <1>6
  <2>2. x \in 1 .. K - 1 /\ x \in 1 .. K /\ b + x = q /\ b + x <= N
    BY <1>1, <2>1
  <2> HIDE DEF x
  <2>3. Depth(O, 1, x) >= 1 /\ Depth(X, from, q) = Depth(O, 1, x)
    BY <1>3, <1>4, <2>2
  <2>4. Depth(O, 1, x) = 0
    BY <2>1, <2>3
  <2>5. QED
    BY <2>3, <2>4
<1>9. ASSUME b + K <= N PROVE PastObject(X, from) = (b + K) + 1
  <2> DEFINE z == b + K
  <2>1. K \in 1 .. K /\ z \in from .. N /\ z \in Int
    BY <1>1, <1>9
  <2>2. X[z] = O[K] \/ O[K].k = "str"
    BY <1>5, <1>9, <2>1
  <2>3. X[z].k = "}"
    BY <1>4, <2>2
  <2>4. Depth(X, from, z) = 0
    BY <1>3, <1>4, <1>9, <2>1
  <2>5. z \in closing
    BY <1>7, <2>1, <2>3, <2>4
  <2>6. closing \in SUBSET Int
    <3>1. \A q \in from .. N : q \in Int
      BY <1>1
    <3>2. QED
      BY <1>6, <3>1
  <2>7. \A y \in closing : z <= y
    <3> SUFFICES ASSUME NEW y \in closing PROVE z <= y
      OBVIOUS
    <3>1. y >= z /\ y \in Int
      BY <1>8, <2>6
    <3> HIDE DEF z
    <3>2. QED
      BY <2>1, <3>1
  <2> HIDE DEF z
  <2>8. Min(closing) = z
    BY <2>5, <2>6, <2>7, MinIs
  <2>9. closing # {}
    BY <2>5
  <2>10. QED
    BY <1>2, <2>8, <2>9 DEF z
<1>10. ASSUME b + K > N PROVE PastObject(X, from) = N + 1
  <2>1. ASSUME NEW q \in closing PROVE FALSE
    <3>1. q >= b + K /\ q \in from .. N
      BY <1>6, <1>8
    <3>2. q \in Int /\ q <= N
      BY <1>1, <3>1
    <3>3. QED
      BY <1>1, <1>10, <3>1, <3>2
  <2>2. closing = {}
    BY <2>1
  <2>3. QED
    BY <1>2, <2>2
<1>11. QED
  BY <1>9, <1>10 DEF N, K

\* A part of a sequence.
LEMMA PartIs ==
  ASSUME NEW A, NEW s \in Seq(A), NEW m \in Nat, NEW n \in Nat, m + n <= Len(s)
  PROVE  LET c == SubSeq(s, m + 1, m + n)
         IN c \in Seq(A) /\ Len(c) = n /\ \A x \in 1 .. n : c[x] = s[m + x]
<1>1. Len(s) \in Nat
  OBVIOUS
<1> DEFINE c == SubSeq(s, m + 1, m + n)
<1>2. c \in Seq(A) /\ Len(c) = n /\ \A x \in 1 .. n : c[x] = s[m + x]
  BY <1>1, SMTT(60)
<1> HIDE DEF c
<1>3. QED
  BY <1>2 DEF c

\* A copy of an object, or of what is there of it.
CopiedItem(item, X, F, O, b) ==
  /\ CutOf(item, O)
  /\ b + Len(O) <= Len(X) => Len(item) = Len(O)
  /\ b + Len(O) > Len(X) => Len(item) = Len(X) - b
  /\ X = F => item = O

\* It is what is handed to dispatch_single.
LEMMA ItemIs ==
  ASSUME NEW X, NEW F, NEW O, NEW b, ObjectIn(X, F, O, b), b + 1 <= Len(X)
  PROVE  CopiedItem(SubSeq(X, b + 1, PastObject(X, b + 1) - 1), X, F, O, b)
<1> DEFINE N == Len(X)
           K == Len(O)
           n == IF b + K <= N THEN K ELSE N - b
           item == SubSeq(X, b + 1, PastObject(X, b + 1) - 1)
<1>1. b \in Nat /\ N \in Nat /\ K \in Nat /\ 2 <= K /\ b + 1 <= N
  BY ObjectTokens
<1>2. /\ b + K <= N => PastObject(X, b + 1) = (b + K) + 1
      /\ b + K > N => PastObject(X, b + 1) = N + 1
  BY PastObjectIs
<1>3. X \in Seq(AnyTok) /\ O \in Seq(Tok) /\ O \in Seq(AnyTok) /\ F \in Seq(Tok)
  <2>1. Tok \subseteq AnyTok /\ O \in Seq(Tok)
    BY DEF AnyTok, ObjectIn, Closed
  <2>2. O \in Seq(AnyTok)
    BY <2>1, SeqLarger
  <2>3. QED
    BY <2>1, <2>2 DEF ObjectIn, CutOf
<1>4. \A x \in 1 .. K : b + x <= N =>
        X[b + x] = O[x] \/ (b + x = N /\ O[x].k = "str" /\ X[b + x].k = "open"
                            /\ X[b + x].v \in {O[x].v, "cut"})
  BY ObjectTokens
<1>5. O[K].k = "}" /\ Holds(F, b, O)
  BY KindOf DEF ObjectIn, Closed
<1> HIDE DEF N, K
<1>6. PastObject(X, b + 1) - 1 = b + n
  <2>1. CASE b + K <= N
    BY <1>1, <1>2, <2>1
  <2>2. CASE b + K > N
    BY <1>1, <1>2, <2>2
  <2>3. b + K <= N \/ b + K > N
    BY <1>1
  <2>4. QED
    BY <2>1, <2>2, <2>3
<1>7. n \in Nat /\ b + n <= N /\ n <= K /\ (b + K <= N => n = K) /\ (b + K > N => n = N - b)
      /\ (n = K \/ b + n = N)
  <2>1. CASE b + K <= N
    BY <1>1, <2>1
  <2>2. CASE b + K > N
    BY <1>1, <2>2
  <2>3. b + K <= N \/ b + K > N
    BY <1>1
  <2>4. QED
    BY <2>1, <2>2, <2>3
<1>8. item = SubSeq(X, b + 1, b + n)
  BY <1>6
<1> HIDE DEF n, item
<1>9. item \in Seq(AnyTok) /\ Len(item) = n /\ \A x \in 1 .. n : item[x] = X[b + x]
  BY <1>1, <1>3, <1>7, <1>8, PartIs, SMTT(60) DEF N
<1>10. ASSUME NEW x \in 1 .. n
       PROVE  item[x] = O[x] \/ (x = n /\ O[x].k = "str" /\ item[x].k = "open"
                                 /\ item[x].v \in {O[x].v, "cut"})
  <2>1. x \in 1 .. K /\ b + x <= N
    BY <1>1, <1>7
  <2>2. item[x] = X[b + x]
    BY <1>9
  <2>3. item[x] = O[x] \/ (b + x = N /\ O[x].k = "str" /\ item[x].k = "open"
                           /\ item[x].v \in {O[x].v, "cut"})
    BY <1>4, <2>1, <2>2
  <2>4. CASE item[x] = O[x]
    BY <2>4
  <2>5. CASE b + x = N /\ O[x].k = "str" /\ item[x].k = "open" /\ item[x].v \in {O[x].v, "cut"}
    <3>1. x # K
      BY <1>5, <2>5
    <3>2. x = n
      BY <1>1, <1>7, <2>1, <2>5, <3>1
    <3>3. QED
      BY <2>5, <3>2
  <2>6. QED
    BY <2>3, <2>4, <2>5
<1>11. IsCut(item, O)
  BY <1>7, <1>9, <1>10 DEF IsCut, K
<1>12. CutOf(item, O)
  BY <1>3, <1>9, <1>11 DEF CutOf
<1>13. X = F => item = O
  <2> SUFFICES ASSUME X = F PROVE item = O
    OBVIOUS
  <2>1. b + K <= N
    <3>1. b + Len(O) <= Len(F)
      BY <1>5 DEF Holds
    <3>2. QED
      BY <3>1 DEF K, N
  <2>2. n = K
    BY <1>7, <2>1
  <2>3. SubSeq(F, b + 1, b + Len(O)) = O
    BY <1>3, <1>5, CutOut
  <2>4. QED
    BY <1>8, <2>2, <2>3 DEF K
<1>14. QED
  BY <1>7, <1>9, <1>12, <1>13 DEF CopiedItem, N, K, item

----------------------------------------------------------------------------
(* The text of a batch.                                                    *)

\* What the requests are rendered to.
Items(rs, layout) == [i \in DOMAIN rs |-> Render(rs[i], layout)]

\* An object, or a lone token.
ItemOk(O, r) ==
  /\ r.members # {} => Closed(O)
  /\ r.members = {} => O \in Seq(Tok) /\ Len(O) = 1 /\ O[1].k \in {"str", "num"}

\* E is the batch of the requests rs, the text of each behind the position b.
BatchText(E, items, b, rs) ==
  /\ Elements(E, items, b) /\ Len(items) = Len(rs) /\ Len(rs) \in Nat
  /\ \A i \in 1 .. Len(rs) : ItemOk(items[i], rs[i])

\* What a request is rendered to.
LEMMA RenderOk ==
  ASSUME NEW r, IsRequest(r), NEW layout, IsLayout(layout)
  PROVE  ItemOk(Render(r, layout), r) /\ Render(r, layout) \in Seq(Tok)
         /\ Len(Render(r, layout)) \in Nat \ {0}
<1> DEFINE O == Render(r, layout)
<1>1. CASE r.members # {}
  <2>1. Closed(O)
    BY <1>1, RenderIs
  <2>2. O \in Seq(Tok) /\ Len(O) >= 2
    BY <2>1 DEF Closed
  <2> HIDE DEF O
  <2>3. Len(O) \in Nat \ {0}
    BY <2>2
  <2>4. QED
    BY <1>1, <2>1, <2>2, <2>3 DEF ItemOk, O
<1>2. CASE r.members = {}
  <2>1. O = <<r.id>>
    BY <1>2 DEF Render
  <2>2. TokenOk(r.id)
    BY RequestTokens
  <2>3. <<r.id>> \in Seq(Tok) /\ Len(<<r.id>>) = 1 /\ <<r.id>>[1] = r.id
    BY <2>2, OneToken
  <2>4. r.id.k \in {"str", "num"}
    BY <2>2 DEF TokenOk
  <2> HIDE DEF O
  <2>5. O \in Seq(Tok) /\ Len(O) = 1 /\ O[1].k \in {"str", "num"}
    BY <2>1, <2>3, <2>4
  <2>6. 1 \in Nat \ {0}
    OBVIOUS
  <2>7. QED
    BY <1>2, <2>5, <2>6 DEF ItemOk, O
<1>3. QED
  BY <1>1, <1>2

\* Where the requests of a batch are.
LEMMA BatchTextIs ==
  ASSUME NEW rs, IsSeq(rs), \A i \in DOMAIN rs : IsRequest(rs[i]), NEW layout, IsLayout(layout)
  PROVE  \E b : BatchText(RenderBatch(rs, layout), Items(rs, layout), b, rs)
<1> DEFINE n == Len(rs)
           items == Items(rs, layout)
           E == RenderBatch(rs, layout)
<1>1. n \in Nat /\ DOMAIN rs = 1 .. n
  BY DEF IsSeq
<1> HIDE DEF n
<1>2. items = [i \in 1 .. n |-> Render(rs[i], layout)]
  BY <1>1 DEF Items
<1>3. \A i \in 1 .. n : ItemOk(items[i], rs[i]) /\ items[i] \in Seq(Tok) /\ Len(items[i]) \in Nat \ {0}
  BY <1>1, <1>2, RenderOk
<1>4. items = [i \in 1 .. n |-> items[i]]
  BY <1>2
<1>5. E = Enclosed("[", items, "]", layout)
  BY DEF RenderBatch, Items
<1> HIDE DEF items, E
<1>6. items \in Lists /\ Len(items) = n
  BY <1>1, <1>3, <1>4, IsList
<1>7. P("[") \in Tok /\ P("]") \in Tok /\ layout.gap \in Gaps
  BY TokensAre, LayoutIs
<1>8. PICK b : LaidOut(E, items, b, "[", "]")
  BY <1>5, <1>6, <1>7, EnclosedIs
<1>9. Elements(E, items, b)
  BY <1>3, <1>6, <1>8 DEF Elements, IsArrayText
<1>10. BatchText(E, items, b, rs)
  BY <1>1, <1>3, <1>6, <1>9 DEF BatchText, n
<1>11. QED
  BY <1>10 DEF E, items

\* A place in a text, whole or cut, behind i elements.
Place(X, E, items, b, i, q) ==
  /\ q \in Nat \ {0} /\ q <= Len(X) + 1
  /\ Between(E, items, b, i, q) \/ (q = Len(X) + 1 /\ X # E)

\* The next element, as far as it is there.
Over(X, E, rs, i, a) == At(X, a).k \in {"]", "nul"} /\ (X = E => i = Len(rs))
Comes(X, b, i, a) == a = b[i + 1] + 1 /\ a \in 1 .. Len(X)

\* A text being read: i elements are behind q.
InBatch(X, E, items, b, rs, i, q) ==
  /\ BatchText(E, items, b, rs) /\ CutOf(X, E) /\ i \in 0 .. Len(rs)
  /\ Place(X, E, items, b, i, q)

\* The kinds an element begins with.
BeginsAt(E, rs, i, z) ==
  /\ E[z].k \notin {"sp", "nl", ","}
  /\ i = Len(rs) => E[z].k = "]"
  /\ i < Len(rs) => /\ rs[i + 1].members # {} => E[z].k = "{"
                    /\ rs[i + 1].members = {} => E[z].k \in {"str", "num"}
  /\ i = Len(rs) \/ i < Len(rs)

\* An object begins with a brace, a lone token with itself.
LEMMA ElementKinds ==
  ASSUME NEW E, NEW items, NEW b, NEW rs, BatchText(E, items, b, rs),
         NEW i \in 0 .. Len(rs), NEW z, z = Target(E, items, b, i)
  PROVE  BeginsAt(E, rs, i, z)
<1> DEFINE n == Len(rs)
<1>1. n \in Nat /\ n = Len(items) /\ Elements(E, items, b) /\ i \in 0 .. n
  BY DEF BatchText
<1>2. i < n => E[z] = items[i + 1][1]
  <2> SUFFICES ASSUME i < n PROVE E[z] = items[i + 1][1]
    OBVIOUS
  <2>1. i < Len(items) /\ i \in 0 .. Len(items)
    BY <1>1
  <2>2. QED
    BY <1>1, <2>1, GapIs, ZenonT(60)
<1>3. i = n => E[z] = P("]")
  <2> SUFFICES ASSUME i = n PROVE E[z] = P("]")
    OBVIOUS
  <2>1. i = Len(items) /\ i \in 0 .. Len(items)
    BY <1>1
  <2>2. QED
    BY <1>1, <2>1, GapIs, ZenonT(60)
<1>4. \A j \in 1 .. n : ItemOk(items[j], rs[j])
  BY DEF BatchText
<1> HIDE DEF n
<1>5. i < n => i + 1 \in 1 .. n
  BY <1>1
<1>6. i = n \/ i < n
  BY <1>1
<1>7. i = n => E[z].k = "]"
  BY <1>3, KindOf
<1>8. i < n => /\ rs[i + 1].members # {} => E[z].k = "{"
               /\ rs[i + 1].members = {} => E[z].k \in {"str", "num"}
  <2> SUFFICES ASSUME i < n
               PROVE  /\ rs[i + 1].members # {} => E[z].k = "{"
                      /\ rs[i + 1].members = {} => E[z].k \in {"str", "num"}
    OBVIOUS
  <2> DEFINE O == items[i + 1]
             r == rs[i + 1]
  <2>1. ItemOk(O, r) /\ E[z] = O[1]
    BY <1>2, <1>4, <1>5
  <2> HIDE DEF O, r
  <2>2. r.members # {} => O[1] = P("{")
    BY <2>1 DEF ItemOk, Closed
  <2>3. r.members = {} => O[1].k \in {"str", "num"}
    BY <2>1 DEF ItemOk
  <2>4. QED
    BY <2>1, <2>2, <2>3, KindOf DEF r
<1>9. E[z].k \notin {"sp", "nl", ","}
  <2>1. E[z].k \in {"]", "{", "str", "num"}
    BY <1>6, <1>7, <1>8
  <2>2. QED
    BY <2>1
<1>10. QED
  BY <1>6, <1>7, <1>8, <1>9 DEF n, BeginsAt

\* At a there is the end, or the next element, an object or a lone token.
OverOrNext(X, E, b, rs, i, a) ==
  \/ Over(X, E, rs, i, a)
  \/ /\ i < Len(rs) /\ Comes(X, b, i, a)
     /\ rs[i + 1].members # {} => At(X, a).k = "{"
     /\ rs[i + 1].members = {} => At(X, a).k \in {"str", "open", "num"}

\* The next token that is no separator.
LEMMA AheadIs ==
  ASSUME NEW X, NEW E, NEW items, NEW b, NEW rs, NEW i, NEW q, InBatch(X, E, items, b, rs, i, q),
         NEW a, a = Look(X, q)
  PROVE  OverOrNext(X, E, b, rs, i, a)
<1> DEFINE N == Len(X)
           M == Len(E)
           z == Target(E, items, b, i)
           kinds == {"sp", "nl", ","}
           n == Len(rs)
<1>1. CutOf(X, E) /\ X \in Seq(AnyTok)
  BY DEF InBatch, CutOf
<1>2. N \in Nat /\ M \in Nat /\ N <= M
  BY <1>1, CutLens
<1>3. q \in Nat \ {0} /\ q <= N + 1
  BY DEF InBatch, Place
<1>4. BatchText(E, items, b, rs) /\ i \in 0 .. n /\ n \in Nat /\ n = Len(items) /\ Elements(E, items, b)
  BY DEF InBatch, BatchText
<1>5. a = SkipAll(X, q, kinds)
  <2>1. Space \cup {","} = kinds
    BY DEF Space
  <2>2. QED
    BY <2>1 DEF Look
<1>6. "str" \notin kinds /\ "open" \notin kinds
  OBVIOUS
<1>7. /\ E[z].k \notin kinds
      /\ i = n => E[z].k = "]"
      /\ i < n => /\ rs[i + 1].members # {} => E[z].k = "{"
                  /\ rs[i + 1].members = {} => E[z].k \in {"str", "num"}
      /\ i = n \/ i < n
  <2>1. BeginsAt(E, rs, i, z)
    BY <1>4, ElementKinds
  <2>2. QED
    BY <2>1 DEF BeginsAt
<1>8. At(X, N + 1).k = "nul" /\ \A x \in 1 .. N : At(X, x) = X[x]
  BY <1>1, AtEnd
<1>9. z = IF i < n THEN b[i + 1] + 1 ELSE M
  BY <1>4 DEF Target
<1>10. After(items, b, i) \in 2 .. z /\ z \in 2 .. M
       /\ \A x \in After(items, b, i) .. z - 1 : E[x].k \in kinds
  BY <1>4, GapIs
<1>11. Between(E, items, b, i, q) => q \in After(items, b, i) .. z
  BY DEF Between
<1> HIDE DEF N, M, z, kinds, n
<1>12. CASE q = N + 1 /\ X # E
  <2>1. q \in q .. N + 1 /\ ~(q <= N) /\ \A x \in q .. q - 1 : FALSE
    BY <1>2, <1>12
  <2>2. SkipAll(X, q, kinds) = q
    BY <1>1, <1>3, <2>1, SkipAllStops DEF N
  <2>3. Over(X, E, rs, i, a)
    BY <1>5, <1>8, <1>12, <2>2 DEF Over, N
  <2>4. QED
    BY <2>3 DEF OverOrNext
<1>13. CASE Between(E, items, b, i, q)
  <2> DEFINE f == After(items, b, i)
  <2>1. f \in 2 .. z /\ z \in 2 .. M /\ q \in f .. z
    BY <1>10, <1>11, <1>13
  <2> HIDE DEF f
  <2>2. z \in q .. M /\ \A x \in q .. z - 1 : x \in f .. z - 1
    BY <1>2, <2>1
  <2>3. \A x \in q .. z - 1 : E[x].k \in kinds
    BY <1>10, <2>2 DEF f
  <2>4. /\ z <= N => SkipAll(X, q, kinds) = z
        /\ z > N => SkipAll(X, q, kinds) = N + 1
    <3>1. q <= Len(X) + 1 /\ z \in q .. Len(E)
      BY <1>3, <2>2 DEF N, M
    <3>2. /\ z <= Len(X) => SkipAll(X, q, kinds) = z
          /\ z > Len(X) => SkipAll(X, q, kinds) = Len(X) + 1
      BY <1>1, <1>3, <1>6, <1>7, <2>3, <3>1, SkipCut
    <3>3. QED
      BY <3>2 DEF N
  <2>5. CASE z > N
    <3>1. N # M
      BY <1>2, <2>1, <2>5
    <3>2. X # E
      BY <3>1 DEF N, M
    <3>3. At(X, a).k = "nul"
      BY <1>5, <1>8, <2>4, <2>5
    <3>4. QED
      BY <3>2, <3>3 DEF Over, OverOrNext
  <2>6. CASE z <= N
    <3>1. z \in 1 .. N /\ a = z
      BY <1>2, <1>5, <2>1, <2>4, <2>6
    <3>2. At(X, a) = X[z]
      BY <1>8, <3>1
    <3>3. X[z] = E[z] \/ (E[z].k = "str" /\ X[z].k = "open")
      BY <1>1, <3>1, CutLens DEF N
    <3>4. CASE i = n
      <4>1. X[z].k = "]"
        BY <1>7, <3>3, <3>4
      <4>2. QED
        BY <3>2, <3>4, <4>1 DEF Over, OverOrNext, n
    <3>5. CASE i < n
      <4>1. Comes(X, b, i, a)
        BY <1>9, <3>1, <3>5 DEF Comes, N
      <4>2. rs[i + 1].members # {} => At(X, a).k = "{"
        BY <1>7, <3>2, <3>3, <3>5
      <4>3. rs[i + 1].members = {} => At(X, a).k \in {"str", "open", "num"}
        BY <1>7, <3>2, <3>3, <3>5
      <4>4. QED
        BY <3>5, <4>1, <4>2, <4>3 DEF n, OverOrNext
    <3>6. QED
      BY <1>7, <3>4, <3>5
  <2>7. z > N \/ z <= N
    BY <1>2, <2>1
  <2>8. QED
    BY <2>5, <2>6, <2>7
<1>14. Between(E, items, b, i, q) \/ (q = N + 1 /\ X # E)
  BY DEF InBatch, Place, N
<1>15. QED
  BY <1>12, <1>13, <1>14

\* Behind an element that is there.
LEMMA Behind ==
  ASSUME NEW X, NEW E, NEW items, NEW b, NEW rs, NEW i, NEW q, InBatch(X, E, items, b, rs, i, q),
         i < Len(rs), NEW a, Comes(X, b, i, a), NEW s
  PROVE  /\ i + 1 \in 1 .. Len(rs) /\ Holds(E, b[i + 1], items[i + 1]) /\ ItemOk(items[i + 1], rs[i + 1])
         /\ b[i + 1] \in Nat \ {0} /\ Len(items[i + 1]) \in Nat \ {0} /\ Len(X) \in Nat /\ a = b[i + 1] + 1
         /\ a <= Len(X)
         /\ s = Len(items[i + 1]) /\ b[i + 1] + s <= Len(X) => InBatch(X, E, items, b, rs, i + 1, a + s)
         /\ s \in Nat /\ b[i + 1] + Len(items[i + 1]) > Len(X) /\ a + s = Len(X) + 1 =>
              InBatch(X, E, items, b, rs, i + 1, a + s)
<1> DEFINE n == Len(rs)
           N == Len(X)
           j == i + 1
           B == b[j]
           K == Len(items[j])
           M == Len(E)
<1>1. n \in Nat /\ n = Len(items) /\ Elements(E, items, b) /\ i \in 0 .. n /\ i < n
  BY DEF InBatch, BatchText
<1>2. CutOf(X, E) /\ N \in Nat /\ M \in Nat /\ N <= M
  BY CutLens DEF InBatch
<1>3. a = B + 1 /\ a \in 1 .. N
  BY DEF Comes
<1> HIDE DEF n, N, M
<1>4. j \in 1 .. n /\ j \in 0 .. n /\ j # 0
  BY <1>1
<1>5. Holds(E, B, items[j]) /\ B \in Nat \ {0} /\ B + K < M
  BY <1>1, <1>4 DEF Elements, IsArrayText, LaidOut, M
<1>6. K \in Nat \ {0}
  BY <1>1, <1>4 DEF Elements
<1>7. ItemOk(items[j], rs[j])
  BY <1>4 DEF InBatch, BatchText, n
<1>8. After(items, b, j) = (B + K) + 1
  BY <1>4 DEF After
<1>9. After(items, b, j) \in 2 .. Target(E, items, b, j) /\ Target(E, items, b, j) \in 2 .. M
  BY <1>1, <1>4, GapIs DEF M
<1> HIDE DEF j, B, K
<1>10. ASSUME s = K, B + s <= N PROVE InBatch(X, E, items, b, rs, j, a + s)
  <2> DEFINE f == After(items, b, j)
             z == Target(E, items, b, j)
  <2>1. f \in 2 .. z /\ z \in 2 .. M /\ f = (B + K) + 1
    BY <1>8, <1>9
  <2> HIDE DEF f, z
  <2>2. a + s = f /\ f \in f .. z /\ a + s \in Nat \ {0} /\ a + s <= N + 1
    BY <1>2, <1>3, <1>5, <1>6, <1>10, <2>1
  <2>3. Between(E, items, b, j, a + s)
    BY <1>1, <1>4, <2>2 DEF Between, f, z
  <2>4. Place(X, E, items, b, j, a + s)
    BY <2>2, <2>3 DEF Place, N
  <2>5. QED
    BY <1>4, <2>4 DEF InBatch, n
<1>11. ASSUME s \in Nat, B + K > N, a + s = N + 1 PROVE InBatch(X, E, items, b, rs, j, a + s)
  <2>1. N # M
    BY <1>2, <1>5, <1>6, <1>11
  <2>2. X # E
    BY <2>1 DEF N, M
  <2>3. a + s \in Nat \ {0} /\ a + s <= N + 1
    BY <1>2, <1>11
  <2>4. Place(X, E, items, b, j, a + s)
    BY <1>11, <2>2, <2>3 DEF Place, N
  <2>5. QED
    BY <1>4, <2>4 DEF InBatch, n
<1>12. a <= N
  BY <1>2, <1>3
<1>13. QED
  BY <1>2, <1>3, <1>4, <1>5, <1>6, <1>7, <1>10, <1>11, <1>12 DEF n, N, j, B, K

\* A lone token is passed.
LEMMA TokenPassed ==
  ASSUME NEW X, NEW E, NEW items, NEW b, NEW rs, NEW i, NEW q, InBatch(X, E, items, b, rs, i, q),
         i < Len(rs), NEW a, Comes(X, b, i, a), rs[i + 1].members = {}
  PROVE  InBatch(X, E, items, b, rs, i + 1, a + 1)
<1> DEFINE B == b[i + 1]
           K == Len(items[i + 1])
           N == Len(X)
<1>1. ItemOk(items[i + 1], rs[i + 1]) /\ B \in Nat /\ N \in Nat /\ a = B + 1 /\ a <= N
  BY Behind
<1>2. K = 1
  BY <1>1 DEF ItemOk
<1>3. 1 = K /\ B + 1 <= N => InBatch(X, E, items, b, rs, i + 1, a + 1)
  BY Behind
<1>4. QED
  BY <1>1, <1>2, <1>3

\* item is what is there of the next element, and the place is behind it.
Passed(item, X, E, items, b, rs, i, a) ==
  /\ CutOf(item, items[i + 1]) /\ (X = E => item = items[i + 1])
  /\ InBatch(X, E, items, b, rs, i + 1, a + Len(item))

\* An object is taken.
LEMMA ObjectTaken ==
  ASSUME NEW X, NEW E, NEW items, NEW b, NEW rs, NEW i, NEW q, InBatch(X, E, items, b, rs, i, q),
         i < Len(rs), NEW a, Comes(X, b, i, a), rs[i + 1].members # {},
         NEW item, item = SubSeq(X, a, PastObject(X, a) - 1)
  PROVE  Passed(item, X, E, items, b, rs, i, a)
<1> DEFINE B == b[i + 1]
           O == items[i + 1]
           K == Len(O)
           N == Len(X)
           s == Len(item)
<1>1. /\ ItemOk(O, rs[i + 1]) /\ B \in Nat /\ N \in Nat /\ a = B + 1 /\ a <= N /\ Holds(E, B, O)
      /\ K \in Nat
  BY Behind
<1>2. ObjectIn(X, E, O, B)
  BY <1>1 DEF ItemOk, ObjectIn, InBatch
<1>3. item = SubSeq(X, B + 1, PastObject(X, B + 1) - 1) /\ B + 1 <= N
  BY <1>1
<1> HIDE DEF B, O
<1>4. /\ CutOf(item, O)
      /\ B + K <= N => s = K
      /\ B + K > N => s = N - B
      /\ X = E => item = O
  <2>1. CopiedItem(SubSeq(X, B + 1, PastObject(X, B + 1) - 1), X, E, O, B)
    BY <1>2, <1>3, ItemIs
  <2>2. CopiedItem(item, X, E, O, B)
    BY <1>3, <2>1
  <2>3. QED
    BY <2>2 DEF CopiedItem
<1>5. /\ s = K /\ B + s <= N => InBatch(X, E, items, b, rs, i + 1, a + s)
      /\ s \in Nat /\ B + K > N /\ a + s = N + 1 => InBatch(X, E, items, b, rs, i + 1, a + s)
  BY Behind DEF B, O
<1> HIDE DEF K, N, s
<1>6. CASE B + K <= N
  BY <1>4, <1>5, <1>6 DEF s, O, Passed
<1>7. CASE B + K > N
  <2>1. s = N - B
    BY <1>4, <1>7
  <2>2. s \in Nat /\ a + s = N + 1
    BY <1>1, <2>1
  <2>3. QED
    BY <1>4, <1>5, <1>7, <2>2 DEF s, O, Passed
<1>8. B + K <= N \/ B + K > N
  BY <1>1
<1>9. QED
  BY <1>6, <1>7, <1>8

----------------------------------------------------------------------------
(* What has been taken from a text.                                        *)

\* What dispatch_single is handed.
Texts == Seq(AnyTok)

\* item is request j, or what is there of it; X is there of the text E.
Fine(item, rs, layout, X, E, j) ==
  /\ rs[j].members # {} /\ item \in Texts /\ CutOf(item, Render(rs[j], layout))
  /\ X = E => item = Render(rs[j], layout)

\* The texts s are requests among the first k, in their order.
Tracks(s, rs, layout, X, E, k, f) ==
  /\ s \in Seq(Texts) /\ k \in 0 .. Len(rs) /\ Len(rs) \in Nat
  /\ f \in [1 .. Len(s) -> 1 .. k]
  /\ \A x, y \in 1 .. Len(s) : x < y => f[x] < f[y]
  /\ \A x \in 1 .. Len(s) : Fine(s[x], rs, layout, X, E, f[x])

\* None of them is left out.
Covers(s, rs, k, f) ==
  \A j \in 1 .. k : rs[j].members # {} => \E x \in 1 .. Len(s) : f[x] = j

\* The texts s are requests among the first k; all of them that are objects.
Follows(s, rs, layout, X, E, k) == \E f : Tracks(s, rs, layout, X, E, k, f)
FollowsAll(s, rs, layout, X, E, k) ==
  \E f : Tracks(s, rs, layout, X, E, k, f) /\ Covers(s, rs, k, f)

\* Nothing has been taken.
LEMMA FollowsNone ==
  ASSUME NEW rs, Len(rs) \in Nat, NEW layout, NEW X, NEW E
  PROVE  Follows(<<>>, rs, layout, X, E, 0) /\ FollowsAll(<<>>, rs, layout, X, E, 0)
<1> DEFINE f == [x \in 1 .. 0 |-> 1]
           s == <<>>
<1>1. s \in Seq(Texts) /\ Len(s) = 0
  OBVIOUS
<1>2. 0 \in 0 .. Len(rs) /\ \A x \in 1 .. 0 : FALSE
  OBVIOUS
<1>3. f \in [1 .. 0 -> 1 .. 0]
  BY <1>2
<1> HIDE DEF f, s
<1>4. Tracks(s, rs, layout, X, E, 0, f)
  BY <1>1, <1>2, <1>3 DEF Tracks
<1>5. Covers(s, rs, 0, f)
  BY <1>2 DEF Covers
<1>6. QED
  BY <1>4, <1>5 DEF Follows, FollowsAll, s

\* One request is passed.
LEMMA FollowsSkip ==
  ASSUME NEW s, NEW rs, NEW layout, NEW X, NEW E, NEW k, k < Len(rs)
  PROVE  /\ Follows(s, rs, layout, X, E, k) => Follows(s, rs, layout, X, E, k + 1)
         /\ FollowsAll(s, rs, layout, X, E, k) /\ rs[k + 1].members = {} =>
              FollowsAll(s, rs, layout, X, E, k + 1)
<1>1. ASSUME NEW f, Tracks(s, rs, layout, X, E, k, f)
      PROVE  /\ Tracks(s, rs, layout, X, E, k + 1, f)
             /\ Covers(s, rs, k, f) /\ rs[k + 1].members = {} => Covers(s, rs, k + 1, f)
  <2> DEFINE n == Len(rs)
             m == Len(s)
  <2>1. n \in Nat /\ k \in 0 .. n /\ k < n /\ f \in [1 .. m -> 1 .. k]
    BY <1>1 DEF Tracks
  <2> HIDE DEF n, m
  <2>2. k + 1 \in 0 .. n /\ \A j \in 1 .. k : j \in 1 .. k + 1
    BY <2>1
  <2>3. f \in [1 .. m -> 1 .. k + 1]
    BY <2>1, <2>2
  <2>4. Tracks(s, rs, layout, X, E, k + 1, f)
    BY <1>1, <2>2, <2>3 DEF Tracks, n, m
  <2>5. \A j \in 1 .. k + 1 : j \in 1 .. k \/ j = k + 1
    BY <2>1
  <2>6. Covers(s, rs, k, f) /\ rs[k + 1].members = {} => Covers(s, rs, k + 1, f)
    BY <2>5 DEF Covers
  <2>7. QED
    BY <2>4, <2>6
<1>2. QED
  BY <1>1 DEF Follows, FollowsAll

\* One request is taken.
LEMMA FollowsAppend ==
  ASSUME NEW s, NEW rs, NEW layout, NEW X, NEW E, NEW k, k < Len(rs), NEW item,
         Fine(item, rs, layout, X, E, k + 1)
  PROVE  /\ Follows(s, rs, layout, X, E, k) => Follows(Append(s, item), rs, layout, X, E, k + 1)
         /\ FollowsAll(s, rs, layout, X, E, k) => FollowsAll(Append(s, item), rs, layout, X, E, k + 1)
<1>1. ASSUME NEW f, Tracks(s, rs, layout, X, E, k, f)
      PROVE  \E g : /\ Tracks(Append(s, item), rs, layout, X, E, k + 1, g)
                    /\ Covers(s, rs, k, f) => Covers(Append(s, item), rs, k + 1, g)
  <2> DEFINE n == Len(rs)
             m == Len(s)
             t == Append(s, item)
             g == [x \in 1 .. m + 1 |-> IF x = m + 1 THEN k + 1 ELSE f[x]]
  <2>1. n \in Nat /\ k \in 0 .. n /\ k < n /\ f \in [1 .. m -> 1 .. k] /\ s \in Seq(Texts) /\ m \in Nat
    BY <1>1 DEF Tracks
  <2>2. \A x, y \in 1 .. m : x < y => f[x] < f[y]
    BY <1>1 DEF Tracks
  <2>3. \A x \in 1 .. m : Fine(s[x], rs, layout, X, E, f[x])
    BY <1>1 DEF Tracks
  <2>4. item \in Texts
    BY DEF Fine
  <2>5. t \in Seq(Texts) /\ Len(t) = m + 1 /\ t[m + 1] = item /\ \A x \in 1 .. m : t[x] = s[x]
    BY <2>1, <2>4
  <2> HIDE DEF n, m, t
  <2>6. k + 1 \in 0 .. n /\ k + 1 \in 1 .. k + 1 /\ \A j \in 1 .. k : j \in 1 .. k + 1 /\ j < k + 1
    BY <2>1
  <2>7. \A x \in 1 .. m + 1 : x = m + 1 \/ (x \in 1 .. m /\ x # m + 1 /\ x < m + 1)
    BY <2>1
  <2>8. \A x \in 1 .. m : x \in 1 .. m + 1 /\ x # m + 1
    BY <2>1
  <2>9. m + 1 \in 1 .. m + 1
    BY <2>1
  <2>10. g[m + 1] = k + 1 /\ \A x \in 1 .. m : g[x] = f[x]
    BY <2>8, <2>9
  <2>11. g \in [1 .. m + 1 -> 1 .. k + 1]
    BY <2>1, <2>6, <2>7
  <2> HIDE DEF g
  <2>12. ASSUME NEW x \in 1 .. m + 1, NEW y \in 1 .. m + 1, x < y PROVE g[x] < g[y]
    <3>1. x \in 1 .. m
      BY <2>1, <2>12
    <3>2. g[x] = f[x] /\ f[x] \in 1 .. k
      BY <2>1, <2>10, <3>1
    <3>3. CASE y = m + 1
      BY <2>6, <2>10, <3>2, <3>3
    <3>4. CASE y \in 1 .. m
      BY <2>2, <2>10, <2>12, <3>1, <3>2, <3>4
    <3>5. QED
      BY <2>7, <3>3, <3>4
  <2>13. ASSUME NEW x \in 1 .. m + 1 PROVE Fine(t[x], rs, layout, X, E, g[x])
    <3>1. CASE x = m + 1
      BY <2>5, <2>10, <3>1
    <3>2. CASE x \in 1 .. m
      BY <2>3, <2>5, <2>10, <3>2
    <3>3. QED
      BY <2>7, <3>1, <3>2
  <2>14. Tracks(t, rs, layout, X, E, k + 1, g)
    BY <2>1, <2>5, <2>6, <2>11, <2>12, <2>13 DEF Tracks, n
  <2>15. Covers(s, rs, k, f) => Covers(t, rs, k + 1, g)
    <3> SUFFICES ASSUME Covers(s, rs, k, f), NEW j \in 1 .. k + 1, rs[j].members # {}
                 PROVE  \E x \in 1 .. m + 1 : g[x] = j
      BY <2>5 DEF Covers
    <3>1. j = k + 1 \/ j \in 1 .. k
      BY <2>1
    <3>2. CASE j = k + 1
      BY <2>9, <2>10, <3>2
    <3>3. CASE j \in 1 .. k
      <4>1. PICK x \in 1 .. m : f[x] = j
        BY <3>3 DEF Covers, m
      <4>2. QED
        BY <2>8, <2>10, <4>1
    <3>4. QED
      BY <3>1, <3>2, <3>3
  <2>16. QED
    BY <2>14, <2>15 DEF t
<1>2. QED
  BY <1>1 DEF Follows, FollowsAll

\* The transactions among the texts s are transactions of the requests.
RunsRight(s, rs, o) ==
  LET runs == [i \in DOMAIN s |->
                 {c \in {d.call : d \in dispatch_single(s[i], o)} : c.handler = Raw}]
      raws == {i \in DOMAIN s : runs[i] # {}}
  IN \E f \in [raws -> DOMAIN rs] :
       InOrder(f, DOMAIN rs) /\ \A i \in raws : runs[i] = {Meaning(rs[f[i]], {})}

\* What follows the requests runs their transactions, each once and in order.
LEMMA RunsOnce ==
  ASSUME NEW rs, \A i \in DOMAIN rs : IsRequest(rs[i]), DOMAIN rs = 1 .. Len(rs),
         NEW layout, IsLayout(layout), NEW X, NEW E, NEW k, NEW s, Follows(s, rs, layout, X, E, k),
         NEW o
  PROVE  RunsRight(s, rs, o)
<1>1. PICK f : Tracks(s, rs, layout, X, E, k, f)
  BY DEF Follows
<1> DEFINE n == Len(rs)
           m == Len(s)
           runs == [i \in DOMAIN s |->
                      {c \in {d.call : d \in dispatch_single(s[i], o)} : c.handler = Raw}]
           raws == {i \in DOMAIN s : runs[i] # {}}
           g == [i \in raws |-> f[i]]
<1>2. n \in Nat /\ k \in 0 .. n /\ f \in [1 .. m -> 1 .. k] /\ s \in Seq(Texts) /\ DOMAIN s = 1 .. m
  BY <1>1 DEF Tracks
<1>3. \A x, y \in 1 .. m : x < y => f[x] < f[y]
  BY <1>1 DEF Tracks
<1>4. \A x \in 1 .. m : Fine(s[x], rs, layout, X, E, f[x])
  BY <1>1 DEF Tracks
<1> HIDE DEF m, n
<1>5. \A j \in 1 .. k : j \in 1 .. n
  BY <1>2
<1>6. raws \subseteq 1 .. m
  BY <1>2
<1>7. \A i \in raws : f[i] \in 1 .. n
  BY <1>2, <1>5, <1>6
<1>8. 1 .. n = DOMAIN rs
  BY DEF n
<1>9. g \in [raws -> DOMAIN rs]
  BY <1>7, <1>8
<1>10. \A i \in raws : g[i] = f[i]
  OBVIOUS
<1>11. DOMAIN g = raws
  OBVIOUS
<1>15. \A i \in raws :
         /\ runs[i] # {}
         /\ \A c \in runs[i] : c.handler = Raw /\ \E d \in dispatch_single(s[i], o) : c = d.call
  OBVIOUS
<1> HIDE DEF g, runs, raws
<1>12. InOrder(g, DOMAIN rs)
  <2>1. \A i \in DOMAIN g : g[i] \in DOMAIN rs
    BY <1>7, <1>8, <1>10, <1>11
  <2>2. ASSUME NEW i \in raws, NEW j \in raws, i < j PROVE g[i] < g[j]
    <3>1. f[i] < f[j]
      BY <1>3, <1>6, <2>2
    <3>2. QED
      BY <1>10, <3>1
  <2>3. QED
    BY <1>11, <2>1, <2>2 DEF InOrder
<1>13. ASSUME NEW i \in raws PROVE runs[i] = {Meaning(rs[g[i]], {})}
  <2> DEFINE r == rs[f[i]]
  <2>1. i \in 1 .. m /\ f[i] \in DOMAIN rs /\ g[i] = f[i]
    BY <1>6, <1>7, <1>8, <1>10
  <2>3. IsRequest(r) /\ r.members # {} /\ CutOf(s[i], Render(r, layout))
    BY <1>4, <2>1 DEF Fine
  <2> HIDE DEF r
  <2>4. \A d \in dispatch_single(s[i], o) : d.call.handler = Raw => d.call = Meaning(r, {})
    BY <2>3, DispatchCut
  <2>2. \A c \in runs[i] : c = Meaning(r, {})
    BY <1>15, <2>4
  <2>5. QED
    BY <1>15, <2>1, <2>2 DEF r
<1>14. QED
  BY <1>9, <1>12, <1>13 DEF RunsRight, runs, raws

\* The texts s are dispatched as the requests f says they are; to the last one
\* when all k are covered.
Owns(s, rs, k, f, objects, o) ==
  /\ f \in [DOMAIN s -> DOMAIN rs] /\ InOrder(f, objects)
  /\ \A i \in DOMAIN s : \A d \in dispatch_single(s[i], o) : Accepted(d, rs[f[i]], o)
  /\ k = Len(rs) /\ Covers(s, rs, k, f) => \A j \in objects : \E i \in DOMAIN s : f[i] = j

\* The answers to a whole text are the answers to its requests.
LEMMA OwnAnswers ==
  ASSUME NEW rs, \A i \in DOMAIN rs : IsRequest(rs[i]) /\ rs[i].id.len <= 29,
         DOMAIN rs = 1 .. Len(rs), NEW layout, IsLayout(layout), NEW X, NEW k, NEW s, NEW f,
         Tracks(s, rs, layout, X, X, k, f), NEW objects, objects = {i \in DOMAIN rs : rs[i].members # {}},
         NEW o
  PROVE  Owns(s, rs, k, f, objects, o)
<1> DEFINE n == Len(rs)
           m == Len(s)
<1>2. n \in Nat /\ k \in 0 .. n /\ f \in [1 .. m -> 1 .. k] /\ s \in Seq(Texts) /\ DOMAIN s = 1 .. m
  BY DEF Tracks
<1>3. \A x, y \in 1 .. m : x < y => f[x] < f[y]
  BY DEF Tracks
<1>4. \A x \in 1 .. m : Fine(s[x], rs, layout, X, X, f[x])
  BY DEF Tracks
<1>5. 1 .. n = DOMAIN rs
  OBVIOUS
<1>6. k = n /\ Covers(s, rs, k, f) => \A j \in 1 .. n : rs[j].members # {} => \E x \in 1 .. m : f[x] = j
  BY DEF Covers
<1> HIDE DEF m, n
<1>7. \A j \in 1 .. k : j \in 1 .. n
  BY <1>2
<1>8. f \in [DOMAIN s -> DOMAIN rs]
  BY <1>2, <1>5, <1>7
<1>9. \A x \in 1 .. m : f[x] \in DOMAIN rs /\ rs[f[x]].members # {}
  BY <1>2, <1>4, <1>5, <1>7 DEF Fine
<1>10. InOrder(f, objects)
  <2>1. \A x \in DOMAIN f : f[x] \in objects
    BY <1>2, <1>9
  <2>2. QED
    BY <1>2, <1>3, <2>1 DEF InOrder
<1>11. ASSUME NEW i \in DOMAIN s PROVE \A d \in dispatch_single(s[i], o) : Accepted(d, rs[f[i]], o)
  <2> DEFINE r == rs[f[i]]
  <2>1. IsRequest(r) /\ r.members # {} /\ r.id.len <= 29
    BY <1>2, <1>9
  <2>2. s[i] = Render(r, layout)
    BY <1>2, <1>4 DEF Fine
  <2> HIDE DEF r
  <2>3. \A d \in dispatch_single(Render(r, layout), o) : Accepted(d, r, o)
    BY <2>1, DispatchWhole
  <2>4. QED
    BY <2>2, <2>3 DEF r
<1>12. k = n /\ Covers(s, rs, k, f) => \A j \in objects : \E i \in DOMAIN s : f[i] = j
  BY <1>2, <1>5, <1>6
<1>13. QED
  BY <1>8, <1>10, <1>11, <1>12 DEF n, Owns

\* What a read that came up short leaves of a text.
LEMMA TruncatedIs ==
  ASSUME NEW F \in Seq(Tok), NEW n \in 1 .. Len(F), NEW X \in Truncated(F, n)
  PROVE  CutOf(X, F) /\ Len(X) = n
<1> DEFINE first == SubSeq(F, 1, n)
           N == Len(F)
           begun(v) == [k |-> "open", v |-> v, len |-> 3]
<1>1. N \in Nat /\ n \in 1 .. N /\ n \in Nat /\ 1 <= n /\ n <= N
  OBVIOUS
<1>2. first \in Seq(Tok) /\ Len(first) = n /\ \A i \in 1 .. n : first[i] = F[i]
  BY <1>1
<1>3. Tok \subseteq AnyTok
  BY DEF AnyTok
<1>4. F \in Seq(AnyTok) /\ first \in Seq(AnyTok)
  BY <1>2, <1>3, SeqLarger
<1>5. X = first \/ \E v \in {F[n].v, "cut"} : F[n].k = "str" /\ X = [first EXCEPT ![n] = begun(v)]
  BY DEF Truncated
<1>6. F[n] \in Tok
  BY <1>1
<1>7. \A v \in {F[n].v, "cut"} : begun(v) \in AnyTok
  BY <1>6 DEF AnyTok
<1>8. \A v : begun(v).k = "open" /\ begun(v).v = v
  OBVIOUS
<1> HIDE DEF first, N, begun
<1>9. CASE X = first
  <2>1. IsCut(X, F)
    BY <1>1, <1>2, <1>9 DEF IsCut, N
  <2>2. QED
    BY <1>2, <1>4, <1>9, <2>1 DEF CutOf
<1>10. ASSUME NEW v \in {F[n].v, "cut"}, F[n].k = "str", X = [first EXCEPT ![n] = begun(v)]
       PROVE  CutOf(X, F) /\ Len(X) = n
  <2> DEFINE t == begun(v)
  <2>1. t \in AnyTok /\ t.k = "open" /\ t.v = v
    BY <1>7, <1>8
  <2> HIDE DEF t
  <2>2. X \in Seq(AnyTok) /\ Len(X) = n /\ X[n] = t /\ \A i \in 1 .. n : i # n => X[i] = first[i]
    BY <1>1, <1>2, <1>4, <1>10, <2>1 DEF t
  <2>3. IsCut(X, F)
    <3>1. Len(X) <= Len(F)
      BY <1>1, <2>2 DEF N
    <3>2. \A i \in 1 .. n : X[i] = F[i] \/ (i = n /\ F[i].k = "str" /\ X[i].k = "open"
                                           /\ X[i].v \in {F[i].v, "cut"})
      BY <1>2, <1>10, <2>1, <2>2
    <3>3. QED
      BY <2>2, <3>1, <3>2 DEF IsCut
  <2>4. QED
    BY <1>4, <2>2, <2>3 DEF CutOf
<1>11. QED
  BY <1>5, <1>9, <1>10

----------------------------------------------------------------------------
(* The inductive invariant.                                                *)

\* The requests sent, and what they are rendered to as a batch or alone.
Asked == sent.requests
Batch(layout) == RenderBatch(Asked, layout)
Single(layout) == Render(Asked[1], layout)

\* s follows the first k requests of the text E; without allocation failures
\* it leaves none out.
Taken(s, layout, E, k) == Follows(s, Asked, layout, text, E, k)
Answered(layout, E, k) ==
  /\ Follows(answers, Asked, layout, text, E, k)
  /\ ~oom => FollowsAll(answers, Asked, layout, text, E, k)

\* In the batch, i elements are behind p.
Here(layout, b, i) == InBatch(text, Batch(layout), Items(Asked, layout), b, Asked, i, p)

\* What is fixed: the requests, and what is there of their text E.
Sent(layout, E) ==
  /\ Asked \in Batches /\ layout \in Layouts
  /\ CutOf(text, E) /\ 1 <= Len(text) /\ (sent.whole => text = E)

\* One request: nothing is done, or it is dispatched and answered.
SingleInv(layout) ==
  /\ Sent(layout, Single(layout)) /\ Len(Asked) = 1 /\ Asked[1].members # {}
  /\ pc \in {"start", "done"}
  /\ pc = "start" => ran = <<>> /\ answers = <<>>
  /\ pc = "done" => /\ Taken(ran, layout, Single(layout), 1)
                    /\ Answered(layout, Single(layout), 1)

\* i elements of the batch have been passed.
BatchInv(layout, b, i) ==
  /\ Sent(layout, Batch(layout))
  /\ BatchText(Batch(layout), Items(Asked, layout), b, Asked) /\ i \in 0 .. Len(Asked)
  /\ pc \in {"start", "loop", "append", "done"}
  /\ pc = "start" => ran = <<>> /\ answers = <<>> /\ i = 0
  /\ pc # "start" => Taken(ran, layout, Batch(layout), i)
  /\ pc \in {"loop", "append"} => Here(layout, b, i)
  /\ pc \in {"loop", "done"} => Answered(layout, Batch(layout), i)
  /\ pc = "append" => /\ i # 0 /\ Answered(layout, Batch(layout), i - 1)
                      /\ Fine(single_resp.item, Asked, layout, text, Batch(layout), i)
  /\ pc = "done" /\ ~oom /\ text = Batch(layout) => i = Len(Asked)

\* What is sent is a batch or one request, in some layout.
DispatchInv ==
  \E layout \in Layouts :
    IF sent.batch THEN \E b : \E i \in Nat : BatchInv(layout, b, i) ELSE SingleInv(layout)

\* What is assumed of the clients' requests.
LEMMA RequestsAre ==
  ASSUME NEW t \in Batches
  PROVE  /\ IsSeq(t) /\ (\A i \in DOMAIN t : IsRequest(t[i])) /\ Len(t) \in Nat /\ DOMAIN t = 1 .. Len(t)
<1>1. IsSeq(t) /\ \A i \in DOMAIN t : IsRequest(t[i])
  BY RequestAssumption
<1>2. QED
  BY <1>1 DEF IsSeq

\* The invariant implies that transactions run once.
LEMMA InvRunsOnce ==
  ASSUME DispatchInv
  PROVE  TransactionsRunOnce
<1>1. PICK layout \in Layouts :
        IF sent.batch THEN \E b : \E i \in Nat : BatchInv(layout, b, i) ELSE SingleInv(layout)
  BY DEF DispatchInv
<1>2. \E E : \E k : Taken(ran, layout, E, k)
  <2>1. CASE sent.batch
    <3>1. PICK b : \E i \in Nat : BatchInv(layout, b, i)
      BY <1>1, <2>1
    <3>2. PICK i \in Nat : BatchInv(layout, b, i)
      BY <3>1
    <3>3. CASE pc # "start"
      BY <3>2, <3>3 DEF BatchInv
    <3>4. CASE pc = "start"
      <4>1. ran = <<>> /\ Asked \in Batches
        BY <3>2, <3>4 DEF BatchInv, Sent
      <4>2. Len(Asked) \in Nat
        BY <4>1, RequestsAre
      <4>3. Follows(<<>>, Asked, layout, text, Batch(layout), 0)
        BY <4>2, FollowsNone
      <4>4. QED
        BY <4>1, <4>3 DEF Taken
    <3>5. QED
      BY <3>3, <3>4
  <2>2. CASE ~sent.batch
    <3>1. SingleInv(layout)
      BY <1>1, <2>2
    <3>2. CASE pc = "done"
      BY <3>1, <3>2 DEF SingleInv
    <3>3. CASE pc = "start"
      <4>1. ran = <<>> /\ Asked \in Batches
        BY <3>1, <3>3 DEF SingleInv, Sent
      <4>2. Len(Asked) \in Nat
        BY <4>1, RequestsAre
      <4>3. Follows(<<>>, Asked, layout, text, Single(layout), 0)
        BY <4>2, FollowsNone
      <4>4. QED
        BY <4>1, <4>3 DEF Taken
    <3>4. QED
      BY <3>1, <3>2, <3>3 DEF SingleInv
  <2>3. QED
    BY <2>1, <2>2
<1>3. Asked \in Batches
  BY <1>1 DEF SingleInv, BatchInv, Sent
<1>4. IsLayout(layout)
  BY LayoutAssumption
<1>5. (\A i \in DOMAIN Asked : IsRequest(Asked[i])) /\ DOMAIN Asked = 1 .. Len(Asked)
  BY <1>3, RequestsAre
<1>6. PICK E : \E k : Taken(ran, layout, E, k)
  BY <1>2
<1>7. PICK k : Follows(ran, Asked, layout, text, E, k)
  BY <1>6 DEF Taken
<1>8. RunsRight(ran, Asked, oom)
  BY <1>4, <1>5, <1>7, RunsOnce
<1>9. QED
  BY <1>8 DEF TransactionsRunOnce, RunsRight, Raw, Asked

\* Each of the texts s is answered as its request; all of them if need be.
OwnAnswer(s, rs, all, o) ==
  LET objects == {i \in DOMAIN rs : rs[i].members # {}}
  IN \E f \in [DOMAIN s -> DOMAIN rs] :
       /\ InOrder(f, objects)
       /\ \A i \in DOMAIN s : \A d \in dispatch_single(s[i], o) : Accepted(d, rs[f[i]], o)
       /\ all => \A j \in objects : \E i \in DOMAIN s : f[i] = j

\* What follows the requests of a whole text is answered as they are meant.
LEMMA AnswersOwned ==
  ASSUME NEW rs, \A i \in DOMAIN rs : IsRequest(rs[i]) /\ rs[i].id.len <= 29,
         DOMAIN rs = 1 .. Len(rs), NEW layout, IsLayout(layout), NEW X, NEW k, NEW s, NEW all,
         Follows(s, rs, layout, X, X, k),
         all => k = Len(rs) /\ FollowsAll(s, rs, layout, X, X, k), NEW o
  PROVE  OwnAnswer(s, rs, all, o)
<1> DEFINE objects == {i \in DOMAIN rs : rs[i].members # {}}
<1>1. PICK f : Tracks(s, rs, layout, X, X, k, f) /\ (all => k = Len(rs) /\ Covers(s, rs, k, f))
  BY DEF Follows, FollowsAll
<1> HIDE DEF objects
<1>2. Owns(s, rs, k, f, objects, o)
  BY <1>1, OwnAnswers DEF objects
<1>3. all => \A j \in objects : \E i \in DOMAIN s : f[i] = j
  BY <1>1, <1>2 DEF Owns
<1>4. QED
  BY <1>2, <1>3 DEF OwnAnswer, Owns, objects

\* The answers so far follow the requests, to the last one in the end.
AnswersFollow(layout, k) ==
  /\ Follows(answers, Asked, layout, text, text, k)
  /\ pc = "done" /\ ~oom => k = Len(Asked) /\ FollowsAll(answers, Asked, layout, text, text, k)

\* The invariant implies that each request gets its own answer.
LEMMA InvOwnAnswer ==
  ASSUME DispatchInv
  PROVE  EachItsOwnAnswer
<1> SUFFICES ASSUME sent.whole, \A i \in DOMAIN Asked : Asked[i].id.len <= 29
             PROVE  OwnAnswer(answers, Asked, pc = "done" /\ ~oom, oom)
  BY DEF EachItsOwnAnswer, OwnAnswer, Asked, Answers, Accepted
<1>1. PICK layout \in Layouts :
        IF sent.batch THEN \E b : \E i \in Nat : BatchInv(layout, b, i) ELSE SingleInv(layout)
  BY DEF DispatchInv
<1>2. Asked \in Batches
  BY <1>1 DEF SingleInv, BatchInv, Sent
<1>3. (\A i \in DOMAIN Asked : IsRequest(Asked[i])) /\ DOMAIN Asked = 1 .. Len(Asked) /\ Len(Asked) \in Nat
  BY <1>2, RequestsAre
<1>4. \E k : AnswersFollow(layout, k)
  <2>1. Follows(<<>>, Asked, layout, text, text, 0)
    BY <1>3, FollowsNone
  <2>2. pc = "start" /\ answers = <<>> => AnswersFollow(layout, 0)
    BY <2>1 DEF AnswersFollow
  <2>3. CASE sent.batch
    <3>1. PICK b : \E i \in Nat : BatchInv(layout, b, i)
      BY <1>1, <2>3
    <3>2. PICK i \in Nat : BatchInv(layout, b, i)
      BY <3>1
    <3>3. text = Batch(layout)
      BY <3>2 DEF BatchInv, Sent
    <3>4. pc = "start" => answers = <<>>
      BY <3>2 DEF BatchInv
    <3>5. pc = "loop" => AnswersFollow(layout, i)
      BY <3>2, <3>3 DEF BatchInv, Answered, AnswersFollow
    <3>6. pc = "append" => AnswersFollow(layout, i - 1)
      BY <3>2, <3>3 DEF BatchInv, Answered, AnswersFollow
    <3>7. pc = "done" => AnswersFollow(layout, i)
      BY <3>2, <3>3 DEF BatchInv, Answered, AnswersFollow
    <3>8. pc \in {"start", "loop", "append", "done"}
      BY <3>2 DEF BatchInv
    <3>9. QED
      BY <2>2, <3>4, <3>5, <3>6, <3>7, <3>8
  <2>4. CASE ~sent.batch
    <3>1. SingleInv(layout)
      BY <1>1, <2>4
    <3>2. text = Single(layout)
      BY <3>1 DEF SingleInv, Sent
    <3>3. pc = "start" => answers = <<>>
      BY <3>1 DEF SingleInv
    <3>4. pc = "done" => AnswersFollow(layout, 1)
      BY <3>1, <3>2 DEF SingleInv, Answered, AnswersFollow
    <3>5. pc \in {"start", "done"}
      BY <3>1 DEF SingleInv
    <3>6. QED
      BY <2>2, <3>3, <3>4, <3>5
  <2>5. QED
    BY <2>3, <2>4
<1>5. PICK k : AnswersFollow(layout, k)
  BY <1>4
<1>6. IsLayout(layout)
  BY LayoutAssumption
<1>7. /\ Follows(answers, Asked, layout, text, text, k)
      /\ pc = "done" /\ ~oom => k = Len(Asked) /\ FollowsAll(answers, Asked, layout, text, text, k)
  BY <1>5 DEF AnswersFollow
<1>8. \A i \in DOMAIN Asked : IsRequest(Asked[i]) /\ Asked[i].id.len <= 29
  BY <1>3
<1> HIDE DEF Asked
<1>9. QED
  BY <1>3, <1>6, <1>7, <1>8, AnswersOwned

\* The client has sent rs as the text full, of which n tokens are there.
Arrived(rs, batch, full, n) ==
  /\ n \in 1 .. Len(full) /\ text \in Truncated(full, n)
  /\ sent = [batch |-> batch, requests |-> rs, whole |-> text = full]

\* The texts of clients are texts of tokens, objects begin with a brace and
\* batches with a bracket.
LEMMA FullIs ==
  ASSUME NEW rs \in Batches, NEW layout \in Layouts
  PROVE  /\ \E b : BatchText(RenderBatch(rs, layout), Items(rs, layout), b, rs)
         /\ RenderBatch(rs, layout) \in Seq(Tok)
         /\ Len(rs) = 1 => Render(rs[1], layout) \in Seq(Tok)
<1>1. IsLayout(layout) /\ IsSeq(rs) /\ (\A i \in DOMAIN rs : IsRequest(rs[i])) /\ DOMAIN rs = 1 .. Len(rs)
  BY RequestsAre, LayoutAssumption
<1>2. PICK b : BatchText(RenderBatch(rs, layout), Items(rs, layout), b, rs)
  BY <1>1, BatchTextIs
<1>3. RenderBatch(rs, layout) \in Seq(Tok)
  BY <1>2 DEF BatchText, Elements, IsArrayText, LaidOut
<1>4. ASSUME Len(rs) = 1 PROVE Render(rs[1], layout) \in Seq(Tok)
  <2>1. 1 \in DOMAIN rs
    BY <1>1, <1>4
  <2>2. QED
    BY <1>1, <2>1, RenderOk
<1>5. QED
  BY <1>2, <1>3, <1>4

\* What is fixed is so from the start.
LEMMA ArrivedSent ==
  ASSUME NEW rs \in Batches, NEW layout \in Layouts, NEW batch, NEW full \in Seq(Tok), NEW n,
         Arrived(rs, batch, full, n)
  PROVE  Sent(layout, full) /\ Asked = rs /\ sent.batch = batch
<1>1. CutOf(text, full) /\ Len(text) = n /\ n \in 1 .. Len(full)
  BY TruncatedIs DEF Arrived
<1>2. Len(full) \in Nat
  OBVIOUS
<1>3. sent.batch = batch /\ sent.requests = rs /\ sent.whole = (text = full)
  BY DEF Arrived
<1>4. 1 <= Len(text)
  BY <1>1, <1>2
<1>5. QED
  BY <1>1, <1>3, <1>4 DEF Sent, Asked

\* The invariant holds at the start.
LEMMA InitInv == Init => DispatchInv
<1> SUFFICES ASSUME Init PROVE DispatchInv
  OBVIOUS
<1>1. PICK layout \in Layouts, rs \in Batches, batch \in BOOLEAN :
        /\ batch \/ (Len(rs) = 1 /\ rs[1].members # {})
        /\ \E n : Arrived(rs, batch, IF batch THEN RenderBatch(rs, layout) ELSE Render(rs[1], layout), n)
  BY ZenonT(60) DEF Init, Arrived
<1>2. pc = "start" /\ ran = <<>> /\ answers = <<>>
  BY DEF Init
<1>3. CASE batch
  <2>1. PICK n : Arrived(rs, batch, RenderBatch(rs, layout), n)
    BY <1>1, <1>3
  <2>2. Sent(layout, RenderBatch(rs, layout)) /\ Asked = rs /\ sent.batch = batch
    BY <2>1, FullIs, ArrivedSent
  <2>3. PICK b : BatchText(RenderBatch(rs, layout), Items(rs, layout), b, rs)
    BY FullIs
  <2>4. Len(rs) \in Nat
    BY RequestsAre
  <2>5. 0 \in 0 .. Len(rs) /\ 0 \in Nat
    BY <2>4
  <2>6. BatchInv(layout, b, 0)
    BY <1>2, <2>2, <2>3, <2>5 DEF BatchInv, Batch
  <2>7. QED
    BY <1>3, <2>2, <2>5, <2>6 DEF DispatchInv
<1>4. CASE ~batch
  <2>1. PICK n : Arrived(rs, batch, Render(rs[1], layout), n)
    BY <1>1, <1>4
  <2>2. Len(rs) = 1 /\ rs[1].members # {}
    BY <1>1, <1>4
  <2>3. Sent(layout, Render(rs[1], layout)) /\ Asked = rs /\ sent.batch = batch
    BY <2>1, <2>2, FullIs, ArrivedSent
  <2>4. SingleInv(layout)
    BY <1>2, <2>2, <2>3 DEF SingleInv, Single
  <2>5. QED
    BY <1>4, <2>3, <2>4 DEF DispatchInv
<1>5. QED
  BY <1>3, <1>4

\* Anything but an object is passed: one more element is behind.
LEMMA OtherKeeps ==
  ASSUME NEW layout, NEW b, NEW i \in Nat, BatchInv(layout, b, i), batch_other
  PROVE  BatchInv(layout, b, i + 1)'
<1> DEFINE rs == Asked
           E == Batch(layout)
           items == Items(rs, layout)
           a == Look(text, p)
<1>1. /\ InBatch(text, E, items, b, rs, i, p) /\ Follows(ran, rs, layout, text, E, i)
      /\ Follows(answers, rs, layout, text, E, i)
      /\ ~oom => FollowsAll(answers, rs, layout, text, E, i)
  BY DEF BatchInv, batch_other, Here, Taken, Answered
<1>2. a = Ahead
  BY DEF Look, Ahead
<1>3. At(text, a).k \notin {"{", "]", "nul"}
  BY <1>2 DEF batch_other
<1>4. OverOrNext(text, E, b, rs, i, a)
  BY <1>1, AheadIs
<1>5. i < Len(rs) /\ Comes(text, b, i, a) /\ rs[i + 1].members = {}
  BY <1>3, <1>4 DEF Over, OverOrNext
<1>6. InBatch(text, E, items, b, rs, i + 1, a + 1)
  BY <1>1, <1>5, TokenPassed
<1>7. /\ Follows(ran, rs, layout, text, E, i + 1) /\ Follows(answers, rs, layout, text, E, i + 1)
      /\ ~oom => FollowsAll(answers, rs, layout, text, E, i + 1)
  BY <1>1, <1>5, FollowsSkip
<1>8. i + 1 \in 0 .. Len(rs) /\ BatchText(E, items, b, rs)
  BY <1>6 DEF InBatch
<1>9. Sent(layout, E)
  BY DEF BatchInv
<1>10. /\ pc = "loop" /\ pc' = "loop" /\ p' = a + 1 /\ sent' = sent /\ text' = text /\ oom' = oom
       /\ ran' = ran /\ answers' = answers /\ single_resp' = single_resp
  BY <1>2 DEF batch_other
<1> HIDE DEF a
<1>11. QED
  BY <1>6, <1>7, <1>8, <1>9, <1>10 DEF BatchInv, Sent, Here, Taken, Answered, Batch, Asked

\* An object is passed, dispatched or not.
LEMMA ItemKeeps ==
  ASSUME NEW layout, NEW b, NEW i \in Nat, BatchInv(layout, b, i), batch_item
  PROVE  BatchInv(layout, b, i + 1)'
<1> DEFINE rs == Asked
           E == Batch(layout)
           items == Items(rs, layout)
           a == Look(text, p)
           item == NextItem
<1>1. /\ InBatch(text, E, items, b, rs, i, p) /\ Follows(ran, rs, layout, text, E, i)
      /\ Follows(answers, rs, layout, text, E, i)
      /\ ~oom => FollowsAll(answers, rs, layout, text, E, i)
  BY DEF BatchInv, batch_item, Here, Taken, Answered
<1>2. a = Ahead /\ item = SubSeq(text, a, PastObject(text, a) - 1)
  BY DEF Look, Ahead, NextItem
<1>3. At(text, a).k = "{"
  BY <1>2 DEF batch_item
<1>4. OverOrNext(text, E, b, rs, i, a)
  BY <1>1, AheadIs
<1>5. i < Len(rs) /\ Comes(text, b, i, a) /\ rs[i + 1].members # {}
  BY <1>3, <1>4 DEF Over, OverOrNext
<1>6. /\ CutOf(item, items[i + 1]) /\ (text = E => item = items[i + 1])
      /\ InBatch(text, E, items, b, rs, i + 1, a + Len(item))
  <2>1. Passed(item, text, E, items, b, rs, i, a)
    BY <1>1, <1>2, <1>5, ObjectTaken
  <2>2. QED
    BY <2>1 DEF Passed
<1>7. i + 1 \in 0 .. Len(rs) /\ BatchText(E, items, b, rs)
  BY <1>6 DEF InBatch
<1>8. Sent(layout, E) /\ rs \in Batches
  BY DEF BatchInv, Sent
<1>9. items[i + 1] = Render(rs[i + 1], layout)
  <2>1. DOMAIN rs = 1 .. Len(rs) /\ Len(rs) \in Nat
    BY <1>8, RequestsAre
  <2>2. i + 1 \in DOMAIN rs
    BY <1>7, <2>1
  <2>3. QED
    BY <2>2 DEF Items
<1>10. Fine(item, rs, layout, text, E, i + 1)
  BY <1>5, <1>6, <1>9 DEF Fine, Texts, CutOf
<1>11. /\ Follows(ran, rs, layout, text, E, i + 1)
       /\ Follows(Append(ran, item), rs, layout, text, E, i + 1)
       /\ Follows(answers, rs, layout, text, E, i + 1)
  BY <1>1, <1>5, <1>10, FollowsSkip, FollowsAppend
<1>12. /\ pc = "loop" /\ p' = a + Len(item) /\ sent' = sent /\ text' = text /\ oom' = oom
       /\ answers' = answers
  BY <1>2 DEF batch_item
<1>13. \/ ran' = Append(ran, item) /\ pc' = "append" /\ single_resp'.item = item
       \/ oom /\ (ran' = ran \/ ran' = Append(ran, item)) /\ pc' = "loop" /\ single_resp' = single_resp
  <2>1. pc = "loop" /\ \/ ran' = Append(ran, NextItem) /\ answered(NextItem)
                       \/ oom /\ ran' \in {ran, Append(ran, NextItem)} /\ pc' = pc /\ single_resp' = single_resp
    BY DEF batch_item
  <2>2. ASSUME NEW x, answered(x) PROVE pc' = "append" /\ single_resp'.item = x
    BY <2>2 DEF answered
  <2> HIDE DEF item
  <2>3. QED
    BY <2>1, <2>2 DEF item
<1>14. i + 1 # 0 /\ (i + 1) - 1 = i
  OBVIOUS
<1> HIDE DEF a, item
<1>15. CASE ran' = Append(ran, item) /\ pc' = "append" /\ single_resp'.item = item
  BY <1>1, <1>6, <1>7, <1>8, <1>10, <1>11, <1>12, <1>14, <1>15
     DEF BatchInv, Sent, Here, Taken, Answered, Batch, Asked
<1>16. CASE oom /\ (ran' = ran \/ ran' = Append(ran, item)) /\ pc' = "loop" /\ single_resp' = single_resp
  BY <1>6, <1>7, <1>8, <1>11, <1>12, <1>16 DEF BatchInv, Sent, Here, Taken, Answered, Batch, Asked
<1>17. QED
  BY <1>13, <1>15, <1>16

\* The buffer grows, or there is no memory and the answer is lost.
LEMMA GrowKeeps ==
  ASSUME NEW layout, NEW b, NEW i \in Nat, BatchInv(layout, b, i), batch_grow
  PROVE  BatchInv(layout, b, i)'
<1> DEFINE rs == Asked
           E == Batch(layout)
<1>1. /\ pc = "append" /\ p' = p /\ sent' = sent /\ text' = text /\ oom' = oom
      /\ answers' = answers /\ ran' = ran /\ single_resp' = single_resp
  BY DEF batch_grow
<1>2. pc' = pc \/ (oom /\ pc' = "done")
  BY DEF batch_grow, Finish
<1>3. CASE pc' = pc
  BY <1>1, <1>3 DEF BatchInv, Sent, Here, Taken, Answered, Batch, Asked
<1>4. CASE oom /\ pc' = "done"
  <2>1. i # 0 /\ Follows(answers, rs, layout, text, E, i - 1) /\ i \in 0 .. Len(rs) /\ rs \in Batches
    BY <1>1 DEF BatchInv, Answered, Sent
  <2>2. Len(rs) \in Nat
    BY <2>1, RequestsAre
  <2>3. i - 1 < Len(rs) /\ (i - 1) + 1 = i
    BY <2>1, <2>2
  <2>4. Follows(answers, rs, layout, text, E, (i - 1) + 1)
    BY <2>1, <2>3, FollowsSkip
  <2>5. Follows(answers, rs, layout, text, E, i)
    BY <2>3, <2>4
  <2>6. QED
    BY <1>1, <1>4, <2>5 DEF BatchInv, Sent, Here, Taken, Answered, Batch, Asked
<1>5. QED
  BY <1>2, <1>3, <1>4

\* The answer is appended.
LEMMA AppendKeeps ==
  ASSUME NEW layout, NEW b, NEW i \in Nat, BatchInv(layout, b, i), batch_append
  PROVE  BatchInv(layout, b, i)'
<1> DEFINE rs == Asked
           E == Batch(layout)
           item == single_resp.item
           k == i - 1
<1>1. /\ pc = "append" /\ pc' = "loop" /\ p' = p /\ sent' = sent /\ text' = text /\ oom' = oom
      /\ answers' = Append(answers, item) /\ ran' = ran
  BY DEF batch_append
<1>2. /\ i # 0 /\ Follows(answers, rs, layout, text, E, k) /\ i \in 0 .. Len(rs) /\ rs \in Batches
      /\ ~oom => FollowsAll(answers, rs, layout, text, E, k)
      /\ Fine(item, rs, layout, text, E, i)
  BY <1>1 DEF BatchInv, Answered, Sent
<1>3. Len(rs) \in Nat
  BY <1>2, RequestsAre
<1>4. k < Len(rs) /\ k + 1 = i
  BY <1>2, <1>3
<1> HIDE DEF k, item
<1>5. /\ Follows(Append(answers, item), rs, layout, text, E, k + 1)
      /\ ~oom => FollowsAll(Append(answers, item), rs, layout, text, E, k + 1)
  <2>1. Fine(item, rs, layout, text, E, k + 1)
    BY <1>2, <1>4
  <2>2. QED
    BY <1>2, <1>4, <2>1, FollowsAppend
<1>6. /\ Follows(Append(answers, item), rs, layout, text, E, i)
      /\ ~oom => FollowsAll(Append(answers, item), rs, layout, text, E, i)
  BY <1>4, <1>5
<1>7. QED
  BY <1>1, <1>6 DEF BatchInv, Sent, Here, Taken, Answered, Batch, Asked

\* The batch is over; a complete one has been read to the end.
LEMMA EndKeeps ==
  ASSUME NEW layout, NEW b, NEW i \in Nat, BatchInv(layout, b, i), batch_end
  PROVE  BatchInv(layout, b, i)'
<1> DEFINE rs == Asked
           E == Batch(layout)
           items == Items(rs, layout)
           a == Look(text, p)
<1>1. InBatch(text, E, items, b, rs, i, p)
  BY DEF BatchInv, batch_end, Here
<1>2. a = Ahead
  BY DEF Look, Ahead
<1>3. At(text, a).k \in {"]", "nul"}
  BY <1>2 DEF batch_end
<1>4. OverOrNext(text, E, b, rs, i, a)
  BY <1>1, AheadIs
<1>5. text = E => i = Len(rs)
  BY <1>3, <1>4 DEF Over, OverOrNext
<1>6. /\ pc = "loop" /\ pc' = "done" /\ p' = p /\ sent' = sent /\ text' = text /\ oom' = oom
      /\ answers' = answers /\ ran' = ran
  BY DEF batch_end, Finish
<1>7. QED
  BY <1>5, <1>6 DEF BatchInv, Sent, Here, Taken, Answered, Batch, Asked

\* The text begins with c, without a blank before it.
Begins(X, c) ==
  SkipAll(X, 1, Space) = 1 /\ At(X, 1).k = c /\ SubSeq(X, 1, Len(X)) = X

\* A text that begins with a bracket or a brace begins there for the server.
LEMMA BeginsWith ==
  ASSUME NEW X, NEW E, CutOf(X, E), 1 <= Len(X), NEW c, c \notin {"sp", "nl", "str"}, E[1] = P(c)
  PROVE  Begins(X, c)
<1> DEFINE N == Len(X)
<1>1. X \in Seq(AnyTok) /\ N \in Nat /\ 1 <= N
  BY CutLens DEF CutOf
<1>2. SubSeq(X, 1, N) = X
  <2>1. X = [x \in 1 .. N |-> X[x]]
    BY <1>1
  <2>2. SubSeq(X, 1, N) = [x \in 1 .. N |-> X[x]]
    BY <1>1
  <2>3. QED
    BY <2>1, <2>2
<1> HIDE DEF N
<1>3. 1 \in 1 .. N + 1 /\ 1 \in 1 .. N /\ 1 \in Nat \ {0}
  BY <1>1
<1>10. \A x \in 1 .. 1 - 1 : FALSE
  OBVIOUS
<1>4. E[1].k = c
  BY KindOf
<1>5. X[1] = E[1]
  <2>1. X[1] = E[1] \/ E[1].k = "str"
    BY <1>3, CutLens DEF N
  <2>2. QED
    BY <1>4, <2>1
<1>6. X[1].k = c /\ c \notin Space
  BY <1>4, <1>5 DEF Space
<1>7. SkipAll(X, 1, Space) = 1
  BY <1>1, <1>3, <1>6, <1>10, SkipAllStops DEF N
<1>8. At(X, 1).k = c
  BY <1>3, <1>6, AtEnd DEF N
<1>9. QED
  BY <1>2, <1>7, <1>8 DEF N, Begins

\* The text of a batch begins with a bracket.
LEMMA BatchBegins ==
  ASSUME NEW layout, NEW b, NEW i, BatchInv(layout, b, i)
  PROVE  Begins(text, "[")
<1>1. Batch(layout)[1] = P("[")
  BY DEF BatchInv, BatchText, Elements, IsArrayText, LaidOut
<1>2. CutOf(text, Batch(layout)) /\ 1 <= Len(text)
  BY DEF BatchInv, Sent
<1>3. QED
  BY <1>1, <1>2, BeginsWith

\* The text of one request begins with a brace.
LEMMA SingleBegins ==
  ASSUME NEW layout \in Layouts, SingleInv(layout)
  PROVE  Begins(text, "{")
<1> DEFINE r == Asked[1]
<1>1. Asked \in Batches /\ Len(Asked) = 1 /\ r.members # {}
  BY DEF SingleInv, Sent
<1>2. (\A i \in DOMAIN Asked : IsRequest(Asked[i])) /\ DOMAIN Asked = 1 .. Len(Asked)
  BY <1>1, RequestsAre
<1>3. 1 \in DOMAIN Asked
  BY <1>1, <1>2
<1>4. IsRequest(r) /\ IsLayout(layout)
  BY <1>2, <1>3, LayoutAssumption
<1> HIDE DEF r
<1>5. Closed(Render(r, layout))
  BY <1>1, <1>4, RenderOk DEF ItemOk
<1>6. Single(layout)[1] = P("{")
  BY <1>5 DEF Closed, Single, r
<1>7. CutOf(text, Single(layout)) /\ 1 <= Len(text)
  BY DEF SingleInv, Sent
<1>8. "{" \notin {"sp", "nl", "str"}
  OBVIOUS
<1>9. QED
  BY <1>6, <1>7, <1>8, BeginsWith

\* The loop begins behind the bracket, or there is no memory for a buffer.
LEMMA BeginKeeps ==
  ASSUME NEW layout, NEW b, NEW i \in Nat, BatchInv(layout, b, i), batch_begin
  PROVE  BatchInv(layout, b, i)'
<1> DEFINE rs == Asked
           E == Batch(layout)
           items == Items(rs, layout)
           N == Len(text)
<1>1. SkipAll(text, 1, Space) = 1
  BY BatchBegins DEF Begins
<1>2. /\ sent' = sent /\ text' = text /\ oom' = oom /\ answers' = answers /\ ran' = ran
      /\ pc = "start" /\ ((pc' = "loop" /\ p' = 1 + 1) \/ (oom /\ pc' = "done"))
  BY <1>1 DEF batch_begin, Finish
<1>3. /\ ran = <<>> /\ answers = <<>> /\ i = 0 /\ rs \in Batches /\ BatchText(E, items, b, rs)
      /\ CutOf(text, E) /\ 1 <= N
  BY <1>2 DEF BatchInv, Sent
<1>4. Len(rs) \in Nat /\ N \in Nat
  BY <1>3, RequestsAre, CutLens
<1>5. Follows(<<>>, rs, layout, text, E, 0) /\ FollowsAll(<<>>, rs, layout, text, E, 0)
  BY <1>4, FollowsNone
<1>6. InBatch(text, E, items, b, rs, 0, 2)
  <2> DEFINE z == Target(E, items, b, 0)
             n == Len(items)
  <2>1. Elements(E, items, b) /\ n = Len(rs)
    BY <1>3 DEF BatchText
  <2>2. n \in Nat
    BY <1>4, <2>1
  <2> HIDE DEF n
  <2>3. 0 \in 0 .. n
    BY <2>2
  <2>4. After(items, b, 0) \in 2 .. z /\ After(items, b, 0) = 2
    BY <2>1, <2>3, GapIs DEF After, n
  <2> HIDE DEF z
  <2>5. 2 \in 2 .. z
    BY <2>4
  <2>6. Between(E, items, b, 0, 2)
    BY <2>3, <2>4, <2>5 DEF Between, n, z
  <2> HIDE DEF N
  <2>7. 2 \in Nat \ {0} /\ 2 <= N + 1
    BY <1>3, <1>4
  <2>8. Place(text, E, items, b, 0, 2)
    BY <2>6, <2>7 DEF Place, N
  <2>9. QED
    BY <1>3, <2>1, <2>3, <2>8 DEF InBatch, n
<1>7. 1 + 1 = 2
  OBVIOUS
<1>8. CASE pc' = "loop" /\ p' = 1 + 1
  <2>1. p' = 2
    BY <1>7, <1>8
  <2>2. QED
    BY <1>2, <1>3, <1>5, <1>6, <1>8, <2>1 DEF BatchInv, Sent, Here, Taken, Answered, Batch, Asked
<1>9. CASE oom /\ pc' = "done"
  BY <1>2, <1>3, <1>5, <1>9 DEF BatchInv, Sent, Here, Taken, Answered, Batch, Asked
<1>10. QED
  BY <1>2, <1>8, <1>9

\* One request is dispatched and answered, or there is no memory to answer.
LEMMA SingleKeeps ==
  ASSUME NEW layout \in Layouts, SingleInv(layout), handle_single
  PROVE  SingleInv(layout)'
<1> DEFINE rs == Asked
           E == Single(layout)
<1>1. SkipAll(text, 1, Space) = 1 /\ SubSeq(text, 1, Len(text)) = text
  BY SingleBegins DEF Begins
<1>2. /\ sent' = sent /\ text' = text /\ oom' = oom /\ pc = "start" /\ pc' = "done"
      /\ ran' = <<text>> /\ (answers' = <<text>> \/ (oom /\ answers' = answers))
  BY <1>1 DEF handle_single, Finish
<1>3. /\ answers = <<>> /\ Len(rs) = 1 /\ rs[1].members # {} /\ CutOf(text, E)
  BY <1>2 DEF SingleInv, Sent
<1>4. Len(rs) \in Nat /\ 0 < Len(rs) /\ 0 + 1 = 1
  BY <1>3
<1>5. Follows(<<>>, rs, layout, text, E, 0) /\ FollowsAll(<<>>, rs, layout, text, E, 0)
  BY <1>4, FollowsNone
<1>6. Fine(text, rs, layout, text, E, 1)
  BY <1>3 DEF Fine, Texts, CutOf, Single
<1>7. Append(<<>>, text) = <<text>>
  OBVIOUS
<1>8. /\ Follows(Append(<<>>, text), rs, layout, text, E, 0 + 1)
      /\ FollowsAll(Append(<<>>, text), rs, layout, text, E, 0 + 1)
      /\ Follows(<<>>, rs, layout, text, E, 0 + 1)
  <2>1. Fine(text, rs, layout, text, E, 0 + 1)
    BY <1>4, <1>6
  <2>2. QED
    BY <1>4, <1>5, <2>1, FollowsAppend, FollowsSkip
<1>9. /\ Follows(<<text>>, rs, layout, text, E, 1) /\ FollowsAll(<<text>>, rs, layout, text, E, 1)
      /\ Follows(<<>>, rs, layout, text, E, 1)
  BY <1>4, <1>7, <1>8
<1>10. QED
  BY <1>2, <1>3, <1>9 DEF SingleInv, Sent, Taken, Answered, Single, Asked

\* Every step keeps the invariant.
LEMMA NextInv == DispatchInv /\ [Next]_vars => DispatchInv'
<1> SUFFICES ASSUME DispatchInv, [Next]_vars PROVE DispatchInv'
  OBVIOUS
<1>1. PICK layout \in Layouts :
        IF sent.batch THEN \E b : \E i \in Nat : BatchInv(layout, b, i) ELSE SingleInv(layout)
  BY DEF DispatchInv
<1>2. sent' = sent
  BY ZenonT(60) DEF Next, vars, handle_single, batch_begin, batch_other, batch_item, batch_grow, batch_append,
         batch_end
<1>3. CASE sent.batch
  <2>1. PICK b : \E i \in Nat : BatchInv(layout, b, i)
    BY <1>1, <1>3
  <2>2. PICK i \in Nat : BatchInv(layout, b, i)
    BY <2>1
  <2>3. SUFFICES \E j \in Nat : BatchInv(layout, b, j)'
    BY <1>2, <1>3 DEF DispatchInv
  <2>4. i + 1 \in Nat
    OBVIOUS
  <2>5. ~handle_single
    BY <2>2, BatchBegins DEF handle_single, Begins
  <2>6. CASE batch_begin
    BY <2>2, <2>6, BeginKeeps
  <2>7. CASE batch_other
    BY <2>2, <2>4, <2>7, OtherKeeps
  <2>8. CASE batch_item
    BY <2>2, <2>4, <2>8, ItemKeeps
  <2>9. CASE batch_grow
    BY <2>2, <2>9, GrowKeeps
  <2>10. CASE batch_append
    BY <2>2, <2>10, AppendKeeps
  <2>11. CASE batch_end
    BY <2>2, <2>11, EndKeeps
  <2>12. CASE UNCHANGED vars
    <3>1. BatchInv(layout, b, i)'
      BY <2>2, <2>12 DEF vars, BatchInv, Sent, Here, Taken, Answered, Batch, Asked
    <3>2. QED
      BY <3>1
  <2>13. QED
    BY <2>5, <2>6, <2>7, <2>8, <2>9, <2>10, <2>11, <2>12 DEF Next
<1>4. CASE ~sent.batch
  <2>1. SingleInv(layout)
    BY <1>1, <1>4
  <2>2. SUFFICES SingleInv(layout)'
    BY <1>2, <1>4 DEF DispatchInv
  <2>3. pc \in {"start", "done"}
    BY <2>1 DEF SingleInv
  <2>4. ~batch_begin
    BY <2>1, SingleBegins DEF batch_begin, Begins
  <2>5. ~(batch_other \/ batch_item \/ batch_grow \/ batch_append \/ batch_end)
    BY <2>3 DEF batch_other, batch_item, batch_grow, batch_append, batch_end
  <2>6. CASE handle_single
    BY <2>1, <2>6, SingleKeeps
  <2>7. CASE UNCHANGED vars
    BY <2>1, <2>7 DEF vars, SingleInv, Sent, Taken, Answered, Single, Asked
  <2>8. QED
    BY <2>4, <2>5, <2>6, <2>7 DEF Next
<1>5. QED
  BY <1>3, <1>4

\* Raw transactions are handed to the write path as the client means them,
\* each at most once and in order, whatever is cut off or not allocated.
THEOREM TransactionsRunAtMostOnce == Spec => []TransactionsRunOnce
<1>1. DispatchInv => TransactionsRunOnce
  BY InvRunsOnce
<1>2. QED
  BY <1>1, InitInv, NextInv, PTL DEF Spec

\* Every request of a complete text is answered with its own id and with what
\* its method and parameters ask for.
THEOREM EveryRequestItsOwnAnswer == Spec => []EachItsOwnAnswer
<1>1. DispatchInv => EachItsOwnAnswer
  BY InvOwnAnswer
<1>2. QED
  BY <1>1, InitInv, NextInv, PTL DEF Spec

----------------------------------------------------------------------------
(* The response buffer.                                                    *)

\* What is known of the buffer at each point.  WritesStayInside alone is not
\* inductive: the answer that waits to be appended has a length, and the
\* buffer that is being doubled must exist and hold what is in it already.
BufferInv ==
  /\ buf_cap \in Nat /\ buf_len \in Nat
  /\ single_resp.len \in Nat
  /\ pc \in {"start", "loop", "append", "done"}
  /\ pc = "start" => buf_cap = 0
  /\ pc \in {"loop", "append"} => buf_len + 3 <= buf_cap
  /\ pc = "done" /\ response = "sent" /\ buf_cap > 0 => buf_len < buf_cap

\* No buffer has been allocated when the request comes in.
LEMMA InitBuffer == Init => BufferInv
BY DEF Init, BufferInv, NoResp

\* Every step keeps what is known of the buffer: the bracket that opens it,
\* each round of doubling, the comma with the answer, the bracket that ends it.
LEMMA BufferStep == BufferInv /\ [Next]_vars => BufferInv'
<1> SUFFICES ASSUME BufferInv, [Next]_vars PROVE BufferInv'
  OBVIOUS
<1>1. CASE handle_single
  BY <1>1 DEF handle_single, Finish, BufferInv
<1>2. CASE batch_begin
  BY <1>2 DEF batch_begin, Finish, BufferInv
<1>3. CASE batch_other
  BY <1>3 DEF batch_other, BufferInv
<1>4. CASE batch_item
  <2>1. single_resp'.len \in Nat
    <3>1. PICK item : single_resp' = single_resp \/ answered(item)
      BY <1>4 DEF batch_item
    <3>2. CASE answered(item)
      <4>1. PICK n \in AnswerLens : single_resp' = [item |-> item, len |-> n]
        BY <3>2 DEF answered
      <4>2. n \in Nat
        BY DispatchAssumption
      <4>3. QED
        BY <4>1, <4>2
    <3>3. QED
      BY <3>1, <3>2 DEF BufferInv
  <2>2. /\ pc = "loop" /\ pc' \in {"loop", "append"}
        /\ buf_cap' = buf_cap /\ buf_len' = buf_len /\ response' = response
    BY <1>4 DEF batch_item, answered
  <2>3. QED
    BY <2>1, <2>2 DEF BufferInv
<1>5. CASE batch_grow
  BY <1>5 DEF batch_grow, Finish, BufferInv
<1>6. CASE batch_append
  BY <1>6 DEF batch_append, fits, NoResp, BufferInv
<1>7. CASE batch_end
  BY <1>7 DEF batch_end, Finish, BufferInv
<1>8. CASE UNCHANGED vars
  BY <1>8 DEF vars, BufferInv
<1>9. QED
  BY <1>1, <1>2, <1>3, <1>4, <1>5, <1>6, <1>7, <1>8 DEF Next

\* Whatever the batch and however long the answers, the writes of
\* evmdb_rpc_handle_request stay inside the response buffer and the realloc
\* at the end of the batch is never reached.
THEOREM NoWriteLeavesTheBuffer == Spec => []WritesStayInside
<1>1. BufferInv => WritesStayInside
  BY DEF BufferInv, WritesStayInside
<1>2. QED
  BY InitBuffer, BufferStep, <1>1, PTL DEF Spec

=============================================================================
