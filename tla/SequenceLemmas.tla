-------------------------- MODULE SequenceLemmas --------------------------
(***************************************************************************)
(* Induction, flattened lists of sequences and the places of their items:  *)
(* what the proofs about encoded transactions and about rendered requests  *)
(* have in common.                                                         *)
(***************************************************************************)
EXTENDS Integers, SequencesExt, WellFoundedInduction, TLAPS

----------------------------------------------------------------------------
(* Induction over the naturals, as a fact about sets: the smallest number  *)
(* outside a set has its predecessor inside.                               *)

\* A set with 0 that is closed under successor has every natural number.
LEMMA NatSetInduction ==
  ASSUME NEW S, 0 \in S, \A n \in Nat : n \in S => n + 1 \in S
  PROVE  \A n \in Nat : n \in S
<1> DEFINE T == Nat \ S
           Less == {ss \in Nat \X Nat : ss[1] < ss[2]}
<1> SUFFICES ASSUME T # {} PROVE FALSE
  OBVIOUS
<1>1. IsWellFoundedOn(Less, Nat)
  BY NatLessThanWellFounded DEF OpToRel
<1>2. PICK x \in T : \A y \in T : ~(<<y, x>> \in Less)
  <2> HIDE DEF Less
  <2>1. QED
    BY <1>1, WFMin
<1>3. \A y \in T : ~(y < x)
  BY <1>2
<1>4. x - 1 \in Nat /\ x - 1 \notin T
  BY <1>3
<1>5. QED
  BY <1>4

----------------------------------------------------------------------------
(* A list of sequences, flattened.                                         *)

\* f holds what the first items up to n are together.
IsFlat(A, items, n, f) ==
  /\ f \in [1 .. n -> Seq(A)]
  /\ f[1] = items[1]
  /\ \A i \in 2 .. n : f[i] = f[i - 1] \o items[i]

\* Every list has such a function.
LEMMA FlatExists ==
  ASSUME NEW A, NEW items \in Seq(Seq(A))
  PROVE  \A n \in Nat : n + 1 <= Len(items) => \E f : IsFlat(A, items, n + 1, f)
<1> DEFINE S == {n \in Nat : n + 1 <= Len(items) => \E f : IsFlat(A, items, n + 1, f)}
<1>0. ASSUME NEW i \in 1 .. Len(items) PROVE items[i] \in Seq(A)
  OBVIOUS
<1>1. 0 \in S
  <2> SUFFICES ASSUME 1 <= Len(items) PROVE \E f : IsFlat(A, items, 1, f)
    OBVIOUS
  <2> DEFINE f == [i \in 1 .. 1 |-> items[1]]
  <2>1. items[1] \in Seq(A)
    BY <1>0
  <2>2. IsFlat(A, items, 1, f)
    BY <2>1 DEF IsFlat
  <2>3. QED
    BY <2>2
<1>2. ASSUME NEW n \in Nat, n \in S PROVE n + 1 \in S
  <2> SUFFICES ASSUME (n + 1) + 1 <= Len(items) PROVE \E f : IsFlat(A, items, (n + 1) + 1, f)
    OBVIOUS
  <2>0. Len(items) \in Nat
    OBVIOUS
  <2>1. PICK f : IsFlat(A, items, n + 1, f)
    BY <1>2, <2>0
  <2> DEFINE last == f[n + 1] \o items[n + 2]
             g == [i \in 1 .. n + 2 |-> IF i <= n + 1 THEN f[i] ELSE last]
  <2>2. last \in Seq(A)
    <3>1. f[n + 1] \in Seq(A)
      BY <2>1 DEF IsFlat
    <3>2. items[n + 2] \in Seq(A)
      BY <1>0, <2>0
    <3>3. QED
      BY <3>1, <3>2
  <2> HIDE DEF last
  <2>3. (\A i \in 1 .. n + 1 : g[i] = f[i]) /\ g[n + 2] = last
    OBVIOUS
  <2>4. g \in [1 .. n + 2 -> Seq(A)]
    BY <2>1, <2>2 DEF IsFlat
  <2> HIDE DEF g
  <2>5. g[1] = items[1]
    BY <2>1, <2>3 DEF IsFlat
  <2>6. ASSUME NEW i \in 2 .. n + 2 PROVE g[i] = g[i - 1] \o items[i]
    <3>1. g[i - 1] = f[i - 1]
      <4>1. i - 1 \in 1 .. n + 1
        OBVIOUS
      <4>2. QED
        BY <2>3, <4>1
    <3>2. CASE i = n + 2
      <4>1. i - 1 = n + 1
        BY <3>2
      <4>2. QED
        BY <2>3, <3>1, <3>2, <4>1 DEF last
    <3>3. CASE i \in 2 .. n + 1
      <4>1. g[i] = f[i]
        BY <2>3, <3>3
      <4>2. QED
        BY <2>1, <3>1, <3>3, <4>1 DEF IsFlat
    <3>4. i = n + 2 \/ i \in 2 .. n + 1
      OBVIOUS
    <3>5. QED
      BY <3>2, <3>3, <3>4
  <2>7. IsFlat(A, items, n + 2, g)
    BY <2>4, <2>5, <2>6 DEF IsFlat
  <2>8. (n + 1) + 1 = n + 2
    OBVIOUS
  <2>9. QED
    BY <2>7, <2>8
<1> HIDE DEF S
<1>3. \A n \in Nat : n \in S
  BY <1>1, <1>2, NatSetInduction
<1>4. QED
  BY <1>3 DEF S

\* It does not depend on what follows.
LEMMA FlatUnique ==
  ASSUME NEW A, NEW items \in Seq(Seq(A)), NEW x, NEW n \in Nat \ {0}, NEW f, NEW g, n = Len(items),
         IsFlat(A, items, n, f), IsFlat(A, Append(items, x), n + 1, g)
  PROVE  f[n] = g[n]
<1> DEFINE more == Append(items, x)
           S == {i \in Nat : i + 1 <= n => f[i + 1] = g[i + 1]}
<1>0. \A i \in 1 .. n : items[i] = more[i]
  OBVIOUS
<1> HIDE DEF more
<1>1. 0 \in S
  BY <1>0 DEF IsFlat, more
<1>2. ASSUME NEW i \in Nat, i \in S PROVE i + 1 \in S
  <2> SUFFICES ASSUME (i + 1) + 1 <= n PROVE f[(i + 1) + 1] = g[(i + 1) + 1]
    OBVIOUS
  <2>0. i + 2 \in 2 .. n /\ i + 2 \in 2 .. n + 1 /\ i + 2 \in 1 .. n
    OBVIOUS
  <2>1. /\ f[i + 2] = f[(i + 2) - 1] \o items[i + 2]
        /\ g[i + 2] = g[(i + 2) - 1] \o more[i + 2]
    BY <2>0 DEF IsFlat, more
  <2>2. (i + 2) - 1 = i + 1 /\ f[i + 1] = g[i + 1] /\ items[i + 2] = more[i + 2]
    BY <1>0, <1>2, <2>0
  <2>3. (i + 1) + 1 = i + 2
    OBVIOUS
  <2>4. QED
    BY <2>1, <2>2, <2>3
<1> HIDE DEF S
<1>3. n - 1 \in S
  <2>1. n - 1 \in Nat
    OBVIOUS
  <2>2. \A i \in Nat : i \in S
    BY <1>1, <1>2, NatSetInduction
  <2>3. QED
    BY <2>1, <2>2
<1>4. (n - 1) + 1 = n
  OBVIOUS
<1>5. QED
  BY <1>3, <1>4 DEF S

\* FlattenSeq is the function's last value.
LEMMA FlattenIs ==
  ASSUME NEW A, NEW items \in Seq(Seq(A)), items # <<>>
  PROVE  \E f : IsFlat(A, items, Len(items), f) /\ FlattenSeq(items) = f[Len(items)]
<1> DEFINE n == Len(items)
           F(f) == [i \in 1 .. n |-> IF i = 1 THEN items[i] ELSE f[i - 1] \o items[i]]
           flatten == CHOOSE f : f = F(f)
<1>0. n \in Nat \ {0}
  OBVIOUS
<1>1. PICK f : IsFlat(A, items, n, f)
  <2>1. (n - 1) + 1 = n
    BY <1>0
  <2> HIDE DEF n
  <2>2. \E f : IsFlat(A, items, (n - 1) + 1, f)
    <3>1. n - 1 \in Nat /\ (n - 1) + 1 <= Len(items)
      BY <1>0 DEF n
    <3>2. \A m \in Nat : m + 1 <= Len(items) => \E f : IsFlat(A, items, m + 1, f)
      BY FlatExists
    <3>3. QED
      BY <3>1, <3>2
  <2>3. QED
    BY <2>1, <2>2
<1>2. FlattenSeq(items) = flatten[n]
  BY <1>0 DEF FlattenSeq
<1> HIDE DEF n
<1>3. f = F(f)
  <2>1. ASSUME NEW i \in 1 .. n PROVE f[i] = IF i = 1 THEN items[i] ELSE f[i - 1] \o items[i]
    <3>1. CASE i = 1
      BY <1>1, <3>1 DEF IsFlat
    <3>2. CASE i # 1
      <4>1. i \in 2 .. n
        BY <1>0, <3>2
      <4>2. QED
        BY <1>1, <3>2, <4>1 DEF IsFlat
    <3>3. QED
      BY <3>1, <3>2
  <2>2. f = [i \in 1 .. n |-> f[i]]
    BY <1>1 DEF IsFlat
  <2>3. QED
    BY <2>1, <2>2
<1>4. flatten = F(flatten)
  BY <1>3
<1> HIDE DEF flatten
<1>5. /\ flatten = [i \in 1 .. n |-> flatten[i]]
      /\ flatten[1] = items[1]
      /\ \A i \in 2 .. n : flatten[i] = flatten[i - 1] \o items[i]
  <2>1. \A i \in 1 .. n :
          flatten[i] = IF i = 1 THEN items[i] ELSE flatten[i - 1] \o items[i]
    BY <1>4
  <2>2. 1 \in 1 .. n /\ \A i \in 2 .. n : i \in 1 .. n /\ i # 1
    BY <1>0
  <2>3. flatten = [i \in 1 .. n |-> flatten[i]]
    BY <1>4
  <2>4. QED
    BY <2>1, <2>2, <2>3
<1> DEFINE S == {i \in Nat : i + 1 <= n => flatten[i + 1] = f[i + 1]}
<1>6. 0 \in S
  BY <1>1, <1>5 DEF IsFlat
<1>7. ASSUME NEW i \in Nat, i \in S PROVE i + 1 \in S
  <2> SUFFICES ASSUME (i + 1) + 1 <= n PROVE flatten[(i + 1) + 1] = f[(i + 1) + 1]
    OBVIOUS
  <2>1. i + 2 \in 2 .. n
    BY <1>0
  <2>2. /\ f[i + 2] = f[(i + 2) - 1] \o items[i + 2]
        /\ flatten[i + 2] = flatten[(i + 2) - 1] \o items[i + 2]
    BY <1>1, <1>5, <2>1 DEF IsFlat
  <2>3. (i + 2) - 1 = i + 1 /\ f[i + 1] = flatten[i + 1]
    BY <1>0, <1>7
  <2>4. (i + 1) + 1 = i + 2
    OBVIOUS
  <2>5. QED
    BY <2>2, <2>3, <2>4
<1> HIDE DEF S
<1>8. n - 1 \in S
  BY <1>0, <1>6, <1>7, NatSetInduction, SMTT(60)
<1>9. flatten[n] = f[n]
  <2>1. (n - 1) + 1 = n
    BY <1>0
  <2>2. QED
    BY <1>0, <1>8, <2>1 DEF S
<1>10. QED
  BY <1>1, <1>2, <1>9 DEF n

\* The two equations of FlattenSeq.
LEMMA FlattenEmpty == FlattenSeq(<<>>) = <<>>
BY DEF FlattenSeq

\* Flattening a list with one more item appends that item.
LEMMA FlattenAppend ==
  ASSUME NEW A, NEW items \in Seq(Seq(A)), NEW x \in Seq(A)
  PROVE  /\ FlattenSeq(items) \in Seq(A)
         /\ FlattenSeq(Append(items, x)) = FlattenSeq(items) \o x
<1> DEFINE more == Append(items, x)
           n == Len(items)
<1>1. /\ more \in Seq(Seq(A)) /\ Len(more) = n + 1 /\ more # <<>> /\ more[n + 1] = x
      /\ n \in Nat
  <2> DEFINE B == Seq(A)
  <2>1. x \in B /\ items \in Seq(B)
    OBVIOUS
  <2> HIDE DEF B
  <2>2. /\ more \in Seq(B) /\ Len(more) = n + 1 /\ more # <<>> /\ more[n + 1] = x
        /\ n \in Nat
    BY <2>1
  <2>3. QED
    BY <2>2 DEF B
<1>2. PICK g : IsFlat(A, more, n + 1, g) /\ FlattenSeq(more) = g[n + 1]
  BY <1>1, FlattenIs
<1>3. CASE items = <<>>
  <2>1. n = 0 /\ FlattenSeq(items) = <<>> /\ more[1] = x
    BY <1>3, FlattenEmpty
  <2>2. g[1] = x
    BY <1>2, <2>1 DEF IsFlat
  <2>3. <<>> \in Seq(A) /\ <<>> \o x = x
    OBVIOUS
  <2>4. FlattenSeq(more) = x
    BY <1>2, <2>1, <2>2
  <2>5. QED
    BY <2>1, <2>3, <2>4
<1>4. CASE items # <<>>
  <2>1. PICK f : IsFlat(A, items, n, f) /\ FlattenSeq(items) = f[n]
    BY <1>4, FlattenIs
  <2>2. n \in Nat \ {0}
    BY <1>1, <1>4
  <2>3. f[n] = g[n]
    BY <1>2, <2>1, <2>2, FlatUnique
  <2> HIDE DEF n
  <2>4. g[n + 1] = g[(n + 1) - 1] \o more[n + 1]
    <3>1. n + 1 \in 2 .. n + 1
      BY <2>2
    <3>2. QED
      BY <1>2, <3>1 DEF IsFlat
  <2>5. f[n] \in Seq(A)
    BY <2>1, <2>2 DEF IsFlat
  <2>6. (n + 1) - 1 = n
    BY <2>2
  <2>7. QED
    BY <1>1, <1>2, <2>1, <2>3, <2>4, <2>5, <2>6
<1>5. QED
  BY <1>3, <1>4

\* The bytes of a list of two items.

\* e stands in the data behind the first pos elements.
Holds(data, pos, e) ==
  /\ pos \in Nat /\ pos + Len(e) <= Len(data)
  /\ \A i \in 1 .. Len(e) : data[pos + i] = e[i]

\* What stands in the data stays where it is when data are appended; what is
\* appended stands behind them.
LEMMA HoldsMore ==
  ASSUME NEW A, NEW d \in Seq(A), NEW x \in Seq(A)
  PROVE  /\ \A pos, e : e \in Seq(A) /\ Holds(d, pos, e) => Holds(d \o x, pos, e)
         /\ Holds(d \o x, Len(d), x)
<1>1. /\ d \o x \in Seq(A) /\ Len(d \o x) = Len(d) + Len(x)
      /\ \A i \in 1 .. Len(d) : (d \o x)[i] = d[i]
      /\ \A i \in 1 .. Len(x) : (d \o x)[Len(d) + i] = x[i]
      /\ Len(d) \in Nat /\ Len(x) \in Nat
  OBVIOUS
<1>2. ASSUME NEW pos, NEW e \in Seq(A), Holds(d, pos, e) PROVE Holds(d \o x, pos, e)
  <2>1. Len(e) \in Nat /\ pos \in Nat /\ pos + Len(e) <= Len(d)
    BY <1>2 DEF Holds
  <2>2. \A i \in 1 .. Len(e) : pos + i \in 1 .. Len(d)
    BY <1>1, <2>1
  <2>3. QED
    BY <1>1, <1>2, <2>1, <2>2 DEF Holds
<1>3. Holds(d \o x, Len(d), x)
  BY <1>1 DEF Holds
<1>4. QED
  BY <1>2, <1>3

\* Where the items of a list stand in it.
IsOffsets(items, n, off) ==
  /\ off \in [0 .. n -> Nat]
  /\ off[0] = 0 /\ off[n] = Len(FlattenSeq(items))
  /\ \A i \in 1 .. n : /\ Holds(FlattenSeq(items), off[i - 1], items[i])
                       /\ off[i] = off[i - 1] + Len(items[i])

\* The items of a list stand in it one behind the other.
LEMMA ItemsStand ==
  ASSUME NEW A
  PROVE  \A n \in Nat : \A items \in Seq(Seq(A)) : Len(items) = n => \E off : IsOffsets(items, n, off)
<1> DEFINE S == {n \in Nat : \A items \in Seq(Seq(A)) : Len(items) = n => \E off : IsOffsets(items, n, off)}
<1>1. 0 \in S
  <2> SUFFICES ASSUME NEW items \in Seq(Seq(A)), Len(items) = 0 PROVE \E off : IsOffsets(items, 0, off)
    OBVIOUS
  <2>1. FlattenSeq(items) = <<>>
    BY FlattenEmpty
  <2>2. IsOffsets(items, 0, [i \in 0 .. 0 |-> 0])
    BY <2>1 DEF IsOffsets
  <2>3. QED
    BY <2>2
<1>2. ASSUME NEW n \in Nat, n \in S PROVE n + 1 \in S
  <2> SUFFICES ASSUME NEW items \in Seq(Seq(A)), Len(items) = n + 1
               PROVE  \E off : IsOffsets(items, n + 1, off)
    OBVIOUS
  <2>1. PICK t \in Seq(Seq(A)), x \in Seq(A) :
          /\ items = Append(t, x) /\ Len(t) = n
          /\ \A i \in 1 .. n : t[i] = items[i]
          /\ x = items[n + 1]
    <3> DEFINE B == Seq(A)
               t == SubSeq(items, 1, n)
               x == items[n + 1]
    <3>1. items \in Seq(B)
      OBVIOUS
    <3> HIDE DEF B
    <3>2. /\ t \in Seq(B) /\ Len(t) = n /\ (\A i \in 1 .. n : t[i] = items[i])
          /\ x \in B
      BY <3>1
    <3> HIDE DEF t
    <3>3. items = Append(t, x)
      BY <3>1, <3>2
    <3>4. t \in Seq(Seq(A)) /\ x \in Seq(A)
      BY <3>2 DEF B
    <3> HIDE DEF x
    <3>5. x = items[n + 1]
      BY DEF x
    <3>6. QED
      BY <3>2, <3>3, <3>4, <3>5
  <2>2. PICK off : IsOffsets(t, n, off)
    BY <1>2, <2>1
  <2>3. FlattenSeq(t) \in Seq(A) /\ FlattenSeq(items) = FlattenSeq(t) \o x
    BY <2>1, FlattenAppend
  <2> DEFINE d == FlattenSeq(t)
             g == [i \in 0 .. n + 1 |-> IF i <= n THEN off[i] ELSE Len(d) + Len(x)]
  <2>4. /\ d \in Seq(A) /\ Len(d) \in Nat /\ Len(x) \in Nat /\ Len(d \o x) = Len(d) + Len(x)
    BY <2>3
  <2> HIDE DEF d
  <2>5. (\A i \in 0 .. n : g[i] = off[i]) /\ g[n + 1] = Len(d) + Len(x)
    OBVIOUS
  <2>6. g \in [0 .. n + 1 -> Nat]
    BY <2>2, <2>4 DEF IsOffsets
  <2> HIDE DEF g
  <2>7. g[0] = 0 /\ g[n + 1] = Len(FlattenSeq(items))
    BY <2>2, <2>3, <2>4, <2>5 DEF IsOffsets, d
  <2>8. ASSUME NEW i \in 1 .. n + 1
        PROVE  Holds(d \o x, g[i - 1], items[i]) /\ g[i] = g[i - 1] + Len(items[i])
    <3>1. CASE i \in 1 .. n
      <4>1. g[i] = off[i] /\ g[i - 1] = off[i - 1] /\ items[i] = t[i]
        BY <2>1, <2>5, <3>1
      <4>2. Holds(d, off[i - 1], t[i]) /\ off[i] = off[i - 1] + Len(t[i])
        BY <2>2, <3>1 DEF IsOffsets, d
      <4>3. t[i] \in Seq(A)
        BY <2>1, <3>1
      <4>4. Holds(d \o x, off[i - 1], t[i])
        BY <2>4, <4>2, <4>3, HoldsMore
      <4>5. QED
        BY <4>1, <4>2, <4>4
    <3>2. CASE i = n + 1
      <4>1. i - 1 = n /\ g[n] = off[n] /\ off[n] = Len(d)
        BY <2>2, <2>5, <3>2 DEF IsOffsets, d
      <4>2. Holds(d \o x, Len(d), x)
        BY <2>4, HoldsMore
      <4>3. QED
        BY <2>1, <2>5, <3>2, <4>1, <4>2
    <3>3. i \in 1 .. n \/ i = n + 1
      OBVIOUS
    <3>4. QED
      BY <3>1, <3>2, <3>3
  <2>9. IsOffsets(items, n + 1, g)
    BY <2>3, <2>6, <2>7, <2>8 DEF IsOffsets, d
  <2>10. QED
    BY <2>9
<1> HIDE DEF S
<1>3. \A n \in Nat : n \in S
  BY <1>1, <1>2, NatSetInduction
<1>4. QED
  BY <1>3 DEF S

\* What stands in the data is what is cut out of them.
LEMMA CutOut ==
  ASSUME NEW A, NEW data \in Seq(A), NEW e \in Seq(A), NEW pos, Holds(data, pos, e)
  PROVE  SubSeq(data, pos + 1, pos + Len(e)) = e
<1>1. pos \in Nat /\ Len(e) \in Nat /\ pos + Len(e) <= Len(data) /\ Len(data) \in Nat
  BY DEF Holds
<1> DEFINE c == SubSeq(data, pos + 1, pos + Len(e))
<1>2. c \in Seq(A) /\ Len(c) = Len(e) /\ \A i \in 1 .. Len(e) : c[i] = data[pos + i]
  BY <1>1
<1> HIDE DEF c
<1>3. \A i \in 1 .. Len(e) : c[i] = e[i]
  BY <1>2 DEF Holds
<1>4. c = e
  BY <1>2, <1>3
<1>5. QED
  BY <1>4 DEF c

\* Later items stand further behind, and nothing but items is there.
LEMMA OffsetsCover ==
  ASSUME NEW items, NEW n \in Nat, NEW off, IsOffsets(items, n, off),
         \A i \in 1 .. n : Len(items[i]) \in Nat
  PROVE  /\ \A i, j \in 0 .. n : i <= j => off[i] <= off[j]
         /\ \A q \in 1 .. off[n] : \E i \in 1 .. n : q \in off[i - 1] + 1 .. off[i]
<1>0. \A i \in 0 .. n : off[i] \in Nat
  BY DEF IsOffsets
<1>00. ASSUME NEW k \in Nat, k + 1 <= n
       PROVE  off[k + 1] = off[k] + Len(items[k + 1]) /\ off[k] <= off[k + 1]
  <2>1. k + 1 \in 1 .. n /\ (k + 1) - 1 = k
    BY <1>00
  <2>2. off[k + 1] = off[(k + 1) - 1] + Len(items[k + 1]) /\ Len(items[k + 1]) \in Nat
    BY <2>1 DEF IsOffsets
  <2>3. off[k] \in Nat
    BY <1>0, <1>00
  <2>4. QED
    BY <2>1, <2>2, <2>3
<1> DEFINE S == {k \in Nat : k <= n =>
             /\ \A i \in 0 .. k : off[i] <= off[k]
             /\ \A q \in 1 .. off[k] : \E i \in 1 .. k : q \in off[i - 1] + 1 .. off[i]}
<1>1. 0 \in S
  <2>1. off[0] = 0
    BY DEF IsOffsets
  <2>2. QED
    BY <2>1
<1>2. ASSUME NEW k \in Nat, k \in S PROVE k + 1 \in S
  <2> SUFFICES ASSUME k + 1 <= n
               PROVE  /\ \A i \in 0 .. k + 1 : off[i] <= off[k + 1]
                      /\ \A q \in 1 .. off[k + 1] :
                           \E i \in 1 .. k + 1 : q \in off[i - 1] + 1 .. off[i]
    OBVIOUS
  <2>1. /\ \A i \in 0 .. k : off[i] <= off[k]
        /\ \A q \in 1 .. off[k] : \E i \in 1 .. k : q \in off[i - 1] + 1 .. off[i]
    BY <1>2
  <2>2. off[k] \in Nat /\ off[k + 1] \in Nat /\ off[k] <= off[k + 1]
    BY <1>0, <1>00
  <2>3. \A i \in 0 .. k + 1 : off[i] <= off[k + 1]
    <3> TAKE i \in 0 .. k + 1
    <3>1. CASE i = k + 1
      BY <2>2, <3>1
    <3>2. CASE i \in 0 .. k
      BY <1>0, <2>1, <2>2, <3>2
    <3>3. QED
      BY <3>1, <3>2
  <2>4. ASSUME NEW q \in 1 .. off[k + 1]
        PROVE  \E i \in 1 .. k + 1 : q \in off[i - 1] + 1 .. off[i]
    <3>1. CASE q <= off[k]
      <4>1. q \in 1 .. off[k]
        BY <2>2, <3>1
      <4>2. QED
        BY <2>1, <4>1
    <3>2. CASE ~(q <= off[k])
      <4>1. (k + 1) - 1 = k /\ k + 1 \in 1 .. k + 1
        OBVIOUS
      <4>2. q \in off[k] + 1 .. off[k + 1]
        BY <2>2, <3>2
      <4>3. QED
        BY <4>1, <4>2
    <3>3. QED
      BY <3>1, <3>2
  <2>5. QED
    BY <2>3, <2>4
<1> HIDE DEF S
<1>3. \A k \in Nat : k \in S
  BY <1>1, <1>2, NatSetInduction
<1>4. ASSUME NEW i \in 0 .. n, NEW j \in 0 .. n, i <= j PROVE off[i] <= off[j]
  <2>1. j \in S /\ i \in 0 .. j /\ j <= n
    BY <1>3, <1>4
  <2>2. QED
    BY <2>1 DEF S
<1>5. n \in S
  BY <1>3
<1>6. QED
  BY <1>4, <1>5 DEF S

=============================================================================
