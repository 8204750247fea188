--------------------------- MODULE TxCodecProofs ---------------------------
(***************************************************************************)
(* What TxCodec's encoders and decoders do for transactions of every       *)
(* content.  Hex texts read back as the bytes they were written from, and  *)
(* the RLP the wallet writes reads back as its fields, whatever their      *)
(* widths and the length of the data; tx.c's second encoder and            *)
(* executor.c's own write what RLP's definition says.  From this the five  *)
(* properties of TxCodec follow for every set of transactions a wallet can *)
(* send (WalletAssumption), every writing of hex and every signer.         *)
(*                                                                         *)
(* The facts about strings of any length are proved by induction, for      *)
(* which NatSetInduction states the principle about sets.                  *)
(***************************************************************************)
EXTENDS TxCodec, SequenceLemmas

----------------------------------------------------------------------------
(* Numbers and their bytes.                                                *)

\* A byte is a number, and so is an element of a byte string.
LEMMA ByteIsNat == \A b \in Byte : b \in Nat /\ b < 256
BY DEF Byte

\* What a byte string holds are bytes.
LEMMA ByteAt ==
  ASSUME NEW s \in Seq(Byte), NEW i \in 1 .. Len(s)
  PROVE  s[i] \in Byte /\ s[i] \in Nat
<1>1. s[i] \in Byte
  OBVIOUS
<1>2. QED
  BY <1>1, ByteIsNat

\* f holds the values of the prefixes of s up to n bytes.
IsValue(s, n, f) ==
  /\ f \in [0 .. n -> Nat]
  /\ f[0] = 0
  /\ \A i \in 1 .. n : f[i] = 256 * f[i - 1] + s[i]

\* Every byte string has these values.
LEMMA ValueExists ==
  ASSUME NEW s \in Seq(Byte)
  PROVE  \A n \in Nat : n <= Len(s) => \E f : IsValue(s, n, f)
<1> DEFINE S == {n \in Nat : n <= Len(s) => \E f : IsValue(s, n, f)}
<1>1. 0 \in S
  <2>1. IsValue(s, 0, [i \in 0 .. 0 |-> 0])
    BY DEF IsValue
  <2>2. QED
    BY <2>1
<1>2. ASSUME NEW n \in Nat, n \in S PROVE n + 1 \in S
  <2> SUFFICES ASSUME n + 1 <= Len(s) PROVE \E f : IsValue(s, n + 1, f)
    OBVIOUS
  <2>1. PICK f : IsValue(s, n, f)
    BY <1>2
  <2>2. s[n + 1] \in Nat
    BY ByteAt
  <2> DEFINE g == [i \in 0 .. n + 1 |-> IF i <= n THEN f[i] ELSE 256 * f[n] + s[n + 1]]
  <2>3. g \in [0 .. n + 1 -> Nat]
    BY <2>1, <2>2 DEF IsValue
  <2>4. ASSUME NEW i \in 1 .. n + 1 PROVE g[i] = 256 * g[i - 1] + s[i]
    <3>1. CASE i = n + 1
      BY <3>1
    <3>2. CASE i \in 1 .. n
      BY <2>1, <3>2 DEF IsValue
    <3>3. QED
      BY <3>1, <3>2
  <2>5. g[0] = 0
    BY <2>1 DEF IsValue
  <2> HIDE DEF g
  <2>6. IsValue(s, n + 1, g)
    BY <2>3, <2>4, <2>5 DEF IsValue
  <2>7. QED
    BY <2>6
<1> HIDE DEF S
<1>3. \A n \in Nat : n \in S
  BY <1>1, <1>2, NatSetInduction
<1>4. QED
  BY <1>3 DEF S

\* The value of a prefix depends on the prefix only.
LEMMA ValueUnique ==
  ASSUME NEW s, NEW b, NEW n \in Nat, NEW f, NEW g, s \in Seq(Byte), n = Len(s),
         IsValue(s, n, f), IsValue(Append(s, b), n + 1, g)
  PROVE  f[n] = g[n]
<1> DEFINE t == Append(s, b)
<1>0. \A i \in 1 .. n : s[i] = t[i]
  OBVIOUS
<1> HIDE DEF t
<1> DEFINE S == {i \in Nat : i <= n => f[i] = g[i]}
<1>1. 0 \in S
  BY DEF IsValue
<1>2. ASSUME NEW i \in Nat, i \in S PROVE i + 1 \in S
  <2> SUFFICES ASSUME i + 1 <= n PROVE f[i + 1] = g[i + 1]
    OBVIOUS
  <2>1. /\ f[i + 1] = 256 * f[(i + 1) - 1] + s[i + 1]
        /\ g[i + 1] = 256 * g[(i + 1) - 1] + t[i + 1]
        /\ s[i + 1] = t[i + 1]
    BY <1>0 DEF IsValue, t
  <2>2. (i + 1) - 1 = i /\ f[i] = g[i]
    BY <1>2
  <2>3. QED
    BY <2>1, <2>2
<1> HIDE DEF S
<1>3. \A i \in Nat : i \in S
  BY <1>1, <1>2, NatSetInduction
<1>4. QED
  BY <1>3 DEF S

\* Number is the value of all the bytes.
LEMMA NumberIs ==
  ASSUME NEW s \in Seq(Byte)
  PROVE  \E f : IsValue(s, Len(s), f) /\ Number(s) = f[Len(s)]
<1> DEFINE n == Len(s)
           F(f) == [i \in 0 .. n |-> IF i = 0 THEN 0 ELSE 256 * f[i - 1] + s[i]]
           value == CHOOSE f : f = F(f)
<1>0. n \in Nat
  OBVIOUS
<1>1. PICK f : IsValue(s, n, f)
  BY ValueExists
<1>2. f = F(f)
  <2> HIDE DEF n
  <2>1. ASSUME NEW i \in 0 .. n PROVE f[i] = IF i = 0 THEN 0 ELSE 256 * f[i - 1] + s[i]
    BY <1>0, <1>1 DEF IsValue
  <2>2. f = [i \in 0 .. n |-> f[i]]
    BY <1>1 DEF IsValue
  <2>3. QED
    BY <2>1, <2>2
<1>3. value = F(value)
  BY <1>2
<1>4. Number(s) = value[n]
  BY DEF Number
<1> HIDE DEF value, n
<1>5. IsValue(s, n, value)
  <2> DEFINE S == {i \in Nat : i <= n => value[i] \in Nat}
  <2>1. value[0] = 0 /\ \A i \in 1 .. n : value[i] = 256 * value[i - 1] + s[i]
    BY <1>0, <1>3
  <2>2. 0 \in S
    BY <2>1
  <2>3. ASSUME NEW i \in Nat, i \in S PROVE i + 1 \in S
    <3> SUFFICES ASSUME i + 1 <= n PROVE value[i + 1] \in Nat
      OBVIOUS
    <3>1. value[i + 1] = 256 * value[(i + 1) - 1] + s[i + 1]
      BY <1>0, <2>1
    <3>2. s[i + 1] \in Nat
      BY ByteAt DEF n
    <3>3. (i + 1) - 1 = i /\ value[i] \in Nat
      BY <1>0, <2>3
    <3>4. QED
      BY <3>1, <3>2, <3>3
  <2> HIDE DEF S
  <2>4. \A i \in Nat : i \in S
    BY <2>2, <2>3, NatSetInduction
  <2>5. \A i \in 0 .. n : value[i] \in Nat
    BY <1>0, <2>4 DEF S
  <2>6. value = [i \in 0 .. n |-> value[i]]
    BY <1>3
  <2>7. QED
    BY <2>1, <2>5, <2>6 DEF IsValue
<1>6. QED
  BY <1>4, <1>5 DEF n

\* The number of bytes that end in b.
LEMMA NumberAppend ==
  ASSUME NEW s \in Seq(Byte), NEW b \in Byte
  PROVE  Number(s) \in Nat /\ Number(Append(s, b)) = 256 * Number(s) + b
<1> DEFINE t == Append(s, b)
<1>1. /\ t \in Seq(Byte) /\ Len(t) = Len(s) + 1 /\ t[Len(s) + 1] = b
      /\ \A i \in 1 .. Len(s) : s[i] = t[i]
  OBVIOUS
<1>2. PICK f : IsValue(s, Len(s), f) /\ Number(s) = f[Len(s)]
  BY NumberIs
<1>3. PICK g : IsValue(t, Len(t), g) /\ Number(t) = g[Len(t)]
  BY <1>1, NumberIs
<1> HIDE DEF t
<1>4. f[Len(s)] = g[Len(s)]
  BY <1>1, <1>2, <1>3, ValueUnique DEF t
<1>5. g[Len(s) + 1] = 256 * g[(Len(s) + 1) - 1] + t[Len(s) + 1]
  BY <1>1, <1>3 DEF IsValue
<1>6. Number(s) \in Nat
  BY <1>2 DEF IsValue
<1>7. QED
  BY <1>1, <1>2, <1>3, <1>4, <1>5, <1>6 DEF t

\* No bytes are zero.
LEMMA NumberEmpty == Number(<<>>) = 0
<1>1. <<>> \in Seq(Byte) /\ Len(<<>>) = 0
  OBVIOUS
<1>2. PICK f : IsValue(<<>>, 0, f) /\ Number(<<>>) = f[0]
  BY <1>1, NumberIs
<1>3. QED
  BY <1>2 DEF IsValue

\* A number without its last byte, and that byte.
High(n) == n \div 256
Low(n) == n % 256

\* f holds the bytes of the numbers up to m.
IsBytes(m, f) ==
  /\ f \in [0 .. m -> Seq(Byte)]
  /\ f[0] = <<>>
  /\ \A n \in 1 .. m : f[n] = Append(f[High(n)], Low(n))

\* n without its last byte is smaller.
LEMMA DivSmaller ==
  ASSUME NEW n \in Nat \ {0}
  PROVE  /\ High(n) \in Nat /\ High(n) < n /\ High(n) \in 0 .. n - 1
         /\ Low(n) \in Byte /\ Low(n) \in Nat
         /\ n = 256 * High(n) + Low(n)
BY DEF Byte, High, Low

\* A byte put behind a number comes off again.
LEMMA ComposeByte ==
  ASSUME NEW q \in Nat, NEW b \in Nat, b < 256
  PROVE  High(256 * q + b) = q /\ Low(256 * q + b) = b
BY DEF High, Low

\* Every number up to any bound has bytes.
LEMMA BytesExist == \A m \in Nat : \E f : IsBytes(m, f)
<1> DEFINE S == {m \in Nat : \E f : IsBytes(m, f)}
<1>1. 0 \in S
  <2>1. <<>> \in Seq(Byte)
    OBVIOUS
  <2>2. IsBytes(0, [i \in 0 .. 0 |-> <<>>])
    BY <2>1 DEF IsBytes
  <2>3. QED
    BY <2>2
<1>2. ASSUME NEW m \in Nat, m \in S PROVE m + 1 \in S
  <2>1. PICK f : IsBytes(m, f)
    BY <1>2
  <2>2. High(m + 1) \in 0 .. m /\ Low(m + 1) \in Byte
    BY DivSmaller
  <2> DEFINE last == Append(f[High(m + 1)], Low(m + 1))
             g == [i \in 0 .. m + 1 |-> IF i <= m THEN f[i] ELSE last]
  <2>3. last \in Seq(Byte)
    <3>1. f[High(m + 1)] \in Seq(Byte)
      BY <2>1, <2>2 DEF IsBytes
    <3>2. QED
      BY <2>2, <3>1
  <2> HIDE DEF last
  <2>4. (\A i \in 0 .. m : g[i] = f[i]) /\ g[m + 1] = last
    OBVIOUS
  <2>5. g \in [0 .. m + 1 -> Seq(Byte)]
    BY <2>1, <2>3 DEF IsBytes
  <2> HIDE DEF g
  <2>6. ASSUME NEW n \in 1 .. m + 1 PROVE g[n] = Append(g[High(n)], Low(n))
    <3>1. High(n) \in 0 .. m
      BY DivSmaller
    <3>2. g[High(n)] = f[High(n)]
      BY <2>4, <3>1
    <3>3. CASE n = m + 1
      BY <2>4, <3>2, <3>3 DEF last
    <3>4. CASE n \in 1 .. m
      <4>1. g[n] = f[n]
        BY <2>4, <3>4
      <4>2. QED
        BY <2>1, <3>2, <3>4, <4>1 DEF IsBytes
    <3>5. n = m + 1 \/ n \in 1 .. m
      OBVIOUS
    <3>6. QED
      BY <3>3, <3>4, <3>5
  <2>7. g[0] = <<>>
    BY <2>1, <2>4 DEF IsBytes
  <2>8. IsBytes(m + 1, g)
    BY <2>5, <2>6, <2>7 DEF IsBytes
  <2>9. QED
    BY <2>8
<1> HIDE DEF S
<1>3. \A m \in Nat : m \in S
  BY <1>1, <1>2, NatSetInduction
<1>4. QED
  BY <1>3 DEF S

\* The bytes of a number do not depend on the bound.
LEMMA BytesUnique ==
  ASSUME NEW m \in Nat, NEW k \in Nat, NEW f, NEW g, IsBytes(m, f), IsBytes(k, g), k <= m
  PROVE  f[k] = g[k]
<1> DEFINE S == {n \in Nat : n <= k => \A i \in 0 .. n : f[i] = g[i]}
<1>1. 0 \in S
  BY DEF IsBytes
<1>2. ASSUME NEW n \in Nat, n \in S PROVE n + 1 \in S
  <2> SUFFICES ASSUME n + 1 <= k PROVE \A i \in 0 .. n + 1 : f[i] = g[i]
    OBVIOUS
  <2>1. \A i \in 0 .. n : f[i] = g[i]
    BY <1>2
  <2>2. High(n + 1) \in 0 .. n
    BY DivSmaller
  <2>3. n + 1 \in 1 .. m /\ n + 1 \in 1 .. k
    OBVIOUS
  <2>4. /\ f[n + 1] = Append(f[High(n + 1)], Low(n + 1))
        /\ g[n + 1] = Append(g[High(n + 1)], Low(n + 1))
    BY <2>3 DEF IsBytes
  <2>5. f[n + 1] = g[n + 1]
    BY <2>1, <2>2, <2>4
  <2>6. \A i \in 0 .. n + 1 : i \in 0 .. n \/ i = n + 1
    OBVIOUS
  <2>7. QED
    BY <2>1, <2>5, <2>6
<1> HIDE DEF S
<1>3. \A n \in Nat : n \in S
  BY <1>1, <1>2, NatSetInduction
<1>4. QED
  BY <1>3 DEF S

\* The equation Bytes is defined by.
LEMMA BytesIs ==
  /\ Bytes[0] = <<>>
  /\ \A n \in Nat : /\ Bytes[n] \in Seq(Byte)
                    /\ n # 0 => Bytes[n] = Append(Bytes[High(n)], Low(n))
<1> DEFINE F(f) == [n \in Nat |-> IF n = 0 THEN <<>> ELSE Append(f[High(n)], Low(n))]
           upto(n) == CHOOSE f : IsBytes(n, f)
           h == [n \in Nat |-> upto(n)[n]]
<1>1. \A n \in Nat : IsBytes(n, upto(n))
  BY BytesExist
<1> HIDE DEF upto
<1>2. h = F(h)
  <2>1. ASSUME NEW n \in Nat
        PROVE  h[n] = IF n = 0 THEN <<>> ELSE Append(h[High(n)], Low(n))
    <3>1. CASE n = 0
      BY <1>1, <3>1 DEF IsBytes
    <3>2. CASE n # 0
      <4> DEFINE k == High(n)
      <4>1. k \in Nat /\ k < n
        BY <3>2, DivSmaller
      <4>2. IsBytes(n, upto(n)) /\ IsBytes(k, upto(k))
        BY <1>1, <4>1
      <4> HIDE DEF k
      <4>3. upto(n)[k] = upto(k)[k]
        BY <4>1, <4>2, BytesUnique
      <4>4. upto(n)[n] = Append(upto(n)[k], Low(n))
        BY <3>2, <4>2 DEF IsBytes, k
      <4>5. QED
        BY <3>2, <4>1, <4>3, <4>4 DEF k
    <3>3. QED
      BY <3>1, <3>2
  <2> HIDE DEF h
  <2>2. h = [n \in Nat |-> h[n]]
    BY SMTT(60) DEF h
  <2>3. QED
    BY <2>1, <2>2
<1> HIDE DEF h
<1>3. Bytes = F(Bytes)
  <2>1. Bytes = CHOOSE f : f = F(f)
    BY DEF Bytes, High, Low
  <2>2. QED
    BY <1>2, <2>1
<1>4. /\ Bytes[0] = <<>>
      /\ \A n \in Nat : n # 0 => Bytes[n] = Append(Bytes[High(n)], Low(n))
  BY <1>3
<1> DEFINE S == {m \in Nat : \A n \in 0 .. m : Bytes[n] \in Seq(Byte)}
<1>5. 0 \in S
  <2>1. <<>> \in Seq(Byte)
    OBVIOUS
  <2>2. \A n \in 0 .. 0 : n = 0
    OBVIOUS
  <2>3. QED
    BY <1>4, <2>1, <2>2
<1>6. ASSUME NEW m \in Nat, m \in S PROVE m + 1 \in S
  <2>1. High(m + 1) \in 0 .. m /\ Low(m + 1) \in Byte
    BY DivSmaller
  <2>2. Bytes[High(m + 1)] \in Seq(Byte)
    BY <1>6, <2>1
  <2>3. Bytes[m + 1] = Append(Bytes[High(m + 1)], Low(m + 1))
    BY <1>4
  <2>4. Bytes[m + 1] \in Seq(Byte)
    BY <2>1, <2>2, <2>3
  <2>5. \A n \in 0 .. m + 1 : n \in 0 .. m \/ n = m + 1
    OBVIOUS
  <2>6. QED
    BY <1>6, <2>4, <2>5
<1> HIDE DEF S
<1>7. \A m \in Nat : m \in S
  BY <1>5, <1>6, NatSetInduction
<1>8. ASSUME NEW n \in Nat PROVE Bytes[n] \in Seq(Byte)
  <2>1. \A i \in 0 .. n : Bytes[i] \in Seq(Byte)
    BY <1>7 DEF S
  <2>2. QED
    BY <2>1
<1>9. QED
  BY <1>4, <1>8

\* The bytes of a number are its shortest writing, and Number reads it back.
LEMMA BytesReadBack ==
  \A n \in Nat : /\ Number(Bytes[n]) = n
                 /\ n # 0 => Bytes[n] # <<>> /\ Bytes[n][1] # 0
<1> DEFINE Good(n) == /\ Number(Bytes[n]) = n
                      /\ n # 0 => Bytes[n] # <<>> /\ Bytes[n][1] # 0
           S == {m \in Nat : \A n \in 0 .. m : Good(n)}
<1>1. 0 \in S
  <2>1. Good(0)
    BY BytesIs, NumberEmpty
  <2> HIDE DEF Good
  <2>2. \A n \in 0 .. 0 : n = 0
    OBVIOUS
  <2>3. QED
    BY <2>1, <2>2
<1>2. ASSUME NEW m \in Nat, m \in S PROVE m + 1 \in S
  <2> DEFINE n == m + 1
             k == High(n)
             b == Low(n)
  <2>1. /\ n \in Nat /\ n # 0 /\ k \in 0 .. m /\ k \in Nat /\ b \in Byte /\ b \in Nat
        /\ n = 256 * k + b
    BY DivSmaller
  <2>2. Bytes[n] = Append(Bytes[k], b) /\ Bytes[k] \in Seq(Byte)
    BY <2>1, BytesIs
  <2>3. Good(k)
    BY <1>2, <2>1
  <2> HIDE DEF n, k, b
  <2>4. Number(Bytes[n]) = n
    <3>1. Number(Append(Bytes[k], b)) = 256 * Number(Bytes[k]) + b
      BY <2>1, <2>2, NumberAppend
    <3>2. Number(Bytes[k]) = k
      BY <2>3
    <3>3. QED
      BY <2>1, <2>2, <3>1, <3>2
  <2>5. Bytes[n] # <<>> /\ Bytes[n][1] # 0
    <3>1. CASE k = 0
      <4>1. Bytes[n] = <<b>>
        BY <2>2, <3>1, BytesIs
      <4>2. QED
        BY <2>1, <3>1, <4>1
    <3>2. CASE k # 0
      <4>1. Bytes[k] # <<>> /\ Bytes[k][1] # 0
        BY <2>3, <3>2
      <4> DEFINE s == Bytes[k]
      <4> HIDE DEF s
      <4>2. Append(s, b) # <<>> /\ Append(s, b)[1] = s[1]
        BY <2>2, <4>1 DEF s
      <4>3. QED
        BY <2>2, <4>1, <4>2 DEF s
    <3>3. QED
      BY <3>1, <3>2
  <2>6. Good(m + 1)
    BY <2>4, <2>5 DEF n
  <2> HIDE DEF Good
  <2>7. \A i \in 0 .. m + 1 : i \in 0 .. m \/ i = m + 1
    OBVIOUS
  <2>8. QED
    BY <1>2, <2>6, <2>7
<1> HIDE DEF S
<1>3. \A m \in Nat : m \in S
  BY <1>1, <1>2, NatSetInduction
<1>4. ASSUME NEW n \in Nat PROVE Good(n)
  <2> HIDE DEF Good
  <2>1. n \in 0 .. n
    OBVIOUS
  <2>2. QED
    BY <1>3, <2>1 DEF S
<1>5. QED
  BY <1>4

\* Bytes without leading zeros.
Canonical(s) == s \in Seq(Byte) /\ (s # <<>> => s[1] # 0)

\* A byte string that is not empty is what comes before its last byte, and
\* that byte.
LEMMA SplitLast ==
  ASSUME NEW s \in Seq(Byte), NEW n \in Nat, Len(s) = n + 1
  PROVE  \E t \in Seq(Byte), b \in Byte :
           /\ s = Append(t, b) /\ Len(t) = n
           /\ t # <<>> => t[1] = s[1]
           /\ t = <<>> => b = s[1]
<1> DEFINE t == SubSeq(s, 1, n)
           b == s[n + 1]
<1>1. t \in Seq(Byte) /\ Len(t) = n /\ (\A i \in 1 .. n : t[i] = s[i])
  OBVIOUS
<1>2. b \in Byte
  OBVIOUS
<1> HIDE DEF t
<1>3. s = Append(t, b)
  BY <1>1
<1>4. t # <<>> => t[1] = s[1]
  BY <1>1
<1>5. t = <<>> => b = s[1]
  BY <1>1
<1> HIDE DEF b
<1>6. QED
  BY <1>1, <1>2, <1>3, <1>4, <1>5

\* The bytes of a canonical writing's number are that writing.
LEMMA NumberReadsBack ==
  \A s : Canonical(s) => Bytes[Number(s)] = s /\ Number(s) \in Nat /\ (s # <<>> => Number(s) > 0)
<1> DEFINE Good(s) == /\ Bytes[Number(s)] = s /\ Number(s) \in Nat
                      /\ s # <<>> => Number(s) > 0
           S == {n \in Nat : \A s \in Seq(Byte) : Len(s) = n /\ Canonical(s) => Good(s)}
<1>1. 0 \in S
  <2>1. Good(<<>>)
    BY NumberEmpty, BytesIs
  <2> HIDE DEF Good
  <2>2. \A s \in Seq(Byte) : Len(s) = 0 => s = <<>>
    OBVIOUS
  <2>3. QED
    BY <2>1, <2>2
<1>2. ASSUME NEW n \in Nat, n \in S PROVE n + 1 \in S
  <2> SUFFICES ASSUME NEW s \in Seq(Byte), Len(s) = n + 1, Canonical(s) PROVE Good(s)
    OBVIOUS
  <2>1. PICK t \in Seq(Byte), b \in Byte :
           /\ s = Append(t, b) /\ Len(t) = n
           /\ t # <<>> => t[1] = s[1]
           /\ t = <<>> => b = s[1]
    BY SplitLast
  <2>2. s # <<>> /\ s[1] # 0
    BY DEF Canonical
  <2>3. Canonical(t)
    BY <2>1, <2>2 DEF Canonical
  <2>4. Good(t)
    BY <1>2, <2>1, <2>3
  <2>5. Number(s) = 256 * Number(t) + b
    BY <2>1, NumberAppend
  <2>6. b \in Nat /\ b < 256
    BY ByteIsNat
  <2>7. t = <<>> => b # 0 /\ Number(t) = 0
    BY <2>1, <2>2, NumberEmpty
  <2>8. Number(s) \in Nat /\ Number(s) > 0
    BY <2>4, <2>5, <2>6, <2>7
  <2>9. High(Number(s)) = Number(t) /\ Low(Number(s)) = b
    <3>1. Number(t) \in Nat
      BY <2>4
    <3>2. High(256 * Number(t) + b) = Number(t) /\ Low(256 * Number(t) + b) = b
      BY <2>6, <3>1, ComposeByte, ZenonT(60)
    <3>3. QED
      BY <2>5, <3>2, Zenon
  <2>10. Bytes[Number(s)] = Append(Bytes[Number(t)], b)
    <3>1. Bytes[Number(s)] = Append(Bytes[High(Number(s))], Low(Number(s)))
      BY <2>8, BytesIs, SMTT(30)
    <3>2. QED
      BY <2>9, <3>1
  <2>11. QED
    BY <2>1, <2>4, <2>8, <2>10
<1> HIDE DEF S
<1>3. \A n \in Nat : n \in S
  BY <1>1, <1>2, NatSetInduction
<1>4. ASSUME NEW s, Canonical(s) PROVE Good(s)
  <2> HIDE DEF Good
  <2>1. s \in Seq(Byte) /\ Len(s) \in Nat
    BY <1>4 DEF Canonical
  <2>2. QED
    BY <1>3, <1>4, <2>1 DEF S
<1>5. QED
  BY <1>4

\* How many bytes a number has.
LEMMA BytesLength ==
  ASSUME NEW n \in Nat, n # 0
  PROVE  /\ n < 256 => Bytes[n] = <<n>>
         /\ n >= 256 => Len(Bytes[n]) > 1
         /\ n < 16777216 => Len(Bytes[n]) \in 1 .. 3
<1> DEFINE a == High(n)
           c == High(a)
<1>1. /\ a \in Nat /\ n = 256 * a + Low(n) /\ Low(n) \in Nat /\ Low(n) < 256 /\ Low(n) \in Byte
  BY DivSmaller, ByteIsNat
<1>2. Bytes[n] = Append(Bytes[a], Low(n)) /\ Bytes[a] \in Seq(Byte)
  BY <1>1, BytesIs
<1> HIDE DEF a
<1>3. Len(Bytes[n]) = Len(Bytes[a]) + 1
  BY <1>2
<1>4. ASSUME n < 256 PROVE Bytes[n] = <<n>>
  <2>1. a = 0 /\ Low(n) = n
    BY <1>1, <1>4
  <2>2. QED
    BY <1>2, <2>1, BytesIs
<1>5. ASSUME n >= 256 PROVE Len(Bytes[n]) > 1
  <2>1. a # 0
    BY <1>1, <1>5
  <2>2. Bytes[a] # <<>>
    BY <1>1, <2>1, BytesReadBack
  <2>3. Len(Bytes[a]) > 0
    BY <1>2, <2>2
  <2>4. QED
    BY <1>2, <1>3, <2>3
<1>6. ASSUME n < 16777216 PROVE Len(Bytes[n]) \in 1 .. 3
  <2>0. Len(Bytes[0]) = 0
    BY BytesIs
  <2>1. CASE a = 0
    BY <1>3, <2>0, <2>1
  <2>2. CASE a # 0
    <3>1. c \in Nat /\ c < 256 /\ Bytes[a] = Append(Bytes[c], Low(a)) /\ Bytes[c] \in Seq(Byte)
      <4>1. a = 256 * c + Low(a) /\ c \in Nat /\ Low(a) \in Nat
        BY <1>1, <2>2, DivSmaller
      <4>2. Bytes[a] = Append(Bytes[c], Low(a)) /\ Bytes[c] \in Seq(Byte)
        BY <1>1, <2>2, <4>1, BytesIs
      <4> HIDE DEF c
      <4>3. c < 256
        BY <1>1, <1>6, <4>1
      <4>4. QED
        BY <4>1, <4>2, <4>3
    <3> HIDE DEF c
    <3>2. Len(Bytes[a]) = Len(Bytes[c]) + 1
      BY <3>1
    <3>3. CASE c = 0
      BY <1>3, <2>0, <3>2, <3>3
    <3>4. CASE c # 0
      <4>1. High(c) = 0
        BY <3>1 DEF High
      <4>2. Bytes[c] = Append(Bytes[0], Low(c))
        BY <3>1, <3>4, <4>1, BytesIs
      <4>3. Len(Bytes[c]) = 1
        BY <4>2, BytesIs
      <4>4. QED
        BY <1>3, <3>2, <4>3
    <3>5. QED
      BY <3>3, <3>4
  <2>3. QED
    BY <2>1, <2>2
<1>7. QED
  BY <1>4, <1>5, <1>6

----------------------------------------------------------------------------
(* Lists of encoded items.                                                 *)

Items == Seq(Seq(Byte))

\* The bytes of a list with one more item.
LEMMA AppendItem ==
  ASSUME NEW t \in Items, NEW x \in Seq(Byte)
  PROVE  FlattenSeq(Append(t, x)) = FlattenSeq(t) \o x /\ FlattenSeq(t) \in Seq(Byte)
BY FlattenAppend DEF Items

\* Every list has offsets at which its items stand.
LEMMA PlacesOfItems ==
  \A n \in Nat : \A items \in Items : Len(items) = n => \E off : IsOffsets(items, n, off)
BY ItemsStand DEF Items

\* The bytes of a list of two items.
LEMMA FlattenTwo ==
  ASSUME NEW a \in Seq(Byte), NEW b \in Seq(Byte)
  PROVE  FlattenSeq(<<a, b>>) = a \o b
<1> DEFINE t == Append(<<>>, a)
<1>1. <<>> \in Items /\ t \in Items
  BY DEF Items
<1>2. <<a, b>> = Append(t, b)
  OBVIOUS
<1>3. FlattenSeq(t) = FlattenSeq(<<>>) \o a
  BY <1>1, AppendItem
<1>4. <<>> \o a = a
  OBVIOUS
<1>5. FlattenSeq(t) = a
  BY <1>3, <1>4, FlattenEmpty
<1> HIDE DEF t
<1>6. FlattenSeq(Append(t, b)) = FlattenSeq(t) \o b
  BY <1>1, AppendItem
<1>7. QED
  BY <1>2, <1>5, <1>6

----------------------------------------------------------------------------
(* What rlp_decode_item reads.                                             *)

\* Two strings that stand one behind the other.
LEMMA HoldsBoth ==
  ASSUME NEW data \in Seq(Byte), NEW a \in Seq(Byte), NEW b \in Seq(Byte), NEW pos,
         Holds(data, pos, a \o b)
  PROVE  Holds(data, pos, a) /\ Holds(data, pos + Len(a), b)
<1>1. /\ Len(a \o b) = Len(a) + Len(b) /\ Len(a) \in Nat /\ Len(b) \in Nat
      /\ \A i \in 1 .. Len(a) : (a \o b)[i] = a[i]
      /\ \A i \in 1 .. Len(b) : (a \o b)[Len(a) + i] = b[i]
  OBVIOUS
<1>2. pos \in Nat /\ pos + (Len(a) + Len(b)) <= Len(data) /\ Len(data) \in Nat
  BY <1>1 DEF Holds
<1>3. \A i \in 1 .. Len(a) + Len(b) : data[pos + i] = (a \o b)[i]
  BY <1>1 DEF Holds
<1>4. Holds(data, pos, a)
  BY <1>1, <1>2, <1>3 DEF Holds
<1>5. ASSUME NEW i \in 1 .. Len(b) PROVE data[(pos + Len(a)) + i] = b[i]
  <2>1. Len(a) + i \in 1 .. Len(a) + Len(b) /\ (pos + Len(a)) + i = pos + (Len(a) + i)
    BY <1>1, <1>2
  <2>2. QED
    BY <1>1, <1>3, <2>1
<1>6. QED
  BY <1>1, <1>2, <1>4, <1>5 DEF Holds

\* A byte that stands in the data.
LEMMA HoldsByte ==
  ASSUME NEW data \in Seq(Byte), NEW b \in Byte, NEW pos, Holds(data, pos, <<b>>)
  PROVE  pos \in Nat /\ pos < Len(data) /\ data[pos + 1] = b
<1>1. Len(<<b>>) = 1 /\ <<b>>[1] = b
  OBVIOUS
<1>2. QED
  BY <1>1 DEF Holds

\* What the reader makes of each kind of first byte: a byte on its own, a
\* short and a long string, a short and a long list.
LEMMA ReadByte ==
  ASSUME NEW data \in Seq(Byte), NEW pos \in Nat, pos < Len(data), data[pos + 1] <= 127
  PROVE  rlp_decode_item(data, pos) = Item(data, pos, 1, pos + 1)
<1>1. data[pos + 1] \in Nat
  BY ByteAt
<1>2. QED
  BY <1>1 DEF rlp_decode_item

\* A string of up to 55 bytes.
LEMMA ReadShortString ==
  ASSUME NEW data \in Seq(Byte), NEW pos \in Nat, NEW n \in 0 .. 55,
         data[pos + 1] = 128 + n, pos < Len(data)
  PROVE  rlp_decode_item(data, pos) = StringAt(data, pos + 1, n)
<1>1. (128 + n) - 128 = n
  OBVIOUS
<1>2. QED
  BY <1>1 DEF rlp_decode_item

\* A string with its length in k bytes.
LEMMA ReadLongString ==
  ASSUME NEW data \in Seq(Byte), NEW pos \in Nat, NEW k \in 1 .. 3,
         data[pos + 1] = 183 + k, pos + 1 + k <= Len(data)
  PROVE  rlp_decode_item(data, pos) =
           StringAt(data, pos + 1 + k, Number(SubSeq(data, pos + 2, pos + 1 + k)))
<1>1. (183 + k) - 183 = k
  OBVIOUS
<1>2. QED
  BY <1>1 DEF rlp_decode_item

\* A list of up to 55 bytes.
LEMMA ReadShortList ==
  ASSUME NEW data \in Seq(Byte), NEW pos \in Nat, NEW n \in 0 .. 55,
         data[pos + 1] = 192 + n, pos < Len(data)
  PROVE  rlp_decode_item(data, pos) = ListAt(data, pos + 1, n)
<1>1. (192 + n) - 192 = n
  OBVIOUS
<1>2. QED
  BY <1>1 DEF rlp_decode_item

\* A list with its length in k bytes.
LEMMA ReadLongList ==
  ASSUME NEW data \in Seq(Byte), NEW pos \in Nat, NEW k \in 1 .. 3,
         data[pos + 1] = 247 + k, pos + 1 + k <= Len(data)
  PROVE  rlp_decode_item(data, pos) =
           ListAt(data, pos + 1 + k, Number(SubSeq(data, pos + 2, pos + 1 + k)))
<1>1. (247 + k) - 247 = k
  OBVIOUS
<1>2. QED
  BY <1>1 DEF rlp_decode_item

MaxLen == 16777216

\* A byte on its own is a string of length 1.
LEMMA OneByte ==
  ASSUME NEW b \in Byte
  PROVE  <<b>> \in Seq(Byte) /\ Len(<<b>>) = 1
  OBVIOUS

\* Two strings one behind the other are a string.
LEMMA Joined ==
  ASSUME NEW a \in Seq(Byte), NEW b \in Seq(Byte)
  PROVE  /\ a \o b \in Seq(Byte) /\ Len(a \o b) = Len(a) + Len(b)
         /\ Len(a) \in Nat /\ Len(b) \in Nat
  OBVIOUS

\* The bytes of a length RLP writes out.
LEMMA LengthBytes ==
  ASSUME NEW n \in Nat, n > 55, n < MaxLen
  PROVE  /\ Bytes[n] \in Seq(Byte) /\ Number(Bytes[n]) = n
         /\ Len(Bytes[n]) \in Nat /\ Len(Bytes[n]) \in 1 .. 3
<1>1. Bytes[n] \in Seq(Byte)
  BY BytesIs
<1>2. Len(Bytes[n]) \in 1 .. 3
  BY BytesLength DEF MaxLen
<1>3. Number(Bytes[n]) = n
  BY BytesReadBack
<1>4. Len(Bytes[n]) \in Nat
  BY <1>2
<1>5. QED
  BY <1>1, <1>2, <1>3, <1>4

\* The two forms of a prefix.
LEMMA PrefixShort ==
  ASSUME NEW n \in 0 .. 55, NEW base \in {128, 192}
  PROVE  RlpPrefix(n, base) = <<base + n>> /\ base + n \in Byte
<1>1. RlpPrefix(n, base) = <<base + n>>
  BY DEF RlpPrefix
<1>2. base + n \in Byte
  BY DEF Byte
<1>3. QED
  BY <1>1, <1>2

\* The short form of a string and of a list.
LEMMA ShortPrefixes ==
  \A n \in 0 .. 55 : /\ RlpPrefix(n, 128) = <<128 + n>> /\ 128 + n \in Byte
                     /\ RlpPrefix(n, 192) = <<192 + n>> /\ 192 + n \in Byte
<1>1. ASSUME NEW n \in 0 .. 55
      PROVE  /\ RlpPrefix(n, 128) = <<128 + n>> /\ 128 + n \in Byte
             /\ RlpPrefix(n, 192) = <<192 + n>> /\ 192 + n \in Byte
  BY PrefixShort
<1>2. QED
  BY <1>1

\* Above 55 bytes.
LEMMA PrefixLong ==
  ASSUME NEW n \in Nat, n > 55, n < MaxLen, NEW base \in {128, 192}
  PROVE  /\ RlpPrefix(n, base) = <<base + 55 + Len(Bytes[n])>> \o Bytes[n]
         /\ base + 55 + Len(Bytes[n]) \in Byte
<1>1. RlpPrefix(n, base) = <<base + 55 + Len(Bytes[n])>> \o Bytes[n]
  BY DEF RlpPrefix
<1> DEFINE k == Len(Bytes[n])
<1>2. k \in 1 .. 3
  BY LengthBytes
<1> HIDE DEF k
<1>3. base + 55 + k \in Byte
  BY <1>2 DEF Byte
<1>4. QED
  BY <1>1, <1>3 DEF k

\* A prefix of a byte and the k bytes that hold the length.
LEMMA HoldsPrefix ==
  ASSUME NEW data \in Seq(Byte), NEW first \in Byte, NEW b \in Seq(Byte), NEW pos,
         Holds(data, pos, <<first>> \o b)
  PROVE  /\ pos \in Nat /\ pos < Len(data) /\ data[pos + 1] = first
         /\ pos + 1 + Len(b) <= Len(data)
         /\ SubSeq(data, pos + 2, pos + 1 + Len(b)) = b
<1> DEFINE q == <<first>>
<1>1. q \in Seq(Byte) /\ Len(q) = 1
  BY OneByte
<1>2. Holds(data, pos, q) => pos \in Nat /\ pos < Len(data) /\ data[pos + 1] = first
  BY HoldsByte
<1>3. Holds(data, pos, q \o b)
  OBVIOUS
<1> HIDE DEF q
<1>4. Holds(data, pos, q) /\ Holds(data, pos + Len(q), b)
  BY <1>1, <1>3, HoldsBoth
<1>5. Holds(data, pos + 1, b)
  BY <1>1, <1>4
<1>6. pos \in Nat /\ pos < Len(data) /\ data[pos + 1] = first
  BY <1>2, <1>4
<1>7. (pos + 1) + Len(b) <= Len(data)
  BY <1>5 DEF Holds
<1>8. SubSeq(data, (pos + 1) + 1, (pos + 1) + Len(b)) = b
  BY <1>5, CutOut
<1>9. (pos + 1) + 1 = pos + 2
  BY <1>6
<1>10. QED
  BY <1>6, <1>7, <1>8, <1>9

\* A first byte and the bytes behind it.
LEMMA PrefixJoined ==
  ASSUME NEW first \in Byte, NEW b \in Seq(Byte)
  PROVE  <<first>> \o b \in Seq(Byte) /\ Len(<<first>> \o b) = 1 + Len(b)
<1>1. <<first>> \in Seq(Byte) /\ Len(<<first>>) = 1
  BY OneByte
<1>2. QED
  BY <1>1, Joined

\* A prefix has one to four bytes.
LEMMA PrefixIs ==
  ASSUME NEW n \in Nat, n < MaxLen, NEW base \in {128, 192}
  PROVE  RlpPrefix(n, base) \in Seq(Byte) /\ Len(RlpPrefix(n, base)) \in 1 .. 4
<1>1. CASE n \in 0 .. 55
  <2>1. RlpPrefix(n, base) = <<base + n>> /\ base + n \in Byte
    BY <1>1, PrefixShort
  <2>2. <<base + n>> \in Seq(Byte) /\ Len(<<base + n>>) = 1
    BY <2>1, OneByte
  <2>3. QED
    BY <2>1, <2>2
<1>2. CASE n > 55
  <2> DEFINE b == Bytes[n]
             k == Len(b)
             f == base + 55 + k
  <2>1. RlpPrefix(n, base) = <<f>> \o b
    BY <1>2 DEF RlpPrefix
  <2>3. b \in Seq(Byte) /\ k \in 1 .. 3
    BY <1>2, LengthBytes
  <2>2. f \in Byte
    <3> HIDE DEF k
    <3>1. QED
      BY <2>3 DEF Byte
  <2> HIDE DEF f, b
  <2>4. <<f>> \o b \in Seq(Byte) /\ Len(<<f>> \o b) = 1 + k
    BY <2>2, <2>3, PrefixJoined
  <2> HIDE DEF k
  <2>5. 1 + k \in 1 .. 4
    BY <2>3
  <2>6. QED
    BY <2>1, <2>4, <2>5
<1>3. n \in 0 .. 55 \/ n > 55
  OBVIOUS
<1>4. QED
  BY <1>1, <1>2, <1>3

\* An encoded string is bytes, not fewer than the string has.
LEMMA StringIs ==
  ASSUME NEW s \in Seq(Byte), Len(s) < MaxLen
  PROVE  /\ RlpString(s) \in Seq(Byte)
         /\ Len(RlpString(s)) >= Len(s) /\ Len(RlpString(s)) > 0
<1> DEFINE p == RlpPrefix(Len(s), 128)
<1>0. Len(s) \in Nat
  OBVIOUS
<1>1. p \in Seq(Byte) /\ Len(p) \in 1 .. 4
  BY <1>0, PrefixIs
<1>2. (RlpString(s) = s /\ Len(s) = 1) \/ RlpString(s) = p \o s
  BY DEF RlpString
<1> HIDE DEF p
<1>3. p \o s \in Seq(Byte) /\ Len(p \o s) = Len(p) + Len(s)
  BY <1>1, Joined
<1>4. Len(p) + Len(s) >= Len(s) /\ Len(p) + Len(s) > 0
  <2>1. \A k \in 1 .. 4, n \in Nat : k + n >= n /\ k + n > 0
    OBVIOUS
  <2>2. QED
    BY <1>0, <1>1, <2>1
<1>5. CASE RlpString(s) = s /\ Len(s) = 1
  BY <1>5
<1>6. CASE RlpString(s) = p \o s
  BY <1>3, <1>4, <1>6
<1>7. QED
  BY <1>2, <1>5, <1>6

\* What a reader that stands before s reads when there is room.
LEMMA ReadsOut ==
  ASSUME NEW data \in Seq(Byte), NEW s \in Seq(Byte), NEW pos, Holds(data, pos, s)
  PROVE  StringAt(data, pos, Len(s)) = [ok |-> TRUE, item |-> s, pos |-> pos + Len(s)]
<1>1. ~(pos + Len(s) > Len(data))
  BY DEF Holds
<1>2. QED
  BY <1>1, CutOut DEF StringAt, Item

\* rlp_decode_item reads every encoded string back and stops behind it.
LEMMA ReadString ==
  ASSUME NEW data \in Seq(Byte), NEW s \in Seq(Byte), Len(s) < MaxLen, NEW pos,
         Holds(data, pos, RlpString(s))
  PROVE  rlp_decode_item(data, pos) =
           [ok |-> TRUE, item |-> s, pos |-> pos + Len(RlpString(s))]
<1>0. Len(s) \in Nat /\ pos \in Nat
  BY DEF Holds
<1>1. CASE Len(s) = 1 /\ s[1] < 128
  <2>1. RlpString(s) = s
    BY <1>1 DEF RlpString
  <2>0. s = <<s[1]>>
    BY <1>1
  <2>2. s[1] \in Byte /\ s[1] \in Nat
    <3>1. 1 \in 1 .. Len(s)
      BY <1>1
    <3>2. QED
      BY <3>1, ByteAt
  <2>3. s[1] <= 127
    BY <1>1, <2>2
  <2>4. pos < Len(data) /\ data[pos + 1] = s[1]
    BY <2>0, <2>1, <2>2, HoldsByte
  <2>5. rlp_decode_item(data, pos) = Item(data, pos, 1, pos + 1)
    BY <1>0, <2>2, <2>3, <2>4, ReadByte
  <2>6. SubSeq(data, pos + 1, pos + 1) = s
    BY <1>1, <2>1, CutOut
  <2>7. QED
    BY <1>1, <2>1, <2>5, <2>6 DEF Item
<1>2. CASE ~(Len(s) = 1 /\ s[1] < 128) /\ Len(s) \in 0 .. 55
  <2> DEFINE n == Len(s)
  <2>1. RlpString(s) = <<128 + n>> \o s /\ 128 + n \in Byte
    <3>1. RlpPrefix(n, 128) = <<128 + n>> /\ 128 + n \in Byte
      BY <1>2, ShortPrefixes, ZenonT(60)
    <3>2. RlpString(s) = RlpPrefix(n, 128) \o s
      BY <1>2 DEF RlpString
    <3>3. QED
      BY <3>1, <3>2, Zenon
  <2>2. n \in 0 .. 55
    BY <1>2
  <2>h. n = Len(s)
    OBVIOUS
  <2> HIDE DEF n
  <2>3. Holds(data, pos, <<128 + n>> \o s)
    BY <2>1
  <2>4. pos < Len(data) /\ data[pos + 1] = 128 + n
    BY <2>1, <2>3, HoldsPrefix
  <2>l. Len(RlpString(s)) = 1 + n
    BY <2>1, <2>h, PrefixJoined
  <2>5. Holds(data, pos + 1, s)
    <3>1. <<128 + n>> \in Seq(Byte) /\ Len(<<128 + n>>) = 1
      BY <2>1, OneByte
    <3> DEFINE p == <<128 + n>>
    <3> HIDE DEF p
    <3>2. Holds(data, pos + Len(p), s)
      BY <2>3, <3>1, HoldsBoth DEF p
    <3>3. QED
      BY <3>1, <3>2 DEF p
  <2>6. rlp_decode_item(data, pos) = StringAt(data, pos + 1, n)
    BY <1>0, <2>2, <2>4, ReadShortString
  <2>7. StringAt(data, pos + 1, n) = [ok |-> TRUE, item |-> s, pos |-> (pos + 1) + n]
    BY <2>5, <2>h, ReadsOut
  <2>8. pos + (1 + n) = (pos + 1) + n
    BY <1>0, <2>2
  <2>9. QED
    BY <2>l, <2>6, <2>7, <2>8
<1>3. CASE Len(s) > 55
  <2> DEFINE n == Len(s)
             b == Bytes[n]
             k == Len(b)
             p == <<183 + k>> \o b
  <2>1. b \in Seq(Byte) /\ Number(b) = n /\ k \in Nat /\ k \in 1 .. 3
    BY <1>0, <1>3, LengthBytes
  <2>2. RlpPrefix(n, 128) = <<128 + 55 + k>> \o b /\ 128 + 55 + k \in Byte
    BY <1>0, <1>3, PrefixLong
  <2>3. RlpString(s) = RlpPrefix(n, 128) \o s
    <3>1. \A x \in Nat : x > 55 => x # 1
      OBVIOUS
    <3>2. QED
      BY <1>0, <1>3, <3>1 DEF RlpString
  <2>h. n = Len(s) /\ k = Len(b)
    OBVIOUS
  <2> HIDE DEF n, b, k
  <2>4. 128 + 55 + k = 183 + k
    BY <2>1
  <2>5. RlpPrefix(n, 128) = p /\ 183 + k \in Byte
    BY <2>2, <2>4
  <2>6. p \in Seq(Byte) /\ Len(p) = 1 + k
    BY <2>1, <2>5, <2>h, PrefixJoined
  <2> HIDE DEF p
  <2>8. Holds(data, pos, p \o s)
    BY <2>3, <2>5
  <2>9. Holds(data, pos, p) /\ Holds(data, pos + Len(p), s)
    BY <2>6, <2>8, HoldsBoth
  <2>7. /\ pos < Len(data) /\ data[pos + 1] = 183 + k
        /\ pos + 1 + k <= Len(data)
        /\ SubSeq(data, pos + 2, pos + 1 + k) = b
    <3>1. Holds(data, pos, <<183 + k>> \o b)
      BY <2>9 DEF p
    <3>2. /\ pos < Len(data) /\ data[pos + 1] = 183 + k
          /\ pos + 1 + Len(b) <= Len(data)
          /\ SubSeq(data, pos + 2, pos + 1 + Len(b)) = b
      BY <2>1, <2>5, <3>1, HoldsPrefix
    <3>3. QED
      BY <2>h, <3>2
  <2>10. rlp_decode_item(data, pos) = StringAt(data, pos + 1 + k, n)
    <3>1. rlp_decode_item(data, pos) =
            StringAt(data, pos + 1 + k, Number(SubSeq(data, pos + 2, pos + 1 + k)))
      BY <1>0, <2>1, <2>7, <2>9, ReadLongString
    <3>2. Number(SubSeq(data, pos + 2, pos + 1 + k)) = n
      BY <2>1, <2>7, <2>9
    <3>3. QED
      BY <3>1, <3>2
  <2>11. pos + (1 + k) = pos + 1 + k /\ pos + ((1 + k) + n) = (pos + 1 + k) + n
    BY <1>0, <2>1, <2>h
  <2>12. Holds(data, pos + 1 + k, s)
    BY <2>6, <2>9, <2>11
  <2>13. StringAt(data, pos + 1 + k, n) = [ok |-> TRUE, item |-> s, pos |-> (pos + 1 + k) + n]
    BY <2>12, <2>h, ReadsOut
  <2>14. Len(RlpString(s)) = (1 + k) + n
    BY <2>3, <2>5, <2>6, <2>h, Joined
  <2>15. QED
    BY <2>10, <2>11, <2>13, <2>14
<1>4. Len(s) \in 0 .. 55 \/ Len(s) > 55
  <2>1. \A n \in Nat : n \in 0 .. 55 \/ n > 55
    OBVIOUS
  <2>2. QED
    BY <1>0, <2>1
<1>5. QED
  BY <1>1, <1>2, <1>3, <1>4

\* rlp_decode_item enters the list whose prefix stands at pos.
LEMMA ReadList ==
  ASSUME NEW data \in Seq(Byte), NEW n \in Nat, n < MaxLen, NEW pos,
         Holds(data, pos, RlpPrefix(n, 192))
  PROVE  rlp_decode_item(data, pos) = ListAt(data, pos + Len(RlpPrefix(n, 192)), n)
<1>0. pos \in Nat
  BY DEF Holds
<1>1. CASE n \in 0 .. 55
  <2>1. RlpPrefix(n, 192) = <<192 + n>> /\ 192 + n \in Byte
    BY <1>1, PrefixShort
  <2>2. Len(<<192 + n>>) = 1
    OBVIOUS
  <2>3. pos < Len(data) /\ data[pos + 1] = 192 + n
    BY <2>1, HoldsByte
  <2>4. rlp_decode_item(data, pos) = ListAt(data, pos + 1, n)
    BY <1>0, <1>1, <2>3, ReadShortList
  <2>5. QED
    BY <2>1, <2>2, <2>4
<1>2. CASE n > 55
  <2> DEFINE b == Bytes[n]
             k == Len(b)
             p == <<247 + k>> \o b
  <2>1. b \in Seq(Byte) /\ Number(b) = n /\ k \in Nat /\ k \in 1 .. 3
    BY <1>2, LengthBytes
  <2>2. RlpPrefix(n, 192) = <<192 + 55 + k>> \o b /\ 192 + 55 + k \in Byte
    BY <1>2, PrefixLong
  <2>h. k = Len(b)
    OBVIOUS
  <2> HIDE DEF b, k
  <2>3. 192 + 55 + k = 247 + k
    BY <2>1
  <2>4. RlpPrefix(n, 192) = p /\ 247 + k \in Byte
    BY <2>2, <2>3
  <2>5. /\ pos < Len(data) /\ data[pos + 1] = 247 + k
        /\ pos + 1 + k <= Len(data)
        /\ SubSeq(data, pos + 2, pos + 1 + k) = b
    <3>1. Holds(data, pos, <<247 + k>> \o b)
      BY <2>4
    <3>2. /\ pos < Len(data) /\ data[pos + 1] = 247 + k
          /\ pos + 1 + Len(b) <= Len(data)
          /\ SubSeq(data, pos + 2, pos + 1 + Len(b)) = b
      BY <2>1, <2>4, <3>1, HoldsPrefix, SMTT(60)
    <3>3. QED
      BY <2>h, <3>2
  <2>l. Len(p) = 1 + k
    BY <2>1, <2>4, <2>h, PrefixJoined
  <2> HIDE DEF p
  <2>6. rlp_decode_item(data, pos) =
          ListAt(data, pos + 1 + k, Number(SubSeq(data, pos + 2, pos + 1 + k)))
    BY <1>0, <2>1, <2>5, ReadLongList
  <2>7. Number(SubSeq(data, pos + 2, pos + 1 + k)) = n
    BY <2>1, <2>5
  <2>8. pos + (1 + k) = pos + 1 + k
    BY <1>0, <2>1
  <2>9. QED
    BY <2>4, <2>6, <2>7, <2>8, <2>l
<1>3. n \in 0 .. 55 \/ n > 55
  OBVIOUS
<1>4. QED
  BY <1>1, <1>2, <1>3

----------------------------------------------------------------------------
(* Lists read item by item.                                                *)

\* e is read as x, wherever it stands.
ReadsAs(e, x) ==
  \A data \in Seq(Byte), pos \in Nat :
    Holds(data, pos, e) =>
      rlp_decode_item(data, pos) = [ok |-> TRUE, item |-> x, pos |-> pos + Len(e)]

\* Every encoded string is read as the string.
LEMMA StringReads ==
  ASSUME NEW s \in Seq(Byte), Len(s) < MaxLen
  PROVE  ReadsAs(RlpString(s), s)
BY ReadString DEF ReadsAs

\* The first items of a list are read one by one.
Start(list) == [list EXCEPT !.pos = 0]
After(list, r) == IF r.ok THEN rlp_decode_item(list.item, r.pos) ELSE Failed
IsRead(list, n, f) ==
  /\ f = [i \in 0 .. n |-> f[i]]
  /\ f[0] = Start(list)
  /\ \A i \in 1 .. n : f[i] = After(list, f[i - 1])

\* Every list has such a function.
LEMMA ReadExists ==
  ASSUME NEW list
  PROVE  \A n \in Nat : \E f : IsRead(list, n, f)
<1> DEFINE S == {n \in Nat : \E f : IsRead(list, n, f)}
<1>1. 0 \in S
  <2> DEFINE f == [i \in 0 .. 0 |-> Start(list)]
  <2>1. f[0] = Start(list)
    OBVIOUS
  <2>2. IsRead(list, 0, f)
    BY <2>1 DEF IsRead
  <2>3. QED
    BY <2>2
<1>2. ASSUME NEW n \in Nat, n \in S PROVE n + 1 \in S
  <2>1. PICK f : IsRead(list, n, f)
    BY <1>2
  <2> DEFINE g == [i \in 0 .. n + 1 |-> IF i <= n THEN f[i] ELSE After(list, f[n])]
  <2>2. (\A i \in 0 .. n : g[i] = f[i]) /\ g[n + 1] = After(list, f[n])
    OBVIOUS
  <2>3. g = [i \in 0 .. n + 1 |-> g[i]]
    OBVIOUS
  <2> HIDE DEF g
  <2>4. ASSUME NEW i \in 1 .. n + 1 PROVE g[i] = After(list, g[i - 1])
    <3>1. CASE i = n + 1
      <4>1. i - 1 = n /\ n \in 0 .. n
        BY <3>1
      <4>2. QED
        BY <2>2, <3>1, <4>1
    <3>2. CASE i \in 1 .. n
      <4>1. i \in 0 .. n /\ i - 1 \in 0 .. n
        BY <3>2
      <4>2. QED
        BY <2>1, <2>2, <3>2, <4>1 DEF IsRead
    <3>3. QED
      BY <3>1, <3>2
  <2>5. g[0] = Start(list)
    BY <2>1, <2>2 DEF IsRead
  <2>6. IsRead(list, n + 1, g)
    BY <2>3, <2>4, <2>5 DEF IsRead
  <2>7. QED
    BY <2>6
<1> HIDE DEF S
<1>3. \A n \in Nat : n \in S
  BY <1>1, <1>2, NatSetInduction
<1>4. QED
  BY <1>3 DEF S

\* read_items is that function.
LEMMA ReadItemsIs ==
  ASSUME NEW list, NEW n \in Nat
  PROVE  IsRead(list, n, read_items(list, n))
<1> DEFINE F(f) == [i \in 0 .. n |-> IF i = 0 THEN Start(list) ELSE After(list, f[i - 1])]
           read == CHOOSE f : f = F(f)
<1>1. PICK f : IsRead(list, n, f)
  BY ReadExists
<1>2. f = F(f)
  <2>1. ASSUME NEW i \in 0 .. n
        PROVE  f[i] = IF i = 0 THEN Start(list) ELSE After(list, f[i - 1])
    <3>1. CASE i = 0
      BY <1>1, <3>1 DEF IsRead
    <3>2. CASE i # 0
      <4>1. i \in 1 .. n
        BY <3>2
      <4>2. QED
        BY <1>1, <3>2, <4>1 DEF IsRead
    <3>3. QED
      BY <3>1, <3>2
  <2>2. f = [i \in 0 .. n |-> f[i]]
    BY <1>1 DEF IsRead
  <2>3. QED
    BY <2>1, <2>2
<1>3. read = F(read)
  BY <1>2
<1>4. read_items(list, n) = read
  BY DEF read_items, Start, After
<1> HIDE DEF read
<1>5. IsRead(list, n, read)
  <2>1. read[0] = Start(list)
    BY <1>3
  <2>2. \A i \in 1 .. n : read[i] = After(list, read[i - 1])
    BY <1>3
  <2>3. read = [i \in 0 .. n |-> read[i]]
    BY <1>3
  <2>4. QED
    BY <2>1, <2>2, <2>3 DEF IsRead
<1>6. QED
  BY <1>4, <1>5

\* As long as the items can be read, each is read where it stands.
AllRead(items, vals, m) == \A i \in 1 .. m : ReadsAs(items[i], vals[i])
IsReadAs(f, vals, off, m) ==
  \A i \in Nat : i <= m => /\ f[i].ok /\ f[i].pos = off[i]
                           /\ i > 0 => f[i].item = vals[i]

\* The loop of evmdb_tx_decode reads item after item.
LEMMA ItemsRead ==
  ASSUME NEW items \in Items, NEW vals, NEW off, NEW n \in Nat, NEW m \in 0 .. n,
         IsOffsets(items, n, off),
         AllRead(items, vals, m), FlattenSeq(items) \in Seq(Byte),
         NEW p, NEW k \in Nat, NEW f, m <= k,
         IsRead([ok |-> TRUE, item |-> FlattenSeq(items), pos |-> p], k, f)
  PROVE  IsReadAs(f, vals, off, m)
<1> DEFINE data == FlattenSeq(items)
           list == [ok |-> TRUE, item |-> data, pos |-> p]
           Good(i) == f[i].ok /\ f[i].pos = off[i] /\ (i > 0 => f[i].item = vals[i])
           S == {i \in Nat : i <= m => Good(i)}
<1>1. 0 \in S
  <2>1. f[0] = [ok |-> TRUE, item |-> data, pos |-> 0]
    BY DEF IsRead, Start
  <2>2. off[0] = 0
    BY DEF IsOffsets
  <2>3. QED
    BY <2>1, <2>2
<1>2. ASSUME NEW i \in Nat, i \in S PROVE i + 1 \in S
  <2> SUFFICES ASSUME i + 1 <= m PROVE Good(i + 1)
    OBVIOUS
  <2>0. i + 1 \in 1 .. m /\ i + 1 \in 1 .. n /\ i + 1 \in 1 .. k /\ (i + 1) - 1 = i /\ i <= m
        /\ i \in 0 .. n
    OBVIOUS
  <2>1. f[i].ok /\ f[i].pos = off[i]
    BY <1>2, <2>0
  <2>2. f[i + 1] = After(list, f[i])
    BY <2>0 DEF IsRead
  <2>3. f[i + 1] = rlp_decode_item(data, off[i])
    BY <2>1, <2>2 DEF After
  <2>4. Holds(data, off[i], items[i + 1]) /\ off[i + 1] = off[i] + Len(items[i + 1]) /\ off[i] \in Nat
    BY <2>0 DEF IsOffsets
  <2>5. ReadsAs(items[i + 1], vals[i + 1])
    BY <2>0 DEF AllRead
  <2> HIDE DEF data
  <2>6. rlp_decode_item(data, off[i]) =
          [ok |-> TRUE, item |-> vals[i + 1], pos |-> off[i] + Len(items[i + 1])]
    BY <2>4, <2>5 DEF ReadsAs, data
  <2>7. QED
    BY <2>3, <2>4, <2>6
<1> HIDE DEF S
<1>3. \A i \in Nat : i \in S
  BY <1>1, <1>2, NatSetInduction
<1>4. QED
  BY <1>3 DEF S, IsReadAs

----------------------------------------------------------------------------
(* The conversions and the places of the fields.                           *)

\* What SelectInSeq finds in a string: nothing, or the first byte when it is
\* not zero.
LEMMA StripCanonical ==
  ASSUME NEW s \in Seq(Byte), s = <<>> \/ s[1] # 0
  PROVE  Strip(s) = s
<1>1. CASE s = <<>>
  <2>1. SelectInSeq(s, LAMBDA b : b # 0) = 0
    BY <1>1 DEF SelectInSeq
  <2>2. QED
    BY <1>1, <2>1 DEF Strip
<1>2. CASE s # <<>> /\ s[1] # 0
  <2> DEFINE I == {i \in 1 .. Len(s) : s[i] # 0}
  <2>1. 1 \in I /\ I # {} /\ \A i \in I : 1 <= i
    BY <1>2
  <2>2. SelectInSeq(s, LAMBDA b : b # 0) = Min(I)
    BY <2>1 DEF SelectInSeq
  <2>3. I \subseteq Nat
    OBVIOUS
  <2> HIDE DEF I
  <2>4. Min(I) = 1
    <3>1. \E x \in I : \A y \in I : x <= y
      BY <2>1
    <3>2. Min(I) \in I /\ \A y \in I : Min(I) <= y
      BY <3>1 DEF Min
    <3> DEFINE m == Min(I)
    <3>3. m \in Nat /\ m <= 1 /\ 1 <= m
      BY <2>1, <2>3, <3>2
    <3> HIDE DEF m
    <3>4. m = 1
      BY <3>3
    <3>5. QED
      BY <3>4 DEF m
  <2>5. Strip(s) = SubSeq(s, 1, Len(s))
    BY <2>2, <2>4 DEF Strip
  <2>6. SubSeq(s, 1, Len(s)) = s
    OBVIOUS
  <2>7. QED
    BY <2>5, <2>6
<1>3. QED
  BY <1>1, <1>2

\* A string that is not longer than n is its first n bytes.
LEMMA FirstShort ==
  ASSUME NEW s \in Seq(Byte), NEW n \in Nat, Len(s) <= n
  PROVE  First(n, s) = s
<1>1. SubSeq(s, 1, Len(s)) = s
  OBVIOUS
<1>2. Len(s) \in Nat
  OBVIOUS
<1>3. (IF Len(s) < n THEN Len(s) ELSE n) = Len(s)
  BY <1>2
<1>4. QED
  BY <1>1, <1>3 DEF First

\* Numbers of the right width are converted to themselves.
LEMMA NumberConverts ==
  /\ \A s \in Numbers(8) : rlp_to_uint64(s) = s
  /\ \A s \in Numbers(32) : rlp_to_bytes32(s) = s
<1>1. ASSUME NEW s \in Numbers(8) PROVE rlp_to_uint64(s) = s
  <2>1. s \in Seq(Byte) /\ Len(s) <= 8 /\ (s = <<>> \/ s[1] # 0)
    BY DEF Numbers
  <2>2. First(8, s) = s /\ Strip(s) = s
    BY <2>1, FirstShort, StripCanonical
  <2>3. QED
    BY <2>2 DEF rlp_to_uint64
<1>2. ASSUME NEW s \in Numbers(32) PROVE rlp_to_bytes32(s) = s
  <2>1. s \in Seq(Byte) /\ Len(s) <= 32 /\ (s = <<>> \/ s[1] # 0)
    BY DEF Numbers
  <2>2. First(32, s) = s /\ Strip(s) = s
    BY <2>1, FirstShort, StripCanonical
  <2>3. QED
    BY <2>2 DEF rlp_to_bytes32
<1>3. QED
  BY <1>1, <1>2

\* An address is converted to itself.
LEMMA AddressConverts ==
  ASSUME NEW s \in Seq(Byte), Len(s) = 20
  PROVE  rlp_to_address(s) = s
<1>0. Len(s) <= 20
  OBVIOUS
<1>1. First(20, s) = s
  BY <1>0, FirstShort
<1> DEFINE z == [i \in 1 .. (20 - Len(s)) |-> 0]
<1>2. z = <<>>
  OBVIOUS
<1> HIDE DEF z
<1>3. rlp_to_address(s) = z \o s
  BY <1>1 DEF rlp_to_address, z
<1>4. QED
  BY <1>2, <1>3

\* A name is found where it stands when it stands nowhere else.
OnlyAt(names, f, k) ==
  k \in 1 .. Len(names) /\ \A j \in 1 .. Len(names) : names[j] = f <=> j = k

\* SelectInSeq finds the only place of a name.
LEMMA NameFound ==
  ASSUME NEW names, NEW k, NEW f, OnlyAt(names, f, k)
  PROVE  Position(names, f) = k
<1> DEFINE I == {j \in 1 .. Len(names) : names[j] = f}
<1>1. I = {k} /\ k \in Int
  BY DEF OnlyAt
<1>2. Position(names, f) = IF I # {} THEN Min(I) ELSE 0
  BY DEF Position, SelectInSeq
<1> HIDE DEF I
<1>3. Min({k}) = k
  BY DEF Min
<1>4. QED
  BY <1>1, <1>2, <1>3

\* SelectInSeq finds no place of a name that is missing.
LEMMA NameMissing ==
  ASSUME NEW names, NEW n \in Nat, Len(names) = n, NEW f,
         \A j \in 1 .. n : names[j] # f
  PROVE  Position(names, f) = 0
<1> DEFINE I == {j \in 1 .. Len(names) : names[j] = f}
<1>1. I = {}
  OBVIOUS
<1>2. Position(names, f) = IF I # {} THEN Min(I) ELSE 0
  BY DEF Position, SelectInSeq
<1> HIDE DEF I
<1>3. QED
  BY <1>1, <1>2

\* Where the fields of this type of transaction stand.
LEMMA LegacyPositions ==
  /\ Len(Fields(LEGACY)) = 9
  /\ Position(Fields(LEGACY), "nonce") = 1
  /\ Position(Fields(LEGACY), "fee") = 2
  /\ Position(Fields(LEGACY), "gas_limit") = 3
  /\ Position(Fields(LEGACY), "to") = 4
  /\ Position(Fields(LEGACY), "value") = 5
  /\ Position(Fields(LEGACY), "data") = 6
  /\ Position(Fields(LEGACY), "v") = 7
  /\ Position(Fields(LEGACY), "r") = 8
  /\ Position(Fields(LEGACY), "s") = 9
  /\ Position(Fields(LEGACY), "chain_id") = 0
  /\ Position(Fields(LEGACY), "tip") = 0
<1> DEFINE N == Fields(LEGACY)
<1>0. N = <<"nonce", "fee", "gas_limit", "to", "value", "data", "v", "r", "s">>
  BY DEF Fields, LEGACY, EIP2930, EIP1559
<1>1. Len(N) = 9
  BY <1>0
<1>2. OnlyAt(N, "nonce", 1)
  BY <1>0, <1>1 DEF OnlyAt
<1>3. OnlyAt(N, "fee", 2)
  BY <1>0, <1>1 DEF OnlyAt
<1>4. OnlyAt(N, "gas_limit", 3)
  BY <1>0, <1>1 DEF OnlyAt
<1>5. OnlyAt(N, "to", 4)
  BY <1>0, <1>1 DEF OnlyAt
<1>6. OnlyAt(N, "value", 5)
  BY <1>0, <1>1 DEF OnlyAt
<1>7. OnlyAt(N, "data", 6)
  BY <1>0, <1>1 DEF OnlyAt
<1>8. OnlyAt(N, "v", 7)
  BY <1>0, <1>1 DEF OnlyAt
<1>9. OnlyAt(N, "r", 8)
  BY <1>0, <1>1 DEF OnlyAt
<1>10. OnlyAt(N, "s", 9)
  BY <1>0, <1>1 DEF OnlyAt
<1>11. \A j \in 1 .. 9 : N[j] # "chain_id"
  BY <1>0
<1>12. \A j \in 1 .. 9 : N[j] # "tip"
  BY <1>0
<1> HIDE DEF N
<1>13. Position(N, "nonce") = 1
  BY <1>2, NameFound
<1>14. Position(N, "fee") = 2
  BY <1>3, NameFound
<1>15. Position(N, "gas_limit") = 3
  BY <1>4, NameFound
<1>16. Position(N, "to") = 4
  BY <1>5, NameFound
<1>17. Position(N, "value") = 5
  BY <1>6, NameFound
<1>18. Position(N, "data") = 6
  BY <1>7, NameFound
<1>19. Position(N, "v") = 7
  BY <1>8, NameFound
<1>20. Position(N, "r") = 8
  BY <1>9, NameFound
<1>21. Position(N, "s") = 9
  BY <1>10, NameFound
<1>22. Position(N, "chain_id") = 0
  BY <1>1, <1>11, NameMissing
<1>23. Position(N, "tip") = 0
  BY <1>1, <1>12, NameMissing
<1>24. QED
  BY <1>1, <1>13, <1>14, <1>15, <1>16, <1>17, <1>18, <1>19, <1>20, <1>21, <1>22, <1>23 DEF N

\* Where the fields of an EIP-1559 transaction stand.
LEMMA FeePositions ==
  /\ Len(Fields(EIP1559)) = 12
  /\ Position(Fields(EIP1559), "chain_id") = 1
  /\ Position(Fields(EIP1559), "nonce") = 2
  /\ Position(Fields(EIP1559), "tip") = 3
  /\ Position(Fields(EIP1559), "fee") = 4
  /\ Position(Fields(EIP1559), "gas_limit") = 5
  /\ Position(Fields(EIP1559), "to") = 6
  /\ Position(Fields(EIP1559), "value") = 7
  /\ Position(Fields(EIP1559), "data") = 8
  /\ Position(Fields(EIP1559), "v") = 10
  /\ Position(Fields(EIP1559), "r") = 11
  /\ Position(Fields(EIP1559), "s") = 12
<1> DEFINE N == Fields(EIP1559)
<1>0. N = <<"chain_id", "nonce", "tip", "fee", "gas_limit", "to", "value", "data", "accessList", "v", "r", "s">>
  BY DEF Fields, LEGACY, EIP2930, EIP1559
<1>1. Len(N) = 12
  BY <1>0
<1>2. OnlyAt(N, "chain_id", 1)
  BY <1>0, <1>1 DEF OnlyAt
<1>3. OnlyAt(N, "nonce", 2)
  BY <1>0, <1>1 DEF OnlyAt
<1>4. OnlyAt(N, "tip", 3)
  BY <1>0, <1>1 DEF OnlyAt
<1>5. OnlyAt(N, "fee", 4)
  BY <1>0, <1>1 DEF OnlyAt
<1>6. OnlyAt(N, "gas_limit", 5)
  BY <1>0, <1>1 DEF OnlyAt
<1>7. OnlyAt(N, "to", 6)
  BY <1>0, <1>1 DEF OnlyAt
<1>8. OnlyAt(N, "value", 7)
  BY <1>0, <1>1 DEF OnlyAt
<1>9. OnlyAt(N, "data", 8)
  BY <1>0, <1>1 DEF OnlyAt
<1>10. OnlyAt(N, "v", 10)
  BY <1>0, <1>1 DEF OnlyAt
<1>11. OnlyAt(N, "r", 11)
  BY <1>0, <1>1 DEF OnlyAt
<1>12. OnlyAt(N, "s", 12)
  BY <1>0, <1>1 DEF OnlyAt
<1> HIDE DEF N
<1>13. Position(N, "chain_id") = 1
  BY <1>2, NameFound
<1>14. Position(N, "nonce") = 2
  BY <1>3, NameFound
<1>15. Position(N, "tip") = 3
  BY <1>4, NameFound
<1>16. Position(N, "fee") = 4
  BY <1>5, NameFound
<1>17. Position(N, "gas_limit") = 5
  BY <1>6, NameFound
<1>18. Position(N, "to") = 6
  BY <1>7, NameFound
<1>19. Position(N, "value") = 7
  BY <1>8, NameFound
<1>20. Position(N, "data") = 8
  BY <1>9, NameFound
<1>21. Position(N, "v") = 10
  BY <1>10, NameFound
<1>22. Position(N, "r") = 11
  BY <1>11, NameFound
<1>23. Position(N, "s") = 12
  BY <1>12, NameFound
<1>24. QED
  BY <1>1, <1>13, <1>14, <1>15, <1>16, <1>17, <1>18, <1>19, <1>20, <1>21, <1>22, <1>23 DEF N

----------------------------------------------------------------------------
(* How long the strings and lists of a transaction are.                    *)

\* A string that fits into a request, and the most bytes its encoding has.
Fits(s) == s \in Seq(Byte) /\ Len(s) < MaxRequest
MaxItem == MaxRequest + 4

\* The encoding of such a string is a few bytes longer and reads back.
LEMMA FitsIs ==
  ASSUME NEW s, Fits(s)
  PROVE  /\ RlpString(s) \in Seq(Byte) /\ Len(RlpString(s)) <= MaxItem
         /\ ReadsAs(RlpString(s), s)
<1>1. s \in Seq(Byte) /\ Len(s) \in Nat /\ Len(s) < MaxRequest /\ Len(s) < MaxLen
  BY DEF Fits, MaxRequest, MaxLen
<1>2. RlpString(s) \in Seq(Byte)
  BY <1>1, StringIs
<1>3. ReadsAs(RlpString(s), s)
  BY <1>1, StringReads
<1>4. Len(RlpString(s)) <= MaxItem
  <2> DEFINE p == RlpPrefix(Len(s), 128)
             m == Len(p)
             n == Len(s)
  <2>1. p \in Seq(Byte) /\ m \in 1 .. 4
    BY <1>1, PrefixIs
  <2>2. RlpString(s) = s \/ RlpString(s) = p \o s
    BY DEF RlpString
  <2> HIDE DEF p
  <2>3. Len(p \o s) = m + n
    BY <1>1, <2>1, Joined
  <2>4. n \in Nat /\ n < MaxRequest
    BY <1>1
  <2>5. Len(RlpString(s)) = n \/ Len(RlpString(s)) = m + n
    BY <2>2, <2>3
  <2> HIDE DEF m, n
  <2>6. n <= MaxItem /\ m + n <= MaxItem
    BY <2>1, <2>4 DEF MaxItem, MaxRequest
  <2>7. QED
    BY <2>5, <2>6
<1>5. QED
  BY <1>2, <1>3, <1>4

\* A list of a few such items has a length of at most three bytes.
LEMMA FewItems ==
  ASSUME NEW items \in Items, NEW n \in 0 .. 12, Len(items) = n,
         \A i \in 1 .. n : Len(items[i]) <= MaxItem,
         NEW off, IsOffsets(items, n, off)
  PROVE  Len(FlattenSeq(items)) < MaxLen
<1> DEFINE S == {i \in Nat : i <= n => off[i] <= MaxItem * i}
<1>1. 0 \in S
  BY DEF IsOffsets, MaxItem, MaxRequest
<1>2. ASSUME NEW i \in Nat, i \in S PROVE i + 1 \in S
  <2> SUFFICES ASSUME i + 1 <= n PROVE off[i + 1] <= MaxItem * (i + 1)
    OBVIOUS
  <2>1. i + 1 \in 1 .. n /\ (i + 1) - 1 = i /\ i <= n /\ i \in 0 .. n /\ i + 1 \in 0 .. n
    OBVIOUS
  <2>2. off[i + 1] = off[i] + Len(items[i + 1]) /\ off[i] \in Nat /\ off[i + 1] \in Nat
    BY <2>1 DEF IsOffsets
  <2>3. Len(items[i + 1]) <= MaxItem
    BY <2>1
  <2>4. off[i] <= MaxItem * i
    BY <1>2, <2>1
  <2>5. Len(items[i + 1]) \in Nat
    BY <2>1 DEF Items
  <2> DEFINE a == off[i]
             b == off[i + 1]
             c == Len(items[i + 1])
  <2> HIDE DEF a, b, c
  <2>6. b = a + c /\ a \in Nat /\ c \in Nat /\ c <= MaxItem /\ a <= MaxItem * i
    BY <2>2, <2>3, <2>4, <2>5 DEF a, b, c
  <2>7. b <= MaxItem * (i + 1)
    BY <2>6 DEF MaxItem, MaxRequest
  <2>8. QED
    BY <2>7 DEF b
<1> HIDE DEF S
<1>3. \A i \in Nat : i \in S
  BY <1>1, <1>2, NatSetInduction
<1>4. off[n] <= MaxItem * n /\ off[n] \in Nat /\ off[n] = Len(FlattenSeq(items))
  BY <1>3 DEF S, IsOffsets
<1> DEFINE z == off[n]
<1> HIDE DEF z
<1>5. z \in Nat /\ z <= MaxItem * n
  BY <1>4 DEF z
<1>6. z < MaxLen
  BY <1>5 DEF MaxItem, MaxRequest, MaxLen
<1>7. QED
  BY <1>4, <1>6 DEF z

\* rlp_decode_item enters the list the wallet encoded.
LEMMA ListReads ==
  ASSUME NEW payload \in Seq(Byte), Len(payload) < MaxLen
  PROVE  LET p == RlpPrefix(Len(payload), 192)
         IN  /\ p \o payload \in Seq(Byte)
             /\ p \o payload # <<>> /\ (p \o payload)[1] >= 192
             /\ rlp_decode_item(p \o payload, 0)
                  = [ok |-> TRUE, item |-> payload, pos |-> Len(p)]
<1> DEFINE n == Len(payload)
           p == RlpPrefix(n, 192)
           data == p \o payload
<1>1. n \in Nat /\ n < MaxLen
  OBVIOUS
<1>2. p \in Seq(Byte) /\ Len(p) \in 1 .. 4
  BY <1>1, PrefixIs
<1>3. p[1] \in Nat /\ p[1] >= 192
  <2>1. CASE n \in 0 .. 55
    <3>1. p = <<192 + n>>
      BY <2>1, ShortPrefixes, ZenonT(60)
    <3>2. QED
      BY <2>1, <3>1
  <2>2. CASE n > 55
    <3> DEFINE b == Bytes[n]
               k == Len(b)
    <3>1. p = <<192 + 55 + k>> \o b
      BY <1>1, <2>2 DEF RlpPrefix
    <3>2. b \in Seq(Byte) /\ k \in Nat
      BY <1>1, <2>2, LengthBytes
    <3> HIDE DEF p, b, k
    <3>3. p[1] = 192 + 55 + k
      BY <3>1, <3>2
    <3>4. QED
      BY <3>2, <3>3
  <2>3. n \in 0 .. 55 \/ n > 55
    <3>1. \A x \in Nat : x \in 0 .. 55 \/ x > 55
      OBVIOUS
    <3>2. QED
      BY <1>1, <3>1
  <2>4. QED
    BY <2>1, <2>2, <2>3
<1>h. n = Len(payload)
  OBVIOUS
<1> HIDE DEF n, p
<1>4. /\ data \in Seq(Byte) /\ Len(data) = Len(p) + n
      /\ data # <<>> /\ data[1] = p[1]
  BY <1>1, <1>2, <1>h
<1>5. Holds(data, Len(p), payload)
  BY <1>2, HoldsMore
<1>6. Holds(data, 0, p)
  BY <1>2, <1>4, <1>h DEF Holds
<1> HIDE DEF data
<1>7. rlp_decode_item(data, 0) = ListAt(data, 0 + Len(p), n)
  BY <1>1, <1>4, <1>6, ReadList DEF p
<1>8. 0 + Len(p) = Len(p)
  BY <1>2
<1>9. SubSeq(data, Len(p) + 1, Len(p) + n) = payload
  BY <1>4, <1>5, <1>h, CutOut
<1>10. rlp_decode_item(data, 0) = [ok |-> TRUE, item |-> payload, pos |-> Len(p)]
  BY <1>7, <1>8, <1>9 DEF ListAt, Item
<1>11. QED
  BY <1>3, <1>4, <1>10 DEF data, p, n

\* The fields of a wallet's transaction have their widths.
Shaped(w) ==
  /\ w.parity \in {0, 1}
  /\ w.chain_id \in Numbers(8) /\ w.nonce \in Numbers(8) /\ w.gas_limit \in Numbers(8)
  /\ w.tip \in Numbers(32) /\ w.fee \in Numbers(32) /\ w.value \in Numbers(32)
  /\ w.r \in Numbers(32) /\ w.s \in Numbers(32)
  /\ w.to \in Seq(Byte) /\ Len(w.to) \in {0, 20}
  /\ w.data \in Seq(Byte) /\ Len(w.data) < MaxRequest
  /\ WalletV(w) \in Numbers(8)

\* Numbers are such strings.
LEMMA NumbersFit ==
  /\ \A s \in Numbers(8) : Fits(s)
  /\ \A s \in Numbers(32) : Fits(s)
<1>1. ASSUME NEW s \in Numbers(8) PROVE Fits(s)
  <2>1. s \in Seq(Byte) /\ Len(s) \in Nat /\ Len(s) <= 8
    BY DEF Numbers
  <2>2. QED
    BY <2>1 DEF Fits, MaxRequest
<1>2. ASSUME NEW s \in Numbers(32) PROVE Fits(s)
  <2>1. s \in Seq(Byte) /\ Len(s) \in Nat /\ Len(s) <= 32
    BY DEF Numbers
  <2>2. QED
    BY <2>1 DEF Fits, MaxRequest
<1>3. QED
  BY <1>1, <1>2

\* The number of a canonical string, and v.
LEMMA BytesAreNumbers ==
  ASSUME NEW n \in Nat, Len(Bytes[n]) <= 8
  PROVE  Bytes[n] \in Numbers(8)
<1>1. Bytes[n] \in Seq(Byte) /\ (Bytes[n] # <<>> => Bytes[n][1] # 0)
  BY BytesIs, BytesReadBack
<1>2. QED
  BY <1>1 DEF Numbers

\* The wallet's v is a number.
LEMMA WalletVIs ==
  ASSUME NEW w, w.parity \in {0, 1}, w.chain_id \in Numbers(8), Len(WalletV(w)) <= 8
  PROVE  WalletV(w) \in Numbers(8)
<1>1. CASE w.type # LEGACY
  <2>1. WalletV(w) = Bytes[w.parity] /\ w.parity \in Nat
    BY <1>1 DEF WalletV
  <2>2. QED
    BY <2>1, BytesAreNumbers
<1>2. CASE w.type = LEGACY /\ w.chain_id = <<>>
  <2>1. WalletV(w) = <<27 + w.parity>>
    BY <1>2 DEF WalletV
  <2>2. 27 + w.parity \in Byte /\ 27 + w.parity # 0
    <3>1. \A p \in {0, 1} : 27 + p \in Byte /\ 27 + p # 0
      BY DEF Byte
    <3>2. QED
      BY <3>1
  <2> DEFINE b == 27 + w.parity
  <2> HIDE DEF b
  <2>3. <<b>> \in Numbers(8)
    BY <2>2 DEF Numbers, b
  <2>4. QED
    BY <2>1, <2>3 DEF b
<1>3. CASE w.type = LEGACY /\ w.chain_id # <<>>
  <2> DEFINE n == 35 + 2 * Number(w.chain_id) + w.parity
  <2>1. WalletV(w) = Bytes[n]
    BY <1>3 DEF WalletV
  <2>2. Number(w.chain_id) \in Nat
    BY NumberReadsBack DEF Canonical, Numbers
  <2>3. n \in Nat
    BY <2>2
  <2> HIDE DEF n
  <2>4. QED
    BY <2>1, <2>3, BytesAreNumbers
<1>4. QED
  BY <1>1, <1>2, <1>3

\* WalletAssumption gives every transaction this shape.
LEMMA WalletShaped == \A w \in WalletTxs : Shaped(w)
<1> SUFFICES ASSUME NEW w \in WalletTxs PROVE Shaped(w)
  OBVIOUS
<1>1. /\ w.parity \in {0, 1}
      /\ w.chain_id \in Numbers(8) /\ w.nonce \in Numbers(8) /\ w.gas_limit \in Numbers(8)
      /\ w.tip \in Numbers(32) /\ w.fee \in Numbers(32) /\ w.value \in Numbers(32)
      /\ w.r \in Numbers(32) /\ w.s \in Numbers(32)
      /\ w.to \in Seq(Byte) /\ Len(w.to) \in {0, 20}
      /\ w.data \in Seq(Byte) /\ Len(w.data) < MaxRequest
      /\ Len(WalletV(w)) <= 8
  BY WalletAssumption
<1>2. WalletV(w) \in Numbers(8)
  BY <1>1, WalletVIs
<1>3. QED
  BY <1>1, <1>2 DEF Shaped

\* Every field of it is a string that fits into a request.
LEMMA ShapedFits ==
  ASSUME NEW w, Shaped(w)
  PROVE  /\ Fits(w.chain_id) /\ Fits(w.nonce) /\ Fits(w.tip) /\ Fits(w.fee)
         /\ Fits(w.gas_limit) /\ Fits(w.to) /\ Fits(w.value) /\ Fits(w.data)
         /\ Fits(WalletV(w)) /\ Fits(w.r) /\ Fits(w.s)
<1>1. Fits(w.to)
  <2>1. \A n \in {0, 20} : n < MaxRequest
    BY DEF MaxRequest
  <2>2. QED
    BY <2>1 DEF Shaped, Fits
<1>2. Fits(w.data)
  BY DEF Shaped, Fits
<1>3. QED
  BY <1>1, <1>2, NumbersFit DEF Shaped

\* What the decoder makes of the fields, when it reads them as they were sent.
LEMMA FieldsConvert ==
  ASSUME NEW w, Shaped(w)
  PROVE  /\ Convert("chain_id", w.chain_id) = w.chain_id
         /\ Convert("nonce", w.nonce) = w.nonce
         /\ Convert("gas_limit", w.gas_limit) = w.gas_limit
         /\ Convert("v", WalletV(w)) = WalletV(w)
         /\ Convert("tip", w.tip) = w.tip
         /\ Convert("fee", w.fee) = w.fee
         /\ Convert("value", w.value) = w.value
         /\ Convert("r", w.r) = w.r
         /\ Convert("s", w.s) = w.s
         /\ Convert("to", w.to) = w.to
         /\ Convert("data", w.data) = w.data
<1>1. /\ Convert("chain_id", w.chain_id) = w.chain_id
      /\ Convert("nonce", w.nonce) = w.nonce
      /\ Convert("gas_limit", w.gas_limit) = w.gas_limit
      /\ Convert("v", WalletV(w)) = WalletV(w)
  BY NumberConverts DEF Shaped, Convert
<1>2. /\ Convert("tip", w.tip) = w.tip
      /\ Convert("fee", w.fee) = w.fee
      /\ Convert("value", w.value) = w.value
      /\ Convert("r", w.r) = w.r
      /\ Convert("s", w.s) = w.s
  BY NumberConverts DEF Shaped, Convert
<1>3. Convert("data", w.data) = w.data
  BY DEF Convert
<1>4. Convert("to", w.to) = w.to
  <2>1. CASE w.to = <<>>
    BY <2>1 DEF Convert
  <2>2. CASE w.to # <<>>
    <3>1. w.to \in Seq(Byte) /\ Len(w.to) = 20
      BY <2>2 DEF Shaped
    <3>2. rlp_to_address(w.to) = w.to
      BY <3>1, AddressConverts
    <3>3. QED
      BY <2>2, <3>2 DEF Convert
  <2>3. QED
    BY <2>1, <2>2
<1>5. QED
  BY <1>1, <1>2, <1>3, <1>4

----------------------------------------------------------------------------
(* Legacy transactions.                                                    *)

\* A field that is read is converted and stored.
LEMMA StoredIs ==
  ASSUME NEW names, NEW read, NEW f \in DOMAIN Zeroed, NEW k, k = Position(names, f), k # 0
  PROVE  stored(names, read)[f] = Convert(f, read[k].item)
BY DEF stored

\* A field that is not read stays zero.
LEMMA NotStored ==
  ASSUME NEW names, NEW read, NEW f \in DOMAIN Zeroed, Position(names, f) = 0
  PROVE  stored(names, read)[f] = <<>>
BY DEF stored, Zeroed

\* The fields of evmdb_tx_t.
LEMMA ZeroedHas ==
  DOMAIN Zeroed = {"chain_id", "nonce", "tip", "fee", "gas_limit", "to", "value",
                   "data", "v", "r", "s"}
BY DEF Zeroed

\* The items of a list and what they are read as.
Readable(items, vals, n) ==
  /\ items \in Items /\ Len(items) = n
  /\ \A i \in 1 .. n : Len(items[i]) <= MaxItem /\ ReadsAs(items[i], vals[i])

\* A list of items that can be read is read as a whole.
LEMMA ListIsRead ==
  ASSUME NEW items, NEW vals, NEW n \in 0 .. 12, Readable(items, vals, n),
         NEW b, b = RlpList(items)
  PROVE  /\ b \in Seq(Byte) /\ b # <<>> /\ b[1] >= 192
         /\ \A read : read = read_items(rlp_decode_item(b, 0), n) =>
              \A i \in 0 .. n : read[i].ok /\ (i > 0 => read[i].item = vals[i])
<1> DEFINE d == FlattenSeq(items)
           p == RlpPrefix(Len(d), 192)
           list == [ok |-> TRUE, item |-> d, pos |-> Len(p)]
<1>0. n \in Nat /\ items \in Items /\ Len(items) = n
  BY DEF Readable
<1>1. PICK off : IsOffsets(items, n, off)
  BY <1>0, PlacesOfItems
<1>2. d \in Seq(Byte)
  <2>1. <<>> \in Seq(Byte)
    OBVIOUS
  <2>2. QED
    BY <1>0, <2>1, AppendItem
<1>3. Len(d) < MaxLen
  BY <1>0, <1>1, FewItems DEF Readable
<1>4. b = p \o d
  BY DEF RlpList
<1>5. /\ b \in Seq(Byte) /\ b # <<>> /\ b[1] >= 192
      /\ rlp_decode_item(b, 0) = list
  BY <1>2, <1>3, <1>4, ListReads
<1> SUFFICES ASSUME NEW read, read = read_items(list, n), NEW i \in 0 .. n
             PROVE  read[i].ok /\ (i > 0 => read[i].item = vals[i])
  BY <1>5
<1>6. IsRead(list, n, read)
  BY <1>0, ReadItemsIs
<1>7. AllRead(items, vals, n) /\ n \in 0 .. n /\ n <= n
  BY DEF Readable, AllRead
<1> HIDE DEF p
<1>8. IsReadAs(read, vals, off, n)
  BY <1>0, <1>1, <1>2, <1>6, <1>7, ItemsRead
<1>9. i \in Nat /\ i <= n
  OBVIOUS
<1>10. QED
  BY <1>8, <1>9 DEF IsReadAs

\* What a legacy transaction's list holds.
LegacyVals(w) == <<w.nonce, w.fee, w.gas_limit, w.to, w.value, w.data, WalletV(w), w.r, w.s>>
LegacyItems(w) ==
  <<RlpString(w.nonce), RlpString(w.fee), RlpString(w.gas_limit), RlpString(w.to),
    RlpString(w.value), RlpString(w.data), RlpString(WalletV(w)), RlpString(w.r),
    RlpString(w.s)>>

\* All of it can be read.
LEMMA LegacyReadable ==
  ASSUME NEW w, Shaped(w)
  PROVE  Readable(LegacyItems(w), LegacyVals(w), 9)
<1> DEFINE items == LegacyItems(w)
           vals == LegacyVals(w)
           Good(i) == /\ items[i] \in Seq(Byte) /\ Len(items[i]) <= MaxItem
                      /\ ReadsAs(items[i], vals[i])
<1>1. Good(1) /\ Good(2) /\ Good(3)
  BY ShapedFits, FitsIs DEF LegacyItems, LegacyVals
<1>2. Good(4) /\ Good(5) /\ Good(6)
  BY ShapedFits, FitsIs DEF LegacyItems, LegacyVals
<1>3. Good(7) /\ Good(8) /\ Good(9)
  BY ShapedFits, FitsIs DEF LegacyItems, LegacyVals
<1>4. items = [i \in 1 .. 9 |-> items[i]]
  BY DEF LegacyItems
<1> HIDE DEF items, vals
<1>5. ASSUME NEW i \in 1 .. 9 PROVE Good(i)
  <2>1. i \in {1, 2, 3, 4, 5, 6, 7, 8, 9}
    OBVIOUS
  <2> HIDE DEF Good
  <2>2. QED
    BY <1>1, <1>2, <1>3, <2>1
<1>6. items \in Items /\ Len(items) = 9
  <2> DEFINE B == Seq(Byte)
  <2>1. \A i \in 1 .. 9 : items[i] \in B
    BY <1>5
  <2> HIDE DEF B
  <2>2. items \in Seq(B) /\ Len(items) = 9
    BY <1>4, <2>1
  <2>3. QED
    BY <2>2 DEF B, Items
<1>7. QED
  BY <1>5, <1>6 DEF Readable, items, vals

\* Two lists one behind the other are a list.
LEMMA ItemsJoined ==
  ASSUME NEW l \in Items, NEW r \in Items
  PROVE  /\ l \o r \in Items /\ Len(l \o r) = Len(l) + Len(r)
         /\ \A j \in 1 .. Len(l) : (l \o r)[j] = l[j]
         /\ \A j \in 1 .. Len(r) : (l \o r)[Len(l) + j] = r[j]
<1> DEFINE B == Seq(Byte)
<1>1. l \in Seq(B) /\ r \in Seq(B)
  BY DEF Items
<1> HIDE DEF B
<1>2. /\ l \o r \in Seq(B) /\ Len(l \o r) = Len(l) + Len(r)
      /\ \A j \in 1 .. Len(l) : (l \o r)[j] = l[j]
      /\ \A j \in 1 .. Len(r) : (l \o r)[Len(l) + j] = r[j]
  BY <1>1
<1>3. QED
  BY <1>2 DEF B, Items

\* x is l followed by r.
Parts(x, l, r) ==
  /\ x \in Items /\ l \in Items /\ r \in Items /\ Len(x) = Len(l) + Len(r)
  /\ \A j \in 1 .. Len(l) : x[j] = l[j]
  /\ \A j \in 1 .. Len(r) : x[Len(l) + j] = r[j]

\* A list is its two parts.
LEMMA PartsJoin ==
  ASSUME NEW x, NEW l, NEW r, Parts(x, l, r)
  PROVE  l \o r = x
<1> DEFINE y == l \o r
           n == Len(l)
           m == Len(r)
<1>1. x \in Items /\ l \in Items /\ r \in Items /\ Len(x) = n + m
  BY DEF Parts
<1>2. /\ y \in Items /\ Len(y) = n + m
      /\ \A j \in 1 .. n : y[j] = l[j]
      /\ \A j \in 1 .. m : y[n + j] = r[j]
  BY <1>1, ItemsJoined
<1>3. n \in Nat /\ m \in Nat
  BY <1>1 DEF Items
<1>h. n = Len(l) /\ m = Len(r)
  OBVIOUS
<1> HIDE DEF y, n, m
<1>4. ASSUME NEW j \in 1 .. n + m PROVE y[j] = x[j]
  <2>1. CASE j \in 1 .. n
    BY <1>2, <1>h, <2>1 DEF Parts
  <2>2. CASE j \in n + 1 .. n + m
    <3>1. j - n \in 1 .. m /\ n + (j - n) = j
      BY <1>3, <2>2
    <3>2. y[n + (j - n)] = r[j - n] /\ x[n + (j - n)] = r[j - n]
      BY <1>2, <1>h, <3>1 DEF Parts
    <3>3. QED
      BY <3>1, <3>2
  <2>3. QED
    BY <1>3, <2>1, <2>2
<1>5. y = x
  BY <1>1, <1>2, <1>4 DEF Items
<1>6. QED
  BY <1>5 DEF y

\* What the wallet sends is that list.
LEMMA LegacyRaw ==
  ASSUME NEW w, Shaped(w), w.type = LEGACY
  PROVE  Raw(w) = <<>> \o RlpList(LegacyItems(w))
<1> DEFINE x == LegacyItems(w)
           l == <<x[1], x[2], x[3], x[4], x[5], x[6]>>
           r == <<x[7], x[8], x[9]>>
<1>1. x \in Items /\ Len(x) = 9
  BY LegacyReadable DEF Readable
<1>2. Body(w) = l /\ <<RlpString(WalletV(w)), RlpString(w.r), RlpString(w.s)>> = r
  BY DEF Body, LegacyItems
<1> HIDE DEF x
<1>3. Parts(x, l, r)
  <2>0. l \in Items /\ r \in Items
    <3> DEFINE B == Seq(Byte)
    <3>1. x \in Seq(B)
      BY <1>1 DEF Items
    <3> HIDE DEF B
    <3>2. \A j \in 1 .. 9 : x[j] \in B
      <4>1. \A j \in 1 .. Len(x) : x[j] \in B
        BY <3>1
      <4>2. QED
        BY <1>1, <4>1
    <3>3. l \in Seq(B) /\ r \in Seq(B)
      BY <3>2
    <3>4. QED
      BY <3>3 DEF B, Items
  <2>1. Len(l) = 6 /\ Len(r) = 3
    OBVIOUS
  <2>2. \A j \in 1 .. 6 : x[j] = l[j]
    OBVIOUS
  <2>3. \A j \in 1 .. 3 : x[6 + j] = r[j]
    OBVIOUS
  <2> HIDE DEF l, r
  <2>4. QED
    BY <1>1, <2>0, <2>1, <2>2, <2>3 DEF Parts
<1>4. l \o r = x
  <2> HIDE DEF l, r
  <2>1. QED
    BY <1>3, PartsJoin
<1>5. TypeByte(w) = <<>>
  BY DEF TypeByte
<1>6. Raw(w) = TypeByte(w) \o RlpList(l \o r)
  <2> HIDE DEF l, r
  <2>1. QED
    BY <1>2 DEF Raw
<1>7. QED
  BY <1>4, <1>5, <1>6 DEF x

\* What the v of a legacy transaction stands for.
LEMMA VWithoutChain ==
  ASSUME NEW w, Shaped(w), w.type = LEGACY, w.chain_id = <<>>
  PROVE  /\ WalletV(w) = <<27 + w.parity>> /\ ~AtLeast35(WalletV(w))
         /\ WalletV(w) \in {<<27>>, <<28>>} /\ WalletV(w)[1] - 27 = w.parity
<1>1. WalletV(w) = <<27 + w.parity>>
  BY DEF WalletV
<1>2. w.parity = 0 \/ w.parity = 1
  BY DEF Shaped
<1>3. CASE w.parity = 0
  <2>1. WalletV(w) = <<27>>
    BY <1>1, <1>3
  <2>2. Len(<<27>>) = 1 /\ <<27>>[1] = 27
    OBVIOUS
  <2>3. ~AtLeast35(<<27>>)
    BY <2>2 DEF AtLeast35
  <2>4. QED
    BY <1>1, <1>3, <2>1, <2>2, <2>3
<1>4. CASE w.parity = 1
  <2>1. WalletV(w) = <<28>>
    BY <1>1, <1>4
  <2>2. Len(<<28>>) = 1 /\ <<28>>[1] = 28
    OBVIOUS
  <2>3. ~AtLeast35(<<28>>)
    BY <2>2 DEF AtLeast35
  <2>4. QED
    BY <1>1, <1>4, <2>1, <2>2, <2>3
<1>5. QED
  BY <1>2, <1>3, <1>4

\* v of an EIP-155 transaction gives back chain id and parity.
LEMMA VWithChain ==
  ASSUME NEW w, Shaped(w), w.type = LEGACY, w.chain_id # <<>>
  PROVE  /\ AtLeast35(WalletV(w)) /\ WalletV(w) \notin {<<27>>, <<28>>}
         /\ Bytes[(Number(WalletV(w)) - 35) \div 2] = w.chain_id
         /\ (Number(WalletV(w)) - 35) % 2 = w.parity
<1> DEFINE c == Number(w.chain_id)
           p == w.parity
           n == 35 + 2 * c + p
           v == WalletV(w)
<1>1. c \in Nat /\ Bytes[c] = w.chain_id
  BY NumberReadsBack DEF Shaped, Canonical, Numbers
<1>2. p \in {0, 1}
  BY DEF Shaped
<1>3. v = Bytes[n]
  BY DEF WalletV
<1> HIDE DEF c, p, v
<1>4. n \in Nat /\ n >= 35 /\ n # 0
  BY <1>1, <1>2
<1>5. (n - 35) \div 2 = c /\ (n - 35) % 2 = p
  BY <1>1, <1>2
<1> HIDE DEF n
<1>6. Number(v) = n
  BY <1>3, <1>4, BytesReadBack
<1>7. CASE n < 256
  <2>1. v = <<n>>
    BY <1>3, <1>4, <1>7, BytesLength
  <2>2. Len(<<n>>) = 1 /\ <<n>>[1] = n
    OBVIOUS
  <2>3. AtLeast35(v)
    BY <1>4, <2>1, <2>2 DEF AtLeast35
  <2>4. <<27>>[1] = 27 /\ <<28>>[1] = 28
    OBVIOUS
  <2>5. v # <<27>> /\ v # <<28>>
    BY <1>4, <2>1, <2>2, <2>4
  <2>6. QED
    BY <1>1, <1>5, <1>6, <2>3, <2>5 DEF v, c, p
<1>8. CASE n >= 256
  <2>1. Len(v) > 1
    BY <1>3, <1>4, <1>8, BytesLength
  <2>2. AtLeast35(v)
    BY <2>1 DEF AtLeast35
  <2>3. Len(<<27>>) = 1 /\ Len(<<28>>) = 1
    OBVIOUS
  <2>4. v # <<27>> /\ v # <<28>>
    <3>1. Len(v) \in Nat
      BY <1>3, <1>4, BytesIs
    <3>2. \A k \in Nat : k > 1 => k # 1
      OBVIOUS
    <3>3. QED
      BY <2>1, <2>3, <3>1, <3>2
  <2>5. QED
    BY <1>1, <1>5, <1>6, <2>2, <2>4 DEF v, c, p
<1>9. n < 256 \/ n >= 256
  BY <1>4
<1>10. QED
  BY <1>7, <1>8, <1>9

\* What the decoder stores of a transaction is what the wallet signed.
Same(d, w) ==
  /\ d.ok /\ d.type = w.type
  /\ d.f["chain_id"] = w.chain_id /\ d.f["nonce"] = w.nonce /\ d.f["fee"] = w.fee
  /\ d.f["gas_limit"] = w.gas_limit /\ d.f["to"] = w.to /\ d.f["value"] = w.value
  /\ d.f["data"] = w.data /\ d.f["v"] = WalletV(w) /\ d.f["r"] = w.r /\ d.f["s"] = w.s

\* A legacy transaction is decoded as it was signed.
LEMMA LegacyDecodes ==
  ASSUME NEW w, Shaped(w), w.type = LEGACY
  PROVE  /\ Same(decode(Raw(w)), w)
         /\ Raw(w) \in Seq(Byte) /\ Raw(w) # <<>>
<1> DEFINE b == RlpList(LegacyItems(w))
           names == Fields(LEGACY)
           list == rlp_decode_item(b, 0)
           read == read_items(list, 9)
           fields == stored(names, read)
<1>1. Readable(LegacyItems(w), LegacyVals(w), 9)
  BY LegacyReadable
<1>2. /\ b \in Seq(Byte) /\ b # <<>> /\ b[1] >= 192
      /\ \A i \in 0 .. 9 : read[i].ok /\ (i > 0 => read[i].item = LegacyVals(w)[i])
  BY <1>1, ListIsRead
<1>3. Raw(w) = b
  <2> HIDE DEF b
  <2>1. <<>> \o b = b
    BY <1>2
  <2>2. QED
    BY <2>1, LegacyRaw DEF b
<1> HIDE DEF b
<1>4. b[1] \notin {EIP2930, EIP1559}
  BY <1>2 DEF EIP2930, EIP1559
<1>5. Len(names) = 9
  BY LegacyPositions
<1>6. decode(b) = [ok |-> read[9].ok, type |-> LEGACY, f |->
                     IF AtLeast35(fields.v)
                     THEN [fields EXCEPT !.chain_id = Bytes[(Number(fields.v) - 35) \div 2]]
                     ELSE fields]
  BY <1>4, <1>5 DEF decode
<1> HIDE DEF list, read
<1>7. /\ read[9].ok
      /\ read[1].item = w.nonce /\ read[2].item = w.fee /\ read[3].item = w.gas_limit
      /\ read[4].item = w.to /\ read[5].item = w.value /\ read[6].item = w.data
      /\ read[7].item = WalletV(w) /\ read[8].item = w.r /\ read[9].item = w.s
  BY <1>2 DEF LegacyVals
<1>8. fields = [f \in DOMAIN Zeroed |-> fields[f]]
  BY DEF stored
<1>9. /\ fields["nonce"] = w.nonce /\ fields["fee"] = w.fee
      /\ fields["gas_limit"] = w.gas_limit /\ fields["to"] = w.to
      /\ fields["value"] = w.value /\ fields["data"] = w.data
      /\ fields["v"] = WalletV(w) /\ fields["r"] = w.r /\ fields["s"] = w.s
  <2> HIDE DEF names, fields
  <2>0. {"nonce", "fee", "gas_limit", "to", "value", "data", "v", "r", "s"} \subseteq DOMAIN Zeroed
    BY ZeroedHas
  <2>1. fields["nonce"] = w.nonce
    BY <1>7, <2>0, LegacyPositions, StoredIs, FieldsConvert DEF fields, names
  <2>2. fields["fee"] = w.fee
    BY <1>7, <2>0, LegacyPositions, StoredIs, FieldsConvert DEF fields, names
  <2>3. fields["gas_limit"] = w.gas_limit
    BY <1>7, <2>0, LegacyPositions, StoredIs, FieldsConvert DEF fields, names
  <2>4. fields["to"] = w.to
    BY <1>7, <2>0, LegacyPositions, StoredIs, FieldsConvert DEF fields, names
  <2>5. fields["value"] = w.value
    BY <1>7, <2>0, LegacyPositions, StoredIs, FieldsConvert DEF fields, names
  <2>6. fields["data"] = w.data
    BY <1>7, <2>0, LegacyPositions, StoredIs, FieldsConvert DEF fields, names
  <2>7. fields["v"] = WalletV(w)
    BY <1>7, <2>0, LegacyPositions, StoredIs, FieldsConvert DEF fields, names
  <2>8. fields["r"] = w.r
    BY <1>7, <2>0, LegacyPositions, StoredIs, FieldsConvert DEF fields, names
  <2>9. fields["s"] = w.s
    BY <1>7, <2>0, LegacyPositions, StoredIs, FieldsConvert DEF fields, names
  <2>10. QED
    BY <2>1, <2>2, <2>3, <2>4, <2>5, <2>6, <2>7, <2>8, <2>9
<1>10. fields["chain_id"] = <<>>
  BY ZeroedHas, LegacyPositions, NotStored
<1> HIDE DEF names, fields
<1>11. CASE w.chain_id = <<>>
  <2>1. decode(b) = [ok |-> read[9].ok, type |-> LEGACY, f |-> fields]
    BY <1>6, <1>9, <1>11, VWithoutChain
  <2>2. Same(decode(b), w)
    BY <1>7, <1>8, <1>9, <1>10, <1>11, <2>1 DEF Same
  <2>3. QED
    BY <1>2, <1>3, <2>2
<1>12. CASE w.chain_id # <<>>
  <2> DEFINE g == [fields EXCEPT !.chain_id = w.chain_id]
  <2>1. decode(b) = [ok |-> read[9].ok, type |-> LEGACY, f |-> g]
    BY <1>6, <1>9, <1>12, VWithChain
  <2>2. /\ g = [f \in DOMAIN Zeroed |-> g[f]] /\ g["chain_id"] = w.chain_id
        /\ \A f \in DOMAIN Zeroed \ {"chain_id"} : g[f] = fields[f]
    BY <1>8, ZeroedHas
  <2> HIDE DEF g
  <2>3. /\ g["nonce"] = w.nonce /\ g["fee"] = w.fee
        /\ g["gas_limit"] = w.gas_limit /\ g["to"] = w.to
        /\ g["value"] = w.value /\ g["data"] = w.data
        /\ g["v"] = WalletV(w) /\ g["r"] = w.r /\ g["s"] = w.s
    BY <1>9, <2>2, ZeroedHas
  <2>4. Same(decode(b), w)
    BY <1>7, <2>1, <2>2, <2>3 DEF Same
  <2>5. QED
    BY <1>2, <1>3, <2>4
<1>13. QED
  BY <1>11, <1>12

----------------------------------------------------------------------------
(* The second encoder.                                                     *)

\* The second encoder writes what RLP says.
LEMMA AppendLength ==
  ASSUME NEW n \in Nat
  PROVE  /\ rlp_append_length(n, 128, 183) = RlpPrefix(n, 128)
         /\ rlp_append_length(n, 192, 247) = RlpPrefix(n, 192)
<1> DEFINE b == Bytes[n]
           k == Len(b)
<1>1. k \in Nat
  BY BytesIs
<1> HIDE DEF b
<1>2. CASE n <= 55
  <2>1. n < 56
    BY <1>2
  <2>2. QED
    BY <1>2, <2>1 DEF rlp_append_length, RlpPrefix
<1>3. CASE ~(n <= 55)
  <2>1. ~(n < 56)
    BY <1>3
  <2>2. 128 + 55 + k = 183 + k /\ 192 + 55 + k = 247 + k
    BY <1>1
  <2>3. /\ rlp_append_length(n, 128, 183) = <<183 + k>> \o b
        /\ rlp_append_length(n, 192, 247) = <<247 + k>> \o b
    BY <1>3 DEF rlp_append_length, b
  <2>4. /\ RlpPrefix(n, 128) = <<128 + 55 + k>> \o b
        /\ RlpPrefix(n, 192) = <<192 + 55 + k>> \o b
    BY <2>1 DEF RlpPrefix, b
  <2> HIDE DEF k
  <2>5. RlpPrefix(n, 128) = <<183 + k>> \o b
    BY <2>2, <2>4
  <2>6. RlpPrefix(n, 192) = <<247 + k>> \o b
    BY <2>2, <2>4
  <2>7. QED
    BY <2>3, <2>5, <2>6
<1>4. QED
  BY <1>2, <1>3

\* tx.c's rlp_append_bytes is RLP for strings.
LEMMA AppendBytes ==
  ASSUME NEW s \in Seq(Byte)
  PROVE  rlp_append_bytes(s) = RlpString(s)
<1>1. Len(s) \in Nat
  OBVIOUS
<1>2. rlp_append_length(Len(s), 128, 183) = RlpPrefix(Len(s), 128)
  BY <1>1, AppendLength
<1>3. CASE Len(s) = 1
  <2>1. 1 \in 1 .. Len(s)
    BY <1>3
  <2>2. s[1] \in Nat
    BY <2>1, ByteAt
  <2>3. s[1] <= 127 <=> s[1] < 128
    BY <2>2
  <2>4. QED
    BY <1>2, <2>3 DEF rlp_append_bytes, RlpString
<1>4. CASE Len(s) # 1
  BY <1>2, <1>4 DEF rlp_append_bytes, RlpString
<1>5. QED
  BY <1>3, <1>4

\* tx.c's rlp_wrap_list is RLP for lists.
LEMMA WrapList ==
  ASSUME NEW items, FlattenSeq(items) \in Seq(Byte)
  PROVE  rlp_wrap_list(FlattenSeq(items)) = RlpList(items)
<1>1. Len(FlattenSeq(items)) \in Nat
  OBVIOUS
<1>2. rlp_append_length(Len(FlattenSeq(items)), 192, 247) = RlpPrefix(Len(FlattenSeq(items)), 192)
  BY <1>1, AppendLength
<1>3. QED
  BY <1>2 DEF rlp_wrap_list, RlpList

\* What two strings one behind the other hold.
LEMMA JoinedAt ==
  ASSUME NEW a \in Seq(Byte), NEW b \in Seq(Byte)
  PROVE  /\ a \o b \in Seq(Byte) /\ Len(a \o b) = Len(a) + Len(b)
         /\ (\A i \in 1 .. Len(a) : (a \o b)[i] = a[i])
         /\ \A i \in 1 .. Len(b) : (a \o b)[Len(a) + i] = b[i]
  OBVIOUS

\* Joining strings is associative.
LEMMA Assoc ==
  ASSUME NEW a \in Seq(Byte), NEW b \in Seq(Byte), NEW c \in Seq(Byte)
  PROVE  (a \o b) \o c = a \o (b \o c)
<1> DEFINE k == Len(a)
           m == Len(b)
           n == Len(c)
           x == (a \o b) \o c
           y == a \o (b \o c)
<1>1. k \in Nat /\ m \in Nat /\ n \in Nat
  OBVIOUS
<1>2. /\ a \o b \in Seq(Byte) /\ Len(a \o b) = k + m
      /\ (\A i \in 1 .. k : (a \o b)[i] = a[i])
      /\ \A i \in 1 .. m : (a \o b)[k + i] = b[i]
  OBVIOUS
<1>3. /\ b \o c \in Seq(Byte) /\ Len(b \o c) = m + n
      /\ (\A i \in 1 .. m : (b \o c)[i] = b[i])
      /\ \A i \in 1 .. n : (b \o c)[m + i] = c[i]
  OBVIOUS
<1>4. /\ x \in Seq(Byte) /\ Len(x) = (k + m) + n
      /\ (\A i \in 1 .. k + m : x[i] = (a \o b)[i])
      /\ \A i \in 1 .. n : x[(k + m) + i] = c[i]
  <2> DEFINE ab == a \o b
  <2>1. ab \in Seq(Byte) /\ Len(ab) = k + m
    BY <1>2
  <2> HIDE DEF ab
  <2>2. /\ ab \o c \in Seq(Byte) /\ Len(ab \o c) = Len(ab) + n
        /\ (\A i \in 1 .. Len(ab) : (ab \o c)[i] = ab[i])
        /\ \A i \in 1 .. n : (ab \o c)[Len(ab) + i] = c[i]
    BY <2>1, JoinedAt
  <2>3. QED
    BY <2>1, <2>2 DEF ab
<1>5. /\ y \in Seq(Byte) /\ Len(y) = k + (m + n)
      /\ (\A i \in 1 .. k : y[i] = a[i])
      /\ \A i \in 1 .. m + n : y[k + i] = (b \o c)[i]
  <2> DEFINE bc == b \o c
  <2>1. bc \in Seq(Byte) /\ Len(bc) = m + n
    BY <1>3
  <2> HIDE DEF bc
  <2>2. /\ a \o bc \in Seq(Byte) /\ Len(a \o bc) = k + Len(bc)
        /\ (\A i \in 1 .. k : (a \o bc)[i] = a[i])
        /\ \A i \in 1 .. Len(bc) : (a \o bc)[k + i] = bc[i]
    BY <2>1, JoinedAt
  <2>3. QED
    BY <2>1, <2>2 DEF bc
<1> HIDE DEF k, m, n, x, y
<1>6. ASSUME NEW i \in 1 .. (k + m) + n PROVE x[i] = y[i]
  <2>1. CASE i \in 1 .. k
    <3>1. i \in 1 .. k + m
      BY <1>1, <2>1
    <3>2. QED
      BY <1>2, <1>4, <1>5, <2>1, <3>1
  <2>2. CASE i \in k + 1 .. k + m
    <3>1. i \in 1 .. k + m /\ i - k \in 1 .. m /\ i - k \in 1 .. m + n /\ k + (i - k) = i
      BY <1>1, <2>2
    <3>2. x[i] = (a \o b)[k + (i - k)] /\ y[k + (i - k)] = (b \o c)[i - k]
      BY <1>4, <1>5, <3>1
    <3>3. (a \o b)[k + (i - k)] = b[i - k] /\ (b \o c)[i - k] = b[i - k]
      BY <1>2, <1>3, <3>1
    <3>4. QED
      BY <3>1, <3>2, <3>3
  <2>3. CASE i \in (k + m) + 1 .. (k + m) + n
    <3> DEFINE j == i - (k + m)
    <3>1. /\ j \in 1 .. n /\ (k + m) + j = i /\ m + j \in 1 .. m + n /\ k + (m + j) = i
      BY <1>1, <2>3
    <3> HIDE DEF j
    <3>2. x[(k + m) + j] = c[j] /\ y[k + (m + j)] = (b \o c)[m + j] /\ (b \o c)[m + j] = c[j]
      BY <1>3, <1>4, <1>5, <3>1
    <3>3. QED
      BY <3>1, <3>2
  <2>4. QED
    BY <1>1, <2>1, <2>2, <2>3
<1>7. (k + m) + n = k + (m + n)
  BY <1>1
<1>8. x = y
  BY <1>4, <1>5, <1>6, <1>7
<1>9. QED
  BY <1>8 DEF x, y

\* A list of strings cut in two.
LEMMA Slices ==
  ASSUME NEW x \in Items, NEW m \in Nat, NEW n \in Nat, Len(x) = m + n
  PROVE  /\ x = [i \in 1 .. m |-> x[i]] \o [i \in 1 .. n |-> x[m + i]]
         /\ [i \in 1 .. m |-> x[i]] \in Items /\ [i \in 1 .. n |-> x[m + i]] \in Items
<1> DEFINE l == [i \in 1 .. m |-> x[i]]
           r == [i \in 1 .. n |-> x[m + i]]
           B == Seq(Byte)
<1>0. x \in Seq(B)
  BY DEF Items
<1> HIDE DEF B
<1>1. \A i \in 1 .. m + n : x[i] \in B
  BY <1>0
<1>2. l \in Seq(B) /\ Len(l) = m
  BY <1>1
<1>3. r \in Seq(B) /\ Len(r) = n
  <2>1. \A i \in 1 .. n : m + i \in 1 .. m + n
    OBVIOUS
  <2>2. \A i \in 1 .. n : x[m + i] \in B
    BY <1>1, <2>1
  <2>3. QED
    BY <2>2
<1>4. l \in Items /\ r \in Items
  BY <1>2, <1>3 DEF B, Items
<1>5. (\A i \in 1 .. m : l[i] = x[i]) /\ \A i \in 1 .. n : r[i] = x[m + i]
  OBVIOUS
<1> HIDE DEF l, r
<1>6. Parts(x, l, r)
  BY <1>2, <1>3, <1>4, <1>5 DEF Parts
<1>7. l \o r = x
  BY <1>6, PartsJoin
<1>8. QED
  BY <1>4, <1>7 DEF l, r

\* Two bytes one behind the other.
LEMMA TwoBytes ==
  ASSUME NEW a \in Byte, NEW b \in Byte
  PROVE  <<a>> \o <<b>> = <<a, b>>
<1> DEFINE x == <<a>>
           y == <<b>>
           z == <<a, b>>
<1>1. x \in Seq(Byte) /\ Len(x) = 1 /\ x[1] = a /\ y \in Seq(Byte) /\ Len(y) = 1 /\ y[1] = b
  OBVIOUS
<1>2. z \in Seq(Byte) /\ Len(z) = 2 /\ z[1] = a /\ z[2] = b
  OBVIOUS
<1> HIDE DEF x, y, z
<1>3. /\ x \o y \in Seq(Byte) /\ Len(x \o y) = Len(x) + Len(y)
      /\ (\A i \in 1 .. Len(x) : (x \o y)[i] = x[i])
      /\ \A i \in 1 .. Len(y) : (x \o y)[Len(x) + i] = y[i]
  BY <1>1, JoinedAt
<1> DEFINE u == x \o y
<1> HIDE DEF u
<1>4. u \in Seq(Byte) /\ Len(u) = 2 /\ u[1] = a /\ u[1 + 1] = b
  BY <1>1, <1>3 DEF u
<1>5. u = z
  BY <1>2, <1>4
<1>6. QED
  BY <1>5 DEF u, x, y, z

\* A list of three more items.
LEMMA AppendThree ==
  ASSUME NEW items \in Items, NEW a \in Seq(Byte), NEW b \in Seq(Byte), NEW c \in Seq(Byte)
  PROVE  items \o <<a, b, c>> = Append(Append(Append(items, a), b), c)
<1> DEFINE B == Seq(Byte)
<1>1. items \in Seq(B) /\ a \in B /\ b \in B /\ c \in B
  BY DEF Items
<1> HIDE DEF B
<1> SUFFICES ASSUME NEW i \in Seq(B), NEW x \in B, NEW y \in B, NEW z \in B
             PROVE  i \o <<x, y, z>> = Append(Append(Append(i, x), y), z)
  BY <1>1
<1>2. QED
  OBVIOUS

\* What three more items add to the bytes of a list.
LEMMA FlattenThree ==
  ASSUME NEW items \in Items, NEW a \in Seq(Byte), NEW b \in Seq(Byte), NEW c \in Seq(Byte)
  PROVE  /\ FlattenSeq(items \o <<a, b, c>>) = FlattenSeq(items) \o (a \o (b \o c))
         /\ FlattenSeq(items \o <<a, b, c>>) \in Seq(Byte)
<1> DEFINE i == Append(items, a)
           j == Append(i, b)
           k == Append(j, c)
           f == FlattenSeq(items)
<1>1. i \in Items /\ j \in Items
  BY DEF Items
<1>2. items \o <<a, b, c>> = k
  BY AppendThree
<1>3. f \in Seq(Byte) /\ FlattenSeq(i) = f \o a
  BY AppendItem
<1> HIDE DEF i
<1>4. FlattenSeq(i) \in Seq(Byte) /\ FlattenSeq(j) = FlattenSeq(i) \o b
  BY <1>1, AppendItem
<1> HIDE DEF j
<1>5. FlattenSeq(j) \in Seq(Byte) /\ FlattenSeq(k) = FlattenSeq(j) \o c
  BY <1>1, AppendItem
<1> HIDE DEF k, f
<1>6. FlattenSeq(k) = ((f \o a) \o b) \o c
  BY <1>3, <1>4, <1>5
<1>7. f \o a \in Seq(Byte) /\ b \o c \in Seq(Byte)
  BY <1>3, Joined
<1> DEFINE fa == f \o a
<1>h. fa \in Seq(Byte)
  BY <1>7
<1> HIDE DEF fa
<1>a. (fa \o b) \o c = fa \o (b \o c)
  BY <1>h, Assoc
<1>8. ((f \o a) \o b) \o c = (f \o a) \o (b \o c)
  BY <1>a DEF fa
<1>9. (f \o a) \o (b \o c) = f \o (a \o (b \o c))
  BY <1>3, <1>7, Assoc, ZenonT(60)
<1>10. FlattenSeq(k) \in Seq(Byte)
  BY <1>5, Joined
<1>11. QED
  BY <1>2, <1>6, <1>8, <1>9, <1>10 DEF f

\* The transaction of a legacy wallet is encoded again as it was signed.
LEMMA LegacySigned ==
  ASSUME NEW w, Shaped(w), w.type = LEGACY, NEW d, Same(d, w)
  PROVE  signing_bytes(d) = Signed(w)
<1> DEFINE names == <<"nonce", "fee", "gas_limit", "to", "value", "data">>
           body == Body(w)
           enc == FlattenSeq([i \in DOMAIN names |-> rlp_append_bytes(d.f[names[i]])])
           end == IF w.chain_id = <<>> THEN <<>>
                  ELSE rlp_append_bytes(w.chain_id) \o <<128, 128>>
<1>0. /\ RlpString(w.nonce) \in Seq(Byte) /\ RlpString(w.fee) \in Seq(Byte)
      /\ RlpString(w.gas_limit) \in Seq(Byte) /\ RlpString(w.to) \in Seq(Byte)
      /\ RlpString(w.value) \in Seq(Byte) /\ RlpString(w.data) \in Seq(Byte)
      /\ RlpString(w.chain_id) \in Seq(Byte) /\ w.chain_id \in Seq(Byte)
  BY ShapedFits, FitsIs DEF Fits
<1>1. body = <<RlpString(w.nonce), RlpString(w.fee), RlpString(w.gas_limit),
               RlpString(w.to), RlpString(w.value), RlpString(w.data)>>
  BY DEF Body
<1>2. body \in Items
  <2> DEFINE B == Seq(Byte)
  <2>1. /\ RlpString(w.nonce) \in B /\ RlpString(w.fee) \in B
        /\ RlpString(w.gas_limit) \in B /\ RlpString(w.to) \in B
        /\ RlpString(w.value) \in B /\ RlpString(w.data) \in B
    BY <1>0
  <2> HIDE DEF B
  <2>2. body \in Seq(B)
    BY <1>1, <2>1
  <2>3. QED
    BY <2>2 DEF B, Items
<1>3. [i \in DOMAIN names |-> rlp_append_bytes(d.f[names[i]])] = body
  <2>1. /\ rlp_append_bytes(d.f["nonce"]) = RlpString(w.nonce)
        /\ rlp_append_bytes(d.f["fee"]) = RlpString(w.fee)
        /\ rlp_append_bytes(d.f["gas_limit"]) = RlpString(w.gas_limit)
        /\ rlp_append_bytes(d.f["to"]) = RlpString(w.to)
        /\ rlp_append_bytes(d.f["value"]) = RlpString(w.value)
        /\ rlp_append_bytes(d.f["data"]) = RlpString(w.data)
    BY ShapedFits, AppendBytes DEF Same, Fits
  <2> DEFINE a(f) == rlp_append_bytes(d.f[f])
  <2>2. [i \in DOMAIN names |-> a(names[i])] =
          <<a("nonce"), a("fee"), a("gas_limit"), a("to"), a("value"), a("data")>>
    <3> HIDE DEF a
    <3>1. QED
      OBVIOUS
  <2>3. QED
    BY <1>1, <2>1, <2>2
<1> HIDE DEF names, body
<1>4. enc = FlattenSeq(body) /\ FlattenSeq(body) \in Seq(Byte)
  BY <1>0, <1>2, <1>3, AppendItem
<1>5. signing_bytes(d) = rlp_wrap_list(enc \o end)
  BY DEF signing_bytes, Same, LEGACY, EIP1559, names
<1> HIDE DEF enc
<1>6. TypeByte(w) = <<>>
  BY DEF TypeByte
<1>7. ASSUME NEW items, FlattenSeq(items) = enc \o end, FlattenSeq(items) \in Seq(Byte),
             Signed(w) = TypeByte(w) \o RlpList(items)
      PROVE  signing_bytes(d) = Signed(w)
  <2>1. signing_bytes(d) = RlpList(items)
    BY <1>5, <1>7, WrapList
  <2>2. RlpList(items) \in Seq(Byte) => <<>> \o RlpList(items) = RlpList(items)
    OBVIOUS
  <2>3. RlpList(items) = RlpPrefix(Len(FlattenSeq(items)), 192) \o FlattenSeq(items)
    BY DEF RlpList
  <2>4. QED
    BY <1>6, <1>7, <2>1, <2>2
<1>8. CASE w.chain_id = <<>>
  <2>1. Signed(w) = TypeByte(w) \o RlpList(body \o <<>>)
    BY <1>8 DEF Signed, body
  <2>2. body \o <<>> = body
    BY <1>2 DEF Items
  <2>3. enc \o end = enc
    BY <1>4, <1>8
  <2>4. QED
    BY <1>4, <1>7, <2>1, <2>2, <2>3
<1>9. CASE w.chain_id # <<>>
  <2> DEFINE c == RlpString(w.chain_id)
             z == RlpString(<<>>)
  <2>1. Signed(w) = TypeByte(w) \o RlpList(body \o <<c, z, z>>)
    BY <1>9 DEF Signed, body
  <2>2. z = <<128>>
    BY DEF RlpString, RlpPrefix
  <2>3. z \in Seq(Byte) /\ z \o z = <<128, 128>>
    <3>1. 128 \in Byte
      BY DEF Byte
    <3>2. z \in Seq(Byte)
      BY <2>2, <3>1, OneByte
    <3>3. <<128>> \o <<128>> = <<128, 128>>
      BY <3>1, TwoBytes
    <3>4. QED
      BY <2>2, <3>2, <3>3
  <2>4. end = c \o (z \o z)
    BY <1>0, <1>9, <2>3, AppendBytes
  <2> HIDE DEF c, z
  <2>5. /\ FlattenSeq(body \o <<c, z, z>>) = FlattenSeq(body) \o (c \o (z \o z))
        /\ FlattenSeq(body \o <<c, z, z>>) \in Seq(Byte)
    BY <1>0, <1>2, <2>3, FlattenThree DEF c
  <2>6. QED
    BY <1>4, <1>7, <2>1, <2>4, <2>5, ZenonT(60)
<1>10. QED
  BY <1>8, <1>9

\* A legacy transaction's sender is recovered as its signer.
LEMMA LegacyRecovers ==
  ASSUME NEW w, Shaped(w), w.type = LEGACY, NEW d, Same(d, w)
  PROVE  /\ recid(d) = w.parity /\ ecdsa_recover(w, d) = "signer"
<1>1. d.type = LEGACY /\ d.f.v = WalletV(w) /\ d.f.r = w.r /\ d.f.s = w.s
  BY DEF Same
<1>2. recid(d) = w.parity
  <2>1. CASE w.chain_id = <<>>
    BY <1>1, <2>1, VWithoutChain DEF recid
  <2>2. CASE w.chain_id # <<>>
    BY <1>1, <2>2, VWithChain DEF recid
  <2>3. QED
    BY <2>1, <2>2
<1>3. QED
  BY <1>1, <1>2, LegacySigned DEF ecdsa_recover

----------------------------------------------------------------------------
(* EIP-1559 transactions.                                                  *)

\* What an EIP-1559 transaction's list holds.
FeeVals(w) == <<w.chain_id, w.nonce, w.tip, w.fee, w.gas_limit, w.to, w.value, w.data,
                <<>>, WalletV(w), w.r, w.s>>
FeeItems(w) ==
  <<RlpString(w.chain_id), RlpString(w.nonce), RlpString(w.tip), RlpString(w.fee),
    RlpString(w.gas_limit), RlpString(w.to), RlpString(w.value), RlpString(w.data),
    AccessList(w), RlpString(WalletV(w)), RlpString(w.r), RlpString(w.s)>>

\* The access list is bytes that fit.
Listed(w) == AccessList(w) \in Seq(Byte) /\ Len(AccessList(w)) <= MaxItem

\* They are bytes, and all but the access list read as the fields.
LEMMA FeeItemsAre ==
  ASSUME NEW w, Shaped(w), Listed(w)
  PROVE  /\ FeeItems(w) \in Items /\ Len(FeeItems(w)) = 12
         /\ \A i \in 1 .. 12 :
              /\ Len(FeeItems(w)[i]) <= MaxItem
              /\ i # 9 => ReadsAs(FeeItems(w)[i], FeeVals(w)[i])
<1> DEFINE items == FeeItems(w)
           vals == FeeVals(w)
           Good(i) == /\ items[i] \in Seq(Byte) /\ Len(items[i]) <= MaxItem
                      /\ i # 9 => ReadsAs(items[i], vals[i])
<1>1. Good(1) /\ Good(2) /\ Good(3)
  BY ShapedFits, FitsIs DEF FeeItems, FeeVals
<1>2. Good(4) /\ Good(5) /\ Good(6)
  BY ShapedFits, FitsIs DEF FeeItems, FeeVals
<1>3. Good(7) /\ Good(8)
  BY ShapedFits, FitsIs DEF FeeItems, FeeVals
<1>4. Good(9)
  BY DEF FeeItems, Listed
<1>5. Good(10) /\ Good(11) /\ Good(12)
  BY ShapedFits, FitsIs DEF FeeItems, FeeVals
<1>6. items = [i \in 1 .. 12 |-> items[i]]
  BY DEF FeeItems
<1> HIDE DEF items, vals
<1>7. ASSUME NEW i \in 1 .. 12 PROVE Good(i)
  <2>1. i \in {1, 2, 3, 4, 5, 6, 7, 8, 9, 10, 11, 12}
    OBVIOUS
  <2> HIDE DEF Good
  <2>2. QED
    BY <1>1, <1>2, <1>3, <1>4, <1>5, <2>1
<1>8. items \in Items /\ Len(items) = 12
  <2> DEFINE B == Seq(Byte)
  <2>1. \A i \in 1 .. 12 : items[i] \in B
    BY <1>7
  <2> HIDE DEF B
  <2>2. items \in Seq(B) /\ Len(items) = 12
    BY <1>6, <2>1
  <2>3. QED
    BY <2>2 DEF B, Items
<1>9. QED
  BY <1>7, <1>8 DEF items, vals

\* The wallet's body is the first nine of them.
LEMMA FeeBody ==
  ASSUME NEW w, Shaped(w), Listed(w), w.type = EIP1559
  PROVE  /\ Body(w) = [i \in 1 .. 9 |-> FeeItems(w)[i]]
         /\ Raw(w) = <<2>> \o RlpList(FeeItems(w))
         /\ Body(w) \in Items
<1> DEFINE x == FeeItems(w)
           y == [i \in 1 .. 9 |-> x[i]]
           z == [i \in 1 .. 3 |-> x[9 + i]]
           u == [i \in 1 .. 3 |-> y[i]]
           v == [i \in 1 .. 6 |-> y[3 + i]]
           s == [i \in 1 .. 2 |-> u[i]]
           t == [i \in 1 .. 1 |-> u[2 + i]]
<1>1. x \in Items /\ Len(x) = 12
  BY FeeItemsAre
<1>2. /\ s = <<RlpString(w.chain_id), RlpString(w.nonce)>>
      /\ t = <<RlpString(w.tip)>>
      /\ v = <<RlpString(w.fee), RlpString(w.gas_limit), RlpString(w.to),
               RlpString(w.value), RlpString(w.data), AccessList(w)>>
      /\ z = <<RlpString(WalletV(w)), RlpString(w.r), RlpString(w.s)>>
  BY DEF FeeItems
<1> HIDE DEF x
<1>3. x = y \o z /\ y \in Items
  <2>1. Len(x) = 9 + 3
    BY <1>1
  <2>2. QED
    BY <1>1, <2>1, Slices
<1>4. Len(y) = 9
  OBVIOUS
<1> HIDE DEF y, z
<1>5. y = u \o v /\ u \in Items
  <2>1. Len(y) = 3 + 6
    BY <1>4
  <2>2. QED
    BY <1>3, <2>1, Slices
<1>6. Len(u) = 3
  OBVIOUS
<1> HIDE DEF u, v
<1>7. u = s \o t
  <2>1. Len(u) = 2 + 1
    BY <1>6
  <2>2. QED
    BY <1>5, <2>1, Slices
<1> HIDE DEF s, t
<1>8. w.type # LEGACY
  BY DEF LEGACY, EIP1559
<1>9. Body(w) = (s \o t) \o v
  BY <1>2, <1>8 DEF Body
<1>10. Body(w) = y
  BY <1>5, <1>7, <1>9
<1>11. TypeByte(w) = <<2>>
  BY <1>8 DEF TypeByte, EIP1559
<1>12. Raw(w) = TypeByte(w) \o RlpList(Body(w) \o z)
  BY <1>2 DEF Raw
<1>13. QED
  BY <1>3, <1>10, <1>11, <1>12 DEF x, y

\* An empty access list is read as an empty string.
LEMMA EmptyList ==
  ASSUME NEW w, w.accessList = <<>>
  PROVE  /\ AccessList(w) = <<192>> /\ Listed(w) /\ ReadsAs(AccessList(w), <<>>)
<1>1. AccessList(w) = RlpPrefix(0, 192)
  <2> DEFINE entries == [i \in DOMAIN w.accessList |-> AccessEntry(w.accessList[i])]
  <2>1. entries = <<>>
    OBVIOUS
  <2>2. QED
    BY <2>1 DEF AccessList
<1>2. AccessList(w) = <<192>>
  BY <1>1 DEF RlpPrefix
<1>3. 192 \in Byte
  BY DEF Byte
<1>4. <<192>> \in Seq(Byte) /\ Len(<<192>>) = 1
  BY <1>3, OneByte
<1>5. Listed(w)
  BY <1>2, <1>4 DEF Listed, MaxItem, MaxRequest
<1>6. ASSUME NEW data \in Seq(Byte), NEW pos \in Nat, Holds(data, pos, AccessList(w))
      PROVE  rlp_decode_item(data, pos)
               = [ok |-> TRUE, item |-> <<>>, pos |-> pos + Len(AccessList(w))]
  <2>0. Holds(data, pos, <<192>>)
    BY <1>2, <1>6
  <2>1. pos < Len(data) /\ data[pos + 1] = 192 + 0
    BY <1>3, <2>0, HoldsByte
  <2>2. rlp_decode_item(data, pos) = ListAt(data, pos + 1, 0)
    BY <2>1, ReadShortList
  <2>3. SubSeq(data, (pos + 1) + 1, (pos + 1) + 0) = <<>>
    OBVIOUS
  <2>4. Len(AccessList(w)) = 1
    BY <1>2, <1>4
  <2>5. QED
    BY <2>2, <2>3, <2>4 DEF ListAt, Item
<1>7. ReadsAs(AccessList(w), <<>>)
  BY <1>6 DEF ReadsAs
<1>8. QED
  BY <1>2, <1>5, <1>7

\* The decoder takes the first byte as the type and the rest as the list.
LEMMA TypedDecode ==
  ASSUME NEW b \in Seq(Byte), NEW type \in {EIP2930, EIP1559},
         NEW raw1, raw1 = <<type>> \o b
  PROVE  /\ raw1 \in Seq(Byte) /\ raw1 # <<>> /\ raw1[1] = type /\ Tail(raw1) = b
<1>1. type \in Byte
  BY DEF Byte, EIP2930, EIP1559
<1>2. <<type>> \in Seq(Byte) /\ Len(<<type>>) = 1 /\ <<type>>[1] = type
  BY <1>1
<1> DEFINE q == <<type>>
<1>3. q \in Seq(Byte) /\ Len(q) = 1 /\ q[1] = type /\ raw1 = q \o b
  BY <1>2
<1> HIDE DEF q
<1>4. /\ raw1 \in Seq(Byte) /\ Len(raw1) = 1 + Len(b)
      /\ (\A i \in 1 .. 1 : raw1[i] = q[i])
      /\ \A i \in 1 .. Len(b) : raw1[1 + i] = b[i]
  BY <1>3, JoinedAt
<1>5. raw1 # <<>> /\ raw1[1] = type
  BY <1>3, <1>4
<1>6. Tail(raw1) = b
  <2>1. Tail(raw1) \in Seq(Byte) /\ Len(Tail(raw1)) = Len(b)
    BY <1>4, <1>5
  <2>2. \A i \in 1 .. Len(b) : Tail(raw1)[i] = raw1[i + 1] /\ i + 1 = 1 + i
    BY <1>4, <1>5
  <2>3. QED
    BY <1>4, <2>1, <2>2
<1>7. QED
  BY <1>4, <1>5, <1>6

\* An EIP-1559 transaction without access list is decoded as it was signed.
LEMMA FeeDecodes ==
  ASSUME NEW w, Shaped(w), w.type = EIP1559, w.accessList = <<>>
  PROVE  /\ Same(decode(Raw(w)), w) /\ decode(Raw(w)).f["tip"] = w.tip
         /\ Raw(w) \in Seq(Byte) /\ Raw(w) # <<>>
<1> DEFINE b == RlpList(FeeItems(w))
           names == Fields(EIP1559)
           read == read_items(rlp_decode_item(b, 0), 12)
           fields == stored(names, read)
<1>0. Listed(w) /\ ReadsAs(AccessList(w), <<>>)
  BY EmptyList
<1>1. Readable(FeeItems(w), FeeVals(w), 12)
  <2>1. ReadsAs(FeeItems(w)[9], FeeVals(w)[9])
    BY <1>0 DEF FeeItems, FeeVals
  <2>2. /\ FeeItems(w) \in Items /\ Len(FeeItems(w)) = 12
        /\ \A i \in 1 .. 12 :
              /\ Len(FeeItems(w)[i]) <= MaxItem
              /\ i # 9 => ReadsAs(FeeItems(w)[i], FeeVals(w)[i])
    BY <1>0, FeeItemsAre
  <2>3. QED
    BY <2>1, <2>2 DEF Readable
<1>2. /\ b \in Seq(Byte)
      /\ \A i \in 0 .. 12 : read[i].ok /\ (i > 0 => read[i].item = FeeVals(w)[i])
  BY <1>1, ListIsRead
<1>3. Raw(w) = <<EIP1559>> \o b
  BY <1>0, FeeBody DEF EIP1559
<1> HIDE DEF b
<1>4. /\ Raw(w) \in Seq(Byte) /\ Raw(w) # <<>>
      /\ Raw(w)[1] = EIP1559 /\ Tail(Raw(w)) = b
  BY <1>2, <1>3, TypedDecode
<1>5. Len(names) = 12
  BY FeePositions
<1>6. decode(Raw(w)) = [ok |-> read[12].ok, type |-> EIP1559, f |-> fields]
  <2>1. EIP1559 \in {EIP2930, EIP1559} /\ EIP1559 # LEGACY
    BY DEF EIP1559, LEGACY
  <2>2. QED
    BY <1>4, <1>5, <2>1 DEF decode
<1> HIDE DEF read
<1>7. /\ read[12].ok
      /\ read[1].item = w.chain_id /\ read[2].item = w.nonce /\ read[3].item = w.tip
      /\ read[4].item = w.fee /\ read[5].item = w.gas_limit /\ read[6].item = w.to
      /\ read[7].item = w.value /\ read[8].item = w.data
      /\ read[10].item = WalletV(w) /\ read[11].item = w.r /\ read[12].item = w.s
  BY <1>2 DEF FeeVals
<1> HIDE DEF names, fields
<1>8. {"chain_id", "tip", "nonce", "fee", "gas_limit", "to", "value", "data", "v", "r", "s"}
        \subseteq DOMAIN Zeroed
  BY ZeroedHas
<1>9. /\ fields["chain_id"] = w.chain_id /\ fields["nonce"] = w.nonce
      /\ fields["tip"] = w.tip /\ fields["fee"] = w.fee
      /\ fields["gas_limit"] = w.gas_limit /\ fields["to"] = w.to
      /\ fields["value"] = w.value /\ fields["data"] = w.data
      /\ fields["v"] = WalletV(w) /\ fields["r"] = w.r /\ fields["s"] = w.s
  <2>1. fields["nonce"] = w.nonce
    BY <1>7, <1>8, FeePositions, StoredIs, FieldsConvert DEF fields, names
  <2>2. fields["fee"] = w.fee
    BY <1>7, <1>8, FeePositions, StoredIs, FieldsConvert DEF fields, names
  <2>3. fields["gas_limit"] = w.gas_limit
    BY <1>7, <1>8, FeePositions, StoredIs, FieldsConvert DEF fields, names
  <2>4. fields["to"] = w.to
    BY <1>7, <1>8, FeePositions, StoredIs, FieldsConvert DEF fields, names
  <2>5. fields["value"] = w.value
    BY <1>7, <1>8, FeePositions, StoredIs, FieldsConvert DEF fields, names
  <2>6. fields["data"] = w.data
    BY <1>7, <1>8, FeePositions, StoredIs, FieldsConvert DEF fields, names
  <2>7. fields["v"] = WalletV(w)
    BY <1>7, <1>8, FeePositions, StoredIs, FieldsConvert DEF fields, names
  <2>8. fields["r"] = w.r
    BY <1>7, <1>8, FeePositions, StoredIs, FieldsConvert DEF fields, names
  <2>9. fields["s"] = w.s
    BY <1>7, <1>8, FeePositions, StoredIs, FieldsConvert DEF fields, names
  <2>10. fields["chain_id"] = w.chain_id
    BY <1>7, <1>8, FeePositions, StoredIs, FieldsConvert DEF fields, names
  <2>11. fields["tip"] = w.tip
    BY <1>7, <1>8, FeePositions, StoredIs, FieldsConvert DEF fields, names
  <2>12. QED
    BY <2>1, <2>2, <2>3, <2>4, <2>5, <2>6, <2>7, <2>8, <2>9, <2>10, <2>11
<1>10. Same(decode(Raw(w)), w) /\ decode(Raw(w)).f["tip"] = w.tip
  BY <1>6, <1>7, <1>9 DEF Same
<1>11. QED
  BY <1>4, <1>10

\* The transaction of an EIP-1559 wallet is encoded again as it was signed.
LEMMA FeeSigned ==
  ASSUME NEW w, Shaped(w), w.type = EIP1559, w.accessList = <<>>,
         NEW d, Same(d, w), d.f["tip"] = w.tip
  PROVE  signing_bytes(d) = Signed(w)
<1> DEFINE names == <<"chain_id", "nonce", "tip", "fee", "gas_limit", "to", "value", "data">>
           body == [i \in 1 .. 8 |-> FeeItems(w)[i]]
           enc == FlattenSeq([i \in DOMAIN names |-> rlp_append_bytes(d.f[names[i]])])
<1>0. AccessList(w) = <<192>> /\ Listed(w)
  BY EmptyList
<1>1. /\ FeeItems(w) \in Items /\ Len(FeeItems(w)) = 12
      /\ Body(w) = [i \in 1 .. 9 |-> FeeItems(w)[i]] /\ Body(w) \in Items
  BY <1>0, FeeBody, FeeItemsAre
<1>2. Body(w) = Append(body, <<192>>) /\ body \in Items
  <2> DEFINE x == FeeItems(w)
             y == [i \in 1 .. 9 |-> x[i]]
             B == Seq(Byte)
  <2>1. x[9] = <<192>>
    BY <1>0 DEF FeeItems
  <2>2. x \in Seq(B)
    BY <1>1 DEF Items
  <2>a. Len(x) = 12
    BY <1>1
  <2> HIDE DEF x, B
  <2>3. \A i \in 1 .. 12 : x[i] \in B
    <3>1. \A i \in 1 .. Len(x) : x[i] \in B
      BY <2>2
    <3>2. QED
      BY <2>a, <3>1
  <2>4. [i \in 1 .. 8 |-> x[i]] \in Seq(B) /\ Len([i \in 1 .. 8 |-> x[i]]) = 8
    BY <2>3
  <2>5. y = Append([i \in 1 .. 8 |-> x[i]], x[9])
    BY <2>3, <2>4
  <2>6. [i \in 1 .. 8 |-> x[i]] \in Items
    BY <2>4 DEF Items, B
  <2>7. QED
    BY <1>1, <2>1, <2>5, <2>6 DEF x
<1>3. [i \in DOMAIN names |-> rlp_append_bytes(d.f[names[i]])] = body
  <2>1. /\ rlp_append_bytes(d.f["chain_id"]) = RlpString(w.chain_id)
        /\ rlp_append_bytes(d.f["nonce"]) = RlpString(w.nonce)
        /\ rlp_append_bytes(d.f["tip"]) = RlpString(w.tip)
        /\ rlp_append_bytes(d.f["fee"]) = RlpString(w.fee)
        /\ rlp_append_bytes(d.f["gas_limit"]) = RlpString(w.gas_limit)
        /\ rlp_append_bytes(d.f["to"]) = RlpString(w.to)
        /\ rlp_append_bytes(d.f["value"]) = RlpString(w.value)
        /\ rlp_append_bytes(d.f["data"]) = RlpString(w.data)
    BY ShapedFits, AppendBytes DEF Same, Fits
  <2> DEFINE a(f) == rlp_append_bytes(d.f[f])
  <2>2. [i \in DOMAIN names |-> a(names[i])] =
          <<a("chain_id"), a("nonce"), a("tip"), a("fee"), a("gas_limit"), a("to"),
            a("value"), a("data")>>
    <3> HIDE DEF a
    <3>1. QED
      OBVIOUS
  <2>3. body = <<RlpString(w.chain_id), RlpString(w.nonce), RlpString(w.tip),
                 RlpString(w.fee), RlpString(w.gas_limit), RlpString(w.to),
                 RlpString(w.value), RlpString(w.data)>>
    BY DEF FeeItems
  <2> HIDE DEF body
  <2>4. QED
    BY <2>1, <2>2, <2>3
<1> HIDE DEF body
<1>4. <<192>> \in Seq(Byte)
  BY <1>0 DEF Listed
<1>5. /\ enc = FlattenSeq(body) /\ FlattenSeq(body) \in Seq(Byte)
      /\ FlattenSeq(Body(w)) = FlattenSeq(body) \o <<192>>
  BY <1>2, <1>3, <1>4, AppendItem, ZenonT(60)
<1>6. FlattenSeq(Body(w)) \in Seq(Byte)
  BY <1>1, <1>4, AppendItem
<1>7. signing_bytes(d) = <<2>> \o rlp_wrap_list(enc \o <<192>>)
  BY DEF signing_bytes, Same
<1> HIDE DEF names, enc
<1>8. rlp_wrap_list(FlattenSeq(Body(w))) = RlpList(Body(w))
  BY <1>6, WrapList
<1>9. w.type # LEGACY
  BY DEF LEGACY, EIP1559
<1>10. TypeByte(w) = <<2>>
  BY <1>9 DEF TypeByte, EIP1559
<1>11. Signed(w) = TypeByte(w) \o RlpList(Body(w) \o <<>>)
  BY <1>9 DEF Signed
<1>12. Body(w) \o <<>> = Body(w)
  BY <1>1 DEF Items
<1>13. QED
  BY <1>5, <1>7, <1>8, <1>10, <1>11, <1>12

\* Its sender is recovered as its signer.
LEMMA FeeRecovers ==
  ASSUME NEW w, Shaped(w), w.type = EIP1559, w.accessList = <<>>,
         NEW d, Same(d, w), d.f["tip"] = w.tip
  PROVE  /\ recid(d) = w.parity /\ ecdsa_recover(w, d) = "signer"
<1>1. d.type # LEGACY /\ d.f.v = WalletV(w) /\ d.f.r = w.r /\ d.f.s = w.s
  BY DEF Same, LEGACY, EIP1559
<1>2. WalletV(w) = Bytes[w.parity]
  BY DEF WalletV, LEGACY, EIP1559
<1>3. w.parity \in Nat /\ (w.parity = 0 \/ w.parity = 1)
  BY DEF Shaped
<1>4. Bytes[0] = <<>> /\ Bytes[1] = <<1>>
  BY BytesIs, BytesLength
<1>5. Number(WalletV(w)) = w.parity
  BY <1>2, <1>3, BytesReadBack
<1>6. WalletV(w) \in {<<>>, <<1>>}
  BY <1>2, <1>3, <1>4
<1>7. recid(d) = w.parity
  BY <1>1, <1>5, <1>6 DEF recid
<1>8. QED
  BY <1>1, <1>7, FeeSigned DEF ecdsa_recover

----------------------------------------------------------------------------
(* Access lists, which the decoder enters.                                 *)

\* The first bytes of two strings one behind the other.
LEMMA FirstOfBoth ==
  ASSUME NEW a \in Seq(Byte), NEW b \in Seq(Byte), Len(a) > 0
  PROVE  (a \o b)[1] = a[1]
<1>1. 1 \in 1 .. Len(a)
  OBVIOUS
<1>2. QED
  BY <1>1, JoinedAt

\* A byte in front of a string.
LEMMA ByteThen ==
  ASSUME NEW c \in Byte, NEW s \in Seq(Byte)
  PROVE  /\ <<c>> \o s \in Seq(Byte) /\ Len(<<c>> \o s) = 1 + Len(s)
         /\ (<<c>> \o s)[1] = c
         /\ Len(s) > 0 => (<<c>> \o s)[2] = s[1]
<1> DEFINE q == <<c>>
           z == q \o s
<1>1. q \in Seq(Byte) /\ Len(q) = 1 /\ q[1] = c
  OBVIOUS
<1>2. <<c>> \o s = z
  OBVIOUS
<1> HIDE DEF q
<1>3. /\ z \in Seq(Byte) /\ Len(z) = Len(q) + Len(s)
      /\ (\A i \in 1 .. Len(q) : z[i] = q[i])
      /\ \A i \in 1 .. Len(s) : z[Len(q) + i] = s[i]
  BY <1>1, JoinedAt
<1> HIDE DEF z
<1>4. Len(s) \in Nat
  OBVIOUS
<1>5. 1 \in 1 .. Len(q)
  BY <1>1
<1>6. Len(s) > 0 => z[Len(q) + 1] = s[1]
  BY <1>3, <1>4
<1>7. Len(q) + 1 = 2
  BY <1>1
<1>8. QED
  BY <1>1, <1>2, <1>3, <1>5, <1>6, <1>7

IsAddress(a) == a \in Seq(Byte) /\ Len(a) = 20

\* An entry of an access list begins with the prefix of a list and of a string.
LEMMA EntryIs ==
  ASSUME NEW a, IsAddress(a)
  PROVE  /\ AccessEntry(a) \in Seq(Byte)
         /\ Len(AccessEntry(a)) = 23
         /\ AccessEntry(a)[1] = 214 /\ AccessEntry(a)[2] = 148
<1> DEFINE s == <<148>> \o a
           e == <<192>>
           f == s \o e
<1>b. 148 \in Byte /\ 192 \in Byte /\ 214 \in Byte
  BY DEF Byte
<1>0. a \in Seq(Byte)
  BY DEF IsAddress
<1>1. Len(a) = 20
  BY DEF IsAddress
<1>2. RlpString(a) = s
  <2>1. RlpPrefix(20, 128) = <<148>>
    BY DEF RlpPrefix
  <2>2. Len(a) # 1
    BY <1>1
  <2>3. QED
    BY <1>1, <2>1, <2>2 DEF RlpString
<1>3. RlpPrefix(0, 192) = e
  BY DEF RlpPrefix
<1>4. s \in Seq(Byte)
  BY <1>0, <1>b, ByteThen
<1>c. Len(s) = 1 + Len(a) /\ s[1] = 148
  BY <1>0, <1>b, ByteThen
<1> HIDE DEF s
<1>5. e \in Seq(Byte) /\ Len(e) = 1
  BY <1>b, OneByte
<1> HIDE DEF e
<1>d. Len(s) = 21
  BY <1>1, <1>c
<1>6. Len(s) > 0
  BY <1>d
<1>7. f \in Seq(Byte) /\ Len(f) = Len(s) + Len(e)
  BY <1>4, <1>5, Joined
<1>e. f[1] = s[1]
  BY <1>4, <1>5, <1>6, FirstOfBoth
<1>8. f[1] = 148
  BY <1>c, <1>e
<1>9. FlattenSeq(<<s, e>>) = f
  BY <1>4, <1>5, FlattenTwo
<1> HIDE DEF f
<1>10. Len(f) = 22 /\ Len(f) > 0
  BY <1>5, <1>7, <1>d
<1>11. RlpPrefix(22, 192) = <<214>>
  BY DEF RlpPrefix
<1>12. AccessEntry(a) = <<214>> \o f
  BY <1>2, <1>3, <1>9, <1>10, <1>11, ZenonT(60) DEF AccessEntry, RlpList
<1>13. /\ <<214>> \o f \in Seq(Byte) /\ Len(<<214>> \o f) = 1 + Len(f)
       /\ (<<214>> \o f)[1] = 214
       /\ Len(f) > 0 => (<<214>> \o f)[2] = f[1]
  BY <1>b, <1>7, ByteThen
<1>14. QED
  BY <1>8, <1>10, <1>12, <1>13

\* Bytes are natural numbers.
LEMMA BytesAreNats ==
  ASSUME NEW b \in Seq(Byte)
  PROVE  b \in Seq(Nat)
<1> DEFINE k == Len(b)
<1>1. k \in Nat /\ b = [i \in 1 .. k |-> b[i]] /\ \A i \in 1 .. k : b[i] \in Byte
  OBVIOUS
<1>2. \A i \in 1 .. k : b[i] \in Nat
  BY <1>1, ByteIsNat
<1> HIDE DEF k
<1>3. [i \in 1 .. k |-> b[i]] \in Seq(Nat)
  BY <1>1, <1>2
<1>4. QED
  BY <1>1, <1>3

\* A prefix has some length, whatever the number.
LEMMA PrefixSome ==
  ASSUME NEW n \in Nat
  PROVE  RlpPrefix(n, 192) \in Seq(Nat)
<1> DEFINE b == Bytes[n]
           k == Len(b)
<1>1. b \in Seq(Byte)
  BY BytesIs
<1> HIDE DEF b
<1>3. b \in Seq(Nat) /\ k \in Nat
  BY <1>1, BytesAreNats
<1>4. RlpPrefix(n, 192) = <<192 + n>> \/ RlpPrefix(n, 192) = <<192 + 55 + k>> \o b
  BY DEF RlpPrefix, b
<1> HIDE DEF k
<1>5. <<192 + n>> \in Seq(Nat)
  OBVIOUS
<1>6. <<192 + 55 + k>> \o b \in Seq(Nat)
  <2>1. <<192 + 55 + k>> \in Seq(Nat)
    BY <1>3
  <2> DEFINE q == <<192 + 55 + k>>
  <2> HIDE DEF q
  <2>2. q \o b \in Seq(Nat)
    BY <1>3, <2>1 DEF q
  <2>3. QED
    BY <2>2 DEF q
<1>7. QED
  BY <1>4, <1>5, <1>6

\* Length of two sequences of numbers one behind the other.
LEMMA NatsJoined ==
  ASSUME NEW a \in Seq(Nat), NEW b \in Seq(Nat)
  PROVE  Len(a \o b) = Len(a) + Len(b) /\ Len(a) \in Nat /\ Len(b) \in Nat
  OBVIOUS

\* A function on the 20 places is an address.
LEMMA AddressIsBytes ==
  ASSUME NEW a \in [1 .. 20 -> Byte]
  PROVE  IsAddress(a)
<1>1. a = [i \in 1 .. 20 |-> a[i]] /\ \A i \in 1 .. 20 : a[i] \in Byte
  OBVIOUS
<1> DEFINE c == [i \in 1 .. 20 |-> a[i]]
<1>2. c \in Seq(Byte) /\ Len(c) = 20
  BY <1>1
<1>3. QED
  BY <1>1, <1>2 DEF IsAddress

\* A function that is a list of strings.
StringsAt(f, n) ==
  n \in Nat /\ f = [i \in 1 .. n |-> f[i]] /\ \A i \in 1 .. n : f[i] \in Seq(Byte)

\* It is one of the lists of items.
LEMMA StringsAreItems ==
  ASSUME NEW f, NEW n, StringsAt(f, n)
  PROVE  f \in Items /\ Len(f) = n
<1> DEFINE B == Seq(Byte)
<1>1. n \in Nat /\ f = [i \in 1 .. n |-> f[i]] /\ \A i \in 1 .. n : f[i] \in B
  BY DEF StringsAt
<1> HIDE DEF B
<1>2. f \in Seq(B) /\ Len(f) = n
  BY <1>1
<1>3. QED
  BY <1>2 DEF B, Items

\* An access list begins with its first entry.
LEMMA AccessListIs ==
  ASSUME NEW w, w.accessList \in Seq([1 .. 20 -> Byte]), w.accessList # <<>>,
         Len(AccessList(w)) < MaxRequest
  PROVE  /\ Listed(w)
         /\ \E p \in Seq(Byte) : \E a :
              /\ Len(p) < MaxLen /\ IsAddress(a) /\ Holds(p, 0, AccessEntry(a))
              /\ AccessList(w) = RlpPrefix(Len(p), 192) \o p
<1> DEFINE al == w.accessList
           A == [1 .. 20 -> Byte]
           n == Len(al)
           e == [i \in 1 .. n |-> AccessEntry(al[i])]
           p == FlattenSeq(e)
           m == Len(p)
           q == RlpPrefix(m, 192)
<1>1. al \in Seq(A) /\ n \in Nat /\ n >= 1 /\ DOMAIN al = 1 .. n
  <2> HIDE DEF A
  <2>1. QED
    BY SMTT(60) DEF A
<1>2. ASSUME NEW i \in 1 .. n PROVE IsAddress(al[i])
  <2>1. al[i] \in A
    <3> HIDE DEF A
    <3>1. QED
      BY <1>1
  <2>2. QED
    BY <2>1, AddressIsBytes
<1>3. \A i \in 1 .. n : AccessEntry(al[i]) \in Seq(Byte)
  BY <1>2, EntryIs
<1>d. [i \in DOMAIN w.accessList |-> AccessEntry(w.accessList[i])] = e
  BY <1>1
<1> HIDE DEF n, A
<1>4. e \in Items /\ Len(e) = n
  <2>1. e = [i \in 1 .. n |-> e[i]] /\ \A i \in 1 .. n : e[i] = AccessEntry(al[i])
    OBVIOUS
  <2>2. StringsAt(e, n)
    <3> HIDE DEF e
    <3>1. QED
      BY <1>1, <1>3, <2>1 DEF StringsAt
  <2>3. QED
    BY <2>2, StringsAreItems
<1>5. e[1] = AccessEntry(al[1]) /\ IsAddress(al[1])
  BY <1>1, <1>2
<1>6. AccessList(w) = RlpList(e)
  <2> HIDE DEF e
  <2>1. Len(e) # Len(<<>>)
    BY <1>1, <1>4
  <2>2. e # <<>>
    BY <2>1
  <2>3. QED
    BY <1>d, <2>2 DEF AccessList
<1>7. AccessList(w) = q \o p
  BY <1>6 DEF RlpList
<1> HIDE DEF e
<1>8. p \in Seq(Byte)
  <2>1. <<>> \in Seq(Byte)
    OBVIOUS
  <2>2. QED
    BY <1>4, <2>1, AppendItem
<1>9. Holds(p, 0, e[1])
  <2>1. PICK off : IsOffsets(e, n, off)
    BY <1>1, <1>4, PlacesOfItems
  <2>2. 1 \in 1 .. n /\ 1 - 1 = 0
    BY <1>1
  <2>3. QED
    BY <2>1, <2>2 DEF IsOffsets
<1> HIDE DEF p
<1>10. m \in Nat /\ m < MaxLen
  <2>1. p \in Seq(Nat)
    BY <1>8, BytesAreNats
  <2>2. m \in Nat
    BY <1>8
  <2>3. q \in Seq(Nat)
    BY <2>2, PrefixSome
  <2> HIDE DEF q
  <2>4. Len(q \o p) = Len(q) + m /\ Len(q) \in Nat
    BY <2>1, <2>3, NatsJoined
  <2> DEFINE k == Len(q)
             l == Len(AccessList(w))
  <2>5. l = k + m /\ l < MaxRequest /\ k \in Nat
    BY <1>7, <2>4
  <2> HIDE DEF k, l, m
  <2>6. m < MaxLen
    BY <2>2, <2>5 DEF MaxRequest, MaxLen
  <2>7. QED
    BY <2>2, <2>6
<1>11. q \in Seq(Byte)
  BY <1>10, PrefixIs
<1>12. Listed(w)
  <2>1. AccessList(w) \in Seq(Byte)
    <3> HIDE DEF q
    <3>1. QED
      BY <1>7, <1>8, <1>11, Joined
  <2>2. Len(AccessList(w)) \in Nat
    BY <2>1
  <2> DEFINE l == Len(AccessList(w))
  <2>3. l \in Nat /\ l < MaxRequest
    BY <2>2
  <2> HIDE DEF l
  <2>4. l <= MaxItem
    BY <2>3 DEF MaxRequest, MaxItem
  <2>5. QED
    BY <2>1, <2>4 DEF Listed, l
<1>13. QED
  BY <1>5, <1>7, <1>8, <1>9, <1>10, <1>12

\* A list of strings that are not too long is encoded in bytes.
Small(l, n) == l \in Items /\ Len(l) = n /\ \A i \in 1 .. n : Len(l[i]) <= MaxItem

\* Two such lists one behind the other.
LEMMA SmallJoined ==
  ASSUME NEW l, NEW r, NEW m \in Nat, NEW n \in Nat, Small(l, m), Small(r, n)
  PROVE  Small(l \o r, m + n)
<1> DEFINE z == l \o r
<1>0. l \in Items /\ r \in Items /\ Len(l) = m /\ Len(r) = n
  BY DEF Small
<1>1. /\ z \in Items /\ Len(z) = Len(l) + Len(r)
      /\ (\A j \in 1 .. Len(l) : z[j] = l[j])
      /\ \A j \in 1 .. Len(r) : z[Len(l) + j] = r[j]
  BY <1>0, ItemsJoined
<1> HIDE DEF z
<1>2. ASSUME NEW i \in 1 .. m + n PROVE Len(z[i]) <= MaxItem
  <2>1. CASE i \in 1 .. m
    BY <1>0, <1>1, <2>1 DEF Small
  <2>2. CASE i \in m + 1 .. m + n
    <3>1. i - m \in 1 .. n /\ m + (i - m) = i
      BY <2>2
    <3>2. z[m + (i - m)] = r[i - m]
      BY <1>0, <1>1, <3>1
    <3>3. Len(r[i - m]) <= MaxItem
      BY <3>1 DEF Small
    <3>4. QED
      BY <3>1, <3>2, <3>3
  <2>3. QED
    BY <2>1, <2>2
<1>3. QED
  BY <1>0, <1>1, <1>2 DEF Small, z

\* The encoding of such a list.
LEMMA ListIsBytes ==
  ASSUME NEW items, NEW n \in 0 .. 12, Small(items, n)
  PROVE  /\ RlpList(items) \in Seq(Byte) /\ FlattenSeq(items) \in Seq(Byte)
         /\ Len(FlattenSeq(items)) < MaxLen
<1> DEFINE d == FlattenSeq(items)
<1>0. n \in Nat /\ items \in Items /\ Len(items) = n
  BY DEF Small
<1>1. PICK off : IsOffsets(items, n, off)
  BY <1>0, PlacesOfItems
<1>2. d \in Seq(Byte)
  <2>1. <<>> \in Seq(Byte)
    OBVIOUS
  <2>2. QED
    BY <1>0, <2>1, AppendItem
<1>3. Len(d) < MaxLen
  BY <1>0, <1>1, FewItems DEF Small
<1> HIDE DEF d
<1>4. RlpPrefix(Len(d), 192) \o d \in Seq(Byte)
  BY <1>2, <1>3, ListReads
<1>5. QED
  BY <1>2, <1>3, <1>4 DEF RlpList, d

\* Lists of one and two encoded strings.
LEMMA SmallStrings ==
  /\ \A a : Fits(a) => Small(<<RlpString(a)>>, 1)
  /\ \A a, b : Fits(a) /\ Fits(b) => Small(<<RlpString(a), RlpString(b)>>, 2)
<1>1. ASSUME NEW a, Fits(a) PROVE Small(<<RlpString(a)>>, 1)
  <2> DEFINE x == RlpString(a)
             f == <<x>>
  <2>1. x \in Seq(Byte) /\ Len(x) <= MaxItem
    BY <1>1, FitsIs
  <2> HIDE DEF x
  <2>2. f = [i \in 1 .. 1 |-> f[i]] /\ \A i \in 1 .. 1 : f[i] = x
    OBVIOUS
  <2> HIDE DEF f
  <2>3. StringsAt(f, 1)
    BY <2>1, <2>2 DEF StringsAt
  <2>4. f \in Items /\ Len(f) = 1
    BY <2>3, StringsAreItems
  <2>5. QED
    BY <2>1, <2>2, <2>4 DEF Small, f, x
<1>2. ASSUME NEW a, NEW b, Fits(a), Fits(b)
      PROVE  Small(<<RlpString(a), RlpString(b)>>, 2)
  <2> DEFINE x == RlpString(a)
             y == RlpString(b)
             f == <<x, y>>
  <2>1. x \in Seq(Byte) /\ Len(x) <= MaxItem /\ y \in Seq(Byte) /\ Len(y) <= MaxItem
    BY <1>2, FitsIs
  <2> HIDE DEF x, y
  <2>2. f = [i \in 1 .. 2 |-> f[i]] /\ \A i \in 1 .. 2 : f[i] = x \/ f[i] = y
    OBVIOUS
  <2> HIDE DEF f
  <2>3. StringsAt(f, 2)
    BY <2>1, <2>2 DEF StringsAt
  <2>4. f \in Items /\ Len(f) = 2
    BY <2>3, StringsAreItems
  <2>5. QED
    BY <2>1, <2>2, <2>4 DEF Small, f, x, y
<1>3. QED
  BY <1>1, <1>2

\* An EIP-2930 transaction is bytes that begin with its type.
LEMMA BerlinDecodes ==
  ASSUME NEW w, Shaped(w), Listed(w), w.type = EIP2930
  PROVE  /\ Raw(w) \in Seq(Byte) /\ Raw(w) # <<>>
         /\ decode(Raw(w)).type = EIP2930
<1> DEFINE a == <<RlpString(w.chain_id), RlpString(w.nonce)>>
           b == <<RlpString(w.fee), RlpString(w.gas_limit), RlpString(w.to),
                  RlpString(w.value), RlpString(w.data), AccessList(w)>>
           c == <<RlpString(WalletV(w)), RlpString(w.r), RlpString(w.s)>>
           l == RlpList(((a \o <<>>) \o b) \o c)
<1>1. Small(a, 2)
  BY ShapedFits, SmallStrings
<1>2. Small(b, 6)
  <2>1. /\ b = [i \in 1 .. 6 |-> b[i]]
        /\ \A i \in 1 .. 6 : \/ b[i] = RlpString(w.fee) \/ b[i] = RlpString(w.gas_limit)
                             \/ b[i] = RlpString(w.to) \/ b[i] = RlpString(w.value)
                             \/ b[i] = RlpString(w.data) \/ b[i] = AccessList(w)
    OBVIOUS
  <2> HIDE DEF b
  <2>2. \A i \in 1 .. 6 : b[i] \in Seq(Byte) /\ Len(b[i]) <= MaxItem
    BY <2>1, ShapedFits, FitsIs DEF Listed
  <2>3. StringsAt(b, 6)
    BY <2>1, <2>2 DEF StringsAt
  <2>4. b \in Items /\ Len(b) = 6
    BY <2>3, StringsAreItems
  <2>5. QED
    BY <2>2, <2>4 DEF Small
<1>3. Small(c, 3)
  <2>1. /\ c = [i \in 1 .. 3 |-> c[i]]
        /\ \A i \in 1 .. 3 : \/ c[i] = RlpString(WalletV(w)) \/ c[i] = RlpString(w.r)
                             \/ c[i] = RlpString(w.s)
    OBVIOUS
  <2> HIDE DEF c
  <2>2. \A i \in 1 .. 3 : c[i] \in Seq(Byte) /\ Len(c[i]) <= MaxItem
    BY <2>1, ShapedFits, FitsIs
  <2>3. StringsAt(c, 3)
    BY <2>1, <2>2 DEF StringsAt
  <2>4. c \in Items /\ Len(c) = 3
    BY <2>3, StringsAreItems
  <2>5. QED
    BY <2>2, <2>4 DEF Small
<1>4. w.type # LEGACY /\ w.type # EIP1559
  BY DEF LEGACY, EIP1559, EIP2930
<1>5. Raw(w) = <<EIP2930>> \o l
  BY <1>4 DEF Raw, TypeByte, Body
<1>6. a \o <<>> = a
  <2> HIDE DEF a
  <2>1. QED
    BY <1>1 DEF Small, Items
<1> HIDE DEF a, b, c
<1>7. Small((a \o b) \o c, 11)
  <2>1. Small(a \o b, 2 + 6)
    BY <1>1, <1>2, SmallJoined
  <2>2. 2 + 6 = 8 /\ 8 + 3 = 11
    OBVIOUS
  <2> DEFINE ab == a \o b
  <2> HIDE DEF ab
  <2>3. Small(ab, 8)
    BY <2>1, <2>2 DEF ab
  <2>4. Small(ab \o c, 8 + 3)
    BY <1>3, <2>3, SmallJoined
  <2>5. QED
    BY <2>2, <2>4 DEF ab
<1>8. l \in Seq(Byte)
  BY <1>6, <1>7, ListIsBytes
<1> HIDE DEF l
<1>9. Raw(w) \in Seq(Byte) /\ Raw(w) # <<>> /\ Raw(w)[1] = EIP2930
  BY <1>5, <1>8, TypedDecode
<1>10. decode(Raw(w)).type = EIP2930
  BY <1>9 DEF decode
<1>11. QED
  BY <1>9, <1>10

\* What stands in a part stands in the whole.
LEMMA HoldsWithin ==
  ASSUME NEW data \in Seq(Byte), NEW p \in Seq(Byte), NEW e \in Seq(Byte), NEW pos,
         Holds(data, pos, p), Holds(p, 0, e)
  PROVE  Holds(data, pos, e)
<1>1. /\ pos \in Nat /\ Len(e) \in Nat /\ Len(p) \in Nat /\ Len(data) \in Nat
      /\ pos + Len(p) <= Len(data) /\ 0 + Len(e) <= Len(p)
  BY DEF Holds
<1>2. ASSUME NEW i \in 1 .. Len(e) PROVE data[pos + i] = e[i]
  <2>1. i \in 1 .. Len(p) /\ 0 + i = i
    BY <1>1
  <2>2. p[0 + i] = e[i]
    BY DEF Holds
  <2>3. data[pos + i] = p[i]
    BY <2>1 DEF Holds
  <2>4. QED
    BY <2>1, <2>2, <2>3
<1>3. pos + Len(e) <= Len(data)
  BY <1>1
<1>4. QED
  BY <1>1, <1>2, <1>3 DEF Holds

\* What the beginning of a string is.
LEMMA Beginning ==
  ASSUME NEW s \in Seq(Byte), NEW n \in Nat, n > 0, n <= Len(s)
  PROVE  /\ SubSeq(s, 1, n) \in Seq(Byte) /\ Len(SubSeq(s, 1, n)) = n
         /\ SubSeq(s, 1, n)[1] = s[1]
  OBVIOUS

\* Eight bytes are no parity.
LEMMA Longer ==
  ASSUME NEW t, Len(t) = 8
  PROVE  t \notin {<<>>, <<1>>}
<1>1. Len(<<>>) = 0 /\ Len(<<1>>) = 1
  OBVIOUS
<1>2. 8 # 0 /\ 8 # 1
  OBVIOUS
<1>3. QED
  BY <1>1, <1>2, Zenon

\* A part of a string.
LEMMA Middle ==
  ASSUME NEW s \in Seq(Byte), NEW m \in Nat, NEW n \in Nat, n > 0, m + n <= Len(s)
  PROVE  /\ SubSeq(s, m + 1, m + n) \in Seq(Byte)
         /\ Len(SubSeq(s, m + 1, m + n)) = n
         /\ SubSeq(s, m + 1, m + n)[1] = s[m + 1]
  OBVIOUS

\* What entering a list gives.
LEMMA ListAtIs ==
  ASSUME NEW data, NEW pos, NEW n
  PROVE  /\ ListAt(data, pos, n).ok /\ ListAt(data, pos, n).pos = pos
         /\ ListAt(data, pos, n).item = SubSeq(data, pos + 1, pos + n)
  BY DEF ListAt, Item

\* rlp_to_uint64 makes of the 22 bytes of an entry no parity.
LEMMA EntryIsNoParity ==
  ASSUME NEW s \in Seq(Byte), Len(s) = 22, s[1] = 148
  PROVE  rlp_to_uint64(s) \notin {<<>>, <<1>>}
<1> DEFINE t == SubSeq(s, 1, 8)
<1>1. First(8, s) = t
  BY DEF First
<1>2. 8 \in Nat /\ 8 > 0 /\ 8 <= Len(s)
  OBVIOUS
<1>3. t \in Seq(Byte) /\ Len(t) = 8 /\ t[1] = s[1]
  BY <1>2, Beginning
<1> HIDE DEF t
<1>4. t[1] # 0
  BY <1>3
<1>5. Strip(t) = t
  BY <1>3, <1>4, StripCanonical
<1>6. t \notin {<<>>, <<1>>}
  BY <1>3, Longer
<1>7. QED
  BY <1>1, <1>5, <1>6 DEF rlp_to_uint64

\* Where an entry stands the decoder reads a list of 22 bytes.
LEMMA EntryReads ==
  ASSUME NEW data \in Seq(Byte), NEW pos, NEW a, IsAddress(a),
         Holds(data, pos, AccessEntry(a))
  PROVE  /\ rlp_decode_item(data, pos).item \in Seq(Byte)
         /\ Len(rlp_decode_item(data, pos).item) = 22
         /\ rlp_decode_item(data, pos).item[1] = 148
<1> DEFINE e == AccessEntry(a)
<1>1. e \in Seq(Byte) /\ Len(e) = 23 /\ e[1] = 214 /\ e[2] = 148
  BY EntryIs
<1>2. Holds(data, pos, e)
  OBVIOUS
<1> HIDE DEF e
<1>3. /\ pos \in Nat /\ pos + 23 <= Len(data) /\ Len(data) \in Nat
      /\ data[pos + 1] = 214 /\ data[pos + 2] = 148
  <2>1. \A i \in 1 .. Len(e) : data[pos + i] = e[i]
    BY <1>2 DEF Holds
  <2>2. 1 \in 1 .. Len(e) /\ 2 \in 1 .. Len(e)
    BY <1>1
  <2>3. pos \in Nat /\ pos + 23 <= Len(data) /\ Len(data) \in Nat
    BY <1>1, <1>2 DEF Holds
  <2>4. data[pos + 1] = e[1] /\ data[pos + 2] = e[2]
    BY <2>1, <2>2
  <2>5. QED
    BY <1>1, <2>3, <2>4
<1>4. rlp_decode_item(data, pos) = ListAt(data, pos + 1, 22)
  <2>1. data[pos + 1] = 192 + 22 /\ 22 \in 0 .. 55 /\ pos < Len(data)
    BY <1>3
  <2>2. QED
    BY <1>3, <2>1, ReadShortList
<1> DEFINE s == SubSeq(data, (pos + 1) + 1, (pos + 1) + 22)
<1>5. rlp_decode_item(data, pos).item = s
  BY <1>4, ListAtIs
<1>6. s \in Seq(Byte) /\ Len(s) = 22 /\ s[1] = data[pos + 2]
  <2>1. pos + 1 \in Nat /\ 22 \in Nat /\ 22 > 0 /\ (pos + 1) + 22 <= Len(data)
    BY <1>3
  <2>2. s \in Seq(Byte) /\ Len(s) = 22 /\ s[1] = data[(pos + 1) + 1]
    BY <2>1, Middle
  <2>3. (pos + 1) + 1 = pos + 2
    BY <1>3
  <2>4. QED
    BY <2>2, <2>3
<1>7. QED
  BY <1>3, <1>5, <1>6

\* The items of an EIP-1559 transaction with an access list: the decoder
\* enters the list and takes its first entry for v.
LEMMA EntryTakenForV ==
  ASSUME NEW w, Shaped(w), w.accessList \in Seq([1 .. 20 -> Byte]), w.accessList # <<>>,
         Len(AccessList(w)) < MaxRequest,
         NEW b, b = RlpList(FeeItems(w)), NEW read,
         read = read_items(rlp_decode_item(b, 0), 12)
  PROVE  /\ b \in Seq(Byte)
         /\ read[10].item \in Seq(Byte) /\ Len(read[10].item) = 22 /\ read[10].item[1] = 148
<1> DEFINE items == FeeItems(w)
           vals == FeeVals(w)
           d == FlattenSeq(items)
           pre == RlpPrefix(Len(d), 192)
           list == [ok |-> TRUE, item |-> d, pos |-> Len(pre)]
<1>0. /\ Listed(w)
      /\ \E p \in Seq(Byte) : \E a :
           /\ Len(p) < MaxLen /\ IsAddress(a) /\ Holds(p, 0, AccessEntry(a))
           /\ AccessList(w) = RlpPrefix(Len(p), 192) \o p
  BY AccessListIs
<1>p. PICK p \in Seq(Byte) : \E a :
           /\ Len(p) < MaxLen /\ IsAddress(a) /\ Holds(p, 0, AccessEntry(a))
           /\ AccessList(w) = RlpPrefix(Len(p), 192) \o p
  BY <1>0
<1>1. PICK a :
           /\ Len(p) < MaxLen /\ IsAddress(a) /\ Holds(p, 0, AccessEntry(a))
           /\ AccessList(w) = RlpPrefix(Len(p), 192) \o p
  BY <1>p
<1>2. /\ items \in Items /\ Len(items) = 12
      /\ \A i \in 1 .. 12 : /\ Len(items[i]) <= MaxItem
                            /\ i # 9 => ReadsAs(items[i], vals[i])
  BY <1>0, FeeItemsAre
<1>3. items[9] = AccessList(w)
  BY DEF FeeItems
<1> HIDE DEF items, vals
<1>4. PICK off : IsOffsets(items, 12, off)
  BY <1>2, PlacesOfItems
<1>5. d \in Seq(Byte) /\ Len(d) < MaxLen
  <2>1. <<>> \in Seq(Byte) /\ 12 \in 0 .. 12
    OBVIOUS
  <2>2. d \in Seq(Byte)
    BY <1>2, <2>1, AppendItem
  <2>3. QED
    BY <1>2, <1>4, <2>1, <2>2, FewItems
<1>6. b = pre \o d
  BY DEF RlpList, items
<1>7. b \in Seq(Byte) /\ rlp_decode_item(b, 0) = list
  BY <1>5, <1>6, ListReads
<1> HIDE DEF pre
<1>8. IsRead(list, 12, read)
  BY <1>7, ReadItemsIs
<1>9. AllRead(items, vals, 8)
  <2>1. \A i \in 1 .. 8 : i \in 1 .. 12 /\ i # 9
    BY SMTT(60)
  <2>2. QED
    BY <1>2, <2>1 DEF AllRead
<1>10. IsReadAs(read, vals, off, 8)
  <2>1. 12 \in Nat /\ 8 \in 0 .. 12 /\ 8 <= 12
    OBVIOUS
  <2>2. QED
    BY <1>2, <1>4, <1>5, <1>8, <1>9, <2>1, ItemsRead
<1>11. read[8].ok /\ read[8].pos = off[8]
  BY <1>10 DEF IsReadAs
<1>12. read[9] = After(list, read[8]) /\ read[10] = After(list, read[9])
  <2>1. \A i \in 1 .. 12 : read[i] = After(list, read[i - 1])
    BY <1>8 DEF IsRead
  <2>2. 9 \in 1 .. 12 /\ 10 \in 1 .. 12 /\ 9 - 1 = 8 /\ 10 - 1 = 9
    OBVIOUS
  <2>3. QED
    BY <2>1, <2>2
<1> DEFINE q == RlpPrefix(Len(p), 192)
<1>13. Holds(d, off[8], q \o p) /\ off[8] \in Nat
  <2>1. 9 \in 1 .. 12 /\ 9 - 1 = 8 /\ 8 \in 0 .. 12
    OBVIOUS
  <2>2. Holds(d, off[8], items[9]) /\ off[8] \in Nat
    BY <1>4, <2>1 DEF IsOffsets
  <2>3. QED
    BY <1>1, <1>3, <2>2
<1>14. q \in Seq(Byte) /\ Len(p) \in Nat
  BY <1>1, PrefixIs
<1> DEFINE at == off[8] + Len(q)
<1>15. Holds(d, off[8], q) /\ Holds(d, at, p)
  <2> HIDE DEF q, d
  <2>1. QED
    BY <1>5, <1>13, <1>14, HoldsBoth
<1>16. rlp_decode_item(d, off[8]) = ListAt(d, at, Len(p))
  <2> HIDE DEF d
  <2>1. QED
    BY <1>1, <1>5, <1>14, <1>15, ReadList, ZenonT(60)
<1>17. read[9].ok /\ read[9].pos = at
  <2>1. read[9] = rlp_decode_item(d, off[8])
    BY <1>11, <1>12 DEF After
  <2> DEFINE l == ListAt(d, at, Len(p))
  <2>2. read[9] = l
    BY <1>16, <2>1, Zenon
  <2> HIDE DEF d, at
  <2>3. l.ok /\ l.pos = at
    BY ListAtIs, ZenonT(60)
  <2> HIDE DEF l
  <2>4. QED
    BY <2>2, <2>3, Zenon
<1>18. read[10] = rlp_decode_item(d, at)
  <2> HIDE DEF at
  <2>1. QED
    BY <1>12, <1>17 DEF After
<1>19. Holds(d, at, AccessEntry(a))
  <2>1. AccessEntry(a) \in Seq(Byte)
    BY <1>1, EntryIs
  <2> HIDE DEF d, at
  <2>2. QED
    BY <1>1, <1>5, <1>15, <2>1, HoldsWithin
<1> HIDE DEF d, at
<1>20. d \in Seq(Byte) /\ IsAddress(a)
  BY <1>1, <1>5
<1>21. /\ rlp_decode_item(d, at).item \in Seq(Byte)
       /\ Len(rlp_decode_item(d, at).item) = 22
       /\ rlp_decode_item(d, at).item[1] = 148
  BY <1>19, <1>20, EntryReads
<1>22. QED
  BY <1>7, <1>18, <1>21

\* An EIP-1559 transaction with an access list has no recovery id for the
\* decoder.
LEMMA WithListDecodes ==
  ASSUME NEW w, Shaped(w), w.type = EIP1559,
         w.accessList \in Seq([1 .. 20 -> Byte]), w.accessList # <<>>,
         Len(AccessList(w)) < MaxRequest
  PROVE  /\ Raw(w) \in Seq(Byte) /\ Raw(w) # <<>>
         /\ recid(decode(Raw(w))) = -1
<1> DEFINE b == RlpList(FeeItems(w))
           names == Fields(EIP1559)
           read == read_items(rlp_decode_item(b, 0), 12)
           fields == stored(names, read)
<1>0. Listed(w)
  BY AccessListIs
<1>1. /\ b \in Seq(Byte)
      /\ read[10].item \in Seq(Byte) /\ Len(read[10].item) = 22 /\ read[10].item[1] = 148
  BY EntryTakenForV, SMTT(60)
<1>2. b \in Seq(Byte)
  BY <1>1
<1>3. Raw(w) = <<EIP1559>> \o b
  BY <1>0, FeeBody DEF EIP1559
<1> HIDE DEF b
<1>4. /\ Raw(w) \in Seq(Byte) /\ Raw(w) # <<>>
      /\ Raw(w)[1] = EIP1559 /\ Tail(Raw(w)) = b
  BY <1>2, <1>3, TypedDecode
<1>5. Len(names) = 12
  BY FeePositions
<1>6. decode(Raw(w)) = [ok |-> read[12].ok, type |-> EIP1559, f |-> fields]
  <2>1. EIP1559 \in {EIP2930, EIP1559} /\ EIP1559 # LEGACY
    BY DEF EIP1559, LEGACY
  <2>2. QED
    BY <1>4, <1>5, <2>1 DEF decode
<1> HIDE DEF read
<1>7. fields["v"] = Convert("v", read[10].item)
  <2>1. "v" \in DOMAIN Zeroed /\ Position(names, "v") = 10
    BY FeePositions, ZeroedHas
  <2> HIDE DEF names, fields
  <2>2. ASSUME NEW k, k = Position(names, "v"), k # 0
        PROVE  stored(names, read)["v"] = Convert("v", read[k].item)
    BY <2>1, <2>2, StoredIs, SMTT(60)
  <2>3. 10 # 0
    OBVIOUS
  <2>4. stored(names, read)["v"] = Convert("v", read[10].item)
    BY <2>1, <2>2, <2>3
  <2>5. QED
    BY <2>4 DEF fields
<1>8. Convert("v", read[10].item) = rlp_to_uint64(read[10].item)
  BY DEF Convert
<1> HIDE DEF names, fields
<1>9. fields["v"] \notin {<<>>, <<1>>}
  BY <1>1, <1>7, <1>8, EntryIsNoParity
<1>10. recid(decode(Raw(w))) = -1
  <2>1. EIP1559 # LEGACY
    BY DEF EIP1559, LEGACY
  <2>2. QED
    BY <1>6, <1>9, <2>1 DEF recid
<1>11. QED
  BY <1>4, <1>10

----------------------------------------------------------------------------
(* The address of a new contract.                                          *)

\* executor.c's rlp_encode_bytes is RLP for strings of up to 55 bytes.
LEMMA EncodesShort ==
  ASSUME NEW s \in Seq(Byte), NEW n \in 0 .. 55, Len(s) = n
  PROVE  /\ rlp_encode_bytes(s) = RlpString(s)
         /\ RlpString(s) \in Seq(Byte) /\ Len(RlpString(s)) \in Nat
         /\ Len(RlpString(s)) <= 1 + n
<1>1. n = 1 => s[1] \in Nat
  <2>1. n = 1 => 1 \in 1 .. Len(s)
    OBVIOUS
  <2>2. QED
    BY <2>1, ByteAt
<1>2. (n = 1 /\ s[1] < 128) <=> (n = 1 /\ s[1] <= 127)
  BY <1>1
<1>3. RlpPrefix(n, 128) = <<128 + n>> /\ 128 + n \in Byte
  BY DEF RlpPrefix, Byte
<1>4. rlp_encode_bytes(s) = RlpString(s)
  BY <1>2, <1>3 DEF rlp_encode_bytes, RlpString
<1>5. RlpString(s) = s \/ RlpString(s) = <<128 + n>> \o s
  BY <1>3 DEF RlpString
<1>6. <<128 + n>> \o s \in Seq(Byte) /\ Len(<<128 + n>> \o s) = 1 + Len(s)
  BY <1>3, PrefixJoined
<1>7. CASE RlpString(s) = s
  BY <1>4, <1>7
<1>8. CASE RlpString(s) = <<128 + n>> \o s
  <2>1. Len(RlpString(s)) = 1 + n /\ RlpString(s) \in Seq(Byte)
    BY <1>6, <1>8
  <2>2. QED
    BY <1>4, <2>1
<1>9. QED
  BY <1>5, <1>7, <1>8

\* Its rlp_encode_uint64 is RLP for every 64 bit number.
LEMMA EncodesNumber ==
  ASSUME NEW s \in Numbers(8)
  PROVE  /\ rlp_encode_uint64(s) = RlpString(s)
         /\ RlpString(s) \in Seq(Byte) /\ Len(RlpString(s)) \in Nat
         /\ Len(RlpString(s)) <= 9
<1> DEFINE n == Len(s)
<1>1. s \in Seq(Byte) /\ n \in Nat /\ n <= 8
  BY DEF Numbers
<1>2. s # <<>> => rlp_encode_uint64(s) = rlp_encode_bytes(s)
  BY DEF rlp_encode_uint64
<1>3. s = <<>> => rlp_encode_uint64(s) = RlpString(s)
  <2>1. RlpPrefix(0, 128) = <<128>>
    BY DEF RlpPrefix
  <2>2. Len(<<>>) = 0 /\ <<128>> \o <<>> = <<128>>
    OBVIOUS
  <2>3. RlpString(<<>>) = <<128>>
    BY <2>1, <2>2 DEF RlpString
  <2>4. QED
    BY <2>3 DEF rlp_encode_uint64
<1>h. n = Len(s)
  OBVIOUS
<1> HIDE DEF n
<1>4. n \in 0 .. 55 /\ 1 + n <= 9
  BY <1>1
<1>5. /\ rlp_encode_bytes(s) = RlpString(s)
      /\ RlpString(s) \in Seq(Byte) /\ Len(RlpString(s)) \in Nat
      /\ Len(RlpString(s)) <= 1 + n
  BY <1>1, <1>4, <1>h, EncodesShort
<1>6. Len(RlpString(s)) <= 9
  BY <1>1, <1>4, <1>5
<1>7. QED
  BY <1>2, <1>3, <1>5, <1>6

\* What evmdb_evm_compute_create_address hashes is the RLP of the pair.
LEMMA CreateAddressIs ==
  ASSUME NEW nonce \in Numbers(8)
  PROVE  evmdb_evm_compute_create_address(Signer, nonce) =
           RlpList(<<RlpString(Signer), RlpString(nonce)>>)
<1> DEFINE a == RlpString(Signer)
           b == RlpString(nonce)
           p == a \o b
           m == Len(a)
           n == Len(b)
<1>1. IsAddress(Signer)
  BY SignerAssumption, AddressIsBytes
<1>2. Signer \in Seq(Byte) /\ Len(Signer) = 20 /\ 20 \in 0 .. 55 /\ 1 + 20 = 21
  BY <1>1 DEF IsAddress
<1>3. rlp_encode_bytes(Signer) = a /\ a \in Seq(Byte) /\ m \in Nat /\ m <= 1 + 20
  BY <1>2, EncodesShort
<1>4. rlp_encode_uint64(nonce) = b /\ b \in Seq(Byte) /\ n \in Nat /\ n <= 9
  BY EncodesNumber
<1>5. evmdb_evm_compute_create_address(Signer, nonce) = <<192 + Len(p)>> \o p
  BY <1>3, <1>4 DEF evmdb_evm_compute_create_address, rlp_encode_list
<1> HIDE DEF a, b
<1>6. Len(p) = m + n /\ p \in Seq(Byte)
  BY <1>3, <1>4, Joined
<1>7. FlattenSeq(<<a, b>>) = p
  BY <1>3, <1>4, FlattenTwo
<1> HIDE DEF m, n, p
<1>8. m + n \in 0 .. 55
  BY <1>3, <1>4
<1>9. RlpPrefix(Len(p), 192) = <<192 + Len(p)>>
  <2>1. Len(p) \in 0 .. 55
    BY <1>6, <1>8
  <2>2. QED
    BY <2>1, ShortPrefixes, ZenonT(60)
<1>10. RlpList(<<a, b>>) = <<192 + Len(p)>> \o p
  BY <1>7, <1>9 DEF RlpList
<1>11. QED
  BY <1>5, <1>10 DEF a, b

----------------------------------------------------------------------------
(* Hex texts.                                                              *)

Nibble == 0 .. 15

\* The digit evmdb_hex_encode writes for v, as a small letter or a capital.
Digit(v) == IF v < 10 THEN 48 + v ELSE 87 + v
Cased(c, capital) == IF c > 96 /\ capital THEN c - 32 ELSE c

\* The digit at place i of the text of some bytes in a style.
DigitAt(bytes, st, i) ==
  Cased(Digit(IF i % 2 = 1 THEN bytes[(i + 1) \div 2] \div 16
                           ELSE bytes[(i + 1) \div 2] % 16),
        st.capital[i % 2])

\* A byte is its two nibbles.
LEMMA Nibbles ==
  \A b \in Byte : /\ b \div 16 \in Nibble /\ b % 16 \in Nibble
                  /\ 16 * (b \div 16) + (b % 16) = b
BY DEF Byte, Nibble

\* hex_char_val on each kind of digit.
LEMMA DigitKinds ==
  ASSUME NEW c \in Int
  PROVE  /\ c \in 48 .. 57 => hex_char_val(c) = c - 48
         /\ c \in 97 .. 102 => hex_char_val(c) = c - 87
         /\ c \in 65 .. 70 => hex_char_val(c) = c - 55
<1>1. ASSUME c \in 48 .. 57 PROVE hex_char_val(c) = c - 48
  BY <1>1 DEF hex_char_val
<1>2. ASSUME c \in 97 .. 102 PROVE hex_char_val(c) = c - 87
  BY <1>2 DEF hex_char_val
<1>3. ASSUME c \in 65 .. 70 PROVE hex_char_val(c) = c - 55
  <2>1. ~(c \in 48 .. 57) /\ ~(c \in 97 .. 102)
    BY <1>3
  <2>2. QED
    BY <1>3, <2>1, Zenon DEF hex_char_val
<1>4. QED
  BY <1>1, <1>2, <1>3

\* hex_char_val reads back either case of a digit, which is never an x.
LEMMA DigitReadsBack ==
  ASSUME NEW v \in Nibble, NEW capital \in BOOLEAN
  PROVE  /\ hex_char_val(Cased(Digit(v), capital)) = v
         /\ Cased(Digit(v), capital) \in Nat
         /\ Cased(Digit(v), capital) \notin {120, 88}
<1>1. CASE v < 10
  <2>1. Cased(Digit(v), capital) = 48 + v
    BY <1>1 DEF Digit, Cased, Nibble
  <2>2. hex_char_val(48 + v) = v
    BY <1>1, DigitKinds DEF Nibble
  <2>3. QED
    BY <1>1, <2>1, <2>2 DEF Nibble
<1>2. CASE v >= 10
  <2>1. Digit(v) = 87 + v /\ Digit(v) > 96
    BY <1>2 DEF Digit, Nibble
  <2>2. Cased(Digit(v), capital) \in {55 + v, 87 + v}
    BY <2>1 DEF Cased, Nibble
  <2>3. hex_char_val(55 + v) = v /\ hex_char_val(87 + v) = v
    BY <1>2, DigitKinds DEF Nibble
  <2>4. QED
    BY <1>2, <2>2, <2>3 DEF Nibble
<1>3. QED
  BY <1>1, <1>2 DEF Nibble

\* The styles evmdb_hex_decode is used with.
IsStyle(st) == /\ st.prefix \in {<<>>, <<48, 120>>, <<48, 88>>}
               /\ st.capital \in [0 .. 1 -> BOOLEAN]

\* A text is its prefix and two digits for every byte.
LEMMA WrittenIs ==
  ASSUME NEW bytes \in Seq(Byte), NEW st, IsStyle(st)
  PROVE  Written(bytes, st) = st.prefix \o [i \in 1 .. 2 * Len(bytes) |-> DigitAt(bytes, st, i)]
<1> DEFINE n == 2 * Len(bytes)
           chars == [i \in 1 .. n |->
                       Digit(IF i % 2 = 1 THEN bytes[(i + 1) \div 2] \div 16
                                          ELSE bytes[(i + 1) \div 2] % 16)]
<1>1. n \in Nat
  OBVIOUS
<1>2. evmdb_hex_encode(bytes) = <<48, 120>> \o chars
  BY DEF evmdb_hex_encode, Digit
<1>3. \A i \in 1 .. n : chars[i] \in Nat
  <2>1. TAKE i \in 1 .. n
  <2>2. (i + 1) \div 2 \in 1 .. Len(bytes)
    OBVIOUS
  <2>3. bytes[(i + 1) \div 2] \in Byte
    BY <2>2
  <2>4. /\ bytes[(i + 1) \div 2] \div 16 \in Nibble
        /\ bytes[(i + 1) \div 2] % 16 \in Nibble
    BY <2>3, Nibbles
  <2>5. \A v \in Nibble : Digit(v) \in Nat
    BY DEF Digit, Nibble
  <2>6. QED
    BY <2>4, <2>5
<1>4. chars \in Seq(Nat) /\ Len(chars) = n
  BY <1>1, <1>3
<1> HIDE DEF chars, n
<1>5. /\ Len(evmdb_hex_encode(bytes)) - 2 = n
      /\ \A i \in 1 .. n : evmdb_hex_encode(bytes)[i + 2] = chars[i]
  BY <1>1, <1>2, <1>4
<1>6. \A i \in 1 .. n : DigitAt(bytes, st, i) = Cased(chars[i], st.capital[i % 2])
  BY DEF DigitAt, chars
<1>7. QED
  BY <1>5, <1>6 DEF Written, Cased, n

\* The two digits of a byte in a text read back as that byte.
LEMMA ByteReadsBack ==
  ASSUME NEW bytes \in Seq(Byte), NEW st, IsStyle(st), NEW i \in 1 .. Len(bytes)
  PROVE  /\ hex_char_val(DigitAt(bytes, st, 2 * i - 1)) = bytes[i] \div 16
         /\ hex_char_val(DigitAt(bytes, st, 2 * i)) = bytes[i] % 16
         /\ DigitAt(bytes, st, 2 * i - 1) \in Nat
         /\ DigitAt(bytes, st, 2 * i) \in Nat \ {120, 88}
<1>1. /\ (2 * i - 1) % 2 = 1 /\ ((2 * i - 1) + 1) \div 2 = i
      /\ (2 * i) % 2 = 0 /\ ((2 * i) + 1) \div 2 = i
  OBVIOUS
<1>2. bytes[i] \in Byte
  OBVIOUS
<1>3. bytes[i] \div 16 \in Nibble /\ bytes[i] % 16 \in Nibble
  BY <1>2, Nibbles
<1>4. st.capital[0] \in BOOLEAN /\ st.capital[1] \in BOOLEAN
  BY DEF IsStyle
<1>5. DigitAt(bytes, st, 2 * i - 1) = Cased(Digit(bytes[i] \div 16), st.capital[1])
  BY <1>1 DEF DigitAt
<1>6. DigitAt(bytes, st, 2 * i) = Cased(Digit(bytes[i] % 16), st.capital[0])
  BY <1>1, SMTT(60) DEF DigitAt
<1>7. QED
  BY <1>3, <1>4, <1>5, <1>6, DigitReadsBack

\* Whatever the bytes, the prefix and the case of the digits, evmdb_hex_decode
\* gives back the bytes a text was written from, given the room for them.
THEOREM HexReadsBack ==
  ASSUME NEW bytes \in Seq(Byte), NEW st, IsStyle(st),
         NEW out_len \in Nat, Len(bytes) <= out_len
  PROVE  evmdb_hex_decode(Written(bytes, st), out_len) = [ok |-> TRUE, bytes |-> bytes]
<1> DEFINE n == 2 * Len(bytes)
           body == [i \in 1 .. n |-> DigitAt(bytes, st, i)]
           hex == st.prefix \o body
           prefixed == Len(hex) > 1 /\ hex[1] = 48 /\ hex[2] \in {120, 88}
           digits == IF prefixed THEN SubSeq(hex, 3, Len(hex)) ELSE hex
           hi(i) == hex_char_val(digits[2 * i - 1])
           lo(i) == hex_char_val(digits[2 * i])
<1>1. Written(bytes, st) = hex
  BY WrittenIs
<1>2. body \in Seq(Int) /\ Len(body) = n /\ n \in Nat
  <2>1. ASSUME NEW k \in 1 .. n PROVE DigitAt(bytes, st, k) \in Int
    <3>1. PICK i \in 1 .. Len(bytes) : k = 2 * i - 1 \/ k = 2 * i
      <4>1. (k + 1) \div 2 \in 1 .. Len(bytes)
        OBVIOUS
      <4>2. k = 2 * ((k + 1) \div 2) - 1 \/ k = 2 * ((k + 1) \div 2)
        OBVIOUS
      <4>3. QED
        BY <4>1, <4>2
    <3>2. DigitAt(bytes, st, 2 * i - 1) \in Nat /\ DigitAt(bytes, st, 2 * i) \in Nat
      BY ByteReadsBack
    <3>3. QED
      BY <3>1, <3>2
  <2>2. QED
    BY <2>1
<1>3. ASSUME NEW i \in 1 .. Len(bytes)
      PROVE  /\ hex_char_val(body[2 * i - 1]) = bytes[i] \div 16
             /\ hex_char_val(body[2 * i]) = bytes[i] % 16
             /\ body[2 * i] \notin {120, 88}
  <2>1. 2 * i - 1 \in 1 .. n /\ 2 * i \in 1 .. n
    OBVIOUS
  <2>2. body[2 * i - 1] = DigitAt(bytes, st, 2 * i - 1) /\ body[2 * i] = DigitAt(bytes, st, 2 * i)
    BY <2>1
  <2>3. QED
    BY <2>2, ByteReadsBack
<1>4. digits = body
  <2> HIDE DEF body
  <2>1. CASE st.prefix = <<>>
    <3>1. hex = body
      BY <1>2, <2>1
    <3>2. ~prefixed
      <4>1. Len(body) > 1 => body[2 * 1] \notin {120, 88}
        BY <1>2, <1>3
      <4>2. QED
        BY <3>1, <4>1
    <3>3. QED
      BY <3>1, <3>2
  <2>2. CASE \E x \in {120, 88} : st.prefix = <<48, x>>
    <3>1. PICK x \in {120, 88} : st.prefix = <<48, x>>
      BY <2>2
    <3>2. <<48, x>> \in Seq(Int) /\ Len(<<48, x>>) = 2
      BY <3>1
    <3>3. /\ Len(hex) = 2 + n /\ hex[1] = 48 /\ hex[2] = x /\ hex \in Seq(Int)
          /\ \A i \in 1 .. n : hex[i + 2] = body[i]
      <4> DEFINE pre == <<48, x>>
      <4>1. pre[1] = 48 /\ pre[2] = x /\ hex = pre \o body
        BY <3>1
      <4> HIDE DEF pre, hex, n
      <4>2. QED
        BY <1>2, <3>2, <4>1 DEF pre
    <3>4. prefixed
      BY <1>2, <3>3
    <3> HIDE DEF hex
    <3>5. SubSeq(hex, 3, Len(hex)) = body
      BY <1>2, <3>3
    <3>6. QED
      BY <3>4, <3>5
  <2>3. QED
    BY <2>1, <2>2 DEF IsStyle
<1> HIDE DEF digits, body
<1>5. Len(digits) % 2 = 0 /\ Len(digits) \div 2 = Len(bytes)
  BY <1>2, <1>4, SMTT(60)
<1>6. \A i \in 1 .. Len(bytes) : hi(i) = bytes[i] \div 16 /\ lo(i) = bytes[i] % 16
  BY <1>3, <1>4
<1>7. \A i \in 1 .. Len(bytes) : hi(i) \in Nat /\ lo(i) \in Nat /\ 16 * hi(i) + lo(i) = bytes[i]
  <2>1. TAKE i \in 1 .. Len(bytes)
  <2>2. bytes[i] \in Byte
    OBVIOUS
  <2>3. /\ bytes[i] \div 16 \in Nibble /\ bytes[i] % 16 \in Nibble
        /\ 16 * (bytes[i] \div 16) + (bytes[i] % 16) = bytes[i]
    BY <2>2, Nibbles
  <2>4. hi(i) = bytes[i] \div 16 /\ lo(i) = bytes[i] % 16
    BY <1>6
  <2> HIDE DEF hi, lo
  <2>5. QED
    BY <2>3, <2>4, SMTT(60) DEF Nibble
<1>8. evmdb_hex_decode(hex, out_len) =
        IF \/ Len(digits) % 2 # 0 \/ Len(digits) \div 2 > out_len
           \/ \E i \in 1 .. Len(digits) \div 2 : hi(i) < 0 \/ lo(i) < 0
        THEN HexFailed
        ELSE [ok |-> TRUE, bytes |-> [i \in 1 .. Len(digits) \div 2 |-> 16 * hi(i) + lo(i)]]
  BY DEF evmdb_hex_decode, digits, body
<1> HIDE DEF hi, lo, hex
<1>9. [i \in 1 .. Len(bytes) |-> 16 * hi(i) + lo(i)] = bytes
  BY <1>7
<1>10. ~(\/ Len(digits) % 2 # 0 \/ Len(digits) \div 2 > out_len
         \/ \E i \in 1 .. Len(digits) \div 2 : hi(i) < 0 \/ lo(i) < 0)
  <2>1. Len(bytes) \in Nat
    OBVIOUS
  <2>2. \A i \in 1 .. Len(bytes) : ~(hi(i) < 0) /\ ~(lo(i) < 0)
    <3>1. \A m \in Nat : ~(m < 0)
      OBVIOUS
    <3>2. QED
      BY <1>7, <3>1
  <2>3. ~(Len(bytes) > out_len)
    BY <2>1
  <2>4. QED
    BY <1>5, <2>2, <2>3, Zenon
<1>11. evmdb_hex_decode(hex, out_len) = [ok |-> TRUE, bytes |-> bytes]
  BY <1>5, <1>8, <1>9, <1>10, Zenon
<1>12. QED
  BY <1>1, <1>11

----------------------------------------------------------------------------
(* A transaction on its way through the node.                              *)

\* The text of some bytes has room for them.
LEMMA TextReadsBack ==
  ASSUME NEW bytes \in Seq(Byte), NEW st, IsStyle(st), NEW text, text = Written(bytes, st)
  PROVE  evmdb_hex_decode(text, Len(text) \div 2) = [ok |-> TRUE, bytes |-> bytes]
<1> DEFINE n == Len(bytes)
           body == [i \in 1 .. 2 * n |-> DigitAt(bytes, st, i)]
           l == Len(text)
<1>1. n \in Nat
  OBVIOUS
<1>2. text = st.prefix \o body
  BY WrittenIs
<1> DEFINE V == {DigitAt(bytes, st, i) : i \in 1 .. 2 * n} \cup {48, 120, 88}
<1>3. body \in Seq(V) /\ Len(body) = 2 * n
  <2>1. \A i \in 1 .. 2 * n : DigitAt(bytes, st, i) \in V
    OBVIOUS
  <2> HIDE DEF V, n
  <2>2. QED
    BY <1>1, <2>1
<1>4. st.prefix \in Seq(V)
  <2>1. 48 \in V /\ 120 \in V /\ 88 \in V
    OBVIOUS
  <2> HIDE DEF V
  <2>2. <<>> \in Seq(V) /\ <<48, 120>> \in Seq(V) /\ <<48, 88>> \in Seq(V)
    BY <2>1
  <2>3. QED
    BY <2>2 DEF IsStyle
<1> HIDE DEF V, n, body
<1>5. l = Len(st.prefix) + 2 * n /\ Len(st.prefix) \in Nat
  <2> DEFINE p == st.prefix
  <2>1. p \in Seq(V) /\ text = p \o body
    BY <1>2, <1>4
  <2> HIDE DEF p
  <2>2. Len(p \o body) = Len(p) + Len(body) /\ Len(p) \in Nat
    BY <1>3, <2>1
  <2>3. QED
    BY <1>3, <2>1, <2>2 DEF p
<1> HIDE DEF l
<1>6. l \div 2 \in Nat /\ n <= l \div 2
  <2>1. \A x \in Nat, y \in Nat : (x + 2 * y) \div 2 \in Nat /\ y <= (x + 2 * y) \div 2
    OBVIOUS
  <2>2. QED
    BY <1>1, <1>5, <2>1
<1>7. QED
  BY <1>6, HexReadsBack DEF l, n

\* The transactions the node supports.
Supported(w) == w.type = LEGACY \/ (w.type = EIP1559 /\ w.accessList = <<>>)

\* What the node makes of each transaction a wallet sends.
LEMMA WalletRead ==
  ASSUME NEW w \in WalletTxs
  PROVE  /\ Raw(w) \in Seq(Byte) /\ Raw(w) # <<>>
         /\ Supported(w) =>
              /\ Same(decode(Raw(w)), w) /\ w.type # EIP2930
              /\ w.type = EIP1559 => decode(Raw(w)).f["tip"] = w.tip
              /\ recid(decode(Raw(w))) = w.parity /\ w.parity # -1
              /\ ecdsa_recover(w, decode(Raw(w))) = "signer"
         /\ ~Supported(w) => \/ decode(Raw(w)).type = EIP2930
                             \/ recid(decode(Raw(w))) = -1
<1>1. Shaped(w)
  BY WalletShaped
<1>2. /\ w.type = LEGACY \/ w.type = EIP2930 \/ w.type = EIP1559
      /\ Len(AccessList(w)) < MaxRequest
  BY WalletAssumption
<1>3. w.accessList \in Seq([1 .. 20 -> Byte])
  BY WalletAssumption
<1>4. LEGACY # EIP2930 /\ LEGACY # EIP1559 /\ EIP2930 # EIP1559
  BY DEF LEGACY, EIP2930, EIP1559
<1>5. w.parity # -1
  BY <1>1 DEF Shaped
<1>6. CASE w.type = LEGACY
  <2>1. Supported(w) /\ w.type # EIP1559
    BY <1>4, <1>6 DEF Supported
  <2>2. Same(decode(Raw(w)), w) /\ Raw(w) \in Seq(Byte) /\ Raw(w) # <<>>
    BY <1>1, <1>6, LegacyDecodes
  <2>3. recid(decode(Raw(w))) = w.parity /\ ecdsa_recover(w, decode(Raw(w))) = "signer"
    BY <1>1, <1>6, <2>2, LegacyRecovers
  <2>4. QED
    BY <1>4, <1>5, <1>6, <2>1, <2>2, <2>3, Zenon
<1>7. CASE w.type = EIP1559 /\ w.accessList = <<>>
  <2>1. Supported(w)
    BY <1>7 DEF Supported
  <2>2. /\ Same(decode(Raw(w)), w) /\ decode(Raw(w)).f["tip"] = w.tip
        /\ Raw(w) \in Seq(Byte) /\ Raw(w) # <<>>
    BY <1>1, <1>7, FeeDecodes
  <2>3. recid(decode(Raw(w))) = w.parity /\ ecdsa_recover(w, decode(Raw(w))) = "signer"
    BY <1>1, <1>7, <2>2, FeeRecovers
  <2>4. QED
    BY <1>4, <1>5, <1>7, <2>1, <2>2, <2>3, Zenon
<1>8. CASE w.type = EIP1559 /\ w.accessList # <<>>
  <2>1. ~Supported(w)
    BY <1>4, <1>8 DEF Supported
  <2>2. /\ Raw(w) \in Seq(Byte) /\ Raw(w) # <<>>
        /\ recid(decode(Raw(w))) = -1
    BY <1>1, <1>2, <1>3, <1>8, WithListDecodes
  <2>3. QED
    BY <2>1, <2>2, Zenon
<1>9. CASE w.type = EIP2930
  <2>1. ~Supported(w)
    BY <1>4, <1>9 DEF Supported
  <2>2. Listed(w)
    <3>1. CASE w.accessList = <<>>
      BY <3>1, EmptyList
    <3>2. CASE w.accessList # <<>>
      BY <1>2, <1>3, <3>2, AccessListIs
    <3>3. QED
      BY <3>1, <3>2
  <2>3. /\ Raw(w) \in Seq(Byte) /\ Raw(w) # <<>>
        /\ decode(Raw(w)).type = EIP2930
    BY <1>1, <1>9, <2>2, BerlinDecodes
  <2>4. QED
    BY <2>1, <2>3, Zenon
<1>10. QED
  BY <1>2, <1>6, <1>7, <1>8, <1>9, Zenon

\* What evmdb_evm_execute_tx computes for a transaction of the signer.
CreatedFor(w) ==
  IF w.to = <<>> THEN evmdb_evm_compute_create_address(Signer, w.nonce) ELSE <<>>

\* The inductive invariant: at every stage the node holds what the wallet's
\* bytes decode to, the stages behind the recovery are reached by supported
\* transactions only, and the rejection by the others only.
CodecInv ==
  /\ wallet \in WalletTxs /\ style \in Styles
  /\ pc \in {"text", "raw", "decoded", "recovered", "executed", "rejected"}
  /\ pc = "raw" => raw = Raw(wallet)
  /\ pc \in {"decoded", "recovered", "executed"} => tx = decode(Raw(wallet))
  /\ pc \in {"recovered", "executed"} => Supported(wallet) /\ from = "signer"
  /\ pc = "rejected" => ~Supported(wallet)
  /\ pc = "executed" => key = addr_to_hex(Signer) /\ created = CreatedFor(wallet)
  /\ asked \subseteq {addr_to_hex(Signer)}
  /\ pc # "executed" => asked = {}

\* StyleAssumption gives every style this form.
LEMMA StylesAre == \A st \in Styles : IsStyle(st)
BY StyleAssumption DEF IsStyle

\* Init satisfies it.
LEMMA CodecInit == Init => CodecInv
BY DEF Init, CodecInv

\* Every step preserves it: one lemma for each stage.
LEMMA HexStep == CodecInv /\ decode_raw_hex => CodecInv'
<1> SUFFICES ASSUME CodecInv, decode_raw_hex PROVE CodecInv'
  OBVIOUS
<1>1. wallet \in WalletTxs /\ style \in Styles /\ pc = "text" /\ asked = {}
  BY DEF CodecInv, decode_raw_hex
<1> DEFINE text == Written(Raw(wallet), style)
           d == evmdb_hex_decode(text, Len(text) \div 2)
<1>2. raw' = d.bytes /\ pc' = IF d.bytes # <<>> THEN "raw" ELSE "rejected"
  BY DEF decode_raw_hex
<1>3. Raw(wallet) \in Seq(Byte) /\ Raw(wallet) # <<>> /\ IsStyle(style)
  BY <1>1, WalletRead, StylesAre
<1>4. d = [ok |-> TRUE, bytes |-> Raw(wallet)]
  BY <1>3, TextReadsBack
<1> HIDE DEF d
<1>5. raw' = Raw(wallet) /\ pc' = "raw"
  BY <1>2, <1>3, <1>4
<1>6. UNCHANGED <<wallet, style, tx, from, created, key, asked>>
  BY DEF decode_raw_hex
<1>7. Raw(wallet') = Raw(wallet)
  BY <1>6
<1>8. QED
  BY <1>1, <1>5, <1>6, <1>7 DEF CodecInv

\* The decoder never rejects a supported transaction.
LEMMA DecodeStep == CodecInv /\ evmdb_tx_decode => CodecInv'
<1> SUFFICES ASSUME CodecInv, evmdb_tx_decode PROVE CodecInv'
  OBVIOUS
<1>1. wallet \in WalletTxs /\ style \in Styles /\ pc = "raw" /\ asked = {} /\ raw = Raw(wallet)
  BY DEF CodecInv, evmdb_tx_decode
<1>2. tx' = decode(Raw(wallet)) /\ pc' = IF tx'.ok THEN "decoded" ELSE "rejected"
  BY <1>1 DEF evmdb_tx_decode
<1>3. Supported(wallet) => decode(Raw(wallet)).ok
  BY <1>1, WalletRead DEF Same
<1>4. pc' = "decoded" \/ (pc' = "rejected" /\ ~Supported(wallet))
  BY <1>2, <1>3
<1>5. UNCHANGED <<wallet, style, raw, from, created, key, asked>>
  BY DEF evmdb_tx_decode
<1>6. Raw(wallet') = Raw(wallet) /\ Supported(wallet') = Supported(wallet)
  BY <1>5
<1>7. QED
  BY <1>1, <1>2, <1>4, <1>5, <1>6 DEF CodecInv

\* The recovery finds the signer of the supported ones, rejects the others.
LEMMA RecoverStep == CodecInv /\ evmdb_tx_recover_sender => CodecInv'
<1> SUFFICES ASSUME CodecInv, evmdb_tx_recover_sender PROVE CodecInv'
  OBVIOUS
<1>1. /\ wallet \in WalletTxs /\ style \in Styles /\ pc = "decoded" /\ asked = {}
      /\ tx = decode(Raw(wallet))
  BY DEF CodecInv, evmdb_tx_recover_sender
<1>2. \/ /\ tx.type # EIP2930 /\ recid(tx) # -1
         /\ pc' = "recovered" /\ from' = ecdsa_recover(wallet, tx)
      \/ /\ tx.type = EIP2930 \/ recid(tx) = -1
         /\ pc' = "rejected"
  BY DEF evmdb_tx_recover_sender
<1>3. /\ Supported(wallet) => /\ tx.type = wallet.type /\ wallet.type # EIP2930
                              /\ recid(tx) # -1 /\ ecdsa_recover(wallet, tx) = "signer"
      /\ ~Supported(wallet) => tx.type = EIP2930 \/ recid(tx) = -1
  BY <1>1, WalletRead DEF Same
<1>4. \/ pc' = "recovered" /\ Supported(wallet) /\ from' = "signer"
      \/ pc' = "rejected" /\ ~Supported(wallet)
  BY <1>2, <1>3
<1>5. UNCHANGED <<wallet, style, raw, tx, created, key, asked>>
  BY DEF evmdb_tx_recover_sender
<1>6. Raw(wallet') = Raw(wallet) /\ Supported(wallet') = Supported(wallet)
  BY <1>5
<1>7. QED
  BY <1>1, <1>4, <1>5, <1>6 DEF CodecInv

\* The executor works for the signer.
LEMMA ExecuteStep == CodecInv /\ evmdb_evm_execute_tx => CodecInv'
<1> SUFFICES ASSUME CodecInv, evmdb_evm_execute_tx PROVE CodecInv'
  OBVIOUS
<1>1. /\ wallet \in WalletTxs /\ style \in Styles /\ pc = "recovered" /\ asked = {}
      /\ tx = decode(Raw(wallet)) /\ Supported(wallet) /\ from = "signer"
  BY DEF CodecInv, evmdb_evm_execute_tx
<1>2. Address(from) = Signer
  BY <1>1 DEF Address
<1>3. tx.f.to = wallet.to /\ tx.f.nonce = wallet.nonce
  BY <1>1, WalletRead DEF Same
<1>4. pc' = "executed" /\ key' = addr_to_hex(Signer) /\ created' = CreatedFor(wallet)
  BY <1>2, <1>3 DEF evmdb_evm_execute_tx, CreatedFor
<1>5. UNCHANGED <<wallet, style, raw, tx, from, asked>>
  BY DEF evmdb_evm_execute_tx
<1>6. /\ Raw(wallet') = Raw(wallet) /\ Supported(wallet') = Supported(wallet)
      /\ CreatedFor(wallet') = CreatedFor(wallet)
  BY <1>5
<1>7. QED
  BY <1>1, <1>4, <1>5, <1>6 DEF CodecInv

\* Every writing of the address is read as the address.
LEMMA AskStep == CodecInv /\ handle_get_transaction_count => CodecInv'
<1> SUFFICES ASSUME CodecInv, handle_get_transaction_count PROVE CodecInv'
  OBVIOUS
<1>1. pc = "executed" /\ asked \subseteq {addr_to_hex(Signer)}
  BY DEF CodecInv, handle_get_transaction_count
<1>2. UNCHANGED <<wallet, style, pc, raw, tx, from, created, key>>
  BY DEF handle_get_transaction_count
<1>3. asked' \subseteq {addr_to_hex(Signer)}
  <2>1. PICK st \in Styles : \E addr \in {evmdb_hex_decode(Written(Signer, st), 20)} :
          asked' = asked \cup
            {IF Len(addr.bytes) = 20 THEN addr_to_hex(addr.bytes) ELSE <<>>}
    BY DEF handle_get_transaction_count
  <2>2. IsStyle(st)
    BY StylesAre
  <2>3. Signer \in Seq(Byte) /\ Len(Signer) = 20 /\ Len(Signer) <= 20 /\ 20 \in Nat
    <3>1. IsAddress(Signer)
      BY SignerAssumption, AddressIsBytes
    <3>2. QED
      BY <3>1 DEF IsAddress
  <2>4. evmdb_hex_decode(Written(Signer, st), 20) = [ok |-> TRUE, bytes |-> Signer]
    BY <2>2, <2>3, HexReadsBack
  <2>5. asked' = asked \cup {addr_to_hex(Signer)}
    BY <2>1, <2>3, <2>4
  <2>6. QED
    BY <1>1, <2>5
<1>4. /\ Raw(wallet') = Raw(wallet) /\ Supported(wallet') = Supported(wallet)
      /\ CreatedFor(wallet') = CreatedFor(wallet)
  BY <1>2
<1>5. QED
  BY <1>1, <1>2, <1>3, <1>4 DEF CodecInv

\* A stuttering step.
LEMMA CodecStutters == CodecInv /\ UNCHANGED vars => CodecInv'
<1> SUFFICES ASSUME CodecInv, UNCHANGED vars PROVE CodecInv'
  OBVIOUS
<1>1. UNCHANGED <<wallet, style, pc, raw, tx, from, created, key, asked>>
  BY DEF vars
<1>2. /\ Raw(wallet') = Raw(wallet) /\ Supported(wallet') = Supported(wallet)
      /\ CreatedFor(wallet') = CreatedFor(wallet)
  BY <1>1
<1>3. QED
  BY <1>1, <1>2 DEF CodecInv

\* The invariant holds in every reachable state.
LEMMA CodecInvariant == Spec => []CodecInv
<1>1. Init => CodecInv
  BY CodecInit
<1>2. CodecInv /\ [Next]_vars => CodecInv'
  BY HexStep, DecodeStep, RecoverStep, ExecuteStep, AskStep, CodecStutters DEF Next
<1>3. QED
  BY <1>1, <1>2, PTL DEF Spec

----------------------------------------------------------------------------
\* Whatever wallets sign and however they write it, no transaction is executed
\* for an address that did not sign it.
THEOREM OnlySignersAreCharged == Spec => []SenderIsSigner
<1>1. CodecInv => SenderIsSigner
  BY DEF CodecInv, SenderIsSigner
<1>2. QED
  BY <1>1, CodecInvariant, PTL

\* Whatever wallets sign, evmdb_tx_decode stores every field as it was signed.
THEOREM FieldsAreAsSigned == Spec => []DecodesAsSigned
<1>1. ASSUME CodecInv, pc \in {"recovered", "executed"}
      PROVE  /\ tx.type = wallet.type
             /\ \A f \in {"chain_id", "nonce", "fee", "gas_limit", "to", "value", "data"} :
                  tx.f[f] = wallet[f]
             /\ tx.type = EIP1559 => tx.f.tip = wallet.tip
  <2>1. wallet \in WalletTxs /\ tx = decode(Raw(wallet)) /\ Supported(wallet)
    BY <1>1 DEF CodecInv
  <2>2. Same(tx, wallet) /\ (wallet.type = EIP1559 => tx.f["tip"] = wallet.tip)
    BY <2>1, WalletRead
  <2>3. QED
    BY <2>2 DEF Same
<1>2. CodecInv => DecodesAsSigned
  BY <1>1 DEF DecodesAsSigned
<1>3. QED
  BY <1>2, CodecInvariant, PTL

\* No legacy transaction and no EIP-1559 one without an access list is turned
\* away by the hex decoder, the RLP decoder or the recovery.
THEOREM SupportedGetThrough == Spec => []SupportedIsAccepted
<1>1. CodecInv => SupportedIsAccepted
  BY DEF CodecInv, SupportedIsAccepted, Supported
<1>2. QED
  BY <1>1, CodecInvariant, PTL

\* For every nonce of 64 bits the address of a new contract is the standard one.
THEOREM ContractsAreWhereExpected == Spec => []ContractAddressIsStandard
<1>1. ASSUME CodecInv, pc = "executed", wallet.to = <<>>
      PROVE  created = RlpList(<<RlpString(Signer), RlpString(wallet.nonce)>>)
  <2>1. wallet \in WalletTxs /\ created = CreatedFor(wallet)
    BY <1>1 DEF CodecInv
  <2>2. wallet.nonce \in Numbers(8)
    BY <2>1, WalletShaped DEF Shaped
  <2>3. created = evmdb_evm_compute_create_address(Signer, wallet.nonce)
    BY <1>1, <2>1 DEF CreatedFor
  <2>4. QED
    BY <2>2, <2>3, CreateAddressIs
<1>2. CodecInv => ContractAddressIsStandard
  BY <1>1 DEF ContractAddressIsStandard
<1>3. QED
  BY <1>2, CodecInvariant, PTL

\* However a client writes the signer's address, it is not turned away and asks
\* about the account the transaction changed.
THEOREM AnyWritingFindsTheAccount == Spec => []EveryWritingNamesTheAccount
<1>1. CodecInv => EveryWritingNamesTheAccount
  BY DEF CodecInv, EveryWritingNamesTheAccount
<1>2. QED
  BY <1>1, CodecInvariant, PTL
=============================================================================
