-------------------------- MODULE CborCodecProofs --------------------------
(***************************************************************************)
(* Theorems about CborCodec: for every set of heads, every length of the   *)
(* texts and all limits, a value has one encoding and the two decoders     *)
(* agree.                                                                  *)
(***************************************************************************)
EXTENDS CborCodec, FiniteSetTheorems, SequenceTheorems, WellFoundedInduction, TLAPS

-----------------------------------------------------------------------------
(* Induction *)

\* Every non-empty set of naturals has a least element.
LEMMA LeastNatural ==
    ASSUME NEW S \in SUBSET Nat, S # {}
    PROVE  \E n \in S : \A m \in S : n <= m
<1> DEFINE T == {1..n : n \in S}
<1>1. T \subseteq FiniteSubsetsOf(Nat) /\ T # {}
  <2>1. \A n \in S : 1..n \in FiniteSubsetsOf(Nat)
    BY FS_Interval DEF FiniteSubsetsOf
  <2> QED
    BY <2>1
<1>2. PICK x \in T : \A y \in T : ~(<<y, x>> \in StrictSubsetOrdering(Nat))
  BY <1>1, FS_StrictSubsetOrderingWellFounded, WFMin
<1>3. PICK n \in S : x = 1..n
  OBVIOUS
<1>4. ASSUME NEW m \in S, m < n
      PROVE  FALSE
  <2>1. 1..m \subseteq 1..n /\ n \in 1..n /\ n \notin 1..m
    BY <1>4
  <2>2. <<1..m, 1..n>> \in StrictSubsetOrdering(Nat)
    BY <2>1 DEF StrictSubsetOrdering
  <2> QED
    BY <1>2, <1>3, <2>2
<1> QED
  BY <1>4

\* Induction, on the set of the numbers for which something holds.
LEMMA Induction ==
    ASSUME NEW S, 0 \in S, \A n \in Nat : n \in S => n + 1 \in S
    PROVE  Nat \subseteq S
<1> DEFINE T == Nat \ S
<1>1. SUFFICES ASSUME T # {} PROVE FALSE
  OBVIOUS
<1>2. PICK n \in T : \A m \in T : n <= m
  BY <1>1, LeastNatural
<1>3. n - 1 \in Nat /\ n - 1 \notin T
  BY <1>2
<1> QED
  BY <1>3

\* A value for each length, from the one before.
LEMMA Recursion ==
    ASSUME NEW T, NEW start \in T, NEW n \in Nat, NEW step \in [1..n -> [T -> T]]
    PROVE  \E f \in [0..n -> T] : f[0] = start /\ \A i \in 1..n : f[i] = step[i][f[i - 1]]
<1> DEFINE Upto(k, f) == f[0] = start /\ \A i \in 1..k : f[i] = step[i][f[i - 1]]
           S == {k \in Nat : k <= n => \E f \in [0..k -> T] : Upto(k, f)}
<1>1. 0 \in S
  <2>1. [k \in 0..0 |-> start] \in [0..0 -> T] /\ Upto(0, [k \in 0..0 |-> start])
    OBVIOUS
  <2> QED
    BY <2>1
<1>2. ASSUME NEW k \in Nat, k \in S PROVE k + 1 \in S
  <2> SUFFICES ASSUME k + 1 <= n PROVE \E f \in [0..(k + 1) -> T] : Upto(k + 1, f)
    OBVIOUS
  <2>1. PICK f \in [0..k -> T] : Upto(k, f)
    BY <1>2
  <2> DEFINE g == [i \in 0..(k + 1) |-> IF i = k + 1 THEN step[k + 1][f[k]] ELSE f[i]]
  <2>2. k + 1 \in 1..n /\ k \in 0..k
    OBVIOUS
  <2>3. step[k + 1] \in [T -> T] /\ f[k] \in T
    BY <2>2
  <2>4. g \in [0..(k + 1) -> T]
    BY <2>3
  <2>5. g[k + 1] = step[k + 1][f[k]] /\ \A i \in 0..k : g[i] = f[i]
    OBVIOUS
  <2> HIDE DEF g
  <2>6. ASSUME NEW i \in 1..(k + 1) PROVE g[i] = step[i][g[i - 1]]
    <3>1. CASE i = k + 1
      BY <2>5, <3>1
    <3>2. CASE i \in 1..k
      <4>1. i - 1 \in 0..k /\ i \in 0..k
        BY <3>2
      <4> QED
        BY <2>1, <2>5, <3>2, <4>1
    <3> QED
      BY <3>1, <3>2
  <2>7. g[0] = start
    BY <2>1, <2>5
  <2> QED
    BY <2>4, <2>6, <2>7
<1> HIDE DEF S
<1>3. n \in S
  BY <1>1, <1>2, Induction
<1> QED
  BY <1>3 DEF S

-----------------------------------------------------------------------------
(* What FlattenSeq and Size compute *)

LEMMA FlattenNone == FlattenSeq(<<>>) = <<>>
BY DEF FlattenSeq

\* f holds what the prefixes of s make, but for the empty one.
Grows(s, n, f) == f[1] = s[1] /\ \A i \in 1..(n - 1) : f[i + 1] = f[i] \o s[i + 1]

LEMMA FlattenIs ==
    ASSUME NEW s, NEW n \in Nat, n = Len(s), n > 0, NEW f, Grows(s, n, f)
    PROVE  FlattenSeq(s) = f[n]
<1> USE DEF Grows
<1> DEFINE Flat(g) == g = [i \in 1..n |-> IF i = 1 THEN s[i] ELSE g[i - 1] \o s[i]]
<1>1. Flat([i \in 1..n |-> f[i]])
  <2> DEFINE g == [i \in 1..n |-> f[i]]
  <2>1. \A i \in 1..n : g[i] = IF i = 1 THEN s[i] ELSE g[i - 1] \o s[i]
    <3> TAKE i \in 1..n
    <3>1. CASE i = 1
      BY <3>1
    <3>2. CASE i # 1
      <4>1. i - 1 \in 1..(n - 1) /\ i - 1 \in 1..n /\ (i - 1) + 1 = i
        BY <3>2
      <4>2. f[i] = f[i - 1] \o s[i]
        BY <4>1
      <4> QED
        BY <3>2, <4>1, <4>2
    <3> QED
      BY <3>1, <3>2
  <2> QED
    BY <2>1
<1> DEFINE g == CHOOSE g : Flat(g)
<1>2. Flat(g)
  BY <1>1
<1>3. FlattenSeq(s) = g[n]
  BY DEF FlattenSeq
<1> HIDE DEF g
<1>4. /\ g[1] = s[1]
      /\ \A i \in 1..(n - 1) : g[i + 1] = g[i] \o s[i + 1]
  <2>1. \A i \in 1..n : g[i] = IF i = 1 THEN s[i] ELSE g[i - 1] \o s[i]
    BY <1>2
  <2>2. 1 \in 1..n
    OBVIOUS
  <2>3. ASSUME NEW i \in 1..(n - 1) PROVE g[i + 1] = g[i] \o s[i + 1]
    <3>1. i + 1 \in 1..n /\ i + 1 # 1 /\ (i + 1) - 1 = i
      OBVIOUS
    <3> QED
      BY <2>1, <3>1
  <2> QED
    BY <2>1, <2>2, <2>3
<1> HIDE DEF Flat
<1> DEFINE S == {i \in Nat : i \in 1..n => g[i] = f[i]}
<1>5. 0 \in S
  OBVIOUS
<1>6. ASSUME NEW i \in Nat, i \in S PROVE i + 1 \in S
  <2> SUFFICES ASSUME i + 1 \in 1..n PROVE g[i + 1] = f[i + 1]
    OBVIOUS
  <2>1. CASE i = 0
    BY <1>4, <2>1
  <2>2. CASE i # 0
    <3>1. i \in 1..(n - 1) /\ g[i] = f[i]
      BY <1>6, <2>2
    <3> QED
      BY <1>4, <3>1
  <2> QED
    BY <2>1, <2>2
<1> HIDE DEF S
<1>7. n \in S
  BY <1>5, <1>6, Induction
<1> QED
  BY <1>3, <1>7 DEF S

\* A set of sequences that is closed under concatenation.
Closed(T) ==
    /\ <<>> \in T
    /\ \A x, y \in T : x \o y \in T
    /\ \A x \in T : <<>> \o x = x

\* The same for all prefixes.
Flattens(s, n, T, f) ==
    /\ f \in [0..n -> T] /\ f[0] = <<>>
    /\ \A i \in 0..(n - 1) : f[i + 1] = f[i] \o s[i + 1]

LEMMA Flattening ==
    ASSUME NEW T, Closed(T), NEW s, NEW n \in Nat, \A i \in 1..n : s[i] \in T
    PROVE  \E f : Flattens(s, n, T, f)
<1> DEFINE start == <<>>
           step == [i \in 1..n |-> [x \in T |-> x \o s[i]]]
<1>1. start \in T
  BY DEF Closed
<1>2. step \in [1..n -> [T -> T]]
  <2>1. \A i \in 1..n : [x \in T |-> x \o s[i]] \in [T -> T]
    BY DEF Closed
  <2> QED
    BY <2>1
<1>3. \A i \in 1..n, x \in T : step[i][x] = x \o s[i]
  OBVIOUS
<1> HIDE DEF step, start
<1>4. PICK f \in [0..n -> T] : f[0] = start /\ \A i \in 1..n : f[i] = step[i][f[i - 1]]
  BY <1>1, <1>2, Recursion
<1>5. \A i \in 0..(n - 1) : f[i + 1] = f[i] \o s[i + 1]
  <2> TAKE i \in 0..(n - 1)
  <2>1. i + 1 \in 1..n /\ (i + 1) - 1 = i /\ i \in 0..n
    OBVIOUS
  <2> QED
    BY <1>3, <1>4, <2>1
<1> QED
  BY <1>4, <1>5 DEF Flattens, start

\* s is a sequence of n elements of T.
Listed(s, n, T) == n = Len(s) /\ (n = 0 => s = <<>>) /\ \A i \in 1..n : s[i] \in T

LEMMA FlattensMeans ==
    ASSUME NEW T, Closed(T), NEW s, NEW n \in Nat, Listed(s, n, T),
           NEW f, Flattens(s, n, T, f)
    PROVE  FlattenSeq(s) = f[n]
<1> USE DEF Listed
<1>1. CASE n = 0
  BY <1>1, FlattenNone DEF Flattens
<1>2. CASE n # 0
  <2>1. f[1] = s[1]
    <3>1. 0 \in 0..(n - 1) /\ 1 \in 1..n
      BY <1>2
    <3>2. f[0 + 1] = f[0] \o s[0 + 1]
      BY <3>1 DEF Flattens
    <3> QED
      BY <3>1, <3>2 DEF Flattens, Closed
  <2>2. ASSUME NEW i \in 1..(n - 1) PROVE f[i + 1] = f[i] \o s[i + 1]
    <3>1. i \in 0..(n - 1)
      OBVIOUS
    <3> QED
      BY <3>1 DEF Flattens
  <2>3. Grows(s, n, f)
    BY <2>1, <2>2 DEF Grows
  <2> QED
    BY <1>2, <2>3, FlattenIs
<1> QED
  BY <1>1, <1>2

LEMMA SequencesClosed == ASSUME NEW X PROVE Closed(Seq(X))
BY DEF Closed

LEMMA SequenceOfSequences ==
    ASSUME NEW X, NEW s \in Seq(Seq(X))
    PROVE  /\ Len(s) \in Nat /\ (Len(s) = 0 => s = <<>>)
           /\ \A i \in 1..Len(s) : s[i] \in Seq(X)
OBVIOUS

\* t is s and one more.
OneMore(s, n, e, t) == Len(t) = n + 1 /\ t[n + 1] = e /\ \A i \in 1..n : t[i] = s[i]

LEMMA FlattensAppend ==
    ASSUME NEW T, Closed(T), NEW s, NEW n \in Nat, Listed(s, n, T),
           NEW e, e \in T, NEW t, OneMore(s, n, e, t)
    PROVE  FlattenSeq(t) = FlattenSeq(s) \o e
<1> USE DEF OneMore, Listed
<1>1. PICK f : Flattens(s, n, T, f)
  BY Flattening
<1>2. FlattenSeq(s) = f[n]
  BY <1>1, FlattensMeans
<1>3. f \in [0..n -> T] /\ f[n] \in T
  BY <1>1 DEF Flattens
<1> DEFINE g == [i \in 0..(n + 1) |-> IF i = n + 1 THEN f[n] \o e ELSE f[i]]
<1>4. g[n + 1] = f[n] \o e /\ \A i \in 0..n : g[i] = f[i]
  OBVIOUS
<1>5. g \in [0..(n + 1) -> T]
  <2>1. f[n] \o e \in T
    BY <1>3 DEF Closed
  <2> QED
    BY <1>3, <2>1
<1> HIDE DEF g
<1>6. ASSUME NEW i \in 0..n PROVE g[i + 1] = g[i] \o t[i + 1]
  <2>1. CASE i = n
    BY <1>4, <2>1
  <2>2. CASE i # n
    <3>1. i \in 0..(n - 1) /\ i + 1 \in 1..n /\ i + 1 \in 0..n
      BY <2>2
    <3>2. f[i + 1] = f[i] \o s[i + 1]
      BY <1>1, <3>1 DEF Flattens
    <3> QED
      BY <1>4, <3>1, <3>2
  <2> QED
    BY <2>1, <2>2
<1> DEFINE m == n + 1
<1>7. Flattens(t, m, T, g)
  <2>1. m - 1 = n /\ 0 \in 0..n
    OBVIOUS
  <2>2. g[0] = <<>>
    BY <1>1, <1>4, <2>1 DEF Flattens
  <2> QED
    BY <1>5, <1>6, <2>1, <2>2 DEF Flattens
<1>8. m \in Nat /\ m = Len(t) /\ m # 0
  OBVIOUS
<1>9. \A i \in 1..m : t[i] \in T
  <2> TAKE i \in 1..m
  <2>1. i = n + 1 \/ i \in 1..n
    OBVIOUS
  <2> QED
    BY <2>1
<1> HIDE DEF m
<1>10. FlattenSeq(t) = g[m]
  BY <1>7, <1>8, <1>9, FlattensMeans
<1> QED
  BY <1>2, <1>3, <1>4, <1>10 DEF m

LEMMA FlattenType ==
    ASSUME NEW X, NEW s \in Seq(Seq(X))
    PROVE  FlattenSeq(s) \in Seq(X)
<1> DEFINE T == Seq(X)
           n == Len(s)
<1>1. n \in Nat /\ Listed(s, n, T)
  BY SequenceOfSequences DEF Listed
<1>2. Closed(T)
  BY SequencesClosed
<1> HIDE DEF T, n
<1>3. PICK f : Flattens(s, n, T, f)
  BY <1>1, <1>2, Flattening DEF Listed
<1>4. FlattenSeq(s) = f[n]
  BY <1>1, <1>2, <1>3, FlattensMeans
<1>5. n \in 0..n
  BY <1>1
<1> QED
  BY <1>3, <1>4, <1>5 DEF Flattens, T

LEMMA FlattenAppend ==
    ASSUME NEW X, NEW s \in Seq(Seq(X)), NEW e \in Seq(X)
    PROVE  FlattenSeq(Append(s, e)) = FlattenSeq(s) \o e
<1> DEFINE T == Seq(X)
           n == Len(s)
           t == Append(s, e)
<1>1. n \in Nat /\ Listed(s, n, T)
  BY SequenceOfSequences DEF Listed
<1>2. Closed(T) /\ e \in T
  BY SequencesClosed
<1>3. OneMore(s, n, e, t)
  BY AppendProperties DEF OneMore
<1> HIDE DEF T, n, t
<1>4. FlattenSeq(t) = FlattenSeq(s) \o e
  BY <1>1, <1>2, <1>3, FlattensAppend
<1> QED
  BY <1>4 DEF t

LEMMA BytesType == ASSUME NEW h \in Heads PROVE Bytes(h) \in Nat
<1>1. h.type = "text" => h.arg \in 1..Len(TEXT)
  BY HeadsAssumption DEF Heads
<1>2. h.type = "text" => TEXT[h.arg] \in Nat
  BY <1>1, HeadsAssumption
<1> QED
  BY <1>2 DEF Bytes

\* f holds the sizes of the prefixes of s.
Sizes(s, n, f) ==
    /\ f \in [0..n -> Nat] /\ f[0] = 0
    /\ \A i \in 1..n : f[i] = f[i - 1] + Bytes(s[i])

LEMMA Sizing ==
    ASSUME NEW s, NEW n \in Nat, \A i \in 1..n : s[i] \in Heads
    PROVE  \E f : Sizes(s, n, f)
<1> DEFINE T == Nat
           start == 0
           step == [i \in 1..n |-> [x \in Nat |-> x + Bytes(s[i])]]
<1>1. step \in [1..n -> [T -> T]] /\ start \in T
  <2>1. \A i \in 1..n : [x \in Nat |-> x + Bytes(s[i])] \in [Nat -> Nat]
    BY BytesType
  <2> QED
    BY <2>1
<1>2. \A i \in 1..n, x \in Nat : step[i][x] = x + Bytes(s[i])
  OBVIOUS
<1> HIDE DEF step, T, start
<1>3. PICK f \in [0..n -> T] : f[0] = start /\ \A i \in 1..n : f[i] = step[i][f[i - 1]]
  BY <1>1, Recursion
<1>4. \A i \in 1..n : f[i] = f[i - 1] + Bytes(s[i])
  <2> TAKE i \in 1..n
  <2>1. i - 1 \in 0..n
    OBVIOUS
  <2> QED
    BY <1>2, <1>3, <2>1 DEF T
<1> QED
  BY <1>3, <1>4 DEF Sizes, T, start

LEMMA SizesMean ==
    ASSUME NEW s, NEW n \in Nat, n = Len(s), NEW f, Sizes(s, n, f)
    PROVE  Size(s) = f[n]
<1> DEFINE Sum(g) == g = [i \in 0..n |-> IF i = 0 THEN 0 ELSE g[i - 1] + Bytes(s[i])]
<1>1. Sum(f)
  <2>1. \A i \in 0..n : f[i] = IF i = 0 THEN 0 ELSE f[i - 1] + Bytes(s[i])
    BY DEF Sizes
  <2> QED
    BY <2>1 DEF Sizes
<1> DEFINE g == CHOOSE g : Sum(g)
<1>2. Sum(g)
  BY <1>1
<1>3. Size(s) = g[n]
  BY DEF Size
<1> HIDE DEF g
<1>4. \A i \in 0..n : g[i] = IF i = 0 THEN 0 ELSE g[i - 1] + Bytes(s[i])
  BY <1>2
<1> HIDE DEF Sum
<1> DEFINE S == {i \in Nat : i <= n => g[i] = f[i]}
<1>5. 0 \in S
  BY <1>4 DEF Sizes
<1>6. ASSUME NEW i \in Nat, i \in S PROVE i + 1 \in S
  <2> SUFFICES ASSUME i + 1 <= n PROVE g[i + 1] = f[i + 1]
    OBVIOUS
  <2>1. g[i] = f[i] /\ i + 1 \in 1..n /\ i + 1 \in 0..n /\ i + 1 # 0 /\ (i + 1) - 1 = i
    BY <1>6
  <2>2. f[i + 1] = f[i] + Bytes(s[i + 1])
    BY <2>1 DEF Sizes
  <2> QED
    BY <1>4, <2>1, <2>2
<1> HIDE DEF S
<1>7. n \in S
  BY <1>5, <1>6, Induction
<1> QED
  BY <1>3, <1>7 DEF S

LEMMA SizeNone == Size(<<>>) = 0
<1> DEFINE f == [i \in 0..0 |-> 0]
           e == <<>>
<1>1. Sizes(e, 0, f) /\ f[0] = 0
  BY DEF Sizes
<1>2. Len(e) = 0
  OBVIOUS
<1> HIDE DEF e, f
<1>3. Size(e) = f[0]
  BY <1>1, <1>2, SizesMean
<1> QED
  BY <1>1, <1>3 DEF e

LEMMA SizeAppend ==
    ASSUME NEW s \in Seq(Heads), NEW h \in Heads
    PROVE  Size(s) \in Nat /\ Size(Append(s, h)) = Size(s) + Bytes(h)
<1> DEFINE n == Len(s)
           t == Append(s, h)
<1>1. n \in Nat /\ \A i \in 1..n : s[i] \in Heads
  OBVIOUS
<1>2. n = Len(s) /\ OneMore(s, n, h, t)
  BY AppendProperties DEF OneMore
<1> HIDE DEF n, t
<1>3. PICK f : Sizes(s, n, f)
  BY <1>1, Sizing
<1>4. Size(s) = f[n]
  BY <1>1, <1>2, <1>3, SizesMean
<1>5. f \in [0..n -> Nat] /\ f[n] \in Nat
  BY <1>1, <1>3 DEF Sizes
<1> DEFINE m == n + 1
           g == [i \in 0..m |-> IF i = m THEN f[n] + Bytes(h) ELSE f[i]]
<1>6. m \in Nat /\ m = Len(t) /\ m - 1 = n
  BY <1>1, <1>2 DEF OneMore
<1>7. /\ g \in [0..m -> Nat]
      /\ g[m] = f[n] + Bytes(h) /\ \A i \in 0..n : g[i] = f[i]
  BY <1>1, <1>5, <1>6, BytesType
<1> HIDE DEF g
<1>8. ASSUME NEW i \in 1..m PROVE g[i] = g[i - 1] + Bytes(t[i])
  <2>1. CASE i = m
    <3>1. i - 1 \in 0..n /\ i - 1 = n /\ t[i] = h
      BY <1>1, <1>2, <1>6, <2>1 DEF OneMore
    <3> QED
      BY <1>7, <2>1, <3>1
  <2>2. CASE i # m
    <3>1. i \in 1..n /\ i \in 0..n /\ i - 1 \in 0..n
      BY <1>1, <1>6, <2>2
    <3>2. t[i] = s[i] /\ f[i] = f[i - 1] + Bytes(s[i])
      BY <1>2, <1>3, <3>1 DEF OneMore, Sizes
    <3> QED
      BY <1>7, <3>1, <3>2
  <2> QED
    BY <2>1, <2>2
<1>9. Sizes(t, m, g)
  <2>1. g[0] = 0
    BY <1>1, <1>3, <1>7 DEF Sizes
  <2> QED
    BY <1>7, <1>8, <2>1 DEF Sizes
<1> HIDE DEF m
<1>10. Size(t) = g[m]
  BY <1>6, <1>9, SizesMean
<1> QED
  BY <1>4, <1>5, <1>7, <1>10 DEF t
-----------------------------------------------------------------------------
(* The invariant *)

ReadHeads  == {h \in Heads : h.cut = "no"}
ShortHeads == {h \in ReadHeads : h.form = "short"}

Frames == [head : ReadHeads, left : Nat, key : BOOLEAN, name : ReadHeads, seen : SUBSET Nat,
           done : Seq(Seq(ShortHeads))]

Says == {"malformed_cbor", "non_deterministic_cbor", "unsupported_cbor_type",
         "resource_limit"}

CborTypeOK ==
    /\ input \in Seq(Heads)
    /\ offset \in Nat
    /\ stack \in Seq(Frames) /\ stack # <<>>
    /\ rust \in Says \cup {"reading"}
    /\ python \in Says \cup {"reading", "reading on"}
    /\ encoder \in Says \cup {"reading", "no value"}

\* The document is what the root has one of; whatever is open is an item of what it is in.
Nested(s) ==
    /\ s[1].head.type = "array" /\ ~s[1].key
    /\ s[1].left + Len(s[1].done) = 1
    /\ \A i \in 1..Len(s) :
        /\ s[i].key => s[i].head.type = "map"
        /\ i < Len(s) => s[i].left > 0
        /\ s[i].head.type = "map" /\ ~s[i].key => s[i].left > 0

\* Nothing that is open is a key.
NoneIsKey(s) == \A i \in 1..Len(s) : i < Len(s) => ~s[i].key

StackOK ==
    /\ Nested(stack)
    /\ rust = "reading" \/ python = "reading" => NoneIsKey(stack)

\* What has been read of an array or a map, in its deterministic form.
Piece(f) ==
    FlattenSeq(f.done) \o (IF f.head.type = "map" /\ ~f.key THEN <<Short(f.name)>> ELSE <<>>)
Pieces(s) ==
    [i \in 1..Len(s) |-> IF i = 1 THEN Piece(s[i]) ELSE <<Short(s[i].head)>> \o Piece(s[i])]

\* The keys of a map that Python reads are in their order, and the last one is the name.
Before(h, f) ==
    \/ Less(KeyBytes(h), KeyBytes(f.name))
    \/ f.key /\ KeyBytes(h) = KeyBytes(f.name)
TextHead(n) == [type |-> "text", form |-> "short", arg |-> n, cut |-> "no"]
Ordered(f) ==
    /\ f.seen # {} => f.name \in ShortHeads
    /\ f.seen \subseteq DOMAIN TEXT
    /\ \A n \in f.seen : \/ Less(KeyBytes(TextHead(n)), KeyBytes(f.name))
                         \/ KeyBytes(TextHead(n)) = KeyBytes(f.name)
    /\ f.seen = {} => f.key /\ f.done = <<>>
    /\ \A i \in 1..Len(f.done) : f.done[i] # <<>> /\ Before(f.done[i][1], f)

AllOrdered(s) == \A i \in 1..Len(s) : s[i].head.type = "map" => Ordered(s[i])

PythonInOrder ==
    python = "reading" => input = FlattenSeq(Pieces(stack)) /\ AllOrdered(stack)

\* The encoder stops with the Rust decoder, or at a key whose place is wrong; there
\* Python stops too.
EncoderFollows ==
    /\ rust = "reading" => encoder = "reading"
    /\ encoder = "reading" /\ rust # "reading" => ~PythonReads /\ Top.left > 0

\* No limit on maps and texts in which the decoders differ is touched.
WithinHead(h) ==
    /\ h.type = "map" => h.arg <= RUST.pairs /\ h.arg <= PYTHON.pairs
    /\ h.type = "text" => TEXT[h.arg] <= RUST.text /\ TEXT[h.arg] <= PYTHON.text

Uniform ==
    \A i \in 1..Len(input) : input[i] \in ShortHeads /\ WithinHead(input[i])

\* What the two say of an input of uniform heads, as far as it has been read.  Python
\* counts a key as nested in its map, Rust does not.
SayTheSame ==
    \/ rust = "reading" /\ python = "reading"
    \/ rust = "unsupported_cbor_type" /\ python # "reading"
    \/ rust \in Says /\ python = rust
    \/ rust \in Says /\ python = "resource_limit" /\ Top.key
    \/ /\ rust = "reading" /\ python = "resource_limit"
       /\ Level > DEPTH /\ ~Top.key /\ Top.left > 0

Reading ==
    /\ CborTypeOK /\ StackOK
    /\ offset = Size(input)
    /\ PythonInOrder /\ EncoderFollows
    /\ Uniform => SayTheSame

CInv == IF closed THEN EncodingIsUnique /\ DecodersAgree ELSE Reading

-----------------------------------------------------------------------------
(* Heads, keys and entries *)

LEMMA ShortMeans ==
    /\ \A h \in Heads : Short(h) \in Heads /\ Short(h).form = "short"
    /\ \A h \in ReadHeads : h \in Heads /\ Short(h) \in ShortHeads /\ Short(h).arg = h.arg
    /\ \A h \in ShortHeads : h \in ReadHeads /\ Short(h) = h
<1>1. ASSUME NEW h \in Heads
      PROVE  /\ Short(h) \in Heads /\ Short(h).form = "short" /\ Short(h).cut = h.cut
             /\ Short(h).arg = h.arg
             /\ h.form = "short" => Short(h) = h
  BY DEF Heads, Short
<1> QED
  BY <1>1 DEF ReadHeads, ShortHeads

Keys == Nat \X Nat \X Nat \X Nat

LEMMA KeyBytesType == ASSUME NEW h \in Heads PROVE KeyBytes(h) \in Keys
<1>1. Major[h.type] \in Nat /\ h.arg \in Nat /\ Bytes(h) \in Nat
  BY BytesType DEF Heads, Major
<1> QED
  BY <1>1 DEF KeyBytes, Keys

LEMMA LessMeans ==
    ASSUME NEW a \in Keys, NEW b \in Keys
    PROVE  Less(a, b) <=> \/ a[1] < b[1]
                          \/ a[1] = b[1] /\ a[2] < b[2]
                          \/ a[1] = b[1] /\ a[2] = b[2] /\ a[3] < b[3]
                          \/ a[1] = b[1] /\ a[2] = b[2] /\ a[3] = b[3] /\ a[4] < b[4]
<1> DEFINE At(i) == a[i] < b[i] /\ \A j \in 1..(i - 1) : a[j] = b[j]
<1>1. Less(a, b) <=> At(1) \/ At(2) \/ At(3) \/ At(4)
  BY DEF Less
<1>2. At(1) <=> a[1] < b[1]
  OBVIOUS
<1>3. At(2) <=> a[1] = b[1] /\ a[2] < b[2]
  OBVIOUS
<1>4. At(3) <=> a[1] = b[1] /\ a[2] = b[2] /\ a[3] < b[3]
  OBVIOUS
<1>5. At(4) <=> a[1] = b[1] /\ a[2] = b[2] /\ a[3] = b[3] /\ a[4] < b[4]
  OBVIOUS
<1> HIDE DEF At
<1> QED
  BY <1>1, <1>2, <1>3, <1>4, <1>5

LEMMA LessOrders ==
    /\ \A a \in Keys : ~Less(a, a)
    /\ \A a, b, c \in Keys : Less(a, b) /\ Less(b, c) => Less(a, c)
<1>1. \A a \in Keys : a[1] \in Nat /\ a[2] \in Nat /\ a[3] \in Nat /\ a[4] \in Nat
  BY DEF Keys
<1>2. ASSUME NEW a \in Keys PROVE ~Less(a, a)
  BY <1>1, LessMeans
<1>3. ASSUME NEW a \in Keys, NEW b \in Keys, NEW c \in Keys, Less(a, b), Less(b, c)
      PROVE  Less(a, c)
  BY <1>1, <1>3, LessMeans
<1> QED
  BY <1>2, <1>3

\* A text is in its place as a key, in its short form.
LEMMA TextHeadMeans ==
    ASSUME NEW h \in ShortHeads, h.type = "text"
    PROVE  TextHead(h.arg) = h /\ h.arg \in DOMAIN TEXT
BY DEF TextHead, ShortHeads, ReadHeads, Heads

LEMMA InsertType ==
    ASSUME NEW T, NEW entries \in Seq(T), NEW entry \in T
    PROVE  /\ Insert(entries, entry) \in Seq(T)
           /\ Len(Insert(entries, entry)) = Len(entries) + 1
<1> DEFINE n == Len(entries)
           before == {i \in DOMAIN entries :
                        Less(KeyBytes(entries[i][1]), KeyBytes(entry[1]))}
           k == Cardinality(before)
<1>1. n \in Nat /\ DOMAIN entries = 1..n
  OBVIOUS
<1>2. k \in Nat /\ k <= n
  <2>1. IsFiniteSet(1..n) /\ Cardinality(1..n) = n
    BY <1>1, FS_Interval, SMTT(20)
  <2>2. before \in SUBSET (1..n)
    BY <1>1
  <2> HIDE DEF before, n
  <2> QED
    BY <2>1, <2>2, FS_Subset, FS_CardinalityType
<1>3. Insert(entries, entry) = InsertAt(entries, k + 1, entry)
  BY DEF Insert
<1> HIDE DEF k, before
<1> DEFINE front == SubSeq(entries, 1, (k + 1) - 1)
           back == SubSeq(entries, k + 1, n)
<1>4. Insert(entries, entry) = front \o <<entry>> \o back
  BY <1>3 DEF InsertAt
<1>5. front \in Seq(T) /\ Len(front) = k
  <2>1. \A i \in 1..k : entries[i] \in T
    BY <1>1, <1>2, ElementOfSeq
  <2>2. (k + 1) - 1 = k
    BY <1>2
  <2> QED
    BY <1>2, <2>1, <2>2, SubSeqProperties
<1>6. back \in Seq(T) /\ Len(back) = n - k
  <2>1. \A i \in (k + 1)..n : entries[i] \in T
    BY <1>1, <1>2, ElementOfSeq
  <2>2. k + 1 \in Int /\ n \in Int
    BY <1>1, <1>2
  <2>3. back \in Seq(T) /\ Len(back) = IF k + 1 <= n THEN n - (k + 1) + 1 ELSE 0
    BY <2>1, <2>2, SubSeqProperties
  <2> HIDE DEF back, n
  <2> QED
    BY <1>1, <1>2, <2>3
<1> HIDE DEF front, back
<1>7. <<entry>> \in Seq(T) /\ Len(<<entry>>) = 1
  OBVIOUS
<1>8. front \o <<entry>> \in Seq(T) /\ Len(front \o <<entry>>) = k + 1
  BY <1>5, <1>7, ConcatProperties
<1> DEFINE most == front \o <<entry>>
           all == most \o back
<1>9. most \in Seq(T) /\ Len(most) = k + 1 /\ Insert(entries, entry) = all
  BY <1>4, <1>8
<1> HIDE DEF most
<1>10. all \in Seq(T) /\ Len(all) = Len(most) + Len(back)
  BY <1>6, <1>9, ConcatProperties
<1> HIDE DEF all, n
<1> QED
  BY <1>1, <1>2, <1>6, <1>9, <1>10 DEF n

\* An entry whose key is greater than all comes last.
LEMMA InsertLast ==
    ASSUME NEW T, NEW entries \in Seq(T), NEW entry \in T,
           \A i \in 1..Len(entries) : Less(KeyBytes(entries[i][1]), KeyBytes(entry[1]))
    PROVE  Insert(entries, entry) = Append(entries, entry)
<1> DEFINE n == Len(entries)
           before == {i \in DOMAIN entries :
                        Less(KeyBytes(entries[i][1]), KeyBytes(entry[1]))}
<1>1. n \in Nat /\ DOMAIN entries = 1..n
  OBVIOUS
<1>2. before = 1..n
  BY <1>1
<1>3. Insert(entries, entry) = InsertAt(entries, Cardinality(before) + 1, entry)
  BY DEF Insert
<1> HIDE DEF before
<1>4. Cardinality(before) = n
  BY <1>1, <1>2, FS_Interval
<1>5. Insert(entries, entry)
        = SubSeq(entries, 1, (n + 1) - 1) \o <<entry>> \o SubSeq(entries, n + 1, n)
  BY <1>3, <1>4 DEF InsertAt
<1>6. SubSeq(entries, 1, (n + 1) - 1) = entries
  <2>1. (n + 1) - 1 = n
    BY <1>1
  <2> QED
    BY <2>1, SubSeqFull
<1>7. SubSeq(entries, n + 1, n) = <<>>
  <2>1. n + 1 \in Int /\ n \in Int /\ n < n + 1
    BY <1>1
  <2> HIDE DEF n
  <2> QED
    BY <2>1, SubSeqEmpty
<1>8. entries \o <<entry>> \in Seq(T) /\ Append(entries, entry) = entries \o <<entry>>
  BY AppendIsConcat, AppendProperties
<1>9. (entries \o <<entry>>) \o <<>> = entries \o <<entry>>
  BY <1>8, ConcatEmptySeq
<1> QED
  BY <1>5, <1>6, <1>7, <1>8, <1>9

-----------------------------------------------------------------------------
(* Checks with early returns *)

Refusals == Says \cup {"no value", "manifest_policy_invalid"}
Errors   == Seq(Refusals)

LEMMA OneError == ASSUME NEW e \in Refusals PROVE <<e>> \in Errors
BY DEF Errors

LEMMA NoError == <<>> \in Errors
BY DEF Errors

LEMMA RefusalsMean ==
    /\ "malformed_cbor" \in Refusals /\ "non_deterministic_cbor" \in Refusals
    /\ "unsupported_cbor_type" \in Refusals /\ "resource_limit" \in Refusals
    /\ "no value" \in Refusals /\ "manifest_policy_invalid" \in Refusals
BY DEF Refusals, Says

\* The first of two lists is the first of the second only if the first list is empty.
LEMMA FirstOfBoth ==
    \A a, b :
        /\ a \in Errors /\ b \in Errors => a \o b \in Errors
        /\ a \in Errors /\ b \in Errors =>
              \A o : FirstError(a \o b, o) = FirstError(a, FirstError(b, o))
<1>1. ASSUME NEW a, NEW b, a \in Errors, b \in Errors
      PROVE  a \o b \in Errors
  BY <1>1 DEF Errors
<1>2. ASSUME NEW a, NEW b, a \in Errors, b \in Errors, NEW o
      PROVE  FirstError(a \o b, o) = FirstError(a, FirstError(b, o))
  <2>1. CASE a = <<>>
    BY <1>2, <2>1 DEF Errors, FirstError
  <2>2. CASE a # <<>>
    <3>1. a \o b # <<>> /\ (a \o b)[1] = a[1]
      BY <1>2, <2>2 DEF Errors
    <3> QED
      BY <2>2, <3>1 DEF FirstError
  <2> QED
    BY <2>1, <2>2
<1> QED
  BY <1>1, <1>2

\* RustValue returns at the first check that fails; so do the others.
LEMMA RustValueIs ==
    ASSUME NEW h
    PROVE  RustValue(h) =
             IF Level > DEPTH THEN "resource_limit"
             ELSE IF h.form = "indefinite" /\ h.type \in {"bytes", "text", "array", "map"} THEN "non_deterministic_cbor"
             ELSE IF h.form \in {"reserved", "indefinite"} THEN "unsupported_cbor_type"
             ELSE IF h.type \in {"bytes", "tag", "null", "other"} THEN "unsupported_cbor_type"
             ELSE IF h.cut # "no" \/ (h.type = "text" /\ h.arg \notin UTF8) THEN "malformed_cbor"
             ELSE IF Unsafe(h) THEN "unsupported_cbor_type"
             ELSE IF TooLarge(h, RUST) THEN "resource_limit"
             ELSE "reading"
<1> DEFINE c1 == Level > DEPTH
           c2 == h.form = "indefinite" /\ h.type \in {"bytes", "text", "array", "map"}
           c3 == h.form \in {"reserved", "indefinite"}
           c4 == h.type \in {"bytes", "tag", "null", "other"}
           c5 == h.cut # "no" \/ (h.type = "text" /\ h.arg \notin UTF8)
           c6 == Unsafe(h)
           c7 == TooLarge(h, RUST)
           w1 == When(c1, "resource_limit")
           w2 == When(c2, "non_deterministic_cbor")
           w3 == When(c3, "unsupported_cbor_type")
           w4 == When(c4, "unsupported_cbor_type")
           w5 == When(c5, "malformed_cbor")
           w6 == When(c6, "unsupported_cbor_type")
           w7 == When(c7, "resource_limit")
<1> HIDE DEF c1, c2, c3, c4, c5, c6, c7
<1>2. w1 \in Errors /\ w2 \in Errors /\ w3 \in Errors /\ w4 \in Errors /\ w5 \in Errors /\ w6 \in Errors /\ w7 \in Errors
  BY OneError, NoError, RefusalsMean DEF When
<1>3. \A o :
        /\ FirstError(w1, o) = IF c1 THEN "resource_limit" ELSE o
        /\ FirstError(w2, o) = IF c2 THEN "non_deterministic_cbor" ELSE o
        /\ FirstError(w3, o) = IF c3 THEN "unsupported_cbor_type" ELSE o
        /\ FirstError(w4, o) = IF c4 THEN "unsupported_cbor_type" ELSE o
        /\ FirstError(w5, o) = IF c5 THEN "malformed_cbor" ELSE o
        /\ FirstError(w6, o) = IF c6 THEN "unsupported_cbor_type" ELSE o
        /\ FirstError(w7, o) = IF c7 THEN "resource_limit" ELSE o
  BY DEF When, FirstError
<1>4. RustValue(h) = FirstError(w1 \o w2 \o w3 \o w4 \o w5 \o w6 \o w7, "reading")
  BY DEF RustValue, c1, c2, c3, c4, c5, c6, c7
<1> HIDE DEF w1, w2, w3, w4, w5, w6, w7
<1> DEFINE r7 == IF c7 THEN "resource_limit" ELSE "reading"
           r6 == IF c6 THEN "unsupported_cbor_type" ELSE r7
           r5 == IF c5 THEN "malformed_cbor" ELSE r6
           r4 == IF c4 THEN "unsupported_cbor_type" ELSE r5
           r3 == IF c3 THEN "unsupported_cbor_type" ELSE r4
           r2 == IF c2 THEN "non_deterministic_cbor" ELSE r3
           r1 == IF c1 THEN "resource_limit" ELSE r2
<1>5. /\ FirstError(w7, "reading") = r7
      /\ FirstError(w6, r7) = r6
      /\ FirstError(w5, r6) = r5
      /\ FirstError(w4, r5) = r4
      /\ FirstError(w3, r4) = r3
      /\ FirstError(w2, r3) = r2
      /\ FirstError(w1, r2) = r1
  BY <1>3
<1> HIDE DEF r1, r2, r3, r4, r5, r6, r7
<1> DEFINE l2 == w1 \o w2
           l3 == l2 \o w3
           l4 == l3 \o w4
           l5 == l4 \o w5
           l6 == l5 \o w6
<1>6. l2 \in Errors /\ l3 \in Errors /\ l4 \in Errors /\ l5 \in Errors /\ l6 \in Errors
  BY <1>2, FirstOfBoth
<1>7. /\ l2 = w1 \o w2
      /\ l3 = l2 \o w3
      /\ l4 = l3 \o w4
      /\ l5 = l4 \o w5
      /\ l6 = l5 \o w6
  OBVIOUS
<1>8. RustValue(h) = FirstError(l6 \o w7, "reading")
  BY <1>4
<1> HIDE DEF l2, l3, l4, l5, l6
<1>9. FirstError(l6 \o w7, "reading") = FirstError(l6, r7)
  BY <1>2, <1>5, <1>6, FirstOfBoth
<1>10. FirstError(l6, r7) = FirstError(l5, r6)
  BY <1>2, <1>5, <1>6, <1>7, FirstOfBoth
<1>11. FirstError(l5, r6) = FirstError(l4, r5)
  BY <1>2, <1>5, <1>6, <1>7, FirstOfBoth
<1>12. FirstError(l4, r5) = FirstError(l3, r4)
  BY <1>2, <1>5, <1>6, <1>7, FirstOfBoth
<1>13. FirstError(l3, r4) = FirstError(l2, r3)
  BY <1>2, <1>5, <1>6, <1>7, FirstOfBoth
<1>14. FirstError(l2, r3) = FirstError(w1, r2)
  BY <1>2, <1>5, <1>6, <1>7, FirstOfBoth
<1>15. RustValue(h) = r1
  BY <1>5, <1>8, <1>9, <1>10, <1>11, <1>12, <1>13, <1>14
<1> QED
  BY <1>15 DEF c1, c2, c3, c4, c5, c6, c7, r1, r2, r3, r4, r5, r6, r7

LEMMA RustKeyIs ==
    ASSUME NEW h
    PROVE  RustKey(h) =
             IF h.type = "text" /\ h.form = "indefinite" THEN "non_deterministic_cbor"
             ELSE IF h.type # "text" \/ h.form = "reserved" THEN "unsupported_cbor_type"
             ELSE IF h.cut # "no" \/ h.arg \notin UTF8 THEN "malformed_cbor"
             ELSE IF TooLarge(h, RUST) THEN "resource_limit"
             ELSE IF h.arg \in Top.seen THEN "non_deterministic_cbor"
             ELSE IF Top.seen # {} /\ ~Less(KeyBytes(Top.name), KeyBytes(h)) THEN "non_deterministic_cbor"
             ELSE "reading"
<1> DEFINE c1 == h.type = "text" /\ h.form = "indefinite"
           c2 == h.type # "text" \/ h.form = "reserved"
           c3 == h.cut # "no" \/ h.arg \notin UTF8
           c4 == TooLarge(h, RUST)
           c5 == h.arg \in Top.seen
           c6 == Top.seen # {} /\ ~Less(KeyBytes(Top.name), KeyBytes(h))
           w1 == When(c1, "non_deterministic_cbor")
           w2 == When(c2, "unsupported_cbor_type")
           w3 == When(c3, "malformed_cbor")
           w4 == When(c4, "resource_limit")
           w5 == When(c5, "non_deterministic_cbor")
           w6 == When(c6, "non_deterministic_cbor")
<1> HIDE DEF c1, c2, c3, c4, c5, c6
<1>2. w1 \in Errors /\ w2 \in Errors /\ w3 \in Errors /\ w4 \in Errors /\ w5 \in Errors /\ w6 \in Errors
  BY OneError, NoError, RefusalsMean DEF When
<1>3. \A o :
        /\ FirstError(w1, o) = IF c1 THEN "non_deterministic_cbor" ELSE o
        /\ FirstError(w2, o) = IF c2 THEN "unsupported_cbor_type" ELSE o
        /\ FirstError(w3, o) = IF c3 THEN "malformed_cbor" ELSE o
        /\ FirstError(w4, o) = IF c4 THEN "resource_limit" ELSE o
        /\ FirstError(w5, o) = IF c5 THEN "non_deterministic_cbor" ELSE o
        /\ FirstError(w6, o) = IF c6 THEN "non_deterministic_cbor" ELSE o
  BY DEF When, FirstError
<1>4. RustKey(h) = FirstError(w1 \o w2 \o w3 \o w4 \o w5 \o w6, "reading")
  BY DEF RustKey, c1, c2, c3, c4, c5, c6
<1> HIDE DEF w1, w2, w3, w4, w5, w6
<1> DEFINE r6 == IF c6 THEN "non_deterministic_cbor" ELSE "reading"
           r5 == IF c5 THEN "non_deterministic_cbor" ELSE r6
           r4 == IF c4 THEN "resource_limit" ELSE r5
           r3 == IF c3 THEN "malformed_cbor" ELSE r4
           r2 == IF c2 THEN "unsupported_cbor_type" ELSE r3
           r1 == IF c1 THEN "non_deterministic_cbor" ELSE r2
<1>5. /\ FirstError(w6, "reading") = r6
      /\ FirstError(w5, r6) = r5
      /\ FirstError(w4, r5) = r4
      /\ FirstError(w3, r4) = r3
      /\ FirstError(w2, r3) = r2
      /\ FirstError(w1, r2) = r1
  BY <1>3
<1> HIDE DEF r1, r2, r3, r4, r5, r6
<1> DEFINE l2 == w1 \o w2
           l3 == l2 \o w3
           l4 == l3 \o w4
           l5 == l4 \o w5
<1>6. l2 \in Errors /\ l3 \in Errors /\ l4 \in Errors /\ l5 \in Errors
  BY <1>2, FirstOfBoth
<1>7. /\ l2 = w1 \o w2
      /\ l3 = l2 \o w3
      /\ l4 = l3 \o w4
      /\ l5 = l4 \o w5
  OBVIOUS
<1>8. RustKey(h) = FirstError(l5 \o w6, "reading")
  BY <1>4
<1> HIDE DEF l2, l3, l4, l5
<1>9. FirstError(l5 \o w6, "reading") = FirstError(l5, r6)
  BY <1>2, <1>5, <1>6, FirstOfBoth
<1>10. FirstError(l5, r6) = FirstError(l4, r5)
  BY <1>2, <1>5, <1>6, <1>7, FirstOfBoth
<1>11. FirstError(l4, r5) = FirstError(l3, r4)
  BY <1>2, <1>5, <1>6, <1>7, FirstOfBoth
<1>12. FirstError(l3, r4) = FirstError(l2, r3)
  BY <1>2, <1>5, <1>6, <1>7, FirstOfBoth
<1>13. FirstError(l2, r3) = FirstError(w1, r2)
  BY <1>2, <1>5, <1>6, <1>7, FirstOfBoth
<1>14. RustKey(h) = r1
  BY <1>5, <1>8, <1>9, <1>10, <1>11, <1>12, <1>13
<1> QED
  BY <1>14 DEF c1, c2, c3, c4, c5, c6, r1, r2, r3, r4, r5, r6

LEMMA PythonItemIs ==
    ASSUME NEW h
    PROVE  PythonItem(h) =
             IF Level > DEPTH THEN "resource_limit"
             ELSE IF h.type \in {"null", "other"} THEN "unsupported_cbor_type"
             ELSE IF h.form = "indefinite" THEN "non_deterministic_cbor"
             ELSE IF h.form = "reserved" \/ h.cut = "head" THEN "malformed_cbor"
             ELSE IF h.form = "long" THEN "non_deterministic_cbor"
             ELSE IF Unsafe(h) THEN "unsupported_cbor_type"
             ELSE IF TooLarge(h, PYTHON) THEN "resource_limit"
             ELSE IF h.cut # "no" THEN "malformed_cbor"
             ELSE IF h.type \in {"bytes", "tag"} THEN "unsupported_cbor_type"
             ELSE IF h.type = "text" /\ h.arg \notin UTF8 THEN "malformed_cbor"
             ELSE IF Top.key /\ h.type \notin {"array", "map"} /\ Top.seen # {}
                /\ (~Less(KeyBytes(Top.name), KeyBytes(h)) \/ AnotherKey(h))
             THEN "non_deterministic_cbor"
             ELSE "reading"
<1> DEFINE c1 == Level > DEPTH
           c2 == h.type \in {"null", "other"}
           c3 == h.form = "indefinite"
           c4 == h.form = "reserved" \/ h.cut = "head"
           c5 == h.form = "long"
           c6 == Unsafe(h)
           c7 == TooLarge(h, PYTHON)
           c8 == h.cut # "no"
           c9 == h.type \in {"bytes", "tag"}
           c10 == h.type = "text" /\ h.arg \notin UTF8
           c11 == Top.key /\ h.type \notin {"array", "map"} /\ Top.seen # {}
                /\ (~Less(KeyBytes(Top.name), KeyBytes(h)) \/ AnotherKey(h))
           w1 == When(c1, "resource_limit")
           w2 == When(c2, "unsupported_cbor_type")
           w3 == When(c3, "non_deterministic_cbor")
           w4 == When(c4, "malformed_cbor")
           w5 == When(c5, "non_deterministic_cbor")
           w6 == When(c6, "unsupported_cbor_type")
           w7 == When(c7, "resource_limit")
           w8 == When(c8, "malformed_cbor")
           w9 == When(c9, "unsupported_cbor_type")
           w10 == When(c10, "malformed_cbor")
           w11 == When(c11, "non_deterministic_cbor")
<1> HIDE DEF c1, c2, c3, c4, c5, c6, c7, c8, c9, c10, c11
<1>2. w1 \in Errors /\ w2 \in Errors /\ w3 \in Errors /\ w4 \in Errors /\ w5 \in Errors /\ w6 \in Errors /\ w7 \in Errors /\ w8 \in Errors /\ w9 \in Errors /\ w10 \in Errors /\ w11 \in Errors
  BY OneError, NoError, RefusalsMean DEF When
<1>3. \A o :
        /\ FirstError(w1, o) = IF c1 THEN "resource_limit" ELSE o
        /\ FirstError(w2, o) = IF c2 THEN "unsupported_cbor_type" ELSE o
        /\ FirstError(w3, o) = IF c3 THEN "non_deterministic_cbor" ELSE o
        /\ FirstError(w4, o) = IF c4 THEN "malformed_cbor" ELSE o
        /\ FirstError(w5, o) = IF c5 THEN "non_deterministic_cbor" ELSE o
        /\ FirstError(w6, o) = IF c6 THEN "unsupported_cbor_type" ELSE o
        /\ FirstError(w7, o) = IF c7 THEN "resource_limit" ELSE o
        /\ FirstError(w8, o) = IF c8 THEN "malformed_cbor" ELSE o
        /\ FirstError(w9, o) = IF c9 THEN "unsupported_cbor_type" ELSE o
        /\ FirstError(w10, o) = IF c10 THEN "malformed_cbor" ELSE o
        /\ FirstError(w11, o) = IF c11 THEN "non_deterministic_cbor" ELSE o
  BY DEF When, FirstError
<1>4. PythonItem(h) = FirstError(w1 \o w2 \o (w3 \o w4 \o w5) \o w6 \o w7 \o w8 \o w9 \o w10 \o w11, "reading")
  BY DEF PythonItem, PythonArgument, c1, c2, c3, c4, c5, c6, c7, c8, c9, c10, c11
<1> HIDE DEF w1, w2, w3, w4, w5, w6, w7, w8, w9, w10, w11
<1> DEFINE r11 == IF c11 THEN "non_deterministic_cbor" ELSE "reading"
           r10 == IF c10 THEN "malformed_cbor" ELSE r11
           r9 == IF c9 THEN "unsupported_cbor_type" ELSE r10
           r8 == IF c8 THEN "malformed_cbor" ELSE r9
           r7 == IF c7 THEN "resource_limit" ELSE r8
           r6 == IF c6 THEN "unsupported_cbor_type" ELSE r7
           r5 == IF c5 THEN "non_deterministic_cbor" ELSE r6
           r4 == IF c4 THEN "malformed_cbor" ELSE r5
           r3 == IF c3 THEN "non_deterministic_cbor" ELSE r4
           r2 == IF c2 THEN "unsupported_cbor_type" ELSE r3
           r1 == IF c1 THEN "resource_limit" ELSE r2
<1>5. /\ FirstError(w11, "reading") = r11
      /\ FirstError(w10, r11) = r10
      /\ FirstError(w9, r10) = r9
      /\ FirstError(w8, r9) = r8
      /\ FirstError(w7, r8) = r7
      /\ FirstError(w6, r7) = r6
      /\ FirstError(w5, r6) = r5
      /\ FirstError(w4, r5) = r4
      /\ FirstError(w3, r4) = r3
      /\ FirstError(w2, r3) = r2
      /\ FirstError(w1, r2) = r1
  BY <1>3
<1> HIDE DEF r1, r2, r3, r4, r5, r6, r7, r8, r9, r10, r11
<1>6. PythonItem(h) = FirstError(w1, FirstError(w2, FirstError(w3, FirstError(w4, FirstError(w5, FirstError(w6, FirstError(w7, FirstError(w8, FirstError(w9, FirstError(w10, FirstError(w11, "reading")))))))))))
  BY <1>2, <1>4, FirstOfBoth
<1>7. PythonItem(h) = r1
  BY <1>5, <1>6
<1> QED
  BY <1>7 DEF c1, c2, c3, c4, c5, c6, c7, c8, c9, c10, c11, r1, r2, r3, r4, r5, r6, r7, r8, r9, r10, r11

LEMMA EncoderValueIs ==
    ASSUME NEW h
    PROVE  EncoderValue(h) =
             IF ~IsValue(h) THEN "no value"
             ELSE IF ~Top.key /\ Level > DEPTH THEN "resource_limit"
             ELSE IF h.type \in {"null", "other"} THEN "unsupported_cbor_type"
             ELSE IF Unsafe(h) THEN "unsupported_cbor_type"
             ELSE IF TooLarge(h, RUST) THEN "resource_limit"
             ELSE "reading"
<1> DEFINE c1 == ~IsValue(h)
           c2 == ~Top.key /\ Level > DEPTH
           c3 == h.type \in {"null", "other"}
           c4 == Unsafe(h)
           c5 == TooLarge(h, RUST)
           w1 == When(c1, "no value")
           w2 == When(c2, "resource_limit")
           w3 == When(c3, "unsupported_cbor_type")
           w4 == When(c4, "unsupported_cbor_type")
           w5 == When(c5, "resource_limit")
<1> HIDE DEF c1, c2, c3, c4, c5
<1>2. w1 \in Errors /\ w2 \in Errors /\ w3 \in Errors /\ w4 \in Errors /\ w5 \in Errors
  BY OneError, NoError, RefusalsMean DEF When
<1>3. \A o :
        /\ FirstError(w1, o) = IF c1 THEN "no value" ELSE o
        /\ FirstError(w2, o) = IF c2 THEN "resource_limit" ELSE o
        /\ FirstError(w3, o) = IF c3 THEN "unsupported_cbor_type" ELSE o
        /\ FirstError(w4, o) = IF c4 THEN "unsupported_cbor_type" ELSE o
        /\ FirstError(w5, o) = IF c5 THEN "resource_limit" ELSE o
  BY DEF When, FirstError
<1>4. EncoderValue(h) = FirstError(w1 \o w2 \o w3 \o w4 \o w5, "reading")
  BY DEF EncoderValue, c1, c2, c3, c4, c5
<1> HIDE DEF w1, w2, w3, w4, w5
<1> DEFINE r5 == IF c5 THEN "resource_limit" ELSE "reading"
           r4 == IF c4 THEN "unsupported_cbor_type" ELSE r5
           r3 == IF c3 THEN "unsupported_cbor_type" ELSE r4
           r2 == IF c2 THEN "resource_limit" ELSE r3
           r1 == IF c1 THEN "no value" ELSE r2
<1>5. /\ FirstError(w5, "reading") = r5
      /\ FirstError(w4, r5) = r4
      /\ FirstError(w3, r4) = r3
      /\ FirstError(w2, r3) = r2
      /\ FirstError(w1, r2) = r1
  BY <1>3
<1> HIDE DEF r1, r2, r3, r4, r5
<1> DEFINE l2 == w1 \o w2
           l3 == l2 \o w3
           l4 == l3 \o w4
<1>6. l2 \in Errors /\ l3 \in Errors /\ l4 \in Errors
  BY <1>2, FirstOfBoth
<1>7. /\ l2 = w1 \o w2
      /\ l3 = l2 \o w3
      /\ l4 = l3 \o w4
  OBVIOUS
<1>8. EncoderValue(h) = FirstError(l4 \o w5, "reading")
  BY <1>4
<1> HIDE DEF l2, l3, l4
<1>9. FirstError(l4 \o w5, "reading") = FirstError(l4, r5)
  BY <1>2, <1>5, <1>6, FirstOfBoth
<1>10. FirstError(l4, r5) = FirstError(l3, r4)
  BY <1>2, <1>5, <1>6, <1>7, FirstOfBoth
<1>11. FirstError(l3, r4) = FirstError(l2, r3)
  BY <1>2, <1>5, <1>6, <1>7, FirstOfBoth
<1>12. FirstError(l2, r3) = FirstError(w1, r2)
  BY <1>2, <1>5, <1>6, <1>7, FirstOfBoth
<1>13. EncoderValue(h) = r1
  BY <1>5, <1>8, <1>9, <1>10, <1>11, <1>12
<1> QED
  BY <1>13 DEF c1, c2, c3, c4, c5, r1, r2, r3, r4, r5

LEMMA RustEndIs ==
    ASSUME NEW rest, CborTypeOK
    PROVE  RustEnd(rest) =
             IF offset + rest > RUST.bytes THEN "resource_limit"
             ELSE IF rust # "reading" THEN rust
             ELSE IF Top.left > 0 /\ ~Top.key /\ Level > DEPTH THEN "resource_limit"
             ELSE IF Top.left > 0 \/ rest > 0 THEN "malformed_cbor"
             ELSE IF Complete /\ Value # input THEN "non_deterministic_cbor"
             ELSE IF Complete /\ input[1].type \notin {"map", "array"} THEN "manifest_policy_invalid"
             ELSE "accepted"
<1> DEFINE c1 == offset + rest > RUST.bytes
           c2 == rust # "reading"
           c3 == Top.left > 0 /\ ~Top.key /\ Level > DEPTH
           c4 == Top.left > 0 \/ rest > 0
           c5 == Complete /\ Value # input
           c6 == Complete /\ input[1].type \notin {"map", "array"}
           w1 == When(c1, "resource_limit")
           w2 == When(c2, rust)
           w3 == When(c3, "resource_limit")
           w4 == When(c4, "malformed_cbor")
           w5 == When(c5, "non_deterministic_cbor")
           w6 == When(c6, "manifest_policy_invalid")
<1> HIDE DEF c1, c2, c3, c4, c5, c6
<1>2. w1 \in Errors /\ w2 \in Errors /\ w3 \in Errors /\ w4 \in Errors /\ w5 \in Errors /\ w6 \in Errors
  BY OneError, NoError, RefusalsMean DEF When, Refusals, PythonReads, CborTypeOK, c2
<1>3. \A o :
        /\ FirstError(w1, o) = IF c1 THEN "resource_limit" ELSE o
        /\ FirstError(w2, o) = IF c2 THEN rust ELSE o
        /\ FirstError(w3, o) = IF c3 THEN "resource_limit" ELSE o
        /\ FirstError(w4, o) = IF c4 THEN "malformed_cbor" ELSE o
        /\ FirstError(w5, o) = IF c5 THEN "non_deterministic_cbor" ELSE o
        /\ FirstError(w6, o) = IF c6 THEN "manifest_policy_invalid" ELSE o
  BY DEF When, FirstError
<1>4. RustEnd(rest) = FirstError(w1 \o w2 \o w3 \o w4 \o w5 \o w6, "accepted")
  BY DEF RustEnd, c1, c2, c3, c4, c5, c6
<1> HIDE DEF w1, w2, w3, w4, w5, w6
<1> DEFINE r6 == IF c6 THEN "manifest_policy_invalid" ELSE "accepted"
           r5 == IF c5 THEN "non_deterministic_cbor" ELSE r6
           r4 == IF c4 THEN "malformed_cbor" ELSE r5
           r3 == IF c3 THEN "resource_limit" ELSE r4
           r2 == IF c2 THEN rust ELSE r3
           r1 == IF c1 THEN "resource_limit" ELSE r2
<1>5. /\ FirstError(w6, "accepted") = r6
      /\ FirstError(w5, r6) = r5
      /\ FirstError(w4, r5) = r4
      /\ FirstError(w3, r4) = r3
      /\ FirstError(w2, r3) = r2
      /\ FirstError(w1, r2) = r1
  BY <1>3
<1> HIDE DEF r1, r2, r3, r4, r5, r6
<1> DEFINE l2 == w1 \o w2
           l3 == l2 \o w3
           l4 == l3 \o w4
           l5 == l4 \o w5
<1>6. l2 \in Errors /\ l3 \in Errors /\ l4 \in Errors /\ l5 \in Errors
  BY <1>2, FirstOfBoth
<1>7. /\ l2 = w1 \o w2
      /\ l3 = l2 \o w3
      /\ l4 = l3 \o w4
      /\ l5 = l4 \o w5
  OBVIOUS
<1>8. RustEnd(rest) = FirstError(l5 \o w6, "accepted")
  BY <1>4
<1> HIDE DEF l2, l3, l4, l5
<1>9. FirstError(l5 \o w6, "accepted") = FirstError(l5, r6)
  BY <1>2, <1>5, <1>6, FirstOfBoth
<1>10. FirstError(l5, r6) = FirstError(l4, r5)
  BY <1>2, <1>5, <1>6, <1>7, FirstOfBoth
<1>11. FirstError(l4, r5) = FirstError(l3, r4)
  BY <1>2, <1>5, <1>6, <1>7, FirstOfBoth
<1>12. FirstError(l3, r4) = FirstError(l2, r3)
  BY <1>2, <1>5, <1>6, <1>7, FirstOfBoth
<1>13. FirstError(l2, r3) = FirstError(w1, r2)
  BY <1>2, <1>5, <1>6, <1>7, FirstOfBoth
<1>14. RustEnd(rest) = r1
  BY <1>5, <1>8, <1>9, <1>10, <1>11, <1>12, <1>13
<1> QED
  BY <1>14 DEF c1, c2, c3, c4, c5, c6, r1, r2, r3, r4, r5, r6

LEMMA PythonEndIs ==
    ASSUME NEW rest, CborTypeOK
    PROVE  PythonEnd(rest) =
             IF offset + rest > PYTHON.bytes THEN "resource_limit"
             ELSE IF ~PythonReads THEN python
             ELSE IF Top.left > 0 /\ Level > DEPTH THEN "resource_limit"
             ELSE IF Top.left > 0 \/ rest > 0 THEN "malformed_cbor"
             ELSE IF Complete /\ input[1].type # "map" THEN "manifest_policy_invalid"
             ELSE IF python = "reading on" THEN "unsupported_cbor_type"
             ELSE "accepted"
<1> DEFINE c1 == offset + rest > PYTHON.bytes
           c2 == ~PythonReads
           c3 == Top.left > 0 /\ Level > DEPTH
           c4 == Top.left > 0 \/ rest > 0
           c5 == Complete /\ input[1].type # "map"
           c6 == python = "reading on"
           w1 == When(c1, "resource_limit")
           w2 == When(c2, python)
           w3 == When(c3, "resource_limit")
           w4 == When(c4, "malformed_cbor")
           w5 == When(c5, "manifest_policy_invalid")
           w6 == When(c6, "unsupported_cbor_type")
<1> HIDE DEF c1, c2, c3, c4, c5, c6
<1>2. w1 \in Errors /\ w2 \in Errors /\ w3 \in Errors /\ w4 \in Errors /\ w5 \in Errors /\ w6 \in Errors
  BY OneError, NoError, RefusalsMean DEF When, Refusals, PythonReads, CborTypeOK, c2
<1>3. \A o :
        /\ FirstError(w1, o) = IF c1 THEN "resource_limit" ELSE o
        /\ FirstError(w2, o) = IF c2 THEN python ELSE o
        /\ FirstError(w3, o) = IF c3 THEN "resource_limit" ELSE o
        /\ FirstError(w4, o) = IF c4 THEN "malformed_cbor" ELSE o
        /\ FirstError(w5, o) = IF c5 THEN "manifest_policy_invalid" ELSE o
        /\ FirstError(w6, o) = IF c6 THEN "unsupported_cbor_type" ELSE o
  BY DEF When, FirstError
<1>4. PythonEnd(rest) = FirstError(w1 \o w2 \o w3 \o w4 \o w5 \o w6, "accepted")
  BY DEF PythonEnd, c1, c2, c3, c4, c5, c6
<1> HIDE DEF w1, w2, w3, w4, w5, w6
<1> DEFINE r6 == IF c6 THEN "unsupported_cbor_type" ELSE "accepted"
           r5 == IF c5 THEN "manifest_policy_invalid" ELSE r6
           r4 == IF c4 THEN "malformed_cbor" ELSE r5
           r3 == IF c3 THEN "resource_limit" ELSE r4
           r2 == IF c2 THEN python ELSE r3
           r1 == IF c1 THEN "resource_limit" ELSE r2
<1>5. /\ FirstError(w6, "accepted") = r6
      /\ FirstError(w5, r6) = r5
      /\ FirstError(w4, r5) = r4
      /\ FirstError(w3, r4) = r3
      /\ FirstError(w2, r3) = r2
      /\ FirstError(w1, r2) = r1
  BY <1>3
<1> HIDE DEF r1, r2, r3, r4, r5, r6
<1> DEFINE l2 == w1 \o w2
           l3 == l2 \o w3
           l4 == l3 \o w4
           l5 == l4 \o w5
<1>6. l2 \in Errors /\ l3 \in Errors /\ l4 \in Errors /\ l5 \in Errors
  BY <1>2, FirstOfBoth
<1>7. /\ l2 = w1 \o w2
      /\ l3 = l2 \o w3
      /\ l4 = l3 \o w4
      /\ l5 = l4 \o w5
  OBVIOUS
<1>8. PythonEnd(rest) = FirstError(l5 \o w6, "accepted")
  BY <1>4
<1> HIDE DEF l2, l3, l4, l5
<1>9. FirstError(l5 \o w6, "accepted") = FirstError(l5, r6)
  BY <1>2, <1>5, <1>6, FirstOfBoth
<1>10. FirstError(l5, r6) = FirstError(l4, r5)
  BY <1>2, <1>5, <1>6, <1>7, FirstOfBoth
<1>11. FirstError(l4, r5) = FirstError(l3, r4)
  BY <1>2, <1>5, <1>6, <1>7, FirstOfBoth
<1>12. FirstError(l3, r4) = FirstError(l2, r3)
  BY <1>2, <1>5, <1>6, <1>7, FirstOfBoth
<1>13. FirstError(l2, r3) = FirstError(w1, r2)
  BY <1>2, <1>5, <1>6, <1>7, FirstOfBoth
<1>14. PythonEnd(rest) = r1
  BY <1>5, <1>8, <1>9, <1>10, <1>11, <1>12, <1>13
<1> QED
  BY <1>14 DEF c1, c2, c3, c4, c5, c6, r1, r2, r3, r4, r5, r6

LEMMA EncoderEndIs ==
    ASSUME CborTypeOK
    PROVE  EncoderEnd =
             IF encoder # "reading" THEN encoder
             ELSE IF ~Complete THEN "no value"
             ELSE IF Complete /\ Size(Value) > RUST.bytes THEN "resource_limit"
             ELSE "accepted"
<1> DEFINE c1 == encoder # "reading"
           c2 == ~Complete
           c3 == Complete /\ Size(Value) > RUST.bytes
           w1 == When(c1, encoder)
           w2 == When(c2, "no value")
           w3 == When(c3, "resource_limit")
<1> HIDE DEF c1, c2, c3
<1>2. w1 \in Errors /\ w2 \in Errors /\ w3 \in Errors
  BY OneError, NoError, RefusalsMean DEF When, Refusals, PythonReads, CborTypeOK, c1
<1>3. \A o :
        /\ FirstError(w1, o) = IF c1 THEN encoder ELSE o
        /\ FirstError(w2, o) = IF c2 THEN "no value" ELSE o
        /\ FirstError(w3, o) = IF c3 THEN "resource_limit" ELSE o
  BY DEF When, FirstError
<1>4. EncoderEnd = FirstError(w1 \o w2 \o w3, "accepted")
  BY DEF EncoderEnd, c1, c2, c3
<1> HIDE DEF w1, w2, w3
<1> DEFINE r3 == IF c3 THEN "resource_limit" ELSE "accepted"
           r2 == IF c2 THEN "no value" ELSE r3
           r1 == IF c1 THEN encoder ELSE r2
<1>5. /\ FirstError(w3, "accepted") = r3
      /\ FirstError(w2, r3) = r2
      /\ FirstError(w1, r2) = r1
  BY <1>3
<1> HIDE DEF r1, r2, r3
<1> DEFINE l2 == w1 \o w2
<1>6. l2 \in Errors
  BY <1>2, FirstOfBoth
<1>7. /\ l2 = w1 \o w2
  OBVIOUS
<1>8. EncoderEnd = FirstError(l2 \o w3, "accepted")
  BY <1>4
<1> HIDE DEF l2
<1>9. FirstError(l2 \o w3, "accepted") = FirstError(l2, r3)
  BY <1>2, <1>5, <1>6, FirstOfBoth
<1>10. FirstError(l2, r3) = FirstError(w1, r2)
  BY <1>2, <1>5, <1>6, <1>7, FirstOfBoth
<1>11. EncoderEnd = r1
  BY <1>5, <1>8, <1>9, <1>10
<1> QED
  BY <1>11 DEF c1, c2, c3, r1, r2, r3

-----------------------------------------------------------------------------
(* What the decoders and the encoder say of one head *)

LEMMA StackType ==
    ASSUME CborTypeOK
    PROVE  /\ Len(stack) \in Nat /\ Len(stack) > 0 /\ Len(stack) \in 1..Len(stack)
           /\ Top \in Frames
           /\ Top.key \in BOOLEAN /\ Top.left \in Nat /\ Top.name \in ReadHeads
<1>0. stack \in Seq(Frames) /\ stack # <<>>
  BY DEF CborTypeOK
<1>1. Len(stack) \in Nat /\ Len(stack) > 0
  BY <1>0, EmptySeq, LenProperties
<1>2. stack[Len(stack)] \in Frames
  BY <1>0, <1>1, ElementOfSeq
<1> QED
  BY <1>1, <1>2 DEF Top, Frames

LEMMA SaysOfHead ==
    ASSUME NEW h
    PROVE  /\ RustValue(h) \in Says \cup {"reading"}
           /\ RustKey(h) \in Says \cup {"reading"}
           /\ PythonItem(h) \in Says \cup {"reading"}
           /\ EncoderValue(h) \in Says \cup {"reading", "no value"}
<1>1. RustValue(h) \in Says \cup {"reading"}
  BY RustValueIs DEF Says
<1>2. RustKey(h) \in Says \cup {"reading"}
  BY RustKeyIs DEF Says
<1>3. PythonItem(h) \in Says \cup {"reading"}
  BY PythonItemIs DEF Says
<1>4. EncoderValue(h) \in Says \cup {"reading", "no value"}
  BY EncoderValueIs DEF Says
<1> QED
  BY <1>1, <1>2, <1>3, <1>4

\* The Rust decoder reads what can be a value of the encoder.
LEMMA ValuesAreEncoded ==
    ASSUME NEW h \in Heads, Top.key = FALSE
    PROVE  RustValue(h) = "reading" <=> EncoderValue(h) = "reading"
<1> DEFINE deep == Level > DEPTH
           unsafe == Unsafe(h)
           large == TooLarge(h, RUST)
<1>1. /\ h.type \in {"uint", "nint", "bytes", "text", "array", "map", "tag", "bool", "null",
                     "other"}
      /\ h.form \in {"short", "long", "indefinite", "reserved"}
      /\ h.cut \in {"no", "head", "body"}
  BY DEF Heads, Major
<1>2. RustValue(h) = "reading" <=>
        /\ ~deep /\ ~unsafe /\ ~large
        /\ h.form \in {"short", "long"} /\ h.cut = "no"
        /\ h.type \notin {"bytes", "tag", "null", "other"}
        /\ h.type = "text" => h.arg \in UTF8
  BY <1>1, RustValueIs
<1>3. EncoderValue(h) = "reading" <=>
        /\ ~deep /\ ~unsafe /\ ~large
        /\ h.form \in {"short", "long"} /\ h.cut = "no"
        /\ h.type \notin {"bytes", "tag", "null", "other"}
        /\ h.type = "text" => h.arg \in UTF8
  BY <1>1, EncoderValueIs DEF IsValue
<1> QED
  BY <1>2, <1>3

LEMMA KeysAreEncoded ==
    ASSUME NEW h \in Heads, Top.key = TRUE, RustKey(h) = "reading"
    PROVE  EncoderValue(h) = "reading"
<1>1. h.form \in {"short", "long", "indefinite", "reserved"}
  BY DEF Heads
<1>2. /\ h.type = "text" /\ h.form \in {"short", "long"} /\ h.cut = "no"
      /\ h.arg \in UTF8 /\ h.arg \notin Top.seen /\ ~TooLarge(h, RUST)
  BY <1>1, RustKeyIs
<1>3. ~Unsafe(h)
  BY <1>2 DEF Unsafe
<1> QED
  BY <1>2, <1>3, EncoderValueIs DEF IsValue

\* A key that is refused, though the encoder could take it, is out of order.
LEMMA RefusedKeys ==
    ASSUME NEW h \in Heads, Top.key = TRUE, EncoderValue(h) = "reading",
           RustKey(h) # "reading"
    PROVE  PythonItem(h) # "reading"
<1>1. /\ h.type = "text" /\ h.form \in {"short", "long"} /\ h.cut = "no"
      /\ h.arg \in UTF8 /\ h.arg \notin Top.seen /\ ~TooLarge(h, RUST)
  BY EncoderValueIs DEF IsValue
<1>2. Top.seen # {} /\ ~Less(KeyBytes(Top.name), KeyBytes(h))
  BY <1>1, RustKeyIs
<1> QED
  BY <1>1, <1>2, PythonItemIs

\* What is read.
LEMMA ReadByRust ==
    ASSUME NEW h \in Heads,
           (IF Top.key THEN RustKey(h) ELSE RustValue(h)) = "reading", Top.key \in BOOLEAN
    PROVE  /\ h \in ReadHeads /\ h.form \in {"short", "long"}
           /\ Top.key => h.type = "text" /\ h.arg \notin Top.seen
<1>1. h.form \in {"short", "long", "indefinite", "reserved"}
  BY DEF Heads
<1>2. CASE Top.key
  BY <1>1, <1>2, RustKeyIs DEF ReadHeads
<1>3. CASE ~Top.key
  BY <1>1, <1>3, RustValueIs DEF ReadHeads
<1> QED
  BY <1>2, <1>3

LEMMA ReadByPython ==
    ASSUME NEW h \in Heads, PythonItem(h) = "reading", Top.key \in BOOLEAN
    PROVE  /\ h \in ShortHeads
           /\ Top.key /\ h.type = "text" /\ Top.seen # {}
                => Less(KeyBytes(Top.name), KeyBytes(h))
<1>1. h.form \in {"short", "long", "indefinite", "reserved"}
  BY DEF Heads
<1> QED
  BY <1>1, PythonItemIs DEF ReadHeads, ShortHeads

\* Of a head of uniform form the two decoders say the same, or Rust does not know the type.
LEMMA SameOfValue ==
    ASSUME NEW h \in ShortHeads, WithinHead(h), Top.key = FALSE
    PROVE  \/ RustValue(h) = PythonItem(h)
           \/ RustValue(h) = "unsupported_cbor_type" /\ PythonItem(h) # "reading"
<1> DEFINE deep == Level > DEPTH
           unsafe == Unsafe(h)
<1>1. /\ h.type \in {"uint", "nint", "bytes", "text", "array", "map", "tag", "bool", "null",
                     "other"}
      /\ h.form = "short" /\ h.cut = "no" /\ h.arg \in Nat
  BY DEF ShortHeads, ReadHeads, Heads, Major
<1>2. h.type = "text" => TEXT[h.arg] \in Nat
  <2>1. h.type = "text" => h.arg \in 1..Len(TEXT)
    BY HeadsAssumption DEF ShortHeads, ReadHeads, Heads
  <2> QED
    BY <2>1, HeadsAssumption
<1>3. /\ RUST.pairs \in Nat /\ RUST.text \in Nat /\ PYTHON.pairs \in Nat /\ PYTHON.text \in Nat
      /\ ITEMS \in Nat
  BY LimitsAssumption
<1>4. /\ TooLarge(h, RUST) <=> h.type = "array" /\ h.arg > ITEMS
      /\ TooLarge(h, PYTHON) <=> h.type = "array" /\ h.arg > ITEMS
  BY <1>1, <1>2, <1>3 DEF TooLarge, WithinHead
<1>5. unsafe => h.type \in {"uint", "nint"}
  BY DEF Unsafe
<1>6. RustValue(h) =
        IF deep THEN "resource_limit"
        ELSE IF h.type \in {"bytes", "tag", "null", "other"} THEN "unsupported_cbor_type"
        ELSE IF h.type = "text" /\ h.arg \notin UTF8 THEN "malformed_cbor"
        ELSE IF unsafe THEN "unsupported_cbor_type"
        ELSE IF TooLarge(h, RUST) THEN "resource_limit" ELSE "reading"
  BY <1>1, RustValueIs
<1>7. PythonItem(h) =
        IF deep THEN "resource_limit"
        ELSE IF h.type \in {"null", "other"} THEN "unsupported_cbor_type"
        ELSE IF unsafe THEN "unsupported_cbor_type"
        ELSE IF TooLarge(h, PYTHON) THEN "resource_limit"
        ELSE IF h.type \in {"bytes", "tag"} THEN "unsupported_cbor_type"
        ELSE IF h.type = "text" /\ h.arg \notin UTF8 THEN "malformed_cbor" ELSE "reading"
  BY <1>1, PythonItemIs
<1> HIDE DEF deep, unsafe
<1> QED
  BY <1>1, <1>4, <1>5, <1>6, <1>7

\* A name that has been seen is not above the last one.
LEMMA SeenInOrder ==
    ASSUME NEW f, f.name \in ReadHeads, Ordered(f),
           NEW h \in ShortHeads, h.type = "text", h.arg \in f.seen
    PROVE  ~Less(KeyBytes(f.name), KeyBytes(h))
<1>1. TextHead(h.arg) = h
  BY TextHeadMeans
<1>2. Less(KeyBytes(h), KeyBytes(f.name)) \/ KeyBytes(h) = KeyBytes(f.name)
  BY <1>1 DEF Ordered
<1>3. KeyBytes(h) \in Keys /\ KeyBytes(f.name) \in Keys
  BY KeyBytesType DEF ShortHeads, ReadHeads
<1> QED
  BY <1>2, <1>3, LessOrders

LEMMA SameOfKey ==
    ASSUME NEW h \in ShortHeads, WithinHead(h), Top.key = TRUE, Top.name \in ReadHeads,
           Ordered(Top), h.type = "text"
    PROVE  IF Level > DEPTH THEN PythonItem(h) = "resource_limit"
           ELSE RustKey(h) = PythonItem(h)
<1>1. h.form = "short" /\ h.cut = "no" /\ h.arg \in Nat
  BY DEF ShortHeads, ReadHeads, Heads
<1>2. TEXT[h.arg] \in Nat
  <2>1. h.arg \in 1..Len(TEXT)
    BY HeadsAssumption DEF ShortHeads, ReadHeads, Heads
  <2> QED
    BY <2>1, HeadsAssumption
<1>3. RUST.text \in Nat /\ PYTHON.text \in Nat
  BY LimitsAssumption
<1>4. ~TooLarge(h, RUST) /\ ~TooLarge(h, PYTHON) /\ ~Unsafe(h)
  BY <1>2, <1>3 DEF TooLarge, WithinHead, Unsafe
<1>8. ~AnotherKey(h)
  BY DEF AnotherKey
<1> DEFINE after == Less(KeyBytes(Top.name), KeyBytes(h))
<1>5. h.arg \in Top.seen => Top.seen # {} /\ ~after
  BY SeenInOrder
<1>6. RustKey(h) =
        IF h.arg \notin UTF8 THEN "malformed_cbor"
        ELSE IF h.arg \in Top.seen THEN "non_deterministic_cbor"
        ELSE IF Top.seen # {} /\ ~after THEN "non_deterministic_cbor" ELSE "reading"
  BY <1>1, <1>4, RustKeyIs
<1>7. PythonItem(h) =
        IF Level > DEPTH THEN "resource_limit"
        ELSE IF h.arg \notin UTF8 THEN "malformed_cbor"
        ELSE IF Top.seen # {} /\ ~after THEN "non_deterministic_cbor" ELSE "reading"
  BY <1>1, <1>4, <1>8, PythonItemIs
<1> HIDE DEF after
<1> QED
  BY <1>5, <1>6, <1>7

LEMMA OtherKeys ==
    ASSUME NEW h \in ShortHeads, Top.key = TRUE, h.type # "text"
    PROVE  RustKey(h) = "unsupported_cbor_type"
<1>1. h.form = "short"
  BY DEF ShortHeads
<1> QED
  BY <1>1, RustKeyIs

-----------------------------------------------------------------------------
(* What an item does to the array or map it is in *)

\* A key, a value, and an item of an array.
Named(f, h)  == [f EXCEPT !.key = FALSE, !.name = h, !.seen = @ \cup {h.arg}]
Paired(f, e) == [f EXCEPT !.key = TRUE, !.left = @ - 1,
                          !.done = Insert(@, <<Short(f.name)>> \o e)]
Longer(f, e) == [f EXCEPT !.left = @ - 1, !.done = Append(@, e)]

Given(f, h, e) ==
    IF f.key THEN Named(f, h) ELSE IF f.head.type = "map" THEN Paired(f, e) ELSE Longer(f, e)

LEMMA DeliverGives ==
    ASSUME NEW s, NEW h, NEW e
    PROVE  Deliver(s, h, e) = [s EXCEPT ![Len(s)] = Given(s[Len(s)], h, e)]
BY DEF Deliver, Given, Named, Paired, Longer

LEMMA NamedMeans ==
    ASSUME NEW f \in Frames, NEW h \in ReadHeads
    PROVE  /\ Named(f, h) \in Frames
           /\ Named(f, h).head = f.head /\ Named(f, h).left = f.left
           /\ Named(f, h).key = FALSE /\ Named(f, h).name = h
           /\ Named(f, h).seen = f.seen \cup {h.arg} /\ Named(f, h).done = f.done
<1>1. h.arg \in Nat
  BY DEF ReadHeads, Heads
<1> DEFINE D == Seq(Seq(ShortHeads))
<1> HIDE DEF D
<1>2. Frames = [head : ReadHeads, left : Nat, key : BOOLEAN, name : ReadHeads,
                seen : SUBSET Nat, done : D]
  BY DEF Frames, D
<1> QED
  BY <1>1, <1>2 DEF Named

LEMMA EntryMeans ==
    ASSUME NEW h \in ReadHeads, NEW e \in Seq(ShortHeads)
    PROVE  /\ <<Short(h)>> \o e \in Seq(ShortHeads) /\ <<Short(h)>> \o e # <<>>
           /\ (<<Short(h)>> \o e)[1] = Short(h)
<1>1. Short(h) \in ShortHeads
  BY ShortMeans
<1> HIDE DEF ShortHeads
<1> QED
  BY <1>1

LEMMA PairedMeans ==
    ASSUME NEW f \in Frames, f.left > 0, NEW e \in Seq(ShortHeads)
    PROVE  /\ Paired(f, e) \in Frames
           /\ Paired(f, e).head = f.head /\ Paired(f, e).left = f.left - 1
           /\ Paired(f, e).key = TRUE /\ Paired(f, e).name = f.name
           /\ Paired(f, e).seen = f.seen
           /\ Paired(f, e).done = Insert(f.done, <<Short(f.name)>> \o e)
           /\ Len(Paired(f, e).done) = Len(f.done) + 1
<1> DEFINE D == Seq(Seq(ShortHeads))
           d == Insert(f.done, <<Short(f.name)>> \o e)
<1>1. f.done \in D /\ f.name \in ReadHeads
  BY DEF Frames
<1>2. <<Short(f.name)>> \o e \in Seq(ShortHeads)
  BY <1>1, EntryMeans
<1>3. d \in D /\ Len(d) = Len(f.done) + 1
  BY <1>1, <1>2, InsertType
<1> HIDE DEF D, d
<1>4. Frames = [head : ReadHeads, left : Nat, key : BOOLEAN, name : ReadHeads,
                seen : SUBSET Nat, done : D]
  BY DEF Frames, D
<1> DEFINE k == f.left - 1
<1>5. Paired(f, e) = [f EXCEPT !.key = TRUE, !.left = k, !.done = d]
  BY DEF Paired, d
<1>0. k \in Nat
  BY DEF Frames
<1> HIDE DEF k
<1>6. /\ Paired(f, e) \in Frames
      /\ Paired(f, e).head = f.head /\ Paired(f, e).left = k
      /\ Paired(f, e).key = TRUE /\ Paired(f, e).name = f.name
      /\ Paired(f, e).seen = f.seen /\ Paired(f, e).done = d
  BY <1>0, <1>3, <1>4, <1>5
<1> QED
  BY <1>3, <1>6 DEF d, k

LEMMA LongerMeans ==
    ASSUME NEW f \in Frames, f.left > 0, NEW e \in Seq(ShortHeads)
    PROVE  /\ Longer(f, e) \in Frames
           /\ Longer(f, e).head = f.head /\ Longer(f, e).left = f.left - 1
           /\ Longer(f, e).key = f.key /\ Longer(f, e).name = f.name
           /\ Longer(f, e).seen = f.seen
           /\ Longer(f, e).done = Append(f.done, e)
           /\ Len(Longer(f, e).done) = Len(f.done) + 1
<1> DEFINE D == Seq(Seq(ShortHeads))
           d == Append(f.done, e)
<1>1. f.done \in D
  BY DEF Frames
<1>3. d \in D /\ Len(d) = Len(f.done) + 1
  BY <1>1, AppendProperties
<1> HIDE DEF D, d
<1>4. Frames = [head : ReadHeads, left : Nat, key : BOOLEAN, name : ReadHeads,
                seen : SUBSET Nat, done : D]
  BY DEF Frames, D
<1> DEFINE k == f.left - 1
<1>5. Longer(f, e) = [f EXCEPT !.left = k, !.done = d]
  BY DEF Longer, d
<1>0. k \in Nat
  BY DEF Frames
<1> HIDE DEF k
<1>6. /\ Longer(f, e) \in Frames
      /\ Longer(f, e).head = f.head /\ Longer(f, e).left = k
      /\ Longer(f, e).key = f.key /\ Longer(f, e).name = f.name
      /\ Longer(f, e).seen = f.seen /\ Longer(f, e).done = d
  BY <1>0, <1>3, <1>4, <1>5
<1> QED
  BY <1>3, <1>6 DEF d, k

LEMMA GivenType ==
    ASSUME NEW f \in Frames, f.left > 0, NEW h \in ReadHeads, NEW e \in Seq(ShortHeads)
    PROVE  /\ Given(f, h, e) \in Frames /\ Given(f, h, e).head = f.head
           /\ f.key => Given(f, h, e).left = f.left /\ Given(f, h, e).key = FALSE
           /\ ~f.key => Given(f, h, e).left = f.left - 1
           /\ ~f.key /\ f.head.type = "map" => Given(f, h, e).key = TRUE
           /\ f.head.type # "map" /\ ~f.key =>
                /\ Given(f, h, e).key = f.key
                /\ Given(f, h, e).done = Append(f.done, e)
                /\ Len(Given(f, h, e).done) = Len(f.done) + 1
<1>1. CASE f.key
  BY <1>1, NamedMeans DEF Given
<1>2. CASE ~f.key /\ f.head.type = "map"
  BY <1>2, PairedMeans DEF Given
<1>3. CASE ~f.key /\ f.head.type # "map"
  BY <1>3, LongerMeans DEF Given
<1> QED
  BY <1>1, <1>2, <1>3

\* The name of a map that is under way, or nothing.
Naming(f) == IF f.head.type = "map" /\ ~f.key THEN <<Short(f.name)>> ELSE <<>>

LEMMA PieceType ==
    ASSUME NEW f \in Frames
    PROVE  /\ FlattenSeq(f.done) \in Seq(ShortHeads) /\ Naming(f) \in Seq(ShortHeads)
           /\ Piece(f) = FlattenSeq(f.done) \o Naming(f)
           /\ Piece(f) \in Seq(ShortHeads)
<1>1. f.done \in Seq(Seq(ShortHeads)) /\ f.name \in ReadHeads
  BY DEF Frames
<1>2. FlattenSeq(f.done) \in Seq(ShortHeads)
  BY <1>1, FlattenType
<1>3. Short(f.name) \in ShortHeads
  BY <1>1, ShortMeans
<1>4. Piece(f) = FlattenSeq(f.done) \o Naming(f)
  BY DEF Piece, Naming
<1> HIDE DEF ShortHeads
<1>5. Naming(f) \in Seq(ShortHeads)
  BY <1>3 DEF Naming
<1>6. FlattenSeq(f.done) \o Naming(f) \in Seq(ShortHeads)
  BY <1>2, <1>5, ConcatProperties
<1> QED
  BY <1>2, <1>4, <1>5, <1>6

\* A map under way with a name has seen it.
LEMMA NameSeen ==
    ASSUME NEW f \in Frames, Ordered(f), ~f.key
    PROVE  f.seen # {} /\ f.name \in ShortHeads /\ Short(f.name) = f.name
BY ShortMeans DEF Ordered

\* The value of the last name of a map in order comes last.
LEMMA PairedLast ==
    ASSUME NEW f \in Frames, Ordered(f), ~f.key, f.head.type = "map",
           NEW e \in Seq(ShortHeads)
    PROVE  /\ <<f.name>> \o e \in Seq(ShortHeads)
           /\ Insert(f.done, <<Short(f.name)>> \o e) = Append(f.done, <<f.name>> \o e)
<1> DEFINE entry == <<Short(f.name)>> \o e
           T == Seq(ShortHeads)
<1>1. f.done \in Seq(T) /\ f.name \in ReadHeads /\ Short(f.name) = f.name
  BY NameSeen DEF Frames
<1>2. entry \in T /\ entry[1] = f.name
  BY <1>1, EntryMeans
<1> HIDE DEF entry, T
<1>3. \A i \in 1..Len(f.done) : Less(KeyBytes(f.done[i][1]), KeyBytes(entry[1]))
  BY <1>2 DEF Ordered, Before
<1>4. Insert(f.done, entry) = Append(f.done, entry)
  BY <1>1, <1>2, <1>3, InsertLast
<1> QED
  BY <1>1, <1>2, <1>4 DEF entry, T

\* What is given to an array or a map in order is added to its piece.
LEMMA PieceGiven ==
    ASSUME NEW f \in Frames, f.left > 0, NEW h \in ReadHeads, NEW e \in Seq(ShortHeads),
           f.head.type = "map" => Ordered(f),
           f.key => f.head.type = "map" /\ h \in ShortHeads /\ e = <<h>>
    PROVE  Piece(Given(f, h, e)) = Piece(f) \o e
<1> DEFINE g == Given(f, h, e)
           all == FlattenSeq(f.done)
<1> SUFFICES Piece(g) = Piece(f) \o e
  OBVIOUS
<1>1. all \in Seq(ShortHeads) /\ Piece(f) = all \o Naming(f)
  BY PieceType
<1>2. g \in Frames /\ Piece(g) = FlattenSeq(g.done) \o Naming(g)
  BY GivenType, PieceType
<1>3. f.done \in Seq(Seq(ShortHeads))
  BY DEF Frames
<1>4. CASE f.key
  <2>1. g.done = f.done /\ g.head = f.head /\ g.key = FALSE /\ g.name = h
    BY <1>4, NamedMeans DEF Given
  <2>2. Naming(f) = <<>> /\ Naming(g) = e
    BY <1>4, <2>1, ShortMeans DEF Naming
  <2>3. all \o <<>> = all
    BY <1>1, ConcatEmptySeq
  <2> HIDE DEF g
  <2> QED
    BY <1>1, <1>2, <2>1, <2>2, <2>3
<1>5. CASE ~f.key /\ f.head.type = "map"
  <2>1. <<f.name>> \o e \in Seq(ShortHeads) /\ g.key = TRUE /\ Short(f.name) = f.name
        /\ g.done = Append(f.done, <<f.name>> \o e) /\ f.name \in ShortHeads
    <3>1. Ordered(f) /\ g = Paired(f, e)
      BY <1>5 DEF Given
    <3>2. Paired(f, e).key = TRUE /\ Paired(f, e).done = Insert(f.done, <<Short(f.name)>> \o e)
      BY PairedMeans
    <3>3. /\ <<f.name>> \o e \in Seq(ShortHeads)
          /\ Insert(f.done, <<Short(f.name)>> \o e) = Append(f.done, <<f.name>> \o e)
      BY <1>5, <3>1, PairedLast
    <3>4. Short(f.name) = f.name /\ f.name \in ShortHeads
      BY <1>5, <3>1, NameSeen
    <3> HIDE DEF g
    <3> QED
      BY <3>1, <3>2, <3>3, <3>4
  <2>2. Naming(g) = <<>> /\ Naming(f) = <<f.name>>
    BY <1>5, <2>1 DEF Naming
  <2> HIDE DEF g, all, ShortHeads
  <2>3. FlattenSeq(g.done) = all \o (<<f.name>> \o e)
    BY <1>3, <2>1, FlattenAppend DEF all
  <2>4. <<f.name>> \in Seq(ShortHeads)
    BY <2>1
  <2>5. all \o (<<f.name>> \o e) = (all \o <<f.name>>) \o e
    BY <1>1, <2>4, SMTT(20)
  <2>6. FlattenSeq(g.done) \o <<>> = FlattenSeq(g.done)
    BY <1>2, PieceType, ConcatEmptySeq
  <2> QED
    BY <1>1, <1>2, <2>2, <2>3, <2>5, <2>6
<1>6. CASE ~f.key /\ f.head.type # "map"
  <2>1. g.head = f.head /\ g.done = Append(f.done, e)
    BY <1>6, LongerMeans DEF Given
  <2>2. Naming(g) = <<>> /\ Naming(f) = <<>>
    BY <1>6, <2>1 DEF Naming
  <2> HIDE DEF g, all
  <2>3. FlattenSeq(g.done) = all \o e
    BY <1>3, <2>1, FlattenAppend DEF all
  <2>4. FlattenSeq(g.done) \o <<>> = FlattenSeq(g.done) /\ all \o <<>> = all
    BY <1>1, <1>2, PieceType, ConcatEmptySeq
  <2> QED
    BY <1>1, <1>2, <2>2, <2>3, <2>4
<1> QED
  BY <1>4, <1>5, <1>6

\* Keys that Python takes keep a map in order, and so do the values.
LEMMA OrderedNamed ==
    ASSUME NEW f \in Frames, Ordered(f), f.key, NEW h \in ShortHeads, h.type = "text",
           f.seen # {} => Less(KeyBytes(f.name), KeyBytes(h))
    PROVE  Ordered(Named(f, h))
<1> DEFINE g == Named(f, h)
<1>0. h \in ReadHeads /\ f.name \in ReadHeads
  BY DEF ShortHeads, Frames
<1>1. g.key = FALSE /\ g.name = h /\ g.seen = f.seen \cup {h.arg} /\ g.done = f.done
  BY <1>0, NamedMeans
<1> HIDE DEF g
<1>2. KeyBytes(h) \in Keys /\ KeyBytes(f.name) \in Keys
  BY <1>0, KeyBytesType DEF ReadHeads
<1>3. TextHead(h.arg) = h /\ h.arg \in DOMAIN TEXT
  BY TextHeadMeans
<1>4. g.seen # {} /\ g.name \in ShortHeads /\ g.seen \subseteq DOMAIN TEXT
  BY <1>1, <1>3 DEF Ordered
<1>5. ASSUME NEW n \in g.seen
      PROVE  \/ Less(KeyBytes(TextHead(n)), KeyBytes(h))
             \/ KeyBytes(TextHead(n)) = KeyBytes(h)
  <2>1. CASE n = h.arg
    BY <1>3, <2>1
  <2>2. CASE n # h.arg
    <3>1. n \in f.seen /\ n \in DOMAIN TEXT /\ n \in Nat
      <4>1. n \in f.seen /\ n \in 1..Len(TEXT)
        BY <1>1, <1>5, <2>2, HeadsAssumption DEF Ordered
      <4> QED
        BY <4>1, HeadsAssumption
    <3>2. TextHead(n) \in Heads
      BY <3>1 DEF TextHead, Heads, Major
    <3>3. KeyBytes(TextHead(n)) \in Keys
      BY <3>2, KeyBytesType
    <3>4. Less(KeyBytes(f.name), KeyBytes(h))
      BY <3>1
    <3>5. \/ Less(KeyBytes(TextHead(n)), KeyBytes(f.name))
          \/ KeyBytes(TextHead(n)) = KeyBytes(f.name)
      BY <3>1 DEF Ordered
    <3> QED
      BY <1>2, <3>3, <3>4, <3>5, LessOrders
  <2> QED
    BY <2>1, <2>2
<1>6. ASSUME NEW i \in 1..Len(g.done)
      PROVE  g.done[i] # <<>> /\ Less(KeyBytes(g.done[i][1]), KeyBytes(h))
  <2>0. i \in 1..Len(f.done) /\ g.done[i] = f.done[i]
    BY <1>1
  <2> DEFINE k == KeyBytes(f.done[i][1])
  <2>1. f.done[i] # <<>> /\ (Less(k, KeyBytes(f.name)) \/ k = KeyBytes(f.name))
    BY <2>0 DEF Ordered, Before
  <2>2. f.seen # {}
    <3>1. f.done # <<>>
      BY <2>0
    <3> QED
      BY <3>1 DEF Ordered
  <2>3. k \in Keys
    <3>1. f.done \in Seq(Seq(ShortHeads))
      BY DEF Frames
    <3>2. f.done[i] \in Seq(ShortHeads)
      BY <2>0, <3>1, ElementOfSeq
    <3>3. f.done[i][1] \in ShortHeads
      BY <2>1, <3>2
    <3> QED
      BY <3>3, KeyBytesType DEF ShortHeads, ReadHeads
  <2> HIDE DEF k
  <2>4. Less(k, KeyBytes(h))
    BY <1>2, <2>1, <2>2, <2>3, LessOrders
  <2> QED
    BY <2>0, <2>1, <2>4 DEF k
<1>7. Ordered(g)
  BY <1>1, <1>4, <1>5, <1>6 DEF Ordered, Before
<1> QED
  BY <1>7 DEF g

LEMMA OrderedPaired ==
    ASSUME NEW f \in Frames, f.left > 0, Ordered(f), ~f.key, f.head.type = "map",
           NEW e \in Seq(ShortHeads)
    PROVE  Ordered(Paired(f, e))
<1> DEFINE g == Paired(f, e)
           entry == <<f.name>> \o e
           T == Seq(ShortHeads)
<1>1. g.key = TRUE /\ g.name = f.name /\ g.seen = f.seen /\ g.done = Append(f.done, entry)
  <2>1. /\ g.key = TRUE /\ g.name = f.name /\ g.seen = f.seen
        /\ g.done = Insert(f.done, <<Short(f.name)>> \o e)
    BY PairedMeans
  <2>2. Insert(f.done, <<Short(f.name)>> \o e) = Append(f.done, entry)
    BY PairedLast
  <2> HIDE DEF g, entry
  <2> QED
    BY <2>1, <2>2
<1>2. entry \in T /\ entry # <<>> /\ entry[1] = f.name
  BY NameSeen, EntryMeans DEF Frames
<1>3. f.done \in Seq(T)
  BY DEF Frames
<1>4. f.seen # {} /\ f.name \in ShortHeads
  BY NameSeen
<1> HIDE DEF g, entry, T
<1>5. /\ Len(f.done) \in Nat /\ Len(g.done) = Len(f.done) + 1
      /\ \A i \in 1..Len(f.done) : g.done[i] = f.done[i]
      /\ g.done[Len(f.done) + 1] = entry
  BY <1>1, <1>2, <1>3, AppendProperties, LenProperties
<1>6. ASSUME NEW i \in 1..Len(g.done)
      PROVE  /\ g.done[i] # <<>>
             /\ \/ Less(KeyBytes(g.done[i][1]), KeyBytes(f.name))
                \/ KeyBytes(g.done[i][1]) = KeyBytes(f.name)
  <2>1. CASE i = Len(f.done) + 1
    BY <1>2, <1>5, <2>1
  <2>2. CASE i \in 1..Len(f.done)
    BY <1>5, <2>2 DEF Ordered, Before
  <2> QED
    BY <1>5, <2>1, <2>2
<1>7. Ordered(g)
  BY <1>1, <1>4, <1>6 DEF Ordered, Before
<1> QED
  BY <1>7 DEF g

LEMMA OrderedGiven ==
    ASSUME NEW f \in Frames, f.left > 0, Ordered(f), f.head.type = "map",
           NEW h \in ReadHeads, NEW e \in Seq(ShortHeads),
           f.key => /\ h \in ShortHeads /\ h.type = "text"
                    /\ f.seen # {} => Less(KeyBytes(f.name), KeyBytes(h))
    PROVE  Ordered(Given(f, h, e))
<1>1. CASE f.key
  BY <1>1, OrderedNamed DEF Given
<1>2. CASE ~f.key
  BY <1>2, OrderedPaired DEF Given
<1> QED
  BY <1>1, <1>2

-----------------------------------------------------------------------------
(* What has been read of all that is open *)

LEMMA PiecesType ==
    ASSUME NEW s \in Seq(Frames)
    PROVE  /\ Pieces(s) \in Seq(Seq(ShortHeads)) /\ Len(Pieces(s)) = Len(s)
           /\ \A i \in 1..Len(s) :
                Pieces(s)[i] = IF i = 1 THEN Piece(s[i]) ELSE <<Short(s[i].head)>> \o Piece(s[i])
<1> DEFINE T == Seq(ShortHeads)
           Whole(i) == IF i = 1 THEN Piece(s[i]) ELSE <<Short(s[i].head)>> \o Piece(s[i])
<1>1. ASSUME NEW i \in 1..Len(s) PROVE Whole(i) \in T
  <2>1. s[i] \in Frames
    BY ElementOfSeq
  <2>2. Piece(s[i]) \in T /\ s[i].head \in ReadHeads
    BY <2>1, PieceType DEF Frames
  <2>3. <<Short(s[i].head)>> \o Piece(s[i]) \in T
    BY <2>2, EntryMeans
  <2> HIDE DEF T
  <2> QED
    BY <2>2, <2>3
<1>2. Pieces(s) = [i \in 1..Len(s) |-> Whole(i)]
  BY DEF Pieces
<1>3. Len(s) \in Nat
  BY LenProperties
<1> HIDE DEF T, Whole
<1>4. Pieces(s) \in [1..Len(s) -> T]
  BY <1>1, <1>2
<1>5. Pieces(s) \in Seq(T) /\ Len(Pieces(s)) = Len(s)
  <2> DEFINE n == Len(s)
  <2> HIDE DEF n
  <2>1. Pieces(s) \in [1..n -> T] /\ n \in Nat
    BY <1>3, <1>4 DEF n
  <2> QED
    BY <2>1 DEF n
<1>6. \A i \in 1..Len(s) : Pieces(s)[i] = Whole(i)
  BY <1>2
<1> QED
  BY <1>5, <1>6 DEF T, Whole

LEMMA PiecesPush ==
    ASSUME NEW s \in Seq(Frames), s # <<>>, NEW f \in Frames
    PROVE  /\ FlattenSeq(Pieces(s)) \in Seq(ShortHeads)
           /\ FlattenSeq(Pieces(Append(s, f)))
                = FlattenSeq(Pieces(s)) \o (<<Short(f.head)>> \o Piece(f))
<1> DEFINE t == Append(s, f)
           T == Seq(ShortHeads)
           e == <<Short(f.head)>> \o Piece(f)
           P == Pieces(s)
           Q == Pieces(t)
<1>1. /\ t \in Seq(Frames) /\ Len(t) = Len(s) + 1 /\ Len(s) \in Nat /\ Len(s) > 0
      /\ \A i \in 1..Len(s) : t[i] = s[i]
      /\ t[Len(s) + 1] = f
  <2>1. Len(s) \in Nat \ {0}
    BY EmptySeq
  <2> QED
    BY <2>1, AppendProperties
<1>2. e \in T
  BY PieceType, EntryMeans DEF Frames
<1> HIDE DEF t
<1>3. /\ P \in Seq(T) /\ Len(P) = Len(s)
      /\ \A i \in 1..Len(s) :
           P[i] = IF i = 1 THEN Piece(s[i]) ELSE <<Short(s[i].head)>> \o Piece(s[i])
  BY PiecesType
<1>4. /\ Q \in Seq(T) /\ Len(Q) = Len(t)
      /\ \A i \in 1..Len(t) :
           Q[i] = IF i = 1 THEN Piece(t[i]) ELSE <<Short(t[i].head)>> \o Piece(t[i])
  BY <1>1, PiecesType
<1> HIDE DEF P, Q, T
<1>5. Q[Len(s) + 1] = e
  BY <1>1, <1>4
<1>6. \A i \in 1..Len(s) : Q[i] = P[i]
  <2> TAKE i \in 1..Len(s)
  <2>1. i \in 1..Len(t)
    BY <1>1
  <2> QED
    BY <1>1, <1>3, <1>4, <2>1
<1> HIDE DEF e
<1>7. Q = Append(P, e)
  <2>1. /\ Append(P, e) \in Seq(T) /\ Len(Append(P, e)) = Len(Q)
        /\ Append(P, e)[Len(s) + 1] = e
        /\ \A i \in 1..Len(s) : Append(P, e)[i] = P[i]
    BY <1>1, <1>2, <1>3, <1>4, AppendProperties
  <2>2. \A i \in 1..Len(Q) : Append(P, e)[i] = Q[i]
    BY <1>1, <1>4, <1>5, <1>6, <2>1
  <2> QED
    BY <1>4, <2>1, <2>2, SeqEqual
<1>8. FlattenSeq(Q) = FlattenSeq(P) \o e /\ FlattenSeq(P) \in T
  BY <1>2, <1>3, <1>7, FlattenAppend, FlattenType DEF T
<1> QED
  BY <1>8 DEF P, Q, T, e, t

\* Joining sequences of heads is associative.
LEMMA ShortConcat ==
    \A x, y, z \in Seq(ShortHeads) : x \o (y \o z) = (x \o y) \o z
BY SMTT(20)

\* What is added to the topmost piece is added to the whole.
LEMMA PiecesTop ==
    ASSUME NEW s \in Seq(Frames), s # <<>>, NEW g \in Frames, NEW e \in Seq(ShortHeads),
           g.head = s[Len(s)].head, Piece(g) = Piece(s[Len(s)]) \o e
    PROVE  FlattenSeq(Pieces([s EXCEPT ![Len(s)] = g])) = FlattenSeq(Pieces(s)) \o e
<1> DEFINE n == Len(s)
           t == [s EXCEPT ![n] = g]
           T == Seq(ShortHeads)
           P == Pieces(s)
           Q == Pieces(t)
           R == SubSeq(P, 1, n - 1)
<1>1. n \in Nat /\ n > 0 /\ n \in 1..n
  <2>1. Len(s) \in Nat \ {0}
    BY EmptySeq
  <2> QED
    BY <2>1
<1>2. s[n] \in Frames
  BY <1>1, ElementOfSeq
<1>3. /\ t \in Seq(Frames) /\ Len(t) = n
      /\ \A i \in 1..n : t[i] = IF i = n THEN g ELSE s[i]
  BY <1>1, ExceptSeq
<1> HIDE DEF t
<1>4. /\ P \in Seq(T) /\ Len(P) = n
      /\ \A i \in 1..n :
           P[i] = IF i = 1 THEN Piece(s[i]) ELSE <<Short(s[i].head)>> \o Piece(s[i])
  BY PiecesType
<1>5. /\ Q \in Seq(T) /\ Len(Q) = n
      /\ \A i \in 1..n :
           Q[i] = IF i = 1 THEN Piece(t[i]) ELSE <<Short(t[i].head)>> \o Piece(t[i])
  BY <1>3, PiecesType
<1>0. \A x, y, z \in T : x \o (y \o z) = (x \o y) \o z
  BY ShortConcat
<1> HIDE DEF P, Q, R
<1>8. P[n] \in T /\ Q[n] \in T /\ e \in T
  BY <1>1, <1>4, <1>5, ElementOfSeq
<1>6. Q[n] = P[n] \o e
  <2>1. CASE n = 1
    BY <1>1, <1>3, <1>4, <1>5, <2>1
  <2>2. CASE n # 1
    <3> DEFINE first == <<Short(g.head)>>
               old == Piece(s[n])
    <3>1. first \in T /\ old \in T
      <4>1. Short(g.head) \in ShortHeads
        BY ShortMeans DEF Frames
      <4> HIDE DEF ShortHeads
      <4> QED
        BY <1>2, <4>1, PieceType
    <3>2. Q[n] = first \o Piece(t[n]) /\ t[n] = g /\ P[n] = first \o old
      BY <1>1, <1>3, <1>4, <1>5, <2>2
    <3>3. Q[n] = first \o (old \o e)
      BY <3>2
    <3> HIDE DEF first, old, T
    <3>4. first \o (old \o e) = (first \o old) \o e
      BY <1>0, <1>8, <3>1, SMTT(20)
    <3> QED
      BY <3>2, <3>3, <3>4
  <2> QED
    BY <2>1, <2>2
<1> HIDE DEF T, n
<1>7. \A i \in 1..(n - 1) : Q[i] = P[i]
  <2> TAKE i \in 1..(n - 1)
  <2>1. i \in 1..n /\ i # n
    BY <1>1
  <2>2. t[i] = s[i]
    BY <1>3, <2>1
  <2>3. P[i] = IF i = 1 THEN Piece(s[i]) ELSE <<Short(s[i].head)>> \o Piece(s[i])
    BY <1>4, <2>1
  <2>4. Q[i] = IF i = 1 THEN Piece(t[i]) ELSE <<Short(t[i].head)>> \o Piece(t[i])
    BY <1>5, <2>1
  <2> QED
    BY <2>2, <2>3, <2>4
<1>9. R \in Seq(T) /\ Len(R) = n - 1 /\ \A i \in 1..(n - 1) : R[i] = P[i]
  <2>1. \A i \in 1..(n - 1) : P[i] \in T
    <3> TAKE i \in 1..(n - 1)
    <3>1. i \in 1..n
      BY <1>1
    <3> QED
      BY <1>4, <3>1, ElementOfSeq
  <2>2. 1 \in Int /\ n - 1 \in Int
    BY <1>1
  <2>3. /\ R \in Seq(T) /\ Len(R) = IF 1 <= n - 1 THEN (n - 1) - 1 + 1 ELSE 0
        /\ \A i \in 1..((n - 1) - 1 + 1) : R[i] = P[1 + i - 1]
    BY <2>1, <2>2, SubSeqProperties DEF R
  <2>4. Len(R) = n - 1
    BY <1>1, <2>3
  <2>5. ASSUME NEW i \in 1..(n - 1) PROVE R[i] = P[i]
    <3>1. i \in 1..((n - 1) - 1 + 1) /\ 1 + i - 1 = i
      BY <1>1
    <3> QED
      BY <2>3, <3>1
  <2> QED
    BY <2>3, <2>4, <2>5
<1> HIDE DEF R
<1>10. ASSUME NEW S, S \in Seq(T), Len(S) = n, \A i \in 1..(n - 1) : S[i] = R[i],
              S[n] \in T
       PROVE  S = Append(R, S[n])
  <2>1. /\ Append(R, S[n]) \in Seq(T) /\ Len(Append(R, S[n])) = Len(R) + 1
        /\ \A i \in 1..Len(R) : Append(R, S[n])[i] = R[i]
        /\ Append(R, S[n])[Len(R) + 1] = S[n]
    BY <1>9, <1>10, AppendProperties
  <2>2. \A i \in 1..Len(S) : S[i] = Append(R, S[n])[i]
    BY <1>1, <1>9, <1>10, <2>1
  <2>3. Len(Append(R, S[n])) = Len(S)
    BY <1>1, <1>9, <1>10, <2>1
  <2> QED
    BY <1>10, <2>1, <2>2, <2>3, SeqEqual
<1>11. P = Append(R, P[n]) /\ Q = Append(R, Q[n])
  <2>1. \A i \in 1..(n - 1) : P[i] = R[i] /\ Q[i] = R[i]
    BY <1>7, <1>9
  <2> QED
    BY <1>4, <1>5, <1>8, <1>10, <2>1
<1>12. /\ FlattenSeq(P) = FlattenSeq(R) \o P[n] /\ FlattenSeq(Q) = FlattenSeq(R) \o Q[n]
       /\ FlattenSeq(R) \in T
  BY <1>8, <1>9, <1>11, FlattenAppend, FlattenType DEF T
<1>13. FlattenSeq(R) \o (P[n] \o e) = (FlattenSeq(R) \o P[n]) \o e
  BY <1>0, <1>8, <1>12
<1>14. FlattenSeq(Q) = FlattenSeq(P) \o e
  BY <1>6, <1>12, <1>13
<1> QED
  BY <1>14 DEF P, Q, t, n

-----------------------------------------------------------------------------
(* The stack after a step *)

LEMMA OpenMeans ==
    ASSUME NEW h \in ReadHeads, NEW key \in BOOLEAN
    PROVE  /\ Open(h, key) \in Frames
           /\ Open(h, key).head = h /\ Open(h, key).key = key
           /\ Open(h, key).seen = {} /\ Open(h, key).done = <<>>
           /\ Open(h, key).left = h.arg
<1> DEFINE D == Seq(Seq(ShortHeads))
           d == <<>>
<1>1. h.arg \in Nat
  BY DEF ReadHeads, Heads
<1>2. d \in D
  BY EmptySeq
<1>3. Open(h, key) = [head |-> h, left |-> h.arg, key |-> key, name |-> h, seen |-> {},
                      done |-> d]
  BY DEF Open
<1> HIDE DEF D, d
<1>4. Frames = [head : ReadHeads, left : Nat, key : BOOLEAN, name : ReadHeads,
                seen : SUBSET Nat, done : D]
  BY DEF Frames, D
<1>5. /\ Open(h, key) \in Frames
      /\ Open(h, key).head = h /\ Open(h, key).key = key
      /\ Open(h, key).seen = {} /\ Open(h, key).done = d
      /\ Open(h, key).left = h.arg
  BY <1>1, <1>2, <1>3, <1>4
<1> QED
  BY <1>5 DEF d

\* A stack of frames is not empty, and its topmost is a frame.
Stacked(s) == s \in Seq(Frames) /\ s # <<>>

LEMMA StackedMeans ==
    ASSUME NEW s, Stacked(s)
    PROVE  /\ Len(s) \in Nat /\ Len(s) > 0 /\ Len(s) \in 1..Len(s) /\ 1 \in 1..Len(s)
           /\ \A i \in 1..Len(s) : s[i] \in Frames
           /\ s[Len(s)] \in Frames
<1>1. Len(s) \in Nat \ {0}
  BY EmptySeq DEF Stacked
<1>2. Len(s) \in Nat /\ Len(s) > 0 /\ Len(s) \in 1..Len(s) /\ 1 \in 1..Len(s)
  BY <1>1
<1>3. \A i \in 1..Len(s) : s[i] \in Frames
  BY ElementOfSeq DEF Stacked
<1> QED
  BY <1>2, <1>3

LEMMA DeliverMeans ==
    ASSUME NEW s, Stacked(s), s[Len(s)].left > 0, NEW h \in ReadHeads,
           NEW e \in Seq(ShortHeads)
    PROVE  /\ Stacked(Deliver(s, h, e))
           /\ Len(Deliver(s, h, e)) = Len(s)
           /\ \A i \in 1..Len(s) :
                Deliver(s, h, e)[i] = IF i = Len(s) THEN Given(s[Len(s)], h, e) ELSE s[i]
<1> DEFINE g == Given(s[Len(s)], h, e)
           t == [s EXCEPT ![Len(s)] = g]
<1>1. Len(s) \in 1..Len(s) /\ s[Len(s)] \in Frames /\ s \in Seq(Frames) /\ Len(s) > 0
  BY StackedMeans DEF Stacked
<1>2. g \in Frames
  BY <1>1, GivenType
<1>3. Deliver(s, h, e) = t
  BY DeliverGives
<1> HIDE DEF g
<1>4. /\ t \in Seq(Frames) /\ Len(t) = Len(s)
      /\ \A i \in 1..Len(s) : t[i] = IF i = Len(s) THEN g ELSE s[i]
  BY <1>1, <1>2, ExceptSeq
<1> HIDE DEF t
<1>5. t # <<>>
  BY <1>1, <1>4, EmptySeq
<1> QED
  BY <1>3, <1>4, <1>5 DEF g, Stacked

LEMMA NestedDeliver ==
    ASSUME NEW s, Stacked(s), Nested(s), s[Len(s)].left > 0, NEW h \in ReadHeads,
           NEW e \in Seq(ShortHeads)
    PROVE  /\ Nested(Deliver(s, h, e))
           /\ NoneIsKey(s) => NoneIsKey(Deliver(s, h, e))
<1> DEFINE n == Len(s)
           f == s[n]
           g == Given(f, h, e)
           t == Deliver(s, h, e)
<1>1. n \in Nat /\ n > 0 /\ 1 \in 1..n /\ n \in 1..n /\ f \in Frames /\ s[1] \in Frames
  BY StackedMeans
<1>2. Len(t) = n /\ \A i \in 1..n : t[i] = IF i = n THEN g ELSE s[i]
  BY DeliverMeans
<1>4. f.left \in Nat /\ f.left > 0 /\ Len(f.done) \in Nat
  BY <1>1, LenProperties DEF Frames
<1> HIDE DEF t, f
<1>3. /\ g.head = f.head
      /\ f.key => g.left = f.left /\ g.key = FALSE
      /\ ~f.key => g.left = f.left - 1
      /\ ~f.key /\ f.head.type = "map" => g.key = TRUE
      /\ f.head.type # "map" /\ ~f.key => g.key = f.key /\ Len(g.done) = Len(f.done) + 1
  <2>1. f \in Frames /\ f.left > 0 /\ h \in ReadHeads /\ e \in Seq(ShortHeads)
    BY <1>1, <1>4
  <2> HIDE DEF g
  <2>2. g = Given(f, h, e)
    BY DEF g
  <2>3. /\ Given(f, h, e).head = f.head
        /\ f.key => Given(f, h, e).left = f.left /\ Given(f, h, e).key = FALSE
        /\ ~f.key => Given(f, h, e).left = f.left - 1
        /\ ~f.key /\ f.head.type = "map" => Given(f, h, e).key = TRUE
        /\ f.head.type # "map" /\ ~f.key =>
             /\ Given(f, h, e).key = f.key
             /\ Len(Given(f, h, e).done) = Len(f.done) + 1
    BY ONLY <2>1, GivenType, ZenonT(40)
  <2> QED
    BY ONLY <2>2, <2>3
<1>5. f.key => f.head.type = "map"
  BY <1>1 DEF Nested, f
<1> HIDE DEF g, n
<1>6. t[1].head.type = "array" /\ ~t[1].key /\ t[1].left + Len(t[1].done) = 1
  <2>1. CASE n = 1
    <3>1. t[1] = g /\ s[1] = f
      BY <1>1, <1>2, <2>1 DEF f
    <3>2. f.head.type = "array" /\ ~f.key /\ f.left + Len(f.done) = 1
      BY <3>1 DEF Nested
    <3>3. f.head.type # "map"
      BY <3>2
    <3>4. g.left = f.left - 1 /\ g.key = f.key /\ Len(g.done) = Len(f.done) + 1
      BY <1>3, <3>2, <3>3
    <3>5. g.left + Len(g.done) = 1
      BY <1>4, <3>2, <3>4
    <3> QED
      BY <1>3, <3>1, <3>2, <3>4, <3>5
  <2>2. CASE n # 1
    <3>1. t[1] = s[1]
      BY <1>1, <1>2, <2>2
    <3> QED
      BY <3>1 DEF Nested
  <2> QED
    BY <2>1, <2>2
<1>7. /\ g.key => g.head.type = "map"
      /\ g.head.type = "map" /\ ~g.key => g.left > 0
  <2>1. CASE f.key
    BY <1>3, <1>4, <1>5, <2>1
  <2>2. CASE ~f.key
    BY <1>3, <1>5, <2>2
  <2> QED
    BY <2>1, <2>2
<1>8. ASSUME NEW i \in 1..Len(t)
      PROVE  /\ t[i].key => t[i].head.type = "map"
             /\ i < Len(t) => t[i].left > 0
             /\ t[i].head.type = "map" /\ ~t[i].key => t[i].left > 0
  <2>1. CASE i = n
    BY <1>1, <1>2, <1>7, <2>1
  <2>2. CASE i # n
    BY <1>1, <1>2, <2>2 DEF Nested, n
  <2> QED
    BY <2>1, <2>2
<1>9. NoneIsKey(s) => NoneIsKey(t)
  <2> SUFFICES ASSUME NoneIsKey(s), NEW i \in 1..Len(t), i < Len(t) PROVE ~t[i].key
    BY DEF NoneIsKey
  <2>1. t[i] = s[i] /\ i \in 1..n /\ i < n
    BY <1>1, <1>2
  <2> QED
    BY <2>1 DEF NoneIsKey, n
<1>10. Nested(t)
  BY <1>6, <1>8 DEF Nested
<1> QED
  BY <1>9, <1>10 DEF t

LEMMA NestedPush ==
    ASSUME NEW s, Stacked(s), Nested(s), s[Len(s)].left > 0, NEW h \in ReadHeads
    PROVE  LET t == Append(s, Open(h, h.type = "map"))
           IN  /\ Stacked(t) /\ Nested(t)
               /\ NoneIsKey(s) /\ ~s[Len(s)].key => NoneIsKey(t)
<1> DEFINE n == Len(s)
           f == Open(h, h.type = "map")
           t == Append(s, f)
<1>1. n \in Nat /\ n > 0 /\ 1 \in 1..n /\ n \in 1..n
  BY StackedMeans
<1>2. /\ f \in Frames /\ f.head = h
      /\ IF h.type = "map" THEN f.key = TRUE ELSE f.key = FALSE
  <2>1. CASE h.type = "map"
    BY <2>1, OpenMeans
  <2>2. CASE h.type # "map"
    BY <2>2, OpenMeans
  <2> QED
    BY <2>1, <2>2
<1> HIDE DEF f
<1>3. t \in Seq(Frames) /\ t # <<>> /\ Len(t) = n + 1 /\ t[n + 1] = f
      /\ \A i \in 1..n : t[i] = s[i]
  BY <1>2, AppendProperties DEF Stacked
<1> HIDE DEF t, n
<1>4. ASSUME NEW i \in 1..Len(t)
      PROVE  /\ t[i].key => t[i].head.type = "map"
             /\ i < Len(t) => t[i].left > 0
             /\ t[i].head.type = "map" /\ ~t[i].key => t[i].left > 0
  <2>1. CASE i = n + 1
    <3>1. t[i] = f /\ i = Len(t)
      BY <1>3, <2>1
    <3>2. i \in Nat
      BY <1>1, <2>1
    <3> HIDE DEF t
    <3> QED
      BY <1>2, <3>1, <3>2
  <2>2. CASE i # n + 1
    <3>1. i \in 1..n /\ t[i] = s[i] /\ i \in 1..Len(s)
      BY <1>1, <1>3, <2>2 DEF n
    <3>2. s[i].left > 0 \/ i = n
      <4>1. s[n].left > 0
        BY DEF n
      <4> QED
        BY <1>1, <3>1 DEF Nested, n
    <3>3. s[i].left > 0
      BY <3>2 DEF n
    <3> QED
      BY <3>1, <3>3 DEF Nested
  <2> QED
    BY <2>1, <2>2
<1>5. Nested(t)
  <2>1. t[1] = s[1]
    BY <1>1, <1>3
  <2> QED
    BY <1>4, <2>1 DEF Nested
<1>6. NoneIsKey(s) /\ ~s[Len(s)].key => NoneIsKey(t)
  <2> SUFFICES ASSUME NoneIsKey(s), ~s[Len(s)].key, NEW i \in 1..Len(t), i < Len(t)
               PROVE  ~t[i].key
    BY DEF NoneIsKey
  <2>1. i \in 1..n /\ t[i] = s[i]
    BY <1>1, <1>3
  <2>2. CASE i = n
    BY <2>1, <2>2 DEF n
  <2>3. CASE i # n
    BY <1>1, <2>1, <2>3 DEF NoneIsKey, n
  <2> QED
    BY <2>2, <2>3
<1> QED
  BY <1>3, <1>5, <1>6 DEF t, f, n, Stacked

LEMMA FrontMeans ==
    ASSUME NEW s, Stacked(s), Len(s) > 1
    PROVE  /\ Stacked(Front(s)) /\ Len(Front(s)) = Len(s) - 1
           /\ \A i \in 1..(Len(s) - 1) : Front(s)[i] = s[i]
           /\ s = Append(Front(s), s[Len(s)])
<1> DEFINE n == Len(s)
           r == Front(s)
<1>1. n \in Nat /\ n > 1 /\ s \in Seq(Frames) /\ s[n] \in Frames
  BY StackedMeans DEF Stacked
<1>2. \A i \in 1..(n - 1) : s[i] \in Frames
  <2> TAKE i \in 1..(n - 1)
  <2>1. i \in 1..Len(s)
    BY <1>1
  <2> QED
    BY <2>1, StackedMeans
<1>3. r = SubSeq(s, 1, n - 1)
  BY DEF Front
<1> HIDE DEF n, r
<1>4. r \in Seq(Frames) /\ Len(r) = n - 1 /\ \A i \in 1..(n - 1) : r[i] = s[i]
  <2>1. 1 \in Int /\ n - 1 \in Int /\ 1 <= n - 1
    BY <1>1
  <2>2. /\ r \in Seq(Frames) /\ Len(r) = IF 1 <= n - 1 THEN (n - 1) - 1 + 1 ELSE 0
        /\ \A i \in 1..((n - 1) - 1 + 1) : r[i] = s[1 + i - 1]
    BY <1>2, <1>3, <2>1, SubSeqProperties
  <2>3. Len(r) = n - 1
    BY <1>1, <2>1, <2>2
  <2>4. ASSUME NEW i \in 1..(n - 1) PROVE r[i] = s[i]
    <3>1. i \in 1..((n - 1) - 1 + 1) /\ 1 + i - 1 = i
      BY <1>1
    <3> QED
      BY <2>2, <3>1
  <2> QED
    BY <2>2, <2>3, <2>4
<1>5. r # <<>>
  BY <1>1, <1>4, EmptySeq
<1>6. s = Append(r, s[n])
  <2> DEFINE t == Append(r, s[n])
  <2>1. /\ t \in Seq(Frames) /\ Len(t) = Len(r) + 1
        /\ \A i \in 1..Len(r) : t[i] = r[i]
        /\ t[Len(r) + 1] = s[n]
    BY <1>1, <1>4, AppendProperties
  <2> HIDE DEF t
  <2>2. Len(t) = Len(s)
    BY <1>1, <1>4, <2>1 DEF n
  <2>3. \A i \in 1..Len(s) : s[i] = t[i]
    <3> TAKE i \in 1..Len(s)
    <3>1. i \in 1..(n - 1) \/ i = n
      BY <1>1 DEF n
    <3> QED
      BY <1>1, <1>4, <2>1, <3>1
  <2> QED
    BY <1>1, <2>1, <2>2, <2>3, SeqEqual DEF t
<1> QED
  BY <1>4, <1>5, <1>6 DEF n, r, Stacked

LEMMA NestedFront ==
    ASSUME NEW s, Stacked(s), Nested(s), Len(s) > 1
    PROVE  /\ Nested(Front(s)) /\ Front(s)[Len(Front(s))].left > 0
           /\ Front(s)[Len(Front(s))] = s[Len(s) - 1]
           /\ NoneIsKey(s) => NoneIsKey(Front(s)) /\ ~Front(s)[Len(Front(s))].key
<1> DEFINE n == Len(s)
           r == Front(s)
<1>1. /\ n \in Nat /\ n > 1 /\ Len(r) = n - 1
      /\ \A i \in 1..(n - 1) : r[i] = s[i]
  BY FrontMeans, StackedMeans
<1> HIDE DEF r
<1>2. ASSUME NEW i \in 1..Len(r)
      PROVE  /\ r[i].key => r[i].head.type = "map"
             /\ r[i].left > 0
             /\ NoneIsKey(s) => ~r[i].key
  <2>1. i \in 1..Len(s) /\ i < Len(s) /\ r[i] = s[i]
    BY <1>1
  <2> QED
    BY <2>1 DEF Nested, NoneIsKey
<1>3. r[1] = s[1] /\ Len(r) \in 1..Len(r) /\ r[Len(r)] = s[n - 1]
  BY <1>1
<1>4. Nested(r)
  BY <1>2, <1>3 DEF Nested
<1> QED
  BY <1>2, <1>3, <1>4 DEF r, NoneIsKey

LEMMA DeliverInOrder ==
    ASSUME NEW s, Stacked(s), Nested(s), AllOrdered(s), s[Len(s)].left > 0,
           NEW h \in ReadHeads, NEW e \in Seq(ShortHeads),
           s[Len(s)].key =>
              /\ h \in ShortHeads /\ h.type = "text" /\ e = <<h>>
              /\ s[Len(s)].seen # {} => Less(KeyBytes(s[Len(s)].name), KeyBytes(h))
    PROVE  /\ AllOrdered(Deliver(s, h, e))
           /\ FlattenSeq(Pieces(Deliver(s, h, e))) = FlattenSeq(Pieces(s)) \o e
<1> DEFINE n == Len(s)
           f == s[n]
           g == Given(f, h, e)
           t == Deliver(s, h, e)
<1>1. n \in Nat /\ n > 0 /\ n \in 1..n /\ f \in Frames /\ s \in Seq(Frames) /\ s # <<>>
  BY StackedMeans DEF Stacked
<1>2. Len(t) = n /\ \A i \in 1..n : t[i] = IF i = n THEN g ELSE s[i]
  BY DeliverMeans
<1>3. f.left > 0 /\ (f.key => f.head.type = "map") /\ (f.head.type = "map" => Ordered(f))
  BY <1>1 DEF Nested, AllOrdered
<1>4. t = [s EXCEPT ![Len(s)] = g]
  BY DeliverGives
<1>5. f.key => /\ h \in ShortHeads /\ h.type = "text" /\ e = <<h>>
               /\ f.seen # {} => Less(KeyBytes(f.name), KeyBytes(h))
  OBVIOUS
<1> HIDE DEF t, f
<1>6. g \in Frames /\ g.head = f.head
  BY <1>1, <1>3, GivenType
<1>7. g.head.type = "map" => Ordered(g)
  BY <1>1, <1>3, <1>5, <1>6, OrderedGiven
<1>8. Piece(g) = Piece(f) \o e
  BY <1>1, <1>3, <1>5, PieceGiven
<1> HIDE DEF g
<1>9. AllOrdered(t)
  <2> SUFFICES ASSUME NEW i \in 1..Len(t), t[i].head.type = "map" PROVE Ordered(t[i])
    BY DEF AllOrdered
  <2>1. CASE i = n
    BY <1>1, <1>2, <1>7, <2>1
  <2>2. CASE i # n
    <3>1. i \in 1..Len(s) /\ t[i] = s[i]
      BY <1>2, <2>2
    <3> QED
      BY <3>1 DEF AllOrdered
  <2> QED
    BY <2>1, <2>2
<1>10. FlattenSeq(Pieces(t)) = FlattenSeq(Pieces(s)) \o e
  <2>1. g.head = s[Len(s)].head /\ Piece(g) = Piece(s[Len(s)]) \o e
    BY <1>6, <1>8 DEF f
  <2> QED
    BY <1>1, <1>4, <1>6, <2>1, PiecesTop
<1> QED
  BY <1>9, <1>10 DEF t

LEMMA PushInOrder ==
    ASSUME NEW s, Stacked(s), AllOrdered(s), NEW h \in ShortHeads
    PROVE  LET t == Append(s, Open(h, h.type = "map"))
           IN  AllOrdered(t) /\ FlattenSeq(Pieces(t)) = FlattenSeq(Pieces(s)) \o <<h>>
<1> DEFINE n == Len(s)
           f == Open(h, h.type = "map")
           t == Append(s, f)
<1>1. n \in Nat /\ s \in Seq(Frames) /\ s # <<>> /\ h \in ReadHeads
  BY StackedMeans DEF Stacked, ShortHeads
<1>2. /\ f \in Frames /\ f.head = h /\ f.seen = {} /\ f.done = <<>>
      /\ IF h.type = "map" THEN f.key = TRUE ELSE f.key = FALSE
  <2>1. CASE h.type = "map"
    BY <1>1, <2>1, OpenMeans
  <2>2. CASE h.type # "map"
    BY <1>1, <2>2, OpenMeans
  <2> QED
    BY <2>1, <2>2
<1> HIDE DEF f
<1>3. t \in Seq(Frames) /\ Len(t) = n + 1 /\ t[n + 1] = f /\ \A i \in 1..n : t[i] = s[i]
  BY <1>1, <1>2, AppendProperties
<1>4. Piece(f) = <<>>
  <2>1. Naming(f) = <<>>
    BY <1>2 DEF Naming
  <2>2. FlattenSeq(f.done) = <<>>
    BY <1>2, FlattenNone
  <2>3. <<>> \o <<>> = <<>>
    OBVIOUS
  <2> QED
    BY <1>2, <2>1, <2>2, <2>3, PieceType
<1>5. FlattenSeq(Pieces(t)) = FlattenSeq(Pieces(s)) \o (<<Short(f.head)>> \o Piece(f))
  BY <1>1, <1>2, PiecesPush
<1>6. <<Short(f.head)>> \o Piece(f) = <<h>>
  <2>1. Short(f.head) = h
    BY <1>2, ShortMeans
  <2>2. <<h>> \o <<>> = <<h>>
    OBVIOUS
  <2> QED
    BY <1>4, <2>1, <2>2
<1> HIDE DEF t, n
<1>7. AllOrdered(t)
  <2> SUFFICES ASSUME NEW i \in 1..Len(t), t[i].head.type = "map" PROVE Ordered(t[i])
    BY DEF AllOrdered
  <2>1. CASE i = n + 1
    <3>1. t[i] = f /\ f.key = TRUE
      BY <1>2, <1>3, <2>1
    <3>2. Ordered(f)
      <4>1. Len(f.done) = 0
        BY <1>2
      <4> QED
        BY <1>2, <3>1, <4>1 DEF Ordered
    <3> QED
      BY <3>1, <3>2
  <2>2. CASE i # n + 1
    <3>1. i \in 1..n /\ t[i] = s[i]
      BY <1>1, <1>3, <2>2
    <3> QED
      BY <3>1 DEF AllOrdered, n
  <2> QED
    BY <2>1, <2>2
<1>8. FlattenSeq(Pieces(t)) = FlattenSeq(Pieces(s)) \o <<h>>
  BY <1>5, <1>6
<1> QED
  BY <1>7, <1>8 DEF t, f

\* An array or a map that is complete is, with its head, the last of the pieces.
LEMMA FrontInOrder ==
    ASSUME NEW s, Stacked(s), Nested(s), AllOrdered(s), Len(s) > 1, s[Len(s)].left = 0
    PROVE  /\ AllOrdered(Front(s))
           /\ FlattenSeq(Pieces(s)) = FlattenSeq(Pieces(Front(s)))
                \o (<<Short(s[Len(s)].head)>> \o FlattenSeq(s[Len(s)].done))
<1> DEFINE n == Len(s)
           r == Front(s)
           f == s[n]
<1>1. n \in Nat /\ n \in 1..n /\ f \in Frames
  BY StackedMeans
<1>2. /\ Stacked(r) /\ Len(r) = n - 1 /\ s = Append(r, f)
      /\ \A i \in 1..(n - 1) : r[i] = s[i]
  BY FrontMeans
<1>3. f.left = 0 /\ (f.head.type = "map" /\ ~f.key => f.left > 0)
  BY <1>1 DEF Nested
<1> HIDE DEF r, f, n
<1>4. Naming(f) = <<>>
  BY <1>3 DEF Naming
<1>5. Piece(f) = FlattenSeq(f.done)
  <2>1. FlattenSeq(f.done) \o <<>> = FlattenSeq(f.done)
    BY <1>1, PieceType, ConcatEmptySeq
  <2> QED
    BY <1>1, <1>4, <2>1, PieceType
<1>6. r \in Seq(Frames) /\ r # <<>>
  BY <1>2 DEF Stacked
<1>7. FlattenSeq(Pieces(s)) = FlattenSeq(Pieces(r)) \o (<<Short(f.head)>> \o Piece(f))
  BY <1>1, <1>2, <1>6, PiecesPush
<1>8. AllOrdered(r)
  <2> SUFFICES ASSUME NEW i \in 1..Len(r), r[i].head.type = "map" PROVE Ordered(r[i])
    BY DEF AllOrdered
  <2>1. i \in 1..(n - 1) /\ i \in 1..n
    BY <1>1, <1>2
  <2> QED
    BY <1>2, <2>1 DEF AllOrdered, n
<1> QED
  BY <1>5, <1>7, <1>8 DEF r, f, n

LEMMA FlattenOne ==
    ASSUME NEW X, NEW S \in Seq(Seq(X)), Len(S) = 1
    PROVE  FlattenSeq(S) = S[1]
<1> DEFINE T == Seq(X)
<1> DEFINE x == S[1]
           e == <<>>
<1>0. x \in T
  <2>1. 1 \in 1..Len(S)
    OBVIOUS
  <2> QED
    BY <2>1, ElementOfSeq
<1>6. S \in Seq(T)
  OBVIOUS
<1> HIDE DEF T
<1>1. e \in Seq(T) /\ Len(e) = 0
  BY EmptySeq
<1>2. Append(e, x) \in Seq(T) /\ Len(Append(e, x)) = 1 /\ Append(e, x)[1] = x
  <2> HIDE DEF e
  <2>1. /\ Append(e, x) \in Seq(T) /\ Len(Append(e, x)) = Len(e) + 1
        /\ Append(e, x)[Len(e) + 1] = x
    BY <1>0, <1>1, AppendProperties
  <2>2. Len(e) + 1 = 1
    BY <1>1
  <2> QED
    BY <2>1, <2>2
<1> HIDE DEF e
<1>3. S = Append(e, x)
  <2> DEFINE t == Append(e, x)
  <2>1. \A i \in 1..Len(S) : S[i] = t[i]
    BY <1>6, <1>2
  <2> HIDE DEF t
  <2>2. t \in Seq(T) /\ Len(t) = Len(S)
    BY <1>6, <1>2 DEF t
  <2> QED
    BY <1>6, <2>1, <2>2, SeqEqual DEF t
<1> HIDE DEF x
<1>4. FlattenSeq(Append(e, x)) = FlattenSeq(e) \o x
  BY <1>0, <1>1, FlattenAppend DEF T
<1>5. FlattenSeq(e) \o x = x
  BY <1>0, FlattenNone, ConcatEmptySeq DEF e, T
<1> QED
  BY <1>3, <1>4, <1>5 DEF x

\* A document that is complete is what the root has.
LEMMA CompleteInOrder ==
    ASSUME NEW s, Stacked(s), Nested(s), Len(s) = 1, s[1].left = 0
    PROVE  /\ Len(s[1].done) = 1 /\ s[1].done[1] \in Seq(ShortHeads)
           /\ FlattenSeq(Pieces(s)) = s[1].done[1]
<1> DEFINE f == s[1]
           d == f.done
           v == d[1]
           T == Seq(ShortHeads)
<1>1. f \in Frames
  BY StackedMeans
<1>2. d \in Seq(T)
  BY <1>1 DEF Frames
<1>3. f.head.type = "array" /\ ~f.key /\ 0 + Len(d) = 1
  BY DEF Nested
<1>4. Len(d) = 1
  <2>1. Len(d) \in Nat
    BY <1>2, LenProperties
  <2> QED
    BY <1>3, <2>1
<1>5. v \in T
  <2>1. 1 \in 1..Len(d)
    BY <1>4
  <2> QED
    BY <1>2, <2>1, ElementOfSeq
<1>6. Piece(f) = FlattenSeq(d) /\ Piece(f) \in T
  <2>1. Naming(f) = <<>>
    BY <1>3 DEF Naming
  <2>2. FlattenSeq(f.done) \o <<>> = FlattenSeq(f.done)
    BY <1>1, PieceType, ConcatEmptySeq
  <2> QED
    BY <1>1, <2>1, <2>2, PieceType
<1>7. /\ Pieces(s) \in Seq(T) /\ Len(Pieces(s)) = 1 /\ Pieces(s)[1] = Piece(f)
  <2>1. s \in Seq(Frames) /\ 1 \in 1..Len(s)
    BY DEF Stacked
  <2> QED
    BY <2>1, PiecesType
<1> HIDE DEF d, v
<1>9. FlattenSeq(d) = v
  BY <1>2, <1>4, FlattenOne DEF v
<1>10. FlattenSeq(Pieces(s)) = Piece(f)
  BY <1>7, FlattenOne
<1> QED
  BY <1>4, <1>5, <1>6, <1>9, <1>10 DEF d, v

-----------------------------------------------------------------------------
(* The first state *)

LEMMA InvAtInit == CInit => CInv
<1> SUFFICES ASSUME CInit PROVE Reading
  BY DEF CInit, CInv
<1> DEFINE h == [type |-> "array", form |-> "short", arg |-> 1, cut |-> "no"]
<1>1. h \in ShortHeads /\ h \in ReadHeads
  BY DEF ShortHeads, ReadHeads, Heads, Major
<1>2. /\ Root \in Frames /\ Root.head = h /\ Root.key = FALSE /\ Root.left = 1
      /\ Root.done = <<>>
  <2>1. Root = Open(h, FALSE) /\ h.arg = 1
    BY DEF Root
  <2> HIDE DEF h
  <2> QED
    BY <1>1, <2>1, OpenMeans
<1>3. /\ stack = <<Root>> /\ input = <<>> /\ offset = 0
      /\ rust = "reading" /\ python = "reading" /\ encoder = "reading"
  BY DEF CInit
<1>4. stack \in Seq(Frames) /\ stack # <<>> /\ Len(stack) = 1 /\ stack[1] = Root
  <2> HIDE DEF Root
  <2> QED
    BY <1>2, <1>3
<1>5. h.type = "array"
  OBVIOUS
<1> HIDE DEF h
<1>6. CborTypeOK
  <2>1. input \in Seq(Heads)
    BY <1>3, EmptySeq
  <2> QED
    BY <1>3, <1>4, <2>1 DEF CborTypeOK
<1>7. StackOK
  <2>1. stack[1].left + Len(stack[1].done) = 1
    BY <1>2, <1>4
  <2>2. stack[1].head.type = "array" /\ ~stack[1].key
    BY <1>2, <1>4, <1>5
  <2>3. \A i \in 1..Len(stack) : i = 1
    BY <1>4
  <2>4. Nested(stack)
    BY <1>4, <2>1, <2>2, <2>3 DEF Nested
  <2>5. NoneIsKey(stack)
    BY <1>4, <2>3 DEF NoneIsKey
  <2> QED
    BY <2>4, <2>5 DEF StackOK
<1>8. offset = Size(input)
  BY <1>3, SizeNone
<1>9. PythonInOrder
  <2> DEFINE P == Pieces(stack)
  <2>1. Piece(Root) = <<>>
    <3>1. Naming(Root) = <<>>
      BY <1>2, <1>5 DEF Naming
    <3>2. FlattenSeq(Root.done) = <<>>
      BY <1>2, FlattenNone
    <3>3. <<>> \o <<>> = <<>>
      OBVIOUS
    <3> QED
      BY <1>2, <3>1, <3>2, <3>3, PieceType
  <2>2. P \in Seq(Seq(ShortHeads)) /\ Len(P) = 1 /\ P[1] = Piece(Root)
    <3>1. 1 \in 1..Len(stack)
      BY <1>4
    <3> QED
      BY <1>4, <3>1, PiecesType
  <2> HIDE DEF P
  <2>3. FlattenSeq(P) = <<>>
    BY <2>1, <2>2, FlattenOne
  <2>4. AllOrdered(stack)
    <3>1. \A i \in 1..Len(stack) : stack[i].head.type = "array"
      BY <1>2, <1>4, <1>5
    <3> QED
      BY <3>1 DEF AllOrdered
  <2> QED
    BY <1>3, <2>3, <2>4 DEF PythonInOrder, P
<1>10. EncoderFollows /\ SayTheSame
  BY <1>3 DEF EncoderFollows, SayTheSame
<1> QED
  BY <1>6, <1>7, <1>8, <1>9, <1>10 DEF Reading

-----------------------------------------------------------------------------
(* The next head *)

LEMMA StackedIs == ASSUME CborTypeOK PROVE Stacked(stack) /\ Top = stack[Len(stack)]
BY DEF CborTypeOK, Stacked, Top

\* What is read of a head, whichever of the two reads it.
ReadsOf(h) ==
    /\ h \in Heads
    /\ input' = Append(input, h) /\ offset' = offset + Bytes(h)
    /\ rust' = IF rust # "reading" THEN rust
               ELSE IF Top.key THEN RustKey(h) ELSE RustValue(h)
    /\ python' = IF ~PythonReads THEN python
                 ELSE IF PythonItem(h) # "reading" THEN PythonItem(h)
                 ELSE IF Top.key /\ h.type # "text" THEN "reading on" ELSE python
    /\ encoder' = IF encoder = "reading" THEN EncoderValue(h) ELSE encoder
    /\ stack' = IF rust' # "reading" /\ ~PythonReads' THEN stack
                ELSE IF h.type \in {"array", "map"}
                THEN Append(stack, Open(h, h.type = "map"))
                ELSE Deliver(stack, h, <<Short(h)>>)

LEMMA ReadHeadReads ==
    ASSUME ReadHead
    PROVE  /\ Top.left > 0 /\ (rust = "reading" \/ PythonReads)
           /\ ~closed' /\ \E h : ReadsOf(h)
<1>1. PICK h \in HEADS : ReadsOf(h)
  BY HeadsAssumption DEF ReadHead, ReadsOf
<1>2. ~closed'
  BY DEF ReadHead
<1> QED
  BY <1>1, <1>2 DEF ReadHead

LEMMA ReadMeans ==
    ASSUME CborTypeOK, NEW h, ReadsOf(h)
    PROVE  /\ rust' \in Says \cup {"reading"}
           /\ python' \in Says \cup {"reading", "reading on"}
           /\ encoder' \in Says \cup {"reading", "no value"}
           /\ rust' = "reading" => /\ rust = "reading" /\ h \in ReadHeads
                                   /\ Top.key => h.type = "text"
           /\ PythonReads' => PythonReads /\ PythonItem(h) = "reading" /\ h \in ShortHeads
           /\ python' = "reading" =>
                /\ python = "reading" /\ h \in ShortHeads
                /\ Top.key => h.type = "text"
                /\ Top.key /\ Top.seen # {} => Less(KeyBytes(Top.name), KeyBytes(h))
           /\ rust' = "reading" \/ PythonReads' => h \in ReadHeads
<1>1. h \in Heads /\ Top.key \in BOOLEAN
  BY StackType DEF ReadsOf
<1>2. /\ rust \in Says \cup {"reading"}
      /\ python \in Says \cup {"reading", "reading on"}
      /\ encoder \in Says \cup {"reading", "no value"}
  BY DEF CborTypeOK
<1>3. /\ RustValue(h) \in Says \cup {"reading"} /\ RustKey(h) \in Says \cup {"reading"}
      /\ PythonItem(h) \in Says \cup {"reading"}
      /\ EncoderValue(h) \in Says \cup {"reading", "no value"}
  BY SaysOfHead
<1>4. "reading" \notin Says /\ "reading on" \notin Says
  BY DEF Says
<1>5. rust' \in Says \cup {"reading"}
  BY <1>2, <1>3 DEF ReadsOf
<1>6. encoder' \in Says \cup {"reading", "no value"}
  BY <1>2, <1>3 DEF ReadsOf
<1>7. rust' = "reading" =>
        rust = "reading" /\ (IF Top.key THEN RustKey(h) ELSE RustValue(h)) = "reading"
  BY DEF ReadsOf
<1>8. rust' = "reading" => /\ rust = "reading" /\ h \in ReadHeads
                           /\ Top.key => h.type = "text"
  BY <1>1, <1>7, ReadByRust
<1>9. python' = IF ~PythonReads THEN python
                ELSE IF PythonItem(h) # "reading" THEN PythonItem(h)
                ELSE IF Top.key /\ h.type # "text" THEN "reading on" ELSE python
  BY DEF ReadsOf
<1>10. python' \in Says \cup {"reading", "reading on"}
  BY <1>2, <1>3, <1>9
<1>11. /\ PythonReads' => PythonReads /\ PythonItem(h) = "reading"
       /\ python' = "reading" =>
            /\ python = "reading" /\ PythonItem(h) = "reading"
            /\ Top.key => h.type = "text"
  BY <1>2, <1>3, <1>4, <1>9 DEF PythonReads
<1>12. PythonItem(h) = "reading" =>
         /\ h \in ShortHeads
         /\ Top.key /\ h.type = "text" /\ Top.seen # {}
              => Less(KeyBytes(Top.name), KeyBytes(h))
  BY <1>1, ReadByPython
<1>13. h \in ShortHeads => h \in ReadHeads
  BY DEF ShortHeads
<1> HIDE DEF PythonReads
<1> QED
  BY <1>5, <1>6, <1>8, <1>10, <1>11, <1>12, <1>13

\* What becomes of the stack: it stays, or grows, or the head is delivered.
LEMMA StackAfterHead ==
    ASSUME CborTypeOK, NEW h, ReadsOf(h)
    PROVE  \/ stack' = stack /\ rust' # "reading" /\ ~PythonReads'
           \/ /\ h \in ReadHeads /\ (rust' = "reading" \/ PythonReads')
              /\ IF h.type \in {"array", "map"}
                 THEN stack' = Append(stack, Open(h, h.type = "map"))
                 ELSE stack' = Deliver(stack, h, <<Short(h)>>) /\ <<Short(h)>> \in Seq(ShortHeads)
<1>1. CASE rust' # "reading" /\ ~PythonReads'
  BY <1>1 DEF ReadsOf
<1>2. CASE rust' = "reading" \/ PythonReads'
  <2>1. h \in ReadHeads
    BY <1>2, ReadMeans
  <2>2. Short(h) \in ShortHeads
    BY <2>1, ShortMeans
  <2>3. stack' = IF h.type \in {"array", "map"} THEN Append(stack, Open(h, h.type = "map"))
                 ELSE Deliver(stack, h, <<Short(h)>>)
    BY <1>2 DEF ReadsOf
  <2> HIDE DEF ShortHeads
  <2>4. <<Short(h)>> \in Seq(ShortHeads)
    BY <2>2
  <2> QED
    BY <1>2, <2>1, <2>3, <2>4
<1> QED
  BY <1>1, <1>2

LEMMA ReadKeepsTypes ==
    ASSUME CborTypeOK, Nested(stack), Top.left > 0, NEW h, ReadsOf(h)
    PROVE  CborTypeOK' /\ Nested(stack')
<1>1. /\ rust' \in Says \cup {"reading"}
      /\ python' \in Says \cup {"reading", "reading on"}
      /\ encoder' \in Says \cup {"reading", "no value"}
  BY ReadMeans
<1>2. h \in Heads /\ input' = Append(input, h) /\ offset' = offset + Bytes(h)
  BY DEF ReadsOf
<1>3. offset \in Nat /\ input \in Seq(Heads)
  BY DEF CborTypeOK
<1>4. input' \in Seq(Heads) /\ offset' \in Nat
  BY <1>2, <1>3, AppendProperties, BytesType
<1>5. Stacked(stack) /\ Top = stack[Len(stack)]
  BY StackedIs
<1>6. Stacked(stack') /\ Nested(stack')
  <2>1. CASE stack' = stack
    BY <1>5, <2>1
  <2>2. CASE h \in ReadHeads /\ stack' = Append(stack, Open(h, h.type = "map"))
    BY <1>5, <2>2, NestedPush
  <2>3. CASE /\ h \in ReadHeads /\ <<Short(h)>> \in Seq(ShortHeads)
             /\ stack' = Deliver(stack, h, <<Short(h)>>)
    BY <1>5, <2>3, NestedDeliver, DeliverMeans
  <2> QED
    BY <2>1, <2>2, <2>3, StackAfterHead
<1> QED
  BY <1>1, <1>4, <1>6 DEF CborTypeOK, Stacked

LEMMA ReadKeepsStack ==
    ASSUME CborTypeOK, StackOK, Top.left > 0, NEW h, ReadsOf(h)
    PROVE  StackOK'
<1>1. Nested(stack')
  BY ReadKeepsTypes DEF StackOK
<1>2. Stacked(stack) /\ Top = stack[Len(stack)]
  BY StackedIs
<1>3. ASSUME rust' = "reading" \/ python' = "reading" PROVE NoneIsKey(stack')
  <2>1. (rust = "reading" \/ python = "reading") /\ (Top.key => h.type = "text")
    BY <1>3, ReadMeans
  <2>2. NoneIsKey(stack)
    BY <2>1 DEF StackOK
  <2>3. CASE stack' = stack
    BY <2>2, <2>3
  <2>4. CASE /\ h \in ReadHeads /\ h.type \in {"array", "map"}
             /\ stack' = Append(stack, Open(h, h.type = "map"))
    <3>1. ~stack[Len(stack)].key
      BY <1>2, <2>1, <2>4
    <3> QED
      BY <1>2, <2>2, <2>4, <3>1, NestedPush DEF StackOK
  <2>5. CASE /\ h \in ReadHeads /\ <<Short(h)>> \in Seq(ShortHeads)
             /\ stack' = Deliver(stack, h, <<Short(h)>>)
    BY <1>2, <2>2, <2>5, NestedDeliver DEF StackOK
  <2> QED
    BY <2>3, <2>4, <2>5, StackAfterHead
<1> QED
  BY <1>1, <1>3 DEF StackOK

LEMMA ReadKeepsSize ==
    ASSUME CborTypeOK, offset = Size(input), NEW h, ReadsOf(h)
    PROVE  offset' = Size(input')
BY SizeAppend DEF ReadsOf, CborTypeOK

LEMMA ReadKeepsOrder ==
    ASSUME CborTypeOK, Nested(stack), PythonInOrder, Top.left > 0, NEW h, ReadsOf(h)
    PROVE  PythonInOrder'
<1> SUFFICES ASSUME python' = "reading"
             PROVE  input' = FlattenSeq(Pieces(stack')) /\ AllOrdered(stack')
  BY DEF PythonInOrder
<1>1. /\ python = "reading" /\ h \in ShortHeads /\ h \in ReadHeads
      /\ Top.key => h.type = "text"
      /\ Top.key /\ Top.seen # {} => Less(KeyBytes(Top.name), KeyBytes(h))
  BY ReadMeans DEF ShortHeads
<1>2. input = FlattenSeq(Pieces(stack)) /\ AllOrdered(stack)
  BY <1>1 DEF PythonInOrder
<1>3. Stacked(stack) /\ Top = stack[Len(stack)]
  BY StackedIs
<1>4. input' = input \o <<h>>
  <2>1. input' = Append(input, h) /\ h \in Heads /\ input \in Seq(Heads)
    BY DEF ReadsOf, CborTypeOK
  <2> QED
    BY <2>1, AppendIsConcat
<1>5. Short(h) = h
  BY <1>1, ShortMeans
<1>6. PythonReads'
  BY DEF PythonReads
<1>7. CASE h.type \in {"array", "map"}
  <2>1. stack' = Append(stack, Open(h, h.type = "map"))
    BY <1>6, <1>7, StackAfterHead
  <2> QED
    BY <1>1, <1>2, <1>3, <1>4, <2>1, PushInOrder
<1>8. CASE h.type \notin {"array", "map"}
  <2>1. stack' = Deliver(stack, h, <<h>>) /\ <<h>> \in Seq(ShortHeads)
    BY <1>5, <1>6, <1>8, StackAfterHead
  <2>2. AllOrdered(stack') /\ FlattenSeq(Pieces(stack')) = FlattenSeq(Pieces(stack)) \o <<h>>
    BY <1>1, <1>2, <1>3, <2>1, DeliverInOrder
  <2> QED
    BY <1>2, <1>4, <2>2
<1> QED
  BY <1>7, <1>8

LEMMA ReadKeepsEncoder ==
    ASSUME CborTypeOK, EncoderFollows, Top.left > 0, rust = "reading" \/ PythonReads,
           NEW h, ReadsOf(h)
    PROVE  EncoderFollows'
<1>1. h \in Heads /\ Top.key \in BOOLEAN
  BY StackType DEF ReadsOf
<1>2. rust = "reading" => encoder = "reading"
  BY DEF EncoderFollows
<1>3. rust # "reading" => encoder # "reading"
  BY DEF EncoderFollows
<1>4. ASSUME rust' = "reading" PROVE encoder' = "reading"
  <2>1. rust = "reading" /\ (IF Top.key THEN RustKey(h) ELSE RustValue(h)) = "reading"
    BY <1>4 DEF ReadsOf
  <2>2. EncoderValue(h) = "reading"
    <3>1. CASE Top.key = TRUE
      BY <1>1, <2>1, <3>1, KeysAreEncoded
    <3>2. CASE Top.key = FALSE
      BY <1>1, <2>1, <3>2, ValuesAreEncoded
    <3> QED
      BY <1>1, <3>1, <3>2
  <2> QED
    BY <1>2, <2>1, <2>2 DEF ReadsOf
<1>5. ASSUME encoder' = "reading", rust' # "reading"
      PROVE  ~PythonReads' /\ Top'.left > 0
  <2>1. encoder = "reading" /\ EncoderValue(h) = "reading"
    BY <1>5 DEF ReadsOf
  <2>2. rust = "reading" /\ (IF Top.key THEN RustKey(h) ELSE RustValue(h)) # "reading"
    BY <1>3, <1>5, <2>1 DEF ReadsOf
  <2>3. Top.key = TRUE
    <3>1. CASE Top.key = FALSE
      BY <1>1, <2>1, <2>2, <3>1, ValuesAreEncoded
    <3> QED
      BY <1>1, <3>1
  <2>4. PythonItem(h) # "reading"
    BY <1>1, <2>1, <2>2, <2>3, RefusedKeys
  <2>5. ~PythonReads'
    BY <2>4, ReadMeans
  <2>6. stack' = stack
    BY <1>5, <2>5 DEF ReadsOf
  <2> QED
    BY <2>5, <2>6 DEF Top
<1> QED
  BY <1>4, <1>5 DEF EncoderFollows

LEMMA ReadKeepsSame ==
    ASSUME Reading, Uniform => SayTheSame, Top.left > 0, rust = "reading" \/ PythonReads,
           NEW h, ReadsOf(h), Uniform'
    PROVE  SayTheSame'
<1>1. CborTypeOK /\ StackOK /\ PythonInOrder
  BY DEF Reading
<1>2. h \in Heads /\ Top.key \in BOOLEAN /\ Top.name \in ReadHeads /\ Top.left \in Nat
      /\ Len(stack) \in 1..Len(stack)
  BY <1>1, StackType DEF ReadsOf
<1>3. Uniform /\ h \in ShortHeads /\ WithinHead(h)
  <2>1. input \in Seq(Heads) /\ input' = Append(input, h)
    BY <1>1 DEF CborTypeOK, ReadsOf
  <2>2. /\ Len(input) \in Nat /\ Len(input') = Len(input) + 1 /\ input'[Len(input) + 1] = h
        /\ \A i \in 1..Len(input) : input'[i] = input[i]
    BY <1>2, <2>1, AppendProperties, LenProperties
  <2>3. \A i \in 1..Len(input') : input'[i] \in ShortHeads /\ WithinHead(input'[i])
    BY DEF Uniform, WithinHead
  <2>4. Len(input) + 1 \in 1..Len(input') /\ \A i \in 1..Len(input) : i \in 1..Len(input')
    BY <2>2
  <2>5. h \in ShortHeads /\ WithinHead(h)
    BY <2>2, <2>3, <2>4
  <2>6. \A i \in 1..Len(input) : input[i] \in ShortHeads /\ WithinHead(input[i])
    BY <2>2, <2>3, <2>4
  <2> QED
    BY <2>5, <2>6 DEF Uniform
<1>4. /\ "reading" \notin Says /\ "reading on" \notin Says
      /\ "resource_limit" \in Says /\ "unsupported_cbor_type" \in Says
  BY DEF Says
<1>5. /\ RustValue(h) \in Says \cup {"reading"} /\ RustKey(h) \in Says \cup {"reading"}
      /\ PythonItem(h) \in Says \cup {"reading"}
  BY SaysOfHead
<1>6. /\ rust = "reading" => rust' = IF Top.key THEN RustKey(h) ELSE RustValue(h)
      /\ rust # "reading" => rust' = rust
      /\ python' = IF ~PythonReads THEN python
                   ELSE IF PythonItem(h) # "reading" THEN PythonItem(h)
                   ELSE IF Top.key /\ h.type # "text" THEN "reading on" ELSE python
      /\ rust' # "reading" /\ ~PythonReads' => stack' = stack
  BY DEF ReadsOf
<1>7. PythonReads <=> python \in {"reading", "reading on"}
  BY DEF PythonReads
<1>8. PythonReads' <=> python' \in {"reading", "reading on"}
  BY DEF PythonReads
<1>9. SayTheSame
  BY <1>3
<1>10. CASE rust = "reading" /\ python = "reading" /\ Top.key = FALSE
  <2>1. \/ RustValue(h) = PythonItem(h)
        \/ RustValue(h) = "unsupported_cbor_type" /\ PythonItem(h) # "reading"
    BY <1>3, <1>10, SameOfValue
  <2>2. rust' = RustValue(h)
    BY <1>6, <1>10
  <2>3. python' = PythonItem(h)
    BY <1>6, <1>7, <1>10
  <2> QED
    BY <1>5, <2>1, <2>2, <2>3 DEF SayTheSame
<1>11. CASE rust = "reading" /\ python = "reading" /\ Top.key = TRUE /\ h.type = "text"
  <2>1. Ordered(Top)
    <3>1. AllOrdered(stack) /\ Nested(stack) /\ Top = stack[Len(stack)]
      BY <1>1, <1>11 DEF PythonInOrder, StackOK, Top
    <3> QED
      BY <1>2, <1>11, <3>1 DEF AllOrdered, Nested
  <2>2. IF Level > DEPTH THEN PythonItem(h) = "resource_limit"
        ELSE RustKey(h) = PythonItem(h)
    BY <1>2, <1>3, <1>11, <2>1, SameOfKey
  <2>3. rust' = RustKey(h)
    BY <1>6, <1>11
  <2>4. python' = PythonItem(h)
    BY <1>6, <1>7, <1>11
  <2>5. CASE ~(Level > DEPTH)
    BY <1>5, <2>2, <2>3, <2>4, <2>5 DEF SayTheSame
  <2>6. CASE Level > DEPTH /\ rust' # "reading"
    <3>1. python' = "resource_limit" /\ rust' \in Says
      BY <1>5, <2>2, <2>3, <2>4, <2>6
    <3>2. stack' = stack
      BY <1>6, <1>8, <2>6, <3>1
    <3>3. Top'.key
      BY <1>11, <3>2 DEF Top
    <3> QED
      BY <3>1, <3>3 DEF SayTheSame
  <2>7. CASE Level > DEPTH /\ rust' = "reading"
    <3>1. python' = "resource_limit"
      BY <2>2, <2>4, <2>7
    <3>2. h \in ReadHeads /\ stack' = Deliver(stack, h, <<Short(h)>>)
          /\ <<Short(h)>> \in Seq(ShortHeads)
      BY <1>1, <1>11, <2>7, StackAfterHead
    <3>3. Stacked(stack) /\ Top = stack[Len(stack)]
      BY <1>1, StackedIs
    <3>4. Len(stack') = Len(stack) /\ stack'[Len(stack)] = Given(Top, h, <<Short(h)>>)
      BY <1>2, <3>2, <3>3, DeliverMeans
    <3>5. Given(Top, h, <<Short(h)>>) = Named(Top, h) /\ Top \in Frames
      BY <1>1, <1>11, StackType DEF Given
    <3>6. Top'.key = FALSE /\ Top'.left = Top.left /\ Level' = Level
      <4>1. Top' = Named(Top, h) /\ Level' = Level
        BY <3>4, <3>5 DEF Top, Level
      <4> QED
        BY <3>2, <3>5, <4>1, NamedMeans
    <3> QED
      BY <2>7, <3>1, <3>6 DEF SayTheSame
  <2> QED
    BY <2>5, <2>6, <2>7
<1>12. CASE rust = "reading" /\ python = "reading" /\ Top.key = TRUE /\ h.type # "text"
  <2>1. rust' = "unsupported_cbor_type"
    BY <1>3, <1>6, <1>12, OtherKeys
  <2>2. python' # "reading"
    BY <1>6, <1>7, <1>12
  <2> QED
    BY <2>1, <2>2 DEF SayTheSame
<1>13. CASE rust = "unsupported_cbor_type" /\ python # "reading"
  <2>1. rust' = "unsupported_cbor_type"
    BY <1>6, <1>13
  <2>2. python' # "reading"
    BY <1>6, <1>13
  <2> QED
    BY <2>1, <2>2 DEF SayTheSame
<1>14. CASE rust \in Says /\ (python = rust \/ python = "resource_limit")
  BY <1>4, <1>7, <1>14
<1>15. CASE rust = "reading" /\ python = "resource_limit" /\ Level > DEPTH /\ ~Top.key
  <2>1. RustValue(h) = "resource_limit"
    BY <1>15, RustValueIs
  <2>2. rust' = "resource_limit"
    BY <1>6, <1>15, <2>1
  <2>3. python' = "resource_limit"
    BY <1>6, <1>7, <1>15
  <2> QED
    BY <1>4, <2>2, <2>3 DEF SayTheSame
<1> QED
  BY <1>2, <1>9, <1>10, <1>11, <1>12, <1>13, <1>14, <1>15 DEF SayTheSame

LEMMA ReadHeadKeeps == ASSUME Reading, ReadHead PROVE Reading'
<1>1. PICK h : ReadsOf(h)
  BY ReadHeadReads
<1>2. Top.left > 0 /\ (rust = "reading" \/ PythonReads)
  BY ReadHeadReads
<1>3. CborTypeOK /\ StackOK /\ offset = Size(input) /\ PythonInOrder /\ EncoderFollows
      /\ (Uniform => SayTheSame) /\ Nested(stack)
  BY DEF Reading, StackOK
<1>4. CborTypeOK'
  BY <1>1, <1>2, <1>3, ReadKeepsTypes
<1>5. StackOK'
  BY <1>1, <1>2, <1>3, ReadKeepsStack
<1>6. (offset = Size(input))'
  BY <1>1, <1>3, ReadKeepsSize
<1>7. PythonInOrder'
  BY <1>1, <1>2, <1>3, ReadKeepsOrder
<1>8. EncoderFollows'
  BY <1>1, <1>2, <1>3, ReadKeepsEncoder
<1>9. (Uniform => SayTheSame)'
  BY <1>1, <1>2, <1>3, ReadKeepsSame
<1> QED
  BY <1>4, <1>5, <1>6, <1>7, <1>8, <1>9 DEF Reading

-----------------------------------------------------------------------------
(* An array or a map is complete *)

LEMMA CloseKeeps == ASSUME Reading, Close PROVE Reading'
<1> DEFINE n == Len(stack)
           r == Front(stack)
           F == r[Len(r)]
           h == Top.head
           e == <<Short(h)>> \o FlattenSeq(Top.done)
<1>1. CborTypeOK /\ StackOK /\ offset = Size(input) /\ PythonInOrder /\ EncoderFollows
      /\ (Uniform => SayTheSame) /\ Nested(stack)
  BY DEF Reading, StackOK
<1>2. /\ n > 1 /\ Top.left = 0 /\ (rust = "reading" \/ PythonReads)
      /\ stack' = Deliver(r, h, e)
      /\ python' = IF PythonReads /\ stack[n - 1].key THEN "unsupported_cbor_type" ELSE python
      /\ input' = input /\ offset' = offset /\ rust' = rust /\ encoder' = encoder
  BY DEF Close, Level
<1>3. Stacked(stack) /\ Top = stack[n] /\ Top \in Frames /\ n \in Nat
  BY <1>1, StackedIs, StackType
<1>4. h \in ReadHeads /\ e \in Seq(ShortHeads)
  <2>1. h \in ReadHeads /\ FlattenSeq(Top.done) \in Seq(ShortHeads)
    BY <1>3, PieceType DEF Frames
  <2> QED
    BY <2>1, EntryMeans
<1>5. /\ Stacked(r) /\ Nested(r) /\ F.left > 0 /\ F = stack[n - 1]
      /\ NoneIsKey(stack) => NoneIsKey(r) /\ ~F.key
  BY <1>1, <1>2, <1>3, FrontMeans, NestedFront
<1> HIDE DEF r, h, e
<1>6. Stacked(stack') /\ Nested(stack') /\ (NoneIsKey(r) => NoneIsKey(stack'))
  BY <1>2, <1>4, <1>5, DeliverMeans, NestedDeliver
<1>7. PythonReads <=> python \in {"reading", "reading on"}
  BY DEF PythonReads
<1>8. python' = "reading" => python = "reading" /\ ~F.key
  BY <1>2, <1>5, <1>7
<1>9. CborTypeOK'
  <2>1. "unsupported_cbor_type" \in Says
    BY DEF Says
  <2>2. python' \in Says \cup {"reading", "reading on"}
    BY <1>1, <1>2, <2>1 DEF CborTypeOK
  <2> QED
    BY <1>1, <1>2, <1>6, <2>2 DEF CborTypeOK, Stacked
<1>10. StackOK'
  <2>1. rust' = "reading" \/ python' = "reading" => NoneIsKey(stack)
    BY <1>1, <1>2, <1>8 DEF StackOK
  <2> QED
    BY <1>5, <1>6, <2>1 DEF StackOK
<1>11. (offset = Size(input))'
  BY <1>1, <1>2
<1>12. PythonInOrder'
  <2> SUFFICES ASSUME python' = "reading"
               PROVE  input' = FlattenSeq(Pieces(stack')) /\ AllOrdered(stack')
    BY DEF PythonInOrder
  <2>1. input = FlattenSeq(Pieces(stack)) /\ AllOrdered(stack) /\ ~F.key
    BY <1>1, <1>8 DEF PythonInOrder
  <2>2. AllOrdered(r) /\ FlattenSeq(Pieces(stack)) = FlattenSeq(Pieces(r)) \o e
    BY <1>1, <1>2, <1>3, <2>1, FrontInOrder DEF r, e, h
  <2>3. AllOrdered(stack') /\ FlattenSeq(Pieces(stack')) = FlattenSeq(Pieces(r)) \o e
    BY <1>2, <1>4, <1>5, <2>1, <2>2, DeliverInOrder
  <2> QED
    BY <1>2, <2>1, <2>2, <2>3
<1>13. EncoderFollows'
  <2>1. rust = "reading" => encoder = "reading"
    BY <1>1 DEF EncoderFollows
  <2>2. encoder = "reading" => rust = "reading"
    BY <1>1, <1>2 DEF EncoderFollows
  <2> QED
    BY <1>2, <2>1, <2>2 DEF EncoderFollows
<1>14. (Uniform => SayTheSame)'
  <2> SUFFICES ASSUME Uniform' PROVE SayTheSame'
    OBVIOUS
  <2>1. Uniform
    BY <1>2 DEF Uniform, WithinHead
  <2>2. SayTheSame
    BY <1>1, <2>1
  <2>3. CASE rust = "reading" /\ python = "reading"
    <3>1. ~F.key
      BY <1>1, <1>5, <2>3 DEF StackOK
    <3> QED
      BY <1>2, <1>5, <2>3, <3>1 DEF SayTheSame
  <2>4. CASE rust = "unsupported_cbor_type" /\ python # "reading"
    BY <1>2, <1>8, <2>4 DEF SayTheSame
  <2>5. CASE rust \in Says /\ (python = rust \/ python = "resource_limit")
    <3>1. "reading" \notin Says /\ "reading on" \notin Says
      BY DEF Says
    <3> QED
      BY <1>2, <1>7, <2>5, <3>1
  <2>6. CASE Top.left > 0
    BY <1>2, <2>6
  <2> QED
    BY <2>2, <2>3, <2>4, <2>5, <2>6 DEF SayTheSame
<1> QED
  BY <1>9, <1>10, <1>11, <1>12, <1>13, <1>14 DEF Reading

-----------------------------------------------------------------------------
(* The input ends *)

\* A document that Python reads to its end is the encoding of its value.
LEMMA PythonReadsEncoding ==
    ASSUME Reading, python = "reading", Complete
    PROVE  input = Value
<1>1. CborTypeOK /\ Nested(stack) /\ Len(stack) = 1 /\ Top.left = 0
      /\ input = FlattenSeq(Pieces(stack)) /\ Stacked(stack)
  BY StackedIs DEF Reading, StackOK, PythonInOrder, Complete
<1>2. stack[1].left = 0
  BY <1>1 DEF Top
<1> QED
  BY <1>1, <1>2, CompleteInOrder DEF Value

\* What is written is of short heads.
LEMMA ValueIsShort ==
    ASSUME Reading, Complete
    PROVE  Value \in Seq(ShortHeads)
<1>1. Nested(stack) /\ Len(stack) = 1 /\ Top.left = 0 /\ Stacked(stack)
  BY StackedIs DEF Reading, StackOK, Complete
<1>2. stack[1].left = 0
  BY <1>1 DEF Top
<1> QED
  BY <1>1, <1>2, CompleteInOrder DEF Value

\* At the end, the decoders that still read are at the end of the document or have
\* something left to read.
EndsOf(rest) ==
    /\ rest \in 0..2
    /\ rust = "reading" \/ PythonReads => Top.left > 0 \/ Len(stack) = 1
    /\ rust' = RustEnd(rest) /\ python' = PythonEnd(rest) /\ encoder' = EncoderEnd
    /\ offset' = offset + rest
    /\ input' = input /\ stack' = stack /\ closed'

LEMMA EndEnds == ASSUME End PROVE \E rest : EndsOf(rest)
<1>1. PICK rest \in 0..2 : rust' = RustEnd(rest) /\ python' = PythonEnd(rest)
                           /\ encoder' = EncoderEnd /\ offset' = offset + rest
  BY DEF End
<1>2. EndsOf(rest)
  BY <1>1 DEF End, EndsOf
<1> QED
  BY <1>2

LEMMA EndMeans ==
    ASSUME Reading, NEW rest, EndsOf(rest)
    PROVE  /\ rest \in Nat /\ offset \in Nat /\ Top.left \in Nat /\ Top.key \in BOOLEAN
           /\ RUST.bytes \in Nat /\ PYTHON.bytes \in Nat
           /\ (Complete <=> Complete') /\ Value' = Value /\ Top' = Top
           /\ rust = "reading" /\ Top.left = 0 => Complete
           /\ PythonReads /\ Top.left = 0 => Complete
<1>1. Top.left \in Nat /\ Top.key \in BOOLEAN /\ offset \in Nat
  BY StackType DEF Reading, CborTypeOK
<1>2. RUST.bytes \in Nat /\ PYTHON.bytes \in Nat
  BY LimitsAssumption
<1>3. (Complete <=> Complete') /\ Value' = Value /\ Top' = Top
  BY DEF EndsOf, Complete, Value, Top
<1>4. rest \in Nat
  BY DEF EndsOf
<1>5. (rust = "reading" \/ PythonReads) /\ Top.left = 0 => Complete
  BY <1>1 DEF EndsOf, Complete
<1> QED
  BY <1>1, <1>2, <1>3, <1>4, <1>5

LEMMA RustAcceptsMeans ==
    ASSUME Reading, NEW rest, EndsOf(rest)
    PROVE  rust' = "accepted" <=>
             /\ rust = "reading" /\ Complete /\ rest = 0 /\ Value = input
             /\ offset <= RUST.bytes /\ input[1].type \in {"map", "array"}
<1>1. CborTypeOK
  BY DEF Reading
<1>2. /\ rest \in Nat /\ offset \in Nat /\ Top.left \in Nat /\ RUST.bytes \in Nat
      /\ rust = "reading" /\ Top.left = 0 => Complete
      /\ Complete => Top.left = 0
  BY EndMeans DEF Complete
<1>3. rust # "accepted"
  BY <1>1 DEF CborTypeOK, Says
<1>4. rust' = RustEnd(rest)
  BY DEF EndsOf
<1> DEFINE deep == Top.left > 0 /\ ~Top.key /\ Level > DEPTH
           other == input[1].type \notin {"map", "array"}
           differs == Value # input
<1>5. RustEnd(rest) =
        IF offset + rest > RUST.bytes THEN "resource_limit"
        ELSE IF rust # "reading" THEN rust
        ELSE IF deep THEN "resource_limit"
        ELSE IF Top.left > 0 \/ rest > 0 THEN "malformed_cbor"
        ELSE IF Complete /\ differs THEN "non_deterministic_cbor"
        ELSE IF Complete /\ other THEN "manifest_policy_invalid" ELSE "accepted"
  BY <1>1, RustEndIs
<1>6. deep => Top.left > 0
  OBVIOUS
<1> HIDE DEF deep, other, differs
<1>7. rust' = "accepted" <=>
        /\ rust = "reading" /\ Complete /\ rest = 0 /\ ~differs
        /\ offset <= RUST.bytes /\ ~other
  BY <1>2, <1>3, <1>4, <1>5, <1>6
<1> QED
  BY <1>7 DEF other, differs

LEMMA PythonAcceptsMeans ==
    ASSUME Reading, NEW rest, EndsOf(rest)
    PROVE  python' = "accepted" <=>
             /\ python = "reading" /\ Complete /\ rest = 0
             /\ offset <= PYTHON.bytes /\ input[1].type = "map"
<1>1. CborTypeOK
  BY DEF Reading
<1>2. /\ rest \in Nat /\ offset \in Nat /\ Top.left \in Nat /\ PYTHON.bytes \in Nat
      /\ PythonReads /\ Top.left = 0 => Complete
      /\ Complete => Top.left = 0
  BY EndMeans DEF Complete
<1>3. python # "accepted" /\ (python = "reading" <=> PythonReads /\ python # "reading on")
  BY <1>1 DEF CborTypeOK, Says, PythonReads
<1>4. python' = PythonEnd(rest)
  BY DEF EndsOf
<1> DEFINE deep == Top.left > 0 /\ Level > DEPTH
           other == input[1].type # "map"
           big == offset + rest > PYTHON.bytes
           more == Top.left > 0 \/ rest > 0
<1>5. PythonEnd(rest) =
        IF big THEN "resource_limit"
        ELSE IF ~PythonReads THEN python
        ELSE IF deep THEN "resource_limit"
        ELSE IF more THEN "malformed_cbor"
        ELSE IF Complete /\ other THEN "manifest_policy_invalid"
        ELSE IF python = "reading on" THEN "unsupported_cbor_type" ELSE "accepted"
  BY <1>1, PythonEndIs
<1>6. /\ deep => more
      /\ ~more <=> Top.left = 0 /\ rest = 0
      /\ rest = 0 => (~big <=> offset <= PYTHON.bytes)
  BY <1>2
<1> HIDE DEF deep, other, big, more
<1>7. python' = "accepted" <=>
        ~big /\ python = "reading" /\ ~deep /\ ~more /\ ~(Complete /\ other)
  BY <1>3, <1>4, <1>5
<1>8. python' = "accepted" <=>
        /\ python = "reading" /\ Complete /\ rest = 0
        /\ offset <= PYTHON.bytes /\ ~other
  BY <1>2, <1>3, <1>6, <1>7
<1> QED
  BY <1>8 DEF other

LEMMA EncoderAcceptsMeans ==
    ASSUME Reading, NEW rest, EndsOf(rest)
    PROVE  encoder' = "accepted" <=>
             encoder = "reading" /\ Complete /\ ~(Size(Value) > RUST.bytes)
<1>1. CborTypeOK
  BY DEF Reading
<1>2. encoder # "accepted" /\ encoder' = EncoderEnd
  BY <1>1 DEF CborTypeOK, Says, EndsOf
<1> DEFINE large == Size(Value) > RUST.bytes
<1>3. EncoderEnd = IF encoder # "reading" THEN encoder
                   ELSE IF ~Complete THEN "no value"
                   ELSE IF Complete /\ large THEN "resource_limit" ELSE "accepted"
  BY <1>1, EncoderEndIs
<1> HIDE DEF large
<1>4. encoder' = "accepted" <=> encoder = "reading" /\ Complete /\ ~large
  BY <1>2, <1>3
<1> QED
  BY <1>4 DEF large

\* Within the limits, input of short heads only is uniform.
LEMMA UniformMeans ==
    ASSUME Reading, NEW rest, EndsOf(rest), WithinBoth',
           \A i \in 1..Len(input) : input[i].form = "short" /\ input[i].cut = "no"
    PROVE  SayTheSame
<1>1. input \in Seq(Heads) /\ (Uniform => SayTheSame)
  BY DEF Reading, CborTypeOK
<1>2. ASSUME NEW i \in 1..Len(input) PROVE input[i] \in ShortHeads /\ WithinHead(input[i])
  <2>1. input[i] \in Heads
    BY <1>1, ElementOfSeq
  <2>2. /\ input[i].type = "map" =>
              input[i].arg <= RUST.pairs /\ input[i].arg <= PYTHON.pairs
        /\ input[i].type = "text" =>
              TEXT[input[i].arg] <= RUST.text /\ TEXT[input[i].arg] <= PYTHON.text
    BY DEF WithinBoth, EndsOf
  <2> QED
    BY <2>1, <2>2 DEF ShortHeads, ReadHeads, WithinHead
<1> QED
  BY <1>1, <1>2 DEF Uniform

\* What is its own encoding is of short heads.
LEMMA EncodingIsUniform ==
    ASSUME Reading, Complete, input = Value
    PROVE  \A i \in 1..Len(input) : input[i].form = "short" /\ input[i].cut = "no"
<1>1. input \in Seq(ShortHeads)
  BY ValueIsShort
<1> TAKE i \in 1..Len(input)
<1>2. input[i] \in ShortHeads
  BY <1>1, ElementOfSeq
<1> QED
  BY <1>2 DEF ShortHeads, ReadHeads

LEMMA EndIsUnique ==
    ASSUME Reading, NEW rest, EndsOf(rest)
    PROVE  EncodingIsUnique'
<1>1. /\ input' = input /\ Value' = Value /\ (Complete <=> Complete')
      /\ offset' = offset + rest /\ rest \in Nat /\ offset \in Nat /\ RUST.bytes \in Nat
  BY EndMeans DEF EndsOf
<1>2. offset = Size(input) /\ EncoderFollows
  BY DEF Reading
<1>3. ASSUME python' = "accepted" PROVE input = Value
  BY <1>3, PythonAcceptsMeans, PythonReadsEncoding
<1>4. ASSUME rust' = "accepted" PROVE encoder' = "accepted"
  <2>1. rust = "reading" /\ Complete /\ Value = input /\ offset <= RUST.bytes
    BY <1>4, RustAcceptsMeans
  <2>2. ~(Size(Value) > RUST.bytes)
    BY <1>1, <1>2, <2>1
  <2> QED
    BY <1>2, <2>1, <2>2, EncoderAcceptsMeans DEF EncoderFollows
<1>5. ASSUME Complete, encoder' = "accepted", input = Value, offset' = Size(Value),
             input[1].type \in {"map", "array"}
      PROVE  rust' = "accepted"
  <2>1. encoder = "reading" /\ ~(Size(Value) > RUST.bytes)
    BY <1>5, EncoderAcceptsMeans
  <2>2. rest = 0 /\ offset <= RUST.bytes
    BY <1>1, <1>2, <1>5, <2>1
  <2>3. rust = "reading"
    <3>1. ~(Top.left > 0)
      BY <1>5 DEF Complete
    <3> QED
      BY <1>2, <2>1, <3>1 DEF EncoderFollows
  <2> QED
    BY <1>5, <2>2, <2>3, RustAcceptsMeans
<1> QED
  BY <1>1, <1>3, <1>4, <1>5 DEF EncodingIsUnique

\* The same reason, for an input of uniform heads within the limits.
LEMMA EndSaysTheSame ==
    ASSUME Reading, NEW rest, EndsOf(rest), offset' <= RUST.bytes, offset' <= PYTHON.bytes,
           SayTheSame
    PROVE  \/ rust' \in {python', "unsupported_cbor_type"}
           \/ python' = "manifest_policy_invalid"
           \/ python' = "resource_limit" /\ Top'.key
<1>1. CborTypeOK
  BY DEF Reading
<1>2. /\ rest \in Nat /\ offset \in Nat /\ Top.left \in Nat /\ Top.key \in BOOLEAN
      /\ RUST.bytes \in Nat /\ PYTHON.bytes \in Nat
      /\ rust = "reading" /\ Top.left = 0 => Complete
      /\ Complete => Top.left = 0
      /\ Top' = Top
  BY EndMeans DEF Complete
<1> DEFINE deep == Level > DEPTH
           more == Top.left > 0 \/ rest > 0
           open == Top.left > 0
           key == Top.key = TRUE
           same == Value = input
<1>3. ~(offset + rest > RUST.bytes) /\ ~(offset + rest > PYTHON.bytes)
  BY <1>2 DEF EndsOf
<1>4. rust' = IF rust # "reading" THEN rust
              ELSE IF open /\ ~key /\ deep THEN "resource_limit"
              ELSE IF more THEN "malformed_cbor"
              ELSE IF Complete /\ ~same THEN "non_deterministic_cbor"
              ELSE IF Complete /\ input[1].type \notin {"map", "array"}
              THEN "manifest_policy_invalid" ELSE "accepted"
  BY <1>1, <1>2, <1>3, RustEndIs DEF EndsOf
<1>5. python' = IF ~PythonReads THEN python
                ELSE IF open /\ deep THEN "resource_limit"
                ELSE IF more THEN "malformed_cbor"
                ELSE IF Complete /\ input[1].type # "map" THEN "manifest_policy_invalid"
                ELSE IF python = "reading on" THEN "unsupported_cbor_type" ELSE "accepted"
  BY <1>1, <1>3, PythonEndIs DEF EndsOf
<1>6. python = "reading" /\ Complete => same
  BY PythonReadsEncoding
<1>7. PythonReads <=> python \in {"reading", "reading on"}
  BY DEF PythonReads
<1>8. "reading" \notin Says /\ "reading on" \notin Says
  BY DEF Says
<1>9. ~more => ~open
  OBVIOUS
<1>10. CASE rust = "reading" /\ python = "reading"
  <2>1. CASE open /\ deep /\ key
    <3>1. python' = "resource_limit"
      BY <1>5, <1>7, <1>10, <2>1
    <3> QED
      BY <1>2, <2>1, <3>1
  <2>2. CASE open /\ deep /\ ~key
    BY <1>4, <1>5, <1>7, <1>10, <2>2
  <2>3. CASE ~(open /\ deep) /\ more
    <3> HIDE DEF open, deep, more, key, same
    <3> QED
      BY <1>4, <1>5, <1>7, <1>10, <2>3
  <2>4. CASE ~more
    <3>1. Complete /\ same
      BY <1>2, <1>6, <1>10, <2>4
    <3> HIDE DEF open, deep, more, key, same
    <3> QED
      BY <1>4, <1>5, <1>7, <1>9, <1>10, <2>4, <3>1
  <2> HIDE DEF open, deep, more, key, same
  <2> QED
    BY <2>1, <2>2, <2>3, <2>4
<1>11. CASE rust = "unsupported_cbor_type"
  BY <1>4, <1>11
<1>12. CASE rust \in Says /\ python = rust
  BY <1>4, <1>5, <1>7, <1>8, <1>12
<1>13. CASE rust \in Says /\ python = "resource_limit" /\ Top.key
  BY <1>2, <1>5, <1>7, <1>13
<1>14. CASE rust = "reading" /\ python = "resource_limit" /\ Level > DEPTH /\ ~Top.key
            /\ Top.left > 0
  BY <1>2, <1>4, <1>5, <1>7, <1>14
<1> QED
  BY <1>10, <1>11, <1>12, <1>13, <1>14 DEF SayTheSame

LEMMA EndAgrees ==
    ASSUME Reading, NEW rest, EndsOf(rest)
    PROVE  DecodersAgree'
<1> SUFFICES ASSUME WithinBoth'
             PROVE  /\ python' = "accepted" => rust' = "accepted"
                    /\ rust' = "accepted" => python' = "accepted" \/ input[1].type = "array"
                    /\ (\A i \in 1..Len(input) :
                          input[i].form = "short" /\ input[i].cut = "no")
                         => \/ rust' \in {python', "unsupported_cbor_type"}
                            \/ python' = "manifest_policy_invalid"
                            \/ python' = "resource_limit" /\ Top'.key
  BY DEF DecodersAgree, EndsOf
<1>1. /\ offset' <= RUST.bytes /\ offset' <= PYTHON.bytes
      /\ offset' = offset + rest /\ rest \in Nat /\ offset \in Nat
      /\ RUST.bytes \in Nat /\ PYTHON.bytes \in Nat
  BY EndMeans DEF WithinBoth, EndsOf
<1>2. offset <= RUST.bytes /\ offset <= PYTHON.bytes
  BY <1>1
<1>3. "reading" \notin Says
  BY DEF Says
<1>4. ASSUME python' = "accepted" PROVE rust' = "accepted"
  <2>1. python = "reading" /\ Complete /\ rest = 0 /\ input[1].type = "map"
    BY <1>4, PythonAcceptsMeans
  <2>2. input = Value
    BY <2>1, PythonReadsEncoding
  <2>3. SayTheSame
    BY <2>1, <2>2, EncodingIsUniform, UniformMeans
  <2>4. rust = "reading"
    BY <1>3, <2>1, <2>3 DEF SayTheSame
  <2> QED
    BY <1>2, <2>1, <2>2, <2>4, RustAcceptsMeans
<1>5. ASSUME rust' = "accepted" PROVE python' = "accepted" \/ input[1].type = "array"
  <2>1. rust = "reading" /\ Complete /\ rest = 0 /\ Value = input
        /\ input[1].type \in {"map", "array"}
    BY <1>5, RustAcceptsMeans
  <2>2. SayTheSame
    BY <2>1, EncodingIsUniform, UniformMeans
  <2>3. ~(Top.left > 0)
    BY <2>1 DEF Complete
  <2>4. python = "reading"
    BY <1>3, <2>1, <2>2, <2>3 DEF SayTheSame
  <2> QED
    BY <1>2, <2>1, <2>4, PythonAcceptsMeans
<1>6. ASSUME \A i \in 1..Len(input) : input[i].form = "short" /\ input[i].cut = "no"
      PROVE  \/ rust' \in {python', "unsupported_cbor_type"}
             \/ python' = "manifest_policy_invalid"
             \/ python' = "resource_limit" /\ Top'.key
  BY <1>1, <1>6, UniformMeans, EndSaysTheSame
<1> QED
  BY <1>4, <1>5, <1>6

-----------------------------------------------------------------------------
(* Theorems *)

LEMMA InvAtSteps == CInv /\ [CNext]_cvars => CInv'
<1> SUFFICES ASSUME CInv, [CNext]_cvars PROVE CInv'
  OBVIOUS
<1>1. CASE UNCHANGED cvars
  BY <1>1 DEF cvars, CInv, EncodingIsUnique, DecodersAgree, WithinBoth, Complete, Value, Top,
     Reading, CborTypeOK, StackOK, PythonInOrder, EncoderFollows, Uniform, SayTheSame, Level,
     PythonReads
<1>2. CASE ReadHead
  <2>1. Reading /\ ~closed'
    BY <1>2 DEF CInv, ReadHead
  <2> QED
    BY <1>2, <2>1, ReadHeadKeeps DEF CInv
<1>3. CASE Close
  <2>1. Reading /\ ~closed'
    BY <1>3 DEF CInv, Close
  <2> QED
    BY <1>3, <2>1, CloseKeeps DEF CInv
<1>4. CASE End
  <2>1. Reading /\ closed'
    BY <1>4 DEF CInv, End
  <2>2. EncodingIsUnique' /\ DecodersAgree'
    BY <1>4, <2>1, EndEnds, EndIsUnique, EndAgrees
  <2> QED
    BY <2>1, <2>2 DEF CInv
<1> QED
  BY <1>1, <1>2, <1>3, <1>4 DEF CNext

\* What the decoders make of the heads of an input, at every moment before its end: the
\* stack, what has been kept of it, and how far the three have parted.
THEOREM InvariantStays == CSpec => []CInv
<1> QED
  BY InvAtInit, InvAtSteps, PTL DEF CSpec

\* A value has one encoding: what Python accepts is what encode_value writes, what the Rust
\* decoder accepts the Rust encoder would have written, and takes back, up to every limit.
THEOREM EncodingStaysUnique == CSpec => []EncodingIsUnique
<1>1. CInv => EncodingIsUnique
  BY DEF CInv, EncodingIsUnique
<1> QED
  BY <1>1, InvariantStays, PTL

\* _decode_cbor_document and decode_manifest_cbor of tfws-core accept the same inputs, as far
\* as their limits agree, and give the same reasons.
THEOREM DecodersStayAgreed == CSpec => []DecodersAgree
<1>1. CInv => DecodersAgree
  BY DEF CInv, DecodersAgree
<1> QED
  BY <1>1, InvariantStays, PTL
=============================================================================
