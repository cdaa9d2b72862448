--------------------------- MODULE EventLogProofs ---------------------------
(***************************************************************************)
(* Theorems about EventLog, for any set of writers and of identities.      *)
(***************************************************************************)
EXTENDS EventLog, FiniteSetTheorems, SequenceTheorems, WellFoundedInduction, TLAPS

-----------------------------------------------------------------------------
(* Sets of naturals *)

\* Every non-empty set of naturals has a least element: the form in which
\* induction on Nat is used below.
LEMMA LeastNatural ==
    ASSUME NEW S \in SUBSET Nat, S # {}
    PROVE  \E n \in S : \A m \in S : n <= m
<1> DEFINE T == {1..n : n \in S}
<1>1. T \subseteq FiniteSubsetsOf(Nat) /\ T # {}
  <2>1. \A n \in S : 1..n \in FiniteSubsetsOf(Nat)
    BY FS_Interval DEF FiniteSubsetsOf
  <2> QED
    BY <2>1
<1>2. PICK x \in T : \A y \in T : ~(<<y, x>> \in StrictSubsetOrdering(Nat))
  BY <1>1, FS_StrictSubsetOrderingWellFounded, WFMin
<1>3. PICK n \in S : x = 1..n
  OBVIOUS
<1>4. ASSUME NEW m \in S, m < n
      PROVE  FALSE
  <2>1. 1..m \subseteq 1..n /\ n \in 1..n /\ n \notin 1..m
    BY <1>4
  <2>2. <<1..m, 1..n>> \in StrictSubsetOrdering(Nat)
    BY <2>1 DEF StrictSubsetOrdering
  <2> QED
    BY <1>2, <1>3, <2>2
<1> QED
  BY <1>4

\* Every non-empty set of naturals with a bound has a maximum.
LEMMA MaxOfBounded ==
    ASSUME NEW S \in SUBSET Nat, S # {}, NEW b \in Nat, \A m \in S : m <= b
    PROVE  Max(S) \in S /\ \A m \in S : Max(S) >= m
<1> DEFINE D == {b - m : m \in S}
<1>1. D \in SUBSET Nat /\ D # {}
  <2>1. \A m \in S : b - m \in Nat
    OBVIOUS
  <2> QED
    BY <2>1
<1>2. PICK d \in D : \A c \in D : d <= c
  BY <1>1, LeastNatural
<1>3. PICK x \in S : d = b - x
  OBVIOUS
<1>4. \A m \in S : x >= m
  <2> TAKE m \in S
  <2>1. b - m \in D
    OBVIOUS
  <2>2. b - x <= b - m
    BY <1>2, <1>3, <2>1
  <2> QED
    BY <2>2
<1> QED
  BY <1>4 DEF Max

-----------------------------------------------------------------------------
(* Files *)

LEMMA TextType ==
    ASSUME NEW e \in Event
    PROVE  /\ Text(e) \in Seq(Piece) /\ Len(Text(e)) = 2
           /\ Text(e)[1].event = e /\ Text(e)[2].event = e
BY DEF Text, Piece

LEMMA FileFacts ==
    ASSUME NEW f \in File
    PROVE  /\ f \in Seq(Seq(Piece)) /\ Len(f) \in Nat \ {0}
           /\ \A i \in 1..Len(f) : f[i] \in Seq(Piece)
BY DEF File

LEMMA EmptyType == Empty \in File
BY DEF Empty, File

\* A sequence is a prefix of every concatenation it begins.
LEMMA PrefixOfConcat ==
    ASSUME NEW S, NEW s \in Seq(S), NEW t \in Seq(S)
    PROVE  SubSeq(s \o t, 1, Len(s)) = s
<1>1. Len(s) \in Nat /\ Len(t) \in Nat
  BY LenProperties
<1>2. \A i \in 1..Len(s) : (s \o t)[i] = s[i] /\ s[i] \in S
  BY <1>1, ConcatProperties, LenProperties
<1>3. /\ SubSeq(s \o t, 1, Len(s)) \in Seq(S)
      /\ Len(SubSeq(s \o t, 1, Len(s))) = Len(s)
      /\ \A i \in 1..Len(s) : SubSeq(s \o t, 1, Len(s))[i] = s[i]
  BY <1>1, <1>2, SubSeqProperties
<1> QED
  BY <1>3, SeqEqual

LEMMA ExtendsReflexive ==
    ASSUME NEW f \in File
    PROVE  Extends(f, f)
<1>1. f[Len(f)] \in Seq(Piece) /\ Len(f) \in Nat \ {0}
  BY FileFacts
<1>2. SubSeq(f[Len(f)], 1, Len(f[Len(f)])) = f[Len(f)] /\ Len(f[Len(f)]) \in Nat
  BY <1>1, SubSeqFull, LenProperties
<1> QED
  BY <1>1, <1>2 DEF Extends

\* Extends, line by line: all but the last line of the prefix are unchanged,
\* and the last one is a prefix of the line that took its place.
LEMMA ExtendsPointwise ==
    ASSUME NEW f \in File, NEW g \in File
    PROVE  Extends(g, f) <=>
             /\ Len(g) <= Len(f)
             /\ \A i \in 1..(Len(g) - 1) : f[i] = g[i]
             /\ Len(g[Len(g)]) <= Len(f[Len(g)])
             /\ \A j \in 1..Len(g[Len(g)]) : f[Len(g)][j] = g[Len(g)][j]
<1> SUFFICES ASSUME Len(g) <= Len(f), Len(g[Len(g)]) <= Len(f[Len(g)])
             PROVE  g[Len(g)] = SubSeq(f[Len(g)], 1, Len(g[Len(g)]))
                    <=> \A j \in 1..Len(g[Len(g)]) : f[Len(g)][j] = g[Len(g)][j]
  BY DEF Extends
<1> DEFINE a == g[Len(g)]  b == f[Len(g)]
<1>1. Len(g) \in 1..Len(f) /\ Len(g) \in 1..Len(g)
  BY FileFacts
<1>2. a \in Seq(Piece) /\ b \in Seq(Piece)
  BY <1>1, FileFacts
<1> HIDE DEF a, b
<1>3. /\ Len(a) \in Nat /\ Len(b) \in Nat
      /\ \A j \in 1..Len(b) : b[j] \in Piece
  BY <1>2, LenProperties
<1> SUFFICES ASSUME Len(a) <= Len(b)
             PROVE  a = SubSeq(b, 1, Len(a)) <=> \A j \in 1..Len(a) : b[j] = a[j]
  BY DEF a, b
<1>4. /\ SubSeq(b, 1, Len(a)) \in Seq(Piece)
      /\ Len(SubSeq(b, 1, Len(a))) = Len(a)
      /\ \A j \in 1..Len(a) : SubSeq(b, 1, Len(a))[j] = b[j]
  BY <1>3, SubSeqProperties
<1>5. ASSUME \A j \in 1..Len(a) : b[j] = a[j]
      PROVE  a = SubSeq(b, 1, Len(a))
  BY <1>2, <1>4, <1>5, SeqEqual
<1> QED
  BY <1>4, <1>5

LEMMA ExtendsTransitive ==
    ASSUME NEW f \in File, NEW g \in File, NEW h \in File,
           Extends(f, g), Extends(g, h)
    PROVE  Extends(f, h)
<1>1. Len(f) \in Nat \ {0} /\ Len(g) \in Nat \ {0} /\ Len(h) \in Nat \ {0}
  BY FileFacts
<1>2. \A x \in {f, g, h} : \A i \in 1..Len(x) : Len(x[i]) \in Nat
  BY FileFacts, LenProperties
<1>3. Len(f) <= Len(h) /\ \A i \in 1..(Len(f) - 1) : h[i] = f[i]
  BY <1>1, ExtendsPointwise
<1>4. CASE Len(f) = Len(g)
  <2> DEFINE n == Len(f)
  <2>1. /\ Len(f[n]) <= Len(g[n]) /\ \A j \in 1..Len(f[n]) : g[n][j] = f[n][j]
        /\ Len(g[n]) <= Len(h[n]) /\ \A j \in 1..Len(g[n]) : h[n][j] = g[n][j]
    BY <1>4, ExtendsPointwise
  <2>2. Len(f[n]) \in Nat /\ Len(g[n]) \in Nat /\ Len(h[n]) \in Nat
    BY <1>1, <1>2, <1>3, <1>4
  <2>3. Len(f[n]) <= Len(h[n]) /\ \A j \in 1..Len(f[n]) : h[n][j] = f[n][j]
    BY <2>1, <2>2
  <2> QED
    BY <1>3, <2>3, ExtendsPointwise
<1>5. CASE Len(f) < Len(g)
  <2>1. h[Len(f)] = g[Len(f)]
    BY <1>1, <1>5, ExtendsPointwise
  <2> QED
    BY <1>1, <1>2, <1>3, <2>1, ExtendsPointwise
<1> QED
  BY <1>1, <1>4, <1>5, ExtendsPointwise

\* What a file has, every extension of it has.
LEMMA HasMonotone ==
    ASSUME NEW f \in File, NEW g \in File, Extends(g, f), NEW x, Has(g, x)
    PROVE  Has(f, x)
<1>1. PICK i \in 1..Len(g) : \E j \in 1..Len(g[i]) : g[i][j] = x
  BY DEF Has
<1>2. PICK j \in 1..Len(g[i]) : g[i][j] = x
  BY <1>1
<1>3. Len(g) \in Nat \ {0} /\ Len(f) \in Nat \ {0} /\ Len(g) <= Len(f)
  BY FileFacts, ExtendsPointwise
<1>4. Len(g[i]) \in Nat /\ Len(f[i]) \in Nat
  BY <1>3, FileFacts, LenProperties
<1>5. Len(g[i]) <= Len(f[i]) /\ f[i][j] = g[i][j]
  <2>1. CASE i < Len(g)
    <3>1. i \in 1..(Len(g) - 1)
      BY <1>3, <2>1
    <3>2. f[i] = g[i]
      BY <3>1, ExtendsPointwise
    <3> QED
      BY <1>4, <3>2
  <2>2. CASE i = Len(g)
    BY <2>2, ExtendsPointwise
  <2> QED
    BY <1>3, <2>1, <2>2
<1> QED
  BY <1>2, <1>3, <1>4, <1>5 DEF Has

\* Ending a line gives a file that extends the one before.
LEMMA AppendBlank ==
    ASSUME NEW f \in File
    PROVE  Append(f, <<>>) \in File /\ Extends(f, Append(f, <<>>))
<1> DEFINE L == Seq(Piece)
<1>1. f \in Seq(L) /\ <<>> \in L /\ Len(f) \in Nat \ {0}
  BY FileFacts
<1> HIDE DEF L
<1>2. /\ Append(f, <<>>) \in Seq(L)
      /\ Append(f, <<>>) # <<>>
      /\ Len(Append(f, <<>>)) = Len(f) + 1
      /\ \A i \in 1..Len(f) : Append(f, <<>>)[i] = f[i]
  BY <1>1, AppendProperties
<1>3. Append(f, <<>>) \in File
  BY <1>2 DEF File, L
<1>4. f[Len(f)] \in Seq(Piece) /\ Len(f[Len(f)]) \in Nat
  BY FileFacts, LenProperties
<1> DEFINE g == Append(f, <<>>)
<1> HIDE DEF g
<1>5. /\ g \in File /\ Len(f) <= Len(g)
      /\ g[Len(f)] = f[Len(f)] /\ \A i \in 1..(Len(f) - 1) : g[i] = f[i]
  BY <1>1, <1>2, <1>3 DEF g
<1>6. Extends(f, g)
  BY <1>4, <1>5, ExtendsPointwise
<1> QED
  BY <1>3, <1>6 DEF g

\* Landing more of a line gives a file that extends the one before.
LEMMA LandExtends ==
    ASSUME NEW f \in File, NEW e \in Event, NEW from \in 0..2,
           NEW to \in (from + 1)..3
    PROVE  Land(f, e, from, to) \in File /\ Extends(f, Land(f, e, from, to))
<1> DEFINE hi == IF to < 2 THEN to ELSE 2
           new == SubSeq(Text(e), from + 1, hi)
           last == f[Len(f)] \o new
           g == [f EXCEPT ![Len(f)] = last]
<1>1. f \in Seq(Seq(Piece)) /\ Len(f) \in Nat \ {0} /\ f[Len(f)] \in Seq(Piece)
  BY FileFacts
<1>2. new \in Seq(Piece)
  BY TextType
<1> HIDE DEF new
<1>3. last \in Seq(Piece) /\ Len(last) >= Len(f[Len(f)])
  <2>1. Len(new) \in Nat /\ Len(f[Len(f)]) \in Nat
    BY <1>1, <1>2, LenProperties
  <2> QED
    BY <1>1, <1>2, <2>1, ConcatProperties
<1>4. SubSeq(last, 1, Len(f[Len(f)])) = f[Len(f)]
  BY <1>1, <1>2, PrefixOfConcat
<1> HIDE DEF last
<1>5. g \in Seq(Seq(Piece)) /\ Len(g) = Len(f) /\ g[Len(f)] = last
      /\ \A i \in 1..(Len(f) - 1) : g[i] = f[i]
  BY <1>1, <1>3, ExceptSeq
<1> HIDE DEF g
<1>6. g \in File /\ Extends(f, g)
  BY <1>1, <1>3, <1>4, <1>5 DEF File, Extends
<1>7. Append(g, <<>>) \in File /\ Extends(f, Append(g, <<>>))
  BY <1>6, AppendBlank, ExtendsTransitive
<1> QED
  BY <1>6, <1>7 DEF Land, g, last, new

\* The parts of a line that have landed are in the file.
LEMMA LandHas ==
    ASSUME NEW f \in File, NEW e \in Event, NEW from \in 0..2,
           NEW to \in (from + 1)..3, NEW n \in (from + 1)..to, n <= 2
    PROVE  Has(Land(f, e, from, to), Text(e)[n])
<1> DEFINE hi == IF to < 2 THEN to ELSE 2
           new == SubSeq(Text(e), from + 1, hi)
           old == f[Len(f)]
           last == old \o new
           g == [f EXCEPT ![Len(f)] = last]
<1>1. f \in Seq(Seq(Piece)) /\ Len(f) \in Nat \ {0} /\ old \in Seq(Piece)
  BY FileFacts
<1>2. /\ new \in Seq(Piece) /\ Len(new) = hi - from
      /\ new[n - from] = Text(e)[n]
  <2>1. /\ from + 1 \in Int /\ hi \in Int /\ from + 1 <= hi /\ hi <= 2
        /\ n - from \in 1..(hi - (from + 1) + 1)
    OBVIOUS
  <2>2. \A i \in (from + 1)..hi : Text(e)[i] \in Piece
    BY <2>1, TextType
  <2>3. /\ new \in Seq(Piece) /\ Len(new) = hi - (from + 1) + 1
        /\ \A i \in 1..(hi - (from + 1) + 1) : new[i] = Text(e)[from + 1 + i - 1]
    BY <2>1, <2>2, SubSeqProperties
  <2>4. new[n - from] = Text(e)[from + 1 + (n - from) - 1]
    BY <2>1, <2>3
  <2> QED
    BY <2>1, <2>3, <2>4
<1> HIDE DEF new
<1>3. Len(old) \in Nat
  BY <1>1, LenProperties
<1>4. /\ last \in Seq(Piece) /\ Len(old) + (n - from) \in 1..Len(last)
      /\ last[Len(old) + (n - from)] = Text(e)[n]
  <2>1. n - from \in 1..Len(new)
    BY <1>2
  <2> HIDE DEF old
  <2>2. /\ last \in Seq(Piece) /\ Len(last) = Len(old) + Len(new)
        /\ \A i \in 1..(Len(old) + Len(new)) :
              last[i] = IF i <= Len(old) THEN old[i] ELSE new[i - Len(old)]
    BY <1>1, <1>2, ConcatProperties
  <2> HIDE DEF last, hi
  <2>3. Len(new) \in Nat /\ n - from \in Int
    BY <1>2, LenProperties
  <2>4. /\ Len(old) + (n - from) \in 1..(Len(old) + Len(new))
        /\ ~(Len(old) + (n - from) <= Len(old))
        /\ Len(old) + (n - from) - Len(old) = n - from
    BY <1>3, <2>1, <2>3
  <2> QED
    BY <1>2, <2>2, <2>4
<1> HIDE DEF last
<1>5. g \in Seq(Seq(Piece)) /\ Len(g) = Len(f) /\ g[Len(f)] = last
  BY <1>1, <1>4, ExceptSeq
<1> HIDE DEF g
<1>6. Has(g, Text(e)[n])
  <2>1. Len(f) \in 1..Len(g)
    BY <1>1, <1>5
  <2>2. \E j \in 1..Len(g[Len(f)]) : g[Len(f)][j] = Text(e)[n]
    BY <1>4, <1>5
  <2> QED
    BY <2>1, <2>2 DEF Has
<1>7. g \in File
  BY <1>1, <1>5 DEF File
<1>8. Append(g, <<>>) \in File /\ Extends(g, Append(g, <<>>))
  BY <1>7, AppendBlank
<1> QED
  BY <1>6, <1>7, <1>8, HasMonotone DEF Land, g, last, new, old

\* Cutting a file gives a file.
LEMMA CutType ==
    ASSUME NEW f \in File, NEW k \in 1..Len(f), NEW m \in 0..Len(f[k])
    PROVE  Cut(f, k, m) \in File
<1> DEFINE L == Seq(Piece)
<1>1. f \in Seq(L) /\ Len(f) \in Nat \ {0} /\ f[k] \in L /\ Len(f[k]) \in Nat
  BY FileFacts, LenProperties
<1>2. SubSeq(f[k], 1, m) \in L
  <2>1. \A i \in 1..m : f[k][i] \in Piece
    BY <1>1, LenProperties
  <2> QED
    BY <1>1, <2>1, SubSeqProperties
<1> HIDE DEF L
<1>3. SubSeq(f, 1, k - 1) \in Seq(L)
  <2>1. \A i \in 1..(k - 1) : f[i] \in L
    BY <1>1, LenProperties
  <2> QED
    BY <1>1, <2>1, SubSeqProperties
<1>4. Cut(f, k, m) \in Seq(L) /\ Cut(f, k, m) # <<>>
  BY <1>2, <1>3, AppendProperties DEF Cut
<1> QED
  BY <1>4 DEF L, File

\* A line of a log that reads holds an event.
LEMMA EventAtType ==
    ASSUME NEW f \in File, Readable(f), NEW i \in NonBlank(f)
    PROVE  EventAt(f, i) \in Event
<1> DEFINE e == f[i][1].event
<1>1. f[i] \in Seq(Piece) /\ f[i] = Text(e)
  BY FileFacts DEF NonBlank, Readable
<1> HIDE DEF e
<1>2. 1 \in 1..Len(f[i])
  BY <1>1 DEF Text
<1>3. f[i][1] \in Piece
  BY <1>1, <1>2, ElementOfSeq
<1> QED
  BY <1>3 DEF Piece, EventAt

\* The hash before a line, and the position of a line, have their types.
LEMMA ReadType ==
    ASSUME NEW f \in File, Readable(f), NEW i \in 1..(Len(f) + 1)
    PROVE  /\ HashBefore(f, i) \in EventId \cup {NoHash}
           /\ Cardinality(Before(f, i)) \in Nat
           /\ Cardinality(NonBlank(f)) \in Nat
<1>1. Len(f) \in Nat \ {0}
  BY FileFacts
<1>2. Before(f, i) \subseteq 1..Len(f) /\ NonBlank(f) \subseteq 1..Len(f)
  BY DEF Before, NonBlank
<1>3. Cardinality(Before(f, i)) \in Nat /\ Cardinality(NonBlank(f)) \in Nat
  <2>1. IsFiniteSet(1..Len(f))
    BY <1>1, FS_Interval
  <2>2. IsFiniteSet(Before(f, i)) /\ IsFiniteSet(NonBlank(f))
    BY <1>2, <2>1, FS_Subset
  <2> QED
    BY <2>2, FS_CardinalityType
<1>5. CASE Before(f, i) # {}
  <2>1. Max(Before(f, i)) \in Before(f, i)
    <3>1. Before(f, i) \in SUBSET Nat /\ \A m \in Before(f, i) : m <= Len(f)
      BY <1>1, <1>2
    <3> QED
      BY <1>1, <1>5, <3>1, MaxOfBounded
  <2>2. EventAt(f, Max(Before(f, i))) \in Event
    BY <2>1, EventAtType DEF Before
  <2> QED
    BY <1>3, <1>5, <2>2 DEF HashBefore, hash_event, Event
<1> QED
  BY <1>3, <1>5 DEF HashBefore

-----------------------------------------------------------------------------
(* Durability: for any number of writers, and under every fault *)

\* A process that is appending has an event, and the parts of its line that
\* landed are in the file: that is why the fsync covers the whole line.
InFlight ==
    \A p \in Writers : pc[p] # "idle" =>
        /\ event[p] \in Event
        /\ pc[p] = "write" => landed[p] \in 0..2
        /\ pc[p] = "fsync" => landed[p] = 3
        /\ \A n \in 1..2 : n <= landed[p] => Has(file, Text(event[p])[n])

\* The inductive invariant behind AckedDurable and DiskAppendOnly.
DurabilityInv ==
    /\ TypeOK
    /\ Extends(disk, file)
    /\ InFlight
    /\ AckedDurable

LEMMA DurabilityInit == Init => DurabilityInv
<1> SUFFICES ASSUME Init PROVE DurabilityInv
  OBVIOUS
<1>1. TypeOK
  BY EmptyType DEF Init, TypeOK
<1>2. Extends(disk, file)
  BY EmptyType, ExtendsReflexive DEF Init
<1>3. InFlight /\ AckedDurable
  BY DEF Init, InFlight, AckedDurable
<1> QED
  BY <1>1, <1>2, <1>3 DEF DurabilityInv

LEMMA DurabilityBegin ==
    ASSUME DurabilityInv, NEW p \in Writers, Begin(p)
    PROVE  DurabilityInv' /\ Extends(disk, disk') /\ Extends(disk, file')
<1> USE DEF DurabilityInv
<1>1. PICK id \in EventId \ issued :
        /\ event' = [event EXCEPT ![p] =
               [id |-> id,
                sequence |-> Cardinality(NonBlank(file)),
                previous_event_hash |-> HashBefore(file, Len(file) + 1)]]
        /\ issued' = issued \cup {id}
  BY DEF Begin, Hold
<1>2. /\ HashBefore(file, Len(file) + 1) \in EventId \cup {NoHash}
      /\ Cardinality(NonBlank(file)) \in Nat
  <2>1. file \in File /\ Readable(file) /\ Len(file) + 1 \in 1..(Len(file) + 1)
    BY FileFacts DEF Begin, Hold, Valid, TypeOK
  <2> QED
    BY <2>1, ReadType
<1>3. event' \in [Writers -> Event \cup {NoEvent}] /\ event'[p] \in Event
  BY <1>1, <1>2 DEF TypeOK, Event
<1>4. TypeOK'
  <2>1. file' = file /\ disk' = disk /\ acked' = acked /\ audited' = audited
    BY DEF Begin, Hold
  <2>2. /\ pc' \in [Writers -> {"idle", "write", "fsync"}]
        /\ landed' \in [Writers -> 0..3]
        /\ result' \in [Writers -> {"none", "refused", "returned", "failed"}]
    BY DEF Begin, Hold, TypeOK
  <2> QED
    BY <1>1, <1>3, <2>1, <2>2 DEF TypeOK
<1>5. InFlight'
  <2> SUFFICES ASSUME NEW q \in Writers, pc'[q] # "idle"
               PROVE  /\ event'[q] \in Event
                      /\ pc'[q] = "write" => landed'[q] \in 0..2
                      /\ pc'[q] = "fsync" => landed'[q] = 3
                      /\ \A n \in 1..2 : n <= landed'[q]
                            => Has(file', Text(event'[q])[n])
    BY DEF InFlight
  <2>1. file' = file
    BY DEF Begin, Hold
  <2>2. CASE q = p
    BY <1>3, <2>2 DEF Begin, Hold, TypeOK
  <2>3. CASE q # p
    BY <1>1, <2>1, <2>3 DEF Begin, Hold, TypeOK, InFlight
  <2> QED
    BY <2>2, <2>3
<1>6. disk' = disk /\ file' = file /\ acked' = acked
  BY DEF Begin, Hold
<1> QED
  BY <1>4, <1>5, <1>6, ExtendsReflexive DEF AckedDurable, TypeOK

LEMMA DurabilityWrite ==
    ASSUME DurabilityInv, NEW p \in Writers, Write(p)
    PROVE  DurabilityInv' /\ Extends(disk, disk') /\ Extends(disk, file')
<1> USE DEF DurabilityInv
<1>1. PICK to \in (landed[p] + 1)..3 :
        /\ file' = Land(file, event[p], landed[p], to)
        /\ landed' = [landed EXCEPT ![p] = to]
        /\ pc' = [pc EXCEPT ![p] = IF to = 3 THEN "fsync" ELSE "write"]
  BY DEF Write
<1>2. file \in File /\ event[p] \in Event /\ landed[p] \in 0..2
  BY DEF Write, InFlight, TypeOK
<1>3. file' \in File /\ Extends(file, file')
  BY <1>1, <1>2, LandExtends
<1>4. disk' = disk /\ event' = event /\ acked' = acked
  BY DEF Write
<1>5. Extends(disk, file') /\ Extends(disk, disk')
  BY <1>2, <1>3, <1>4, ExtendsTransitive, ExtendsReflexive DEF TypeOK
<1>6. TypeOK'
  <2>1. to \in 0..3 /\ landed' \in [Writers -> 0..3]
    BY <1>1, <1>2 DEF TypeOK
  <2>2. pc' \in [Writers -> {"idle", "write", "fsync"}]
    BY <1>1 DEF TypeOK
  <2> QED
    BY <1>3, <2>1, <2>2 DEF TypeOK, Write
<1>7. InFlight'
  <2> SUFFICES ASSUME NEW q \in Writers, pc'[q] # "idle"
               PROVE  /\ event'[q] \in Event
                      /\ pc'[q] = "write" => landed'[q] \in 0..2
                      /\ pc'[q] = "fsync" => landed'[q] = 3
                      /\ \A n \in 1..2 : n <= landed'[q]
                            => Has(file', Text(event'[q])[n])
    BY DEF InFlight
  <2>1. ASSUME NEW r \in Writers, NEW n \in 1..2, Has(file, Text(event[r])[n])
        PROVE  Has(file', Text(event[r])[n])
    BY <1>2, <1>3, <2>1, HasMonotone
  <2>2. CASE q = p
    <3>1. landed'[p] = to /\ pc'[p] = (IF to = 3 THEN "fsync" ELSE "write")
      BY <1>1 DEF TypeOK
    <3>2. ASSUME NEW n \in 1..2, n <= to
          PROVE  Has(file', Text(event[p])[n])
      <4>1. CASE n <= landed[p]
        BY <2>1, <4>1 DEF InFlight, Write
      <4>2. CASE ~(n <= landed[p])
        <5>1. n \in (landed[p] + 1)..to /\ n <= 2
          BY <1>2, <3>2, <4>2
        <5> QED
          BY <1>1, <1>2, <5>1, LandHas
      <4> QED
        BY <4>1, <4>2
    <3> QED
      BY <1>2, <1>4, <2>2, <3>1, <3>2
  <2>3. CASE q # p
    BY <1>1, <1>4, <2>1, <2>3 DEF InFlight, TypeOK
  <2> QED
    BY <2>2, <2>3
<1> QED
  BY <1>4, <1>5, <1>6, <1>7 DEF AckedDurable

LEMMA DurabilitySync ==
    ASSUME DurabilityInv, NEW p \in Writers, Sync(p)
    PROVE  DurabilityInv' /\ Extends(disk, disk') /\ Extends(disk, file')
<1> USE DEF DurabilityInv
<1>1. file \in File /\ disk \in File /\ event[p] \in Event /\ landed[p] = 3
  BY DEF Sync, InFlight, TypeOK
<1>2. disk' = file /\ file' = file /\ acked' = acked \cup {event[p]}
  BY DEF Sync
<1>3. TypeOK'
  <2>1. /\ pc' \in [Writers -> {"idle", "write", "fsync"}]
        /\ event' \in [Writers -> Event \cup {NoEvent}]
        /\ landed' \in [Writers -> 0..3]
        /\ result' \in [Writers -> {"none", "refused", "returned", "failed"}]
    BY DEF Sync, TypeOK
  <2> QED
    BY <1>1, <1>2, <2>1 DEF Sync, TypeOK
<1>4. InFlight'
  BY <1>2 DEF Sync, InFlight, TypeOK
<1>5. AckedDurable'
  <2>1. ASSUME NEW e \in acked PROVE Holds(file, e)
    BY <1>1, <2>1, HasMonotone DEF AckedDurable, Holds
  <2>2. Holds(file, event[p])
    BY <1>1 DEF InFlight, Holds, Sync
  <2> QED
    BY <1>2, <2>1, <2>2 DEF AckedDurable
<1> QED
  BY <1>1, <1>2, <1>3, <1>4, <1>5, ExtendsReflexive

LEMMA DurabilityPowerFailure ==
    ASSUME DurabilityInv, PowerFailure
    PROVE  DurabilityInv' /\ Extends(disk, disk') /\ Extends(disk, file')
<1> USE DEF DurabilityInv
<1>0. PICK k \in 1..Len(file) : \E m \in 0..Len(file[k]) :
        /\ Extends(disk, Cut(file, k, m))
        /\ file' = Cut(file, k, m)
        /\ disk' = Cut(file, k, m)
  BY DEF PowerFailure
<1>1. PICK m \in 0..Len(file[k]) :
        /\ Extends(disk, Cut(file, k, m))
        /\ file' = Cut(file, k, m)
        /\ disk' = Cut(file, k, m)
  BY <1>0
<1>2. file' \in File /\ disk' = file' /\ Extends(disk, file')
  BY <1>1, CutType DEF TypeOK
<1>3. TypeOK'
  BY <1>2, EmptyType DEF PowerFailure, TypeOK
<1>4. InFlight'
  BY DEF PowerFailure, InFlight
<1>5. AckedDurable'
  <2>1. disk \in File /\ acked' = acked
    BY DEF PowerFailure, TypeOK
  <2> QED
    BY <1>2, <2>1, HasMonotone DEF AckedDurable, Holds
<1> QED
  BY <1>2, <1>3, <1>4, <1>5, ExtendsReflexive

LEMMA DurabilityNext ==
    ASSUME DurabilityInv, [Next]_vars
    PROVE  DurabilityInv' /\ Extends(disk, disk') /\ Extends(disk, file')
<1> USE DEF DurabilityInv
<1>1. CASE UNCHANGED vars
  BY <1>1, ExtendsReflexive DEF vars, TypeOK, InFlight, AckedDurable
<1>2. ASSUME NEW p \in Writers, Refuse(p)
      PROVE  DurabilityInv' /\ Extends(disk, disk') /\ Extends(disk, file')
  BY <1>2, ExtendsReflexive DEF Refuse, TypeOK, InFlight, AckedDurable
<1>3. ASSUME NEW p \in Writers, Fail(p)
      PROVE  DurabilityInv' /\ Extends(disk, disk') /\ Extends(disk, file')
  <2>1. TypeOK'
    BY <1>3 DEF Fail, TypeOK
  <2>2. InFlight'
    BY <1>3 DEF Fail, TypeOK, InFlight
  <2>3. file' = file /\ disk' = disk /\ acked' = acked
    BY <1>3 DEF Fail
  <2> QED
    BY <2>1, <2>2, <2>3, ExtendsReflexive DEF TypeOK, AckedDurable
<1>4. ASSUME Audit
      PROVE  DurabilityInv' /\ Extends(disk, disk') /\ Extends(disk, file')
  BY <1>4, ExtendsReflexive DEF Audit, TypeOK, InFlight, AckedDurable
<1> QED
  BY <1>1, <1>2, <1>3, <1>4, DurabilityBegin, DurabilityWrite, DurabilitySync,
     DurabilityPowerFailure DEF Next

\* The state of the log and of every append_event frame is well typed.
THEOREM TypeCorrect == Spec => []TypeOK
<1>1. DurabilityInv /\ [Next]_vars => DurabilityInv'
  BY DurabilityNext
<1>2. DurabilityInv => TypeOK
  BY DEF DurabilityInv
<1> QED
  BY <1>1, <1>2, DurabilityInit, PTL DEF Spec

\* fsync before return: an event append_event returned is durable, for any
\* number of writers that interleave, fail, tear their lines and lose power.
THEOREM ReturnedEventsAreDurable == Spec => []AckedDurable
<1>1. DurabilityInv /\ [Next]_vars => DurabilityInv'
  BY DurabilityNext
<1>2. DurabilityInv => AckedDurable
  BY DEF DurabilityInv
<1> QED
  BY <1>1, <1>2, DurabilityInit, PTL DEF Spec

\* O_APPEND: no step ever changes or removes a byte that is on stable storage.
THEOREM StableStorageIsAppendOnly == Spec => DiskAppendOnly
<1>1. DurabilityInv /\ [Next]_vars => DurabilityInv'
  BY DurabilityNext
<1>2. DurabilityInv /\ [Next]_vars => [Extends(disk, disk') /\ Extends(disk, file')]_vars
  BY DurabilityNext
<1> QED
  BY <1>1, <1>2, DurabilityInit, PTL DEF Spec, DiskAppendOnly

\* An event of which a log that reads holds a piece is on a line of that log.
LEMMA HeldEventHasALine ==
    ASSUME NEW f \in File, Readable(f), NEW e \in Event, Has(f, Text(e)[1])
    PROVE  \E i \in NonBlank(f) : EventAt(f, i) = e
<1>1. PICK i \in 1..Len(f) : \E j \in 1..Len(f[i]) : f[i][j] = Text(e)[1]
  BY DEF Has
<1>2. PICK j \in 1..Len(f[i]) : f[i][j] = Text(e)[1]
  BY <1>1
<1>3. f[i] # <<>>
  <2>1. Len(<<>>) = 0
    OBVIOUS
  <2> QED
    BY <2>1
<1>4. f[i] = Text(f[i][1].event)
  BY <1>3 DEF Readable, NonBlank
<1> DEFINE d == f[i][1].event
<1>5. f[i] = Text(d)
  BY <1>4
<1> HIDE DEF d
<1>6. Len(Text(d)) = 2 /\ Text(d)[1].event = d /\ Text(d)[2].event = d
  BY DEF Text
<1>7. f[i][j].event = d
  BY <1>5, <1>6
<1>8. d = e
  BY <1>2, <1>7, TextType
<1> QED
  BY <1>3, <1>8 DEF d, NonBlank, EventAt

\* No silent loss: while the log verifies, every returned event is in it at its
\* own sequence number, whoever else appended and whatever failed.
THEOREM NoSilentLoss == Spec => []AckedInPlace
<1>1. DurabilityInv /\ [Next]_vars => DurabilityInv'
  BY DurabilityNext
<1>2. DurabilityInv => AckedInPlace
  <2> SUFFICES ASSUME DurabilityInv, Valid(file), NEW e \in acked
               PROVE  \E i \in NonBlank(file) :
                         /\ EventAt(file, i) = e
                         /\ Cardinality(Before(file, i)) = e.sequence
    BY DEF AckedInPlace
  <2>1. file \in File /\ disk \in File /\ e \in Event /\ Extends(disk, file)
    BY DEF DurabilityInv, TypeOK
  <2>2. Has(file, Text(e)[1])
    BY <2>1, HasMonotone DEF DurabilityInv, AckedDurable, Holds
  <2>3. PICK i \in NonBlank(file) : EventAt(file, i) = e
    BY <2>1, <2>2, HeldEventHasALine DEF Valid
  <2> QED
    BY <2>3 DEF Valid, Linked
<1> QED
  BY <1>1, <1>2, DurabilityInit, PTL DEF Spec

LEMMA EndedFacts ==
    ASSUME NEW f \in File
    PROVE  /\ Ended(f) \in File /\ Len(Ended(f)) = Len(f)
           /\ Ended(f)[Len(f)] = <<>>
           /\ \A i \in 1..(Len(f) - 1) : Ended(f)[i] = f[i]
<1> DEFINE L == Seq(Piece)
<1>1. f \in Seq(L) /\ Len(f) \in Nat \ {0} /\ <<>> \in L
  BY FileFacts
<1> HIDE DEF L
<1>2. /\ Ended(f) \in Seq(L) /\ Len(Ended(f)) = Len(f)
      /\ \A i \in 1..Len(f) : Ended(f)[i] = IF i = Len(f) THEN <<>> ELSE f[i]
  BY <1>1, ExceptSeq DEF Ended
<1>3. Ended(f) # <<>>
  BY <1>1, <1>2
<1>4. Ended(f) \in File
  BY <1>2, <1>3 DEF File, L
<1>5. Len(f) \in 1..Len(f) /\ \A i \in 1..(Len(f) - 1) : i \in 1..Len(f) /\ i # Len(f)
  BY <1>1
<1> QED
  BY <1>2, <1>4, <1>5

\* If a log verifies, so do the ended lines of every prefix of it.
LEMMA EndedPrefixIsValid ==
    ASSUME NEW f \in File, NEW g \in File, Valid(f), Len(g) <= Len(f),
           \A i \in 1..(Len(g) - 1) : f[i] = g[i]
    PROVE  Valid(Ended(g))
<1> DEFINE h == Ended(g)
<1>1. /\ Len(f) \in Nat \ {0} /\ Len(g) \in Nat \ {0}
      /\ Len(h) = Len(g) /\ h[Len(g)] = <<>>
      /\ \A i \in 1..(Len(g) - 1) : h[i] = f[i]
  BY FileFacts, EndedFacts
<1> HIDE DEF h
<1>2. NonBlank(h) = NonBlank(f) \cap 1..(Len(g) - 1)
  BY <1>1 DEF NonBlank
<1>3. ASSUME NEW i \in NonBlank(h)
      PROVE  h[i] = Text(h[i][1].event) /\ Linked(h, i)
  <2>1. i \in NonBlank(f) /\ i \in 1..(Len(g) - 1) /\ h[i] = f[i]
    BY <1>1, <1>2
  <2>2. Before(h, i) = Before(f, i)
    <3>1. ASSUME NEW j \in NonBlank(f), j < i
          PROVE  j \in 1..(Len(g) - 1)
      BY <1>1, <2>1, <3>1 DEF NonBlank
    <3>2. \A j : j \in NonBlank(f) /\ j < i => j \in NonBlank(h)
      BY <1>2, <3>1
    <3>3. \A j : j \in NonBlank(h) => j \in NonBlank(f)
      BY <1>2
    <3> QED
      BY <3>2, <3>3 DEF Before
  <2>3. HashBefore(h, i) = HashBefore(f, i)
    <3>1. CASE Before(f, i) = {}
      BY <2>2, <3>1 DEF HashBefore
    <3>2. CASE Before(f, i) # {}
      <4>1. Max(Before(f, i)) \in Before(f, i)
        <5>1. Before(f, i) \in SUBSET Nat /\ \A m \in Before(f, i) : m <= Len(f)
          BY <1>1 DEF Before, NonBlank
        <5> QED
          BY <1>1, <3>2, <5>1, MaxOfBounded
      <4>2. Max(Before(f, i)) \in 1..(Len(g) - 1)
        BY <1>2, <2>2, <4>1 DEF Before
      <4> QED
        BY <1>1, <2>2, <3>2, <4>2 DEF HashBefore, EventAt
    <3> QED
      BY <3>1, <3>2
  <2> QED
    BY <2>1, <2>2, <2>3 DEF Valid, Readable, Linked, EventAt
<1> QED
  BY <1>3 DEF Valid, Readable, h

\* Nothing repairs a log: a stable log whose ended lines do not verify stays so,
\* and no append gets past its read of it any more.
THEOREM DamageIsPermanent == Spec => DamageBlocksAppends
<1>1. DurabilityInv /\ [Next]_vars => DurabilityInv'
  BY DurabilityNext
<1>2. ASSUME DurabilityInv, [Next]_vars, Damaged(disk)
      PROVE  Damaged(disk') /\ issued' = issued
  <2>1. disk \in File /\ file \in File /\ disk' \in File
    BY <1>1, <1>2 DEF DurabilityInv, TypeOK
  <2>2. Damaged(disk')
    <3>1. /\ Len(disk) <= Len(disk')
          /\ \A i \in 1..(Len(disk) - 1) : disk'[i] = disk[i]
      BY <1>2, DurabilityNext DEF Extends
    <3>2. Ended(disk') \in File /\ Len(disk) <= Len(Ended(disk'))
      BY <2>1, <3>1, EndedFacts
    <3>3. \A i \in 1..(Len(disk) - 1) : Ended(disk')[i] = disk[i]
      <4>1. Len(disk) \in Nat \ {0} /\ Len(disk') \in Nat \ {0}
        BY <2>1, FileFacts
      <4> QED
        BY <2>1, <3>1, <4>1, EndedFacts
    <3> QED
      BY <1>2, <2>1, <3>2, <3>3, EndedPrefixIsValid DEF Damaged
  <2>3. ~Valid(file)
    BY <1>2, <2>1, EndedPrefixIsValid DEF Damaged, DurabilityInv, Extends
  <2> QED
    BY <1>2, <2>2, <2>3 DEF Next, vars, Begin, Hold, Refuse, Write, Sync, Fail, Audit,
       PowerFailure
<1>3. DurabilityInv /\ [Next]_vars
        => [Damaged(disk) => Damaged(disk') /\ issued' = issued]_vars
  BY <1>2
<1> QED
  BY <1>1, <1>3, DurabilityInit, PTL DEF Spec, DamageBlocksAppends

-----------------------------------------------------------------------------
(* Accepted history only grows *)

\* Every event of a log has a position of its own, and no position is free.
LEMMA Positions ==
    ASSUME NEW f \in File
    PROVE  LET n == Cardinality(NonBlank(f)) IN
           /\ n \in Nat
           /\ \A i, j \in NonBlank(f) :
                Cardinality(Before(f, i)) = Cardinality(Before(f, j)) => i = j
           /\ \A k \in 1..n : \E i \in NonBlank(f) : Cardinality(Before(f, i)) = k - 1
<1> DEFINE N == NonBlank(f)
           n == Cardinality(N)
           B(i) == Before(f, i)
           rank == [i \in N |-> Cardinality(B(i))]
<1>1. Len(f) \in Nat /\ N \subseteq 1..Len(f)
  BY FileFacts DEF NonBlank
<1>2. IsFiniteSet(N) /\ n \in Nat
  <2>1. IsFiniteSet(1..Len(f))
    BY <1>1, FS_Interval
  <2>2. IsFiniteSet(N)
    BY <1>1, <2>1, FS_Subset
  <2> QED
    BY <2>2, FS_CardinalityType
<1>3. \A i \in N : B(i) \subseteq N /\ i \notin B(i)
  BY <1>1 DEF Before
<1>4. \A i, j \in N : i < j => B(i) \subseteq B(j) /\ i \in B(j)
  BY <1>1 DEF Before
<1> HIDE DEF N, B
<1>5. \A i \in N : IsFiniteSet(B(i)) /\ Cardinality(B(i)) \in Nat
  <2> TAKE i \in N
  <2>1. IsFiniteSet(B(i))
    BY <1>2, <1>3, FS_Subset
  <2> QED
    BY <2>1, FS_CardinalityType
<1>6. \A i, j \in N : i < j => Cardinality(B(i)) < Cardinality(B(j))
  <2> SUFFICES ASSUME NEW i \in N, NEW j \in N, i < j
               PROVE  Cardinality(B(i)) < Cardinality(B(j))
    OBVIOUS
  <2>1. B(i) \subseteq B(j) /\ i \in B(j) /\ i \notin B(i)
    BY <1>3, <1>4
  <2>2. /\ Cardinality(B(i)) <= Cardinality(B(j))
        /\ Cardinality(B(j)) = Cardinality(B(i)) => B(j) = B(i)
    BY <1>5, <2>1, FS_Subset
  <2> QED
    BY <1>5, <2>1, <2>2
<1>7. \A i \in N : Cardinality(B(i)) \in 0..(n - 1)
  <2> TAKE i \in N
  <2>1. B(i) \subseteq N /\ i \notin B(i)
    BY <1>3
  <2>2. /\ Cardinality(B(i)) <= Cardinality(N)
        /\ Cardinality(N) = Cardinality(B(i)) => N = B(i)
    BY <1>2, <2>1, FS_Subset
  <2> HIDE DEF n
  <2>3. Cardinality(B(i)) < n
    BY <1>2, <1>5, <2>1, <2>2 DEF n
  <2> QED
    BY <1>2, <1>5, <2>3
<1>8. \A i, j \in N : rank[i] = rank[j] => i = j
  <2> SUFFICES ASSUME NEW i \in N, NEW j \in N, rank[i] = rank[j], i # j PROVE FALSE
    OBVIOUS
  <2>1. i \in Nat /\ j \in Nat
    BY <1>1
  <2>2. i < j \/ j < i
    BY <2>1
  <2> QED
    BY <1>5, <1>6, <2>2
<1>9. rank \in Surjection(N, 0..(n - 1))
  <2>1. rank \in Injection(N, 0..(n - 1))
    BY <1>7, <1>8 DEF Injection, IsInjective
  <2>2. IsFiniteSet(0..(n - 1)) /\ Cardinality(0..(n - 1)) = n
    <3> HIDE DEF n
    <3>1. 0 \in Int /\ n - 1 \in Int /\ (0 > n - 1 <=> n = 0) /\ (n - 1) - 0 + 1 = n
      BY <1>2
    <3> QED
      BY <3>1, FS_Interval
  <2> QED
    BY <2>1, <2>2, FS_Injection
<1>10. ASSUME NEW k \in 1..n PROVE \E i \in N : Cardinality(B(i)) = k - 1
  <2>1. k - 1 \in 0..(n - 1)
    BY <1>2
  <2> QED
    BY <1>9, <2>1 DEF Surjection
<1> QED
  BY <1>2, <1>8, <1>10 DEF N, B

\* What a reader holds, event by event.
LEMMA EventsFacts ==
    ASSUME NEW f \in File, Readable(f)
    PROVE  /\ Cardinality(NonBlank(f)) \in Nat
           /\ Events(f) \in Seq(Event) /\ Len(Events(f)) = Cardinality(NonBlank(f))
           /\ \A k \in 1..Cardinality(NonBlank(f)) :
                /\ \E i \in NonBlank(f) : Cardinality(Before(f, i)) = k - 1
                /\ \A i \in NonBlank(f) :
                      Cardinality(Before(f, i)) = k - 1 => Events(f)[k] = EventAt(f, i)
<1> DEFINE n == Cardinality(NonBlank(f))
           at(k) == CHOOSE i \in NonBlank(f) : Cardinality(Before(f, i)) = k - 1
<1>1. n \in Nat
  BY Positions
<1>2. \A k \in 1..n : \E i \in NonBlank(f) : Cardinality(Before(f, i)) = k - 1
  BY Positions
<1>3. ASSUME NEW k \in 1..n
      PROVE  at(k) \in NonBlank(f) /\ Cardinality(Before(f, at(k))) = k - 1
  BY <1>2
<1>4. \A k \in 1..n : \A i \in NonBlank(f) : Cardinality(Before(f, i)) = k - 1 => at(k) = i
  BY <1>3, Positions
<1>5. Events(f) = [k \in 1..n |-> EventAt(f, at(k))]
  BY DEF Events
<1> HIDE DEF n, at
<1>6. \A k \in 1..n : EventAt(f, at(k)) \in Event
  BY <1>3, EventAtType
<1>7. Events(f) \in Seq(Event) /\ Len(Events(f)) = n
  BY <1>1, <1>5, <1>6
<1> QED
  BY <1>1, <1>2, <1>4, <1>5, <1>7 DEF n

LEMMA PrefixPointwise ==
    ASSUME NEW S, NEW s \in Seq(S), NEW t \in Seq(S), Len(s) <= Len(t),
           \A k \in 1..Len(s) : s[k] = t[k]
    PROVE  IsPrefix(s, t)
<1>1. Len(s) \in Nat /\ Len(t) \in Nat /\ \A k \in 1..Len(t) : t[k] \in S
  BY LenProperties
<1>2. /\ SubSeq(t, 1, Len(s)) \in Seq(S)
      /\ Len(SubSeq(t, 1, Len(s))) = Len(s)
      /\ \A k \in 1..Len(s) : SubSeq(t, 1, Len(s))[k] = t[k]
  BY <1>1, SubSeqProperties
<1>3. SubSeq(t, 1, Len(s)) = s
  BY <1>2, SeqEqual
<1>4. SubSeq(s, 1, Len(s)) = s
  BY SubSeqFull
<1> QED
  BY <1>3, <1>4 DEF IsPrefix

\* The events of a log that reads are the first ones of every later log that reads: a
\* line without its newline has all of its text, so what followed began a line.
LEMMA EventsGrow ==
    ASSUME NEW f \in File, NEW g \in File, Readable(f), Readable(g), Extends(g, f)
    PROVE  IsPrefix(Events(g), Events(f))
<1>1. /\ Len(f) \in Nat \ {0} /\ Len(g) \in Nat \ {0} /\ Len(g) <= Len(f)
      /\ \A i \in 1..(Len(g) - 1) : f[i] = g[i]
  BY FileFacts DEF Extends
<1>2. ASSUME NEW i \in NonBlank(g)
      PROVE  i \in NonBlank(f) /\ EventAt(f, i) = EventAt(g, i)
  <2>1. i \in 1..Len(g) /\ g[i] # <<>>
    BY DEF NonBlank
  <2>2. CASE i # Len(g)
    BY <1>1, <2>1, <2>2 DEF NonBlank, EventAt
  <2>3. CASE i = Len(g)
    <3>1. Len(g[i]) = 2
      <4>1. g[i] = Text(g[i][1].event)
        BY DEF Readable
      <4>2. Len(Text(g[i][1].event)) = 2
        BY DEF Text
      <4> QED
        BY <4>1, <4>2
    <3>2. Len(f[i]) >= 2 /\ f[i][1] = g[i][1]
      <4>1. /\ Len(g[Len(g)]) <= Len(f[Len(g)])
            /\ \A j \in 1..Len(g[Len(g)]) : f[Len(g)][j] = g[Len(g)][j]
        BY ExtendsPointwise
      <4> QED
        BY <2>3, <3>1, <4>1
    <3>3. f[i] # <<>>
      BY <3>2
    <3> QED
      BY <1>1, <2>3, <3>2, <3>3 DEF NonBlank, EventAt
  <2> QED
    BY <2>2, <2>3
<1>3. ASSUME NEW i \in NonBlank(g) PROVE Before(f, i) = Before(g, i)
  <2>1. \A j \in NonBlank(f) : j < i => j \in NonBlank(g)
    BY <1>1 DEF NonBlank
  <2> QED
    BY <1>2, <2>1 DEF Before
<1>4. ASSUME NEW k \in 1..Cardinality(NonBlank(g))
      PROVE  k \in 1..Cardinality(NonBlank(f)) /\ Events(g)[k] = Events(f)[k]
  <2>1. PICK i \in NonBlank(g) : Cardinality(Before(g, i)) = k - 1
    BY EventsFacts
  <2>2. k \in 1..Cardinality(NonBlank(f))
    <3>1. NonBlank(g) \subseteq NonBlank(f) /\ IsFiniteSet(NonBlank(f))
      <4>1. NonBlank(f) \subseteq 1..Len(f) /\ IsFiniteSet(1..Len(f))
        BY <1>1, FS_Interval DEF NonBlank
      <4> QED
        BY <1>2, <4>1, FS_Subset
    <3>2. Cardinality(NonBlank(g)) <= Cardinality(NonBlank(f))
      BY <3>1, FS_Subset
    <3> QED
      BY <3>2, EventsFacts
  <2>3. i \in NonBlank(f) /\ Cardinality(Before(f, i)) = k - 1
    BY <1>2, <1>3, <2>1
  <2>4. Events(g)[k] = EventAt(g, i) /\ Events(f)[k] = EventAt(f, i)
    BY <2>1, <2>2, <2>3, EventsFacts
  <2> QED
    BY <1>2, <2>2, <2>4
<1>5. /\ Events(g) \in Seq(Event) /\ Events(f) \in Seq(Event)
      /\ Len(Events(g)) = Cardinality(NonBlank(g)) /\ Cardinality(NonBlank(g)) \in Nat
      /\ Len(Events(f)) = Cardinality(NonBlank(f)) /\ Cardinality(NonBlank(f)) \in Nat
  BY EventsFacts
<1>6. Len(Events(g)) <= Len(Events(f))
  <2>1. CASE Cardinality(NonBlank(g)) = 0
    BY <1>5, <2>1
  <2>2. CASE Cardinality(NonBlank(g)) # 0
    <3>1. Cardinality(NonBlank(g)) \in 1..Cardinality(NonBlank(g))
      BY <1>5, <2>2
    <3>2. Cardinality(NonBlank(g)) \in 1..Cardinality(NonBlank(f))
      BY <1>4, <3>1
    <3> QED
      BY <1>5, <3>2
  <2> QED
    BY <2>1, <2>2
<1> QED
  BY <1>4, <1>5, <1>6, PrefixPointwise

LEMMA EmptyFirst ==
    ASSUME NEW f \in File
    PROVE  Readable(Empty) /\ Extends(Empty, f)
<1>1. Len(Empty) = 1 /\ Empty[1] = <<>>
  BY DEF Empty
<1>2. Readable(Empty)
  BY <1>1 DEF Readable, NonBlank
<1>3. /\ Len(f) \in Nat \ {0} /\ Len(Empty[1]) = 0 /\ Len(f[1]) \in Nat
  BY <1>1, FileFacts, LenProperties
<1>4. /\ Len(Empty) <= Len(f)
      /\ \A i \in 1..(Len(Empty) - 1) : f[i] = Empty[i]
      /\ Len(Empty[Len(Empty)]) <= Len(f[Len(Empty)])
      /\ \A j \in 1..Len(Empty[Len(Empty)]) : f[Len(Empty)][j] = Empty[Len(Empty)][j]
  BY <1>1, <1>3
<1>5. Extends(Empty, f)
  BY <1>4, EmptyType, ExtendsPointwise
<1> QED
  BY <1>2, <1>5

\* What event-verify accepted is still the beginning of the file.
AuditInv == Readable(audited) /\ Extends(audited, file)

LEMMA AuditNext ==
    ASSUME DurabilityInv, AuditInv, [Next]_vars
    PROVE  AuditInv' /\ (PowerFailure \/ IsPrefix(Events(audited), Events(audited')))
<1>1. file \in File /\ audited \in File /\ file' \in File /\ audited' \in File
  BY DurabilityNext DEF DurabilityInv, TypeOK
<1>2. IsPrefix(Events(audited), Events(audited))
  BY <1>1, ExtendsReflexive, EventsGrow DEF AuditInv
<1>3. CASE UNCHANGED <<file, audited>>
  BY <1>2, <1>3 DEF AuditInv
<1>4. ASSUME NEW p \in Writers, Write(p)
      PROVE  AuditInv' /\ IsPrefix(Events(audited), Events(audited'))
  <2>1. PICK to \in (landed[p] + 1)..3 : file' = Land(file, event[p], landed[p], to)
    BY <1>4 DEF Write
  <2>2. event[p] \in Event /\ landed[p] \in 0..2 /\ audited' = audited
    BY <1>4 DEF Write, DurabilityInv, InFlight
  <2>3. Extends(file, file')
    BY <1>1, <2>1, <2>2, LandExtends
  <2>4. Extends(audited, file')
    BY <1>1, <2>3, ExtendsTransitive DEF AuditInv
  <2> QED
    BY <1>2, <2>2, <2>4 DEF AuditInv
<1>5. CASE Audit
  <2>1. audited' = file /\ file' = file /\ Readable(file)
    BY <1>5 DEF Audit, Valid
  <2> QED
    BY <1>1, <2>1, ExtendsReflexive, EventsGrow DEF AuditInv
<1>6. CASE PowerFailure
  <2>1. audited' = Empty
    BY <1>6 DEF PowerFailure
  <2> QED
    BY <1>1, <1>6, <2>1, EmptyFirst DEF AuditInv
<1>7. ASSUME NEW p \in Writers, Begin(p) \/ Refuse(p) \/ Sync(p) \/ Fail(p)
      PROVE  UNCHANGED <<file, audited>>
  BY <1>7 DEF Begin, Hold, Refuse, Sync, Fail
<1> QED
  BY <1>3, <1>4, <1>5, <1>6, <1>7 DEF Next, vars

\* O_APPEND and the chain together: whoever writes, fails or tears lines, each log that
\* event-verify accepts begins with all the events of the one accepted before it, until
\* the machine loses power.
THEOREM AcceptedHistoryGrows == Spec => AuditsGrow
<1>1. Init => AuditInv
  <2> SUFFICES ASSUME Init PROVE AuditInv
    OBVIOUS
  <2>1. file = Empty /\ audited = Empty
    BY DEF Init
  <2> QED
    BY <2>1, EmptyType, EmptyFirst DEF AuditInv
<1>2. DurabilityInv /\ AuditInv /\ [Next]_vars => DurabilityInv' /\ AuditInv'
  BY DurabilityNext, AuditNext
<1>3. DurabilityInv /\ AuditInv /\ [Next]_vars =>
        [PowerFailure \/ IsPrefix(Events(audited), Events(audited'))]_vars
  BY AuditNext
<1> QED
  BY <1>1, <1>2, <1>3, DurabilityInit, PTL DEF Spec, AuditsGrow

-----------------------------------------------------------------------------
(* The chain: one writer whose lines land whole *)

\* The hash append_event links to when it has read n events of f.
LinkAfter(f, n) == IF n = 0 THEN NoHash ELSE EventAt(f, n).id

\* A log whose lines are all ended, each the successor of the one above it.
Clean(f) ==
    /\ f[Len(f)] = <<>>
    /\ \A i \in 1..(Len(f) - 1) : \E e \in Event :
        /\ f[i] = Text(e)
        /\ e.sequence = i - 1
        /\ e.previous_event_hash = LinkAfter(f, i - 1)

\* In a clean log the k-th line holds the k-th event.
LEMMA CleanBefore ==
    ASSUME NEW f \in File, Clean(f), NEW i \in 1..(Len(f) + 1)
    PROVE  /\ NonBlank(f) = 1..(Len(f) - 1)
           /\ Before(f, i) = 1..((IF i > Len(f) THEN Len(f) ELSE i) - 1)
<1>1. Len(f) \in Nat \ {0}
  BY FileFacts
<1>2. ASSUME NEW j \in 1..(Len(f) - 1) PROVE f[j] # <<>>
  <2>1. PICK e \in Event : f[j] = Text(e)
    BY DEF Clean
  <2>2. Text(e) # <<>>
    BY DEF Text
  <2> QED
    BY <2>1, <2>2
<1>3. NonBlank(f) = 1..(Len(f) - 1)
  BY <1>1, <1>2 DEF NonBlank, Clean
<1> QED
  BY <1>1, <1>3 DEF Before

LEMMA MaxOfInterval ==
    ASSUME NEW n \in Nat \ {0}
    PROVE  Max(1..n) = n
<1>1. Max(1..n) \in 1..n /\ \A m \in 1..n : Max(1..n) >= m
  <2>1. 1..n \in SUBSET Nat /\ 1..n # {} /\ \A m \in 1..n : m <= n
    OBVIOUS
  <2> QED
    BY <2>1, MaxOfBounded
<1> QED
  BY <1>1

\* What append_event reads from a clean log.
LEMMA CleanRead ==
    ASSUME NEW f \in File, Clean(f)
    PROVE  /\ Cardinality(NonBlank(f)) = Len(f) - 1
           /\ HashBefore(f, Len(f) + 1) = LinkAfter(f, Len(f) - 1)
           /\ \A i \in 1..Len(f) :
                 /\ Cardinality(Before(f, i)) = i - 1
                 /\ HashBefore(f, i) = LinkAfter(f, i - 1)
<1>1. Len(f) \in Nat \ {0}
  BY FileFacts
<1>2. ASSUME NEW i \in 1..(Len(f) + 1), NEW n \in Nat, Before(f, i) = 1..n
      PROVE  Cardinality(Before(f, i)) = n /\ HashBefore(f, i) = LinkAfter(f, n)
  <2>1. Cardinality(1..n) = n
    BY FS_Interval
  <2>2. CASE n = 0
    BY <1>2, <2>1, <2>2 DEF HashBefore, LinkAfter
  <2>3. CASE n # 0
    <3>1. 1..n # {} /\ Max(1..n) = n
      BY <2>3, MaxOfInterval
    <3> QED
      BY <1>2, <2>1, <2>3, <3>1 DEF HashBefore, LinkAfter, hash_event
  <2> QED
    BY <2>2, <2>3
<1>3. NonBlank(f) = Before(f, Len(f) + 1) /\ Before(f, Len(f) + 1) = 1..(Len(f) - 1)
  BY <1>1, CleanBefore
<1>4. ASSUME NEW i \in 1..Len(f)
      PROVE  Cardinality(Before(f, i)) = i - 1 /\ HashBefore(f, i) = LinkAfter(f, i - 1)
  <2>1. i \in 1..(Len(f) + 1) /\ ~(i > Len(f)) /\ i - 1 \in Nat
    BY <1>1
  <2>2. Before(f, i) = 1..(i - 1)
    BY <2>1, CleanBefore
  <2> QED
    BY <1>2, <2>1, <2>2
<1>5. Len(f) + 1 \in 1..(Len(f) + 1) /\ Len(f) - 1 \in Nat
  BY <1>1
<1> QED
  BY <1>2, <1>3, <1>4, <1>5

\* read_events and verify_chain accept a clean log.
LEMMA CleanIsValid ==
    ASSUME NEW f \in File, Clean(f)
    PROVE  Valid(f)
<1>1. Len(f) \in Nat \ {0} /\ NonBlank(f) = 1..(Len(f) - 1)
  <2>1. Len(f) \in Nat \ {0}
    BY FileFacts
  <2>2. 1 \in 1..(Len(f) + 1)
    BY <2>1
  <2> QED
    BY <2>1, <2>2, CleanBefore
<1>2. ASSUME NEW i \in NonBlank(f)
      PROVE  f[i] = Text(f[i][1].event) /\ Linked(f, i)
  <2>1. PICK e \in Event : /\ f[i] = Text(e)
                           /\ e.sequence = i - 1
                           /\ e.previous_event_hash = LinkAfter(f, i - 1)
    BY <1>1 DEF Clean
  <2>2. f[i][1].event = e
    BY <2>1, TextType
  <2>3. i \in 1..Len(f)
    BY <1>1
  <2>4. Cardinality(Before(f, i)) = i - 1 /\ HashBefore(f, i) = LinkAfter(f, i - 1)
    BY <2>3, CleanRead
  <2> QED
    BY <2>1, <2>2, <2>4 DEF Linked, EventAt
<1> QED
  BY <1>2 DEF Valid, Readable

\* A whole line that links to a clean log leaves a clean log.
LEMMA CleanLand ==
    ASSUME NEW f \in File, Clean(f), NEW e \in Event,
           e.sequence = Len(f) - 1,
           e.previous_event_hash = LinkAfter(f, Len(f) - 1)
    PROVE  /\ Clean(Land(f, e, 0, 3))
           /\ Len(Land(f, e, 0, 3)) = Len(f) + 1
<1> DEFINE L == Seq(Piece)
           g == [f EXCEPT ![Len(f)] = Text(e)]
           h == Append(g, <<>>)
<1>1. f \in Seq(L) /\ Len(f) \in Nat \ {0} /\ Text(e) \in L /\ <<>> \in L
      /\ f[Len(f)] = <<>>
  BY FileFacts, TextType DEF Clean
<1>2. Land(f, e, 0, 3) = h
  <2>1. SubSeq(Text(e), 1, 2) = Text(e)
    BY TextType, SubSeqFull
  <2>2. 0 + 1 = 1 /\ (IF 3 < 2 THEN 3 ELSE 2) = 2 /\ 3 = 3
    OBVIOUS
  <2>3. f[Len(f)] \o SubSeq(Text(e), 0 + 1, IF 3 < 2 THEN 3 ELSE 2) = Text(e)
    BY <1>1, <2>1, <2>2, ConcatEmptySeq, TextType
  <2> HIDE DEF g, h
  <2>4. Land(f, e, 0, 3) = Append([f EXCEPT ![Len(f)] =
            f[Len(f)] \o SubSeq(Text(e), 0 + 1, IF 3 < 2 THEN 3 ELSE 2)], <<>>)
    BY Zenon DEF Land
  <2> QED
    BY <2>3, <2>4, Zenon DEF g, h
<1> HIDE DEF L
<1>3. g \in Seq(L) /\ Len(g) = Len(f) /\ g[Len(f)] = Text(e)
      /\ \A i \in 1..(Len(f) - 1) : g[i] = f[i]
  <2>1. /\ g \in Seq(L) /\ Len(g) = Len(f)
        /\ \A j \in 1..Len(f) : g[j] = IF j = Len(f) THEN Text(e) ELSE f[j]
    BY <1>1, ExceptSeq
  <2> HIDE DEF g
  <2> QED
    BY <1>1, <2>1
<1> HIDE DEF g
<1>4. Len(h) = Len(f) + 1 /\ h[Len(f) + 1] = <<>> /\ h[Len(f)] = Text(e)
      /\ \A i \in 1..(Len(f) - 1) : h[i] = f[i]
  <2>1. /\ Len(h) = Len(g) + 1 /\ h[Len(g) + 1] = <<>>
        /\ \A i \in 1..Len(g) : h[i] = g[i]
    BY <1>1, <1>3, AppendProperties
  <2> HIDE DEF h
  <2> QED
    BY <1>1, <1>3, <2>1
<1> HIDE DEF h
<1>5. \A n \in 0..(Len(f) - 1) : LinkAfter(h, n) = LinkAfter(f, n)
  BY <1>1, <1>4 DEF LinkAfter, EventAt
<1>6. ASSUME NEW i \in 1..(Len(h) - 1)
      PROVE  \E d \in Event : /\ h[i] = Text(d)
                              /\ d.sequence = i - 1
                              /\ d.previous_event_hash = LinkAfter(h, i - 1)
  <2>1. CASE i = Len(f)
    BY <1>1, <1>4, <1>5, <2>1
  <2>2. CASE i # Len(f)
    <3>1. i \in 1..(Len(f) - 1) /\ i - 1 \in 0..(Len(f) - 1)
      BY <1>1, <1>4, <2>2
    <3> QED
      BY <1>4, <1>5, <3>1 DEF Clean
  <2> QED
    BY <2>1, <2>2
<1> QED
  BY <1>2, <1>4, <1>6 DEF Clean

\* Cutting a clean log between two lines leaves a clean log.
LEMMA CleanCut ==
    ASSUME NEW f \in File, Clean(f), NEW k \in 1..Len(f)
    PROVE  Clean(Cut(f, k, 0))
<1> DEFINE L == Seq(Piece)
           s == SubSeq(f, 1, k - 1)
           g == Append(s, <<>>)
<1>1. f \in Seq(L) /\ Len(f) \in Nat \ {0} /\ <<>> \in L
  BY FileFacts
<1>2. Cut(f, k, 0) = g
  <2>1. SubSeq(f[k], 1, 0) = <<>>
    BY SubSeqEmpty
  <2> QED
    BY <2>1 DEF Cut
<1> HIDE DEF L
<1>3. s \in Seq(L) /\ Len(s) = k - 1 /\ \A i \in 1..(k - 1) : s[i] = f[i]
  <2>1. \A i \in 1..(k - 1) : f[i] \in L
    BY <1>1, LenProperties
  <2>2. /\ s \in Seq(L) /\ Len(s) = IF 1 <= k - 1 THEN k - 1 - 1 + 1 ELSE 0
        /\ \A i \in 1..(k - 1 - 1 + 1) : s[i] = f[1 + i - 1]
    BY <1>1, <2>1, SubSeqProperties
  <2> HIDE DEF s
  <2> QED
    BY <1>1, <2>2
<1> HIDE DEF s
<1>4. Len(g) = k /\ g[k] = <<>> /\ \A i \in 1..(k - 1) : g[i] = f[i]
  <2>1. /\ Len(g) = Len(s) + 1 /\ g[Len(s) + 1] = <<>>
        /\ \A i \in 1..Len(s) : g[i] = s[i]
    BY <1>1, <1>3, AppendProperties
  <2> HIDE DEF g
  <2> QED
    BY <1>1, <1>3, <2>1
<1> HIDE DEF g
<1>5. \A n \in 0..(k - 1) : LinkAfter(g, n) = LinkAfter(f, n)
  BY <1>1, <1>4 DEF LinkAfter, EventAt
<1>6. \A i \in 1..(k - 1) : i \in 1..(Len(f) - 1) /\ i - 1 \in 0..(k - 1)
  BY <1>1
<1> QED
  BY <1>2, <1>4, <1>5, <1>6 DEF Clean

\* What one writer keeps true: a clean log, and an event that links to its end
\* while it is being written.
ChainInv ==
    /\ DurabilityInv
    /\ Clean(file)
    /\ \A p \in Writers : pc[p] = "write" =>
        /\ landed[p] = 0
        /\ event[p].sequence = Len(file) - 1
        /\ event[p].previous_event_hash = LinkAfter(file, Len(file) - 1)

LEMMA ChainInit == Init => ChainInv
<1>1. Clean(Empty)
  BY DEF Clean, Empty
<1> QED
  BY <1>1, DurabilityInit DEF Init, ChainInv

LEMMA ChainNext ==
    ASSUME "tear" \notin Faults, \A p, q \in Writers : p = q,
           ChainInv, [Next]_vars
    PROVE  ChainInv'
<1> USE DEF ChainInv
<1>1. DurabilityInv' /\ file \in File
  BY DurabilityNext DEF DurabilityInv, TypeOK
<1>2. ASSUME NEW p \in Writers, Begin(p)
      PROVE  ChainInv'
  <2>1. /\ pc' = [pc EXCEPT ![p] = "write"]
        /\ landed' = [landed EXCEPT ![p] = 0]
        /\ file' = file
    BY <1>2 DEF Begin, Hold
  <2>2. /\ event'[p].sequence = Len(file) - 1
        /\ event'[p].previous_event_hash = LinkAfter(file, Len(file) - 1)
    BY <1>1, <1>2, CleanRead DEF Begin, Hold, DurabilityInv, TypeOK
  <2> QED
    BY <1>1, <2>1, <2>2 DEF DurabilityInv, TypeOK
<1>3. ASSUME NEW p \in Writers, Write(p)
      PROVE  ChainInv'
  <2>1. file' = Land(file, event[p], 0, 3) /\ pc' = [pc EXCEPT ![p] = "fsync"]
    BY <1>3 DEF Write
  <2>2. Clean(file')
    <3>1. event[p] \in Event
      BY <1>3 DEF Write, DurabilityInv, InFlight
    <3> QED
      BY <1>1, <1>3, <2>1, <3>1, CleanLand DEF Write
  <2> QED
    BY <1>1, <2>1, <2>2 DEF DurabilityInv, TypeOK
<1>4. ASSUME NEW p \in Writers, Refuse(p) \/ Sync(p) \/ Fail(p)
      PROVE  ChainInv'
  <2>1. file' = file
    BY <1>4 DEF Refuse, Sync, Fail
  <2>2. \A q \in Writers : pc'[q] = "write" =>
            pc[q] = "write" /\ event'[q] = event[q] /\ landed'[q] = landed[q]
    BY <1>4 DEF Refuse, Sync, Fail, DurabilityInv, TypeOK
  <2> QED
    BY <1>1, <2>1, <2>2
<1>5. ASSUME PowerFailure
      PROVE  ChainInv'
  <2>1. PICK k \in 1..Len(file) : file' = Cut(file, k, 0)
    BY <1>5 DEF PowerFailure
  <2>2. \A p \in Writers : pc'[p] # "write"
    BY <1>5 DEF PowerFailure
  <2> QED
    BY <1>1, <2>1, <2>2, CleanCut
<1>6. CASE Audit \/ UNCHANGED vars
  BY <1>1, <1>6 DEF Audit, vars
<1> QED
  BY <1>2, <1>3, <1>4, <1>5, <1>6 DEF Next

\* With at most one process that appends, and writes and power failures that do
\* not cut a line in two, every state of the log verifies: append_event itself
\* breaks no chain, and it never refuses its own log.
THEOREM OneWriterKeepsTheChain ==
    ASSUME "tear" \notin Faults, \A p, q \in Writers : p = q
    PROVE  Spec => []ChainIntact
<1>1. ChainInv /\ [Next]_vars => ChainInv'
  BY ChainNext
<1>2. ChainInv => ChainIntact
  BY CleanIsValid DEF ChainInv, DurabilityInv, TypeOK, ChainIntact
<1> QED
  BY <1>1, <1>2, ChainInit, PTL DEF Spec

-----------------------------------------------------------------------------
(* Refinement: one writer implements AppendOnlyLog *)

\* The events of a clean log, in order, are those of its lines.
LEMMA CleanEvents ==
    ASSUME NEW f \in File, Clean(f)
    PROVE  /\ Events(f) = [n \in 1..(Len(f) - 1) |-> EventAt(f, n)]
           /\ \A n \in 1..(Len(f) - 1) : EventAt(f, n) \in Event
           /\ Events(f) \in Seq(Event) /\ Len(Events(f)) = Len(f) - 1
           /\ Len(f) - 1 \in Nat
<1>1. /\ Len(f) \in Nat \ {0} /\ NonBlank(f) = 1..(Len(f) - 1)
      /\ Cardinality(NonBlank(f)) = Len(f) - 1
      /\ \A i \in 1..(Len(f) - 1) : Cardinality(Before(f, i)) = i - 1
  <2>1. Len(f) \in Nat \ {0}
    BY FileFacts
  <2>2. 1 \in 1..(Len(f) + 1) /\ \A i \in 1..(Len(f) - 1) : i \in 1..Len(f)
    BY <2>1
  <2> QED
    BY <2>1, <2>2, CleanBefore, CleanRead
<1>2. ASSUME NEW n \in 1..(Len(f) - 1)
      PROVE  (CHOOSE i \in NonBlank(f) : Cardinality(Before(f, i)) = n - 1) = n
  <2>1. \A i \in NonBlank(f) : Cardinality(Before(f, i)) = n - 1 <=> i = n
    BY <1>1
  <2> QED
    BY <1>1, <2>1
<1>3. Events(f) = [n \in 1..(Len(f) - 1) |-> EventAt(f, n)]
  BY <1>1, <1>2 DEF Events
<1>4. ASSUME NEW n \in 1..(Len(f) - 1) PROVE EventAt(f, n) \in Event
  <2>1. PICK e \in Event : f[n] = Text(e)
    BY DEF Clean
  <2> QED
    BY <2>1, TextType DEF EventAt
<1> QED
  BY <1>1, <1>3, <1>4

\* The refinement needs the stable part clean too.
HistoryInv == ChainInv /\ Clean(disk)

LEMMA HistoryInit == Init => HistoryInv /\ History!AInit
<1> SUFFICES ASSUME Init PROVE HistoryInv /\ History!AInit
  OBVIOUS
<1>1. ChainInv /\ Clean(Empty) /\ file = Empty /\ disk = Empty /\ acked = {}
  BY ChainInit DEF Init, ChainInv
<1>2. Len(Events(Empty)) = 0 /\ Events(Empty) \in Seq(Event)
  <2>1. Len(Empty) - 1 = 0
    BY DEF Empty
  <2> QED
    BY <1>1, <2>1, EmptyType, CleanEvents
<1> QED
  BY <1>1, <1>2 DEF HistoryInv, History!AInit

LEMMA HistoryWrite ==
    ASSUME "tear" \notin Faults, HistoryInv, ChainInv', NEW p \in Writers, Write(p)
    PROVE  History!Extend
<1> DEFINE e == event[p]
<1>1. /\ file \in File /\ Clean(file) /\ e \in Event
      /\ e.sequence = Len(file) - 1
      /\ e.previous_event_hash = LinkAfter(file, Len(file) - 1)
  BY DEF HistoryInv, ChainInv, DurabilityInv, TypeOK, InFlight, Write
<1>2. file' = Land(file, e, 0, 3) /\ disk' = disk /\ acked' = acked
  BY DEF Write, HistoryInv, ChainInv
<1>3. /\ file' \in File /\ Clean(file') /\ Len(file') = Len(file) + 1
      /\ Extends(file, file')
  <2>1. 0 \in 0..2 /\ 3 \in (0 + 1)..3
    OBVIOUS
  <2> QED
    BY <1>1, <1>2, <2>1, CleanLand, LandExtends
<1>4. Len(file) \in Nat \ {0}
  BY <1>1, FileFacts
<1>5. EventAt(file', Len(file)) = e
  <2>1. PICK i \in NonBlank(file') : EventAt(file', i) = e
    <3>1. Has(file', Text(e)[1])
      <4>1. 0 \in 0..2 /\ 3 \in (0 + 1)..3 /\ 1 \in (0 + 1)..3 /\ 1 <= 2
        OBVIOUS
      <4> QED
        BY <1>1, <1>2, <4>1, LandHas
    <3> QED
      BY <1>1, <1>3, <3>1, HeldEventHasALine, CleanIsValid DEF Valid
  <2>2. i \in 1..(Len(file') - 1)
    <3>1. 1 \in 1..(Len(file') + 1)
      BY <1>3, <1>4
    <3> QED
      BY <1>3, <3>1, CleanBefore
  <2>3. EventAt(file', i).sequence = i - 1
    <3>1. PICK d \in Event : file'[i] = Text(d) /\ d.sequence = i - 1
      BY <1>3, <2>2 DEF Clean
    <3> QED
      BY <3>1, TextType DEF EventAt
  <2> QED
    BY <1>1, <1>4, <2>1, <2>2, <2>3
<1>6. \A n \in 1..(Len(file) - 1) : EventAt(file', n) = EventAt(file, n)
  BY <1>3 DEF Extends, EventAt
<1> DEFINE h == Events(file)
<1>7. /\ h \in Seq(Event) /\ Len(h) = Len(file) - 1
      /\ \A n \in 1..(Len(file) - 1) : h[n] = EventAt(file, n)
  BY <1>1, CleanEvents
<1>8. Events(file') \in Seq(Event) /\ Len(Events(file')) = Len(file)
      /\ \A n \in 1..Len(file) : Events(file')[n] = EventAt(file', n)
  BY <1>3, <1>4, CleanEvents
<1> HIDE DEF h, e
<1>9. Events(file') = Append(h, e)
  <2>1. /\ Append(h, e) \in Seq(Event) /\ Len(Append(h, e)) = Len(file)
        /\ Append(h, e)[Len(file)] = e
        /\ \A n \in 1..(Len(file) - 1) : Append(h, e)[n] = h[n]
    BY <1>1, <1>4, <1>7, AppendProperties
  <2>2. \A n \in 1..Len(file) : Events(file')[n] = Append(h, e)[n]
    BY <1>4, <1>5, <1>6, <1>7, <1>8, <2>1
  <2> QED
    BY <1>8, <2>1, <2>2, SeqEqual
<1>10. e = [id |-> e.id, sequence |-> Len(h),
            previous_event_hash |-> IF h = <<>> THEN NoHash ELSE h[Len(h)].id]
  <2>1. h = <<>> <=> Len(file) - 1 = 0
    BY <1>4, <1>7, EmptySeq
  <2>2. LinkAfter(file, Len(file) - 1) = IF h = <<>> THEN NoHash ELSE h[Len(h)].id
    BY <1>4, <1>7, <2>1 DEF LinkAfter
  <2> QED
    BY <1>1, <1>7, <2>2 DEF Event
<1> QED
  BY <1>1, <1>2, <1>9, <1>10 DEF History!Extend, History!Successor, h, Event

LEMMA HistorySync ==
    ASSUME HistoryInv, NEW p \in Writers, Sync(p)
    PROVE  History!Promise
<1>1. /\ file \in File /\ Clean(file) /\ event[p] \in Event
      /\ Has(file, Text(event[p])[1])
  BY DEF HistoryInv, ChainInv, DurabilityInv, TypeOK, InFlight, Sync
<1>2. file' = file /\ disk' = file /\ acked' = acked \cup {event[p]}
  BY DEF Sync
<1>3. PICK i \in NonBlank(file) : EventAt(file, i) = event[p]
  BY <1>1, HeldEventHasALine, CleanIsValid DEF Valid
<1>4. i \in 1..(Len(file) - 1)
  <2>1. Len(file) \in Nat \ {0} /\ 1 \in 1..(Len(file) + 1)
    BY <1>1, FileFacts
  <2> QED
    BY <1>1, <1>3, <2>1, CleanBefore
<1>5. i \in 1..Len(Events(file)) /\ Events(file)[i] = event[p]
  BY <1>1, <1>3, <1>4, CleanEvents
<1> QED
  BY <1>2, <1>5 DEF History!Promise

LEMMA HistoryPowerFailure ==
    ASSUME "tear" \notin Faults, HistoryInv, PowerFailure
    PROVE  History!Lose /\ Clean(disk')
<1>1. PICK k \in 1..Len(file) :
        /\ Extends(disk, Cut(file, k, 0))
        /\ file' = Cut(file, k, 0)
        /\ disk' = Cut(file, k, 0)
  BY DEF PowerFailure
<1>2. file \in File /\ disk \in File /\ Clean(file) /\ Clean(disk) /\ acked' = acked
  BY DEF HistoryInv, ChainInv, DurabilityInv, TypeOK, PowerFailure
<1>3. Len(file) \in Nat \ {0} /\ Len(disk) \in Nat \ {0}
  BY <1>2, FileFacts
<1>4. Len(file[k]) \in Nat
  BY <1>2, FileFacts, LenProperties
<1>5. file' \in File /\ Clean(file') /\ Clean(disk')
  <2>1. 0 \in 0..Len(file[k])
    BY <1>4
  <2> QED
    BY <1>1, <1>2, <2>1, CutType, CleanCut
<1>6. Len(file') = k /\ \A i \in 1..(k - 1) : file'[i] = file[i]
  <2> DEFINE L == Seq(Piece)
             s == SubSeq(file, 1, k - 1)
             last == SubSeq(file[k], 1, 0)
  <2>1. file \in Seq(L) /\ \A i \in 1..(k - 1) : file[i] \in L
    BY <1>2, <1>3, FileFacts, LenProperties
  <2>2. last \in L
    BY SubSeqEmpty
  <2> HIDE DEF L, last
  <2>3. s \in Seq(L) /\ Len(s) = k - 1 /\ \A i \in 1..(k - 1) : s[i] = file[i]
    <3>1. /\ s \in Seq(L) /\ Len(s) = IF 1 <= k - 1 THEN k - 1 - 1 + 1 ELSE 0
          /\ \A i \in 1..(k - 1 - 1 + 1) : s[i] = file[1 + i - 1]
      BY <1>3, <2>1, SubSeqProperties
    <3> HIDE DEF s
    <3> QED
      BY <1>3, <3>1
  <2> HIDE DEF s
  <2>4. /\ Len(Append(s, last)) = Len(s) + 1
        /\ \A i \in 1..Len(s) : Append(s, last)[i] = s[i]
    BY <2>2, <2>3, AppendProperties
  <2>5. file' = Append(s, last)
    BY <1>1 DEF Cut, s, last
  <2> QED
    BY <1>3, <2>3, <2>4, <2>5
<1> DEFINE h == Events(file)
           g == Events(file')
<1>7. /\ h \in Seq(Event) /\ Len(h) = Len(file) - 1
      /\ \A n \in 1..(Len(file) - 1) : h[n] = EventAt(file, n)
  BY <1>2, CleanEvents
<1>8. /\ g \in Seq(Event) /\ Len(g) = k - 1
      /\ \A n \in 1..(k - 1) : g[n] = EventAt(file, n)
  BY <1>5, <1>6, CleanEvents DEF EventAt
<1>9. Len(Events(disk)) = Len(disk) - 1 /\ Len(disk) <= k
  BY <1>1, <1>2, <1>6, CleanEvents DEF Extends
<1> HIDE DEF h, g
<1>10. g = SubSeq(h, 1, k - 1)
  <2>1. /\ \A i \in 1..(k - 1) : i \in 1..(Len(file) - 1)
        /\ \A i \in 1..(k - 1) : h[i] \in Event
    BY <1>3, <1>7, LenProperties
  <2>2. /\ SubSeq(h, 1, k - 1) \in Seq(Event)
        /\ Len(SubSeq(h, 1, k - 1)) = IF 1 <= k - 1 THEN k - 1 - 1 + 1 ELSE 0
        /\ \A i \in 1..(k - 1 - 1 + 1) : SubSeq(h, 1, k - 1)[i] = h[1 + i - 1]
    BY <1>3, <2>1, SubSeqProperties
  <2>3. /\ Len(SubSeq(h, 1, k - 1)) = k - 1
        /\ \A i \in 1..(k - 1) : SubSeq(h, 1, k - 1)[i] = h[i]
    BY <1>3, <2>2
  <2>4. \A i \in 1..(k - 1) : g[i] = SubSeq(h, 1, k - 1)[i]
    BY <1>7, <1>8, <2>1, <2>3
  <2> QED
    BY <1>8, <2>2, <2>3, <2>4, SeqEqual
<1>11. /\ k - 1 \in Len(Events(disk))..Len(h)
       /\ Len(Events(disk')) = k - 1
  BY <1>1, <1>3, <1>7, <1>8, <1>9 DEF g
<1> QED
  BY <1>2, <1>5, <1>10, <1>11 DEF History!Lose, h, g

\* With one writer and no torn line, append_event implements AppendOnlyLog, through
\* failed calls, power failures and restarts.
THEOREM OneWriterImplementsHistory ==
    ASSUME "tear" \notin Faults, \A p, q \in Writers : p = q
    PROVE  Spec => ImplementsHistory
<1>1. HistoryInv /\ [Next]_vars => HistoryInv'
  <2> SUFFICES ASSUME HistoryInv, [Next]_vars PROVE HistoryInv'
    OBVIOUS
  <2>1. ChainInv'
    BY ChainNext DEF HistoryInv
  <2>2. Clean(disk')
    BY HistoryPowerFailure DEF Next, vars, HistoryInv, ChainInv, Begin, Hold, Refuse,
       Write, Sync, Fail, Audit
  <2> QED
    BY <2>1, <2>2 DEF HistoryInv
<1>2. HistoryInv /\ [Next]_vars => [History!ANext]_(History!avars)
  <2> SUFFICES ASSUME HistoryInv, [Next]_vars
               PROVE  [History!ANext]_(History!avars)
    OBVIOUS
  <2>1. ASSUME NEW p \in Writers, Write(p) PROVE History!ANext
    <3>1. ChainInv'
      BY ChainNext DEF HistoryInv
    <3> QED
      BY <2>1, <3>1, HistoryWrite DEF History!ANext
  <2>2. ASSUME NEW p \in Writers, Sync(p) PROVE History!ANext
    BY <2>2, HistorySync DEF History!ANext
  <2>3. ASSUME PowerFailure PROVE History!ANext
    BY <2>3, HistoryPowerFailure DEF History!ANext
  <2>4. ASSUME NEW p \in Writers, Begin(p) \/ Refuse(p) \/ Fail(p)
        PROVE  UNCHANGED History!avars
    BY <2>4 DEF Begin, Hold, Refuse, Fail, History!avars
  <2>5. ASSUME Audit \/ UNCHANGED vars PROVE UNCHANGED History!avars
    BY <2>5 DEF Audit, vars, History!avars
  <2> QED
    BY <2>1, <2>2, <2>3, <2>4, <2>5 DEF Next
<1>3. Init => HistoryInv /\ History!AInit
  BY HistoryInit
<1> QED
  BY <1>1, <1>2, <1>3, PTL DEF Spec, ImplementsHistory, History!ASpec

=============================================================================
