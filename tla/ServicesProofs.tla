---------------------------- MODULE ServicesProofs ----------------------------
(***************************************************************************)
(* Proofs about the services, each for every value of the constants of its *)
(* module: the event stream, the retention manager, the key ranges of the  *)
(* store, the visitor table, the kill demo, the training curve, the log    *)
(* pane and the storage panel; for the streaming write they are in         *)
(* ShardStreamProofs.  At the end, the properties of Services: a behaviour *)
(* follows one service, each of its steps is one of that service's module, *)
(* and the invariant of that module is kept.                               *)
(***************************************************************************)
EXTENDS Services, FiniteSetTheorems, SequenceTheorems, WellFoundedInduction, TLAPS

\* A set of numbers has a least element.
LEMMA MinExists ==
  ASSUME NEW S, S \subseteq Nat, S # {}
  PROVE  \E m \in S : \A x \in S : m <= x
  <1>1. \E m \in S : \A x \in S : ~ (<<x, m>> \in OpToRel(<, Nat))
    BY WFMin, NatLessThanWellFounded, Zenon
  <1>2. \A j, k \in Nat : <<j, k>> \in OpToRel(<, Nat) <=> j < k
    BY Zenon DEF OpToRel
  <1>3. PICK m \in S : \A x \in S : ~(x < m)
    BY <1>1, <1>2, Zenon
  <1> QED
    BY <1>3

\* A set of numbers below some bound has a greatest element.
LEMMA MaxExists ==
  ASSUME NEW S, S \subseteq Nat, S # {}, NEW n \in Nat, \A x \in S : x <= n
  PROVE  \E m \in S : \A x \in S : x <= m
  <1> DEFINE T == {n - x : x \in S}
  <1>1. T \subseteq Nat
    OBVIOUS
  <1>2. \A k \in T : \E x \in S : k = n - x
    OBVIOUS
  <1>3. T # {} /\ \A x \in S : n - x \in T
    OBVIOUS
  <1> HIDE DEF T
  <1>4. PICK k \in T : \A x \in T : k <= x
    BY <1>1, <1>3, MinExists, Zenon
  <1>5. PICK m \in S : k = n - m
    BY <1>2
  <1>6. ASSUME NEW x \in S PROVE x <= m
    <2>1. n - m <= n - x
      BY <1>3, <1>4, <1>5
    <2> QED
      BY <2>1, x \in Nat, m \in Nat
  <1> QED
    BY <1>6

\* A sequence over a set is one over every larger set.
LEMMA SeqWider ==
  ASSUME NEW S, NEW T, S \subseteq T, NEW s \in Seq(S)
  PROVE  s \in Seq(T)
  <1>1. s \in [1..Len(s) -> T] /\ Len(s) \in Nat
    OBVIOUS
  <1> QED
    BY <1>1, SeqDef

-----------------------------------------------------------------------------
(* PrefixRange *)

Agree(s, t, n) == \A i \in 1..n : s[i] = t[i]

\* Two strings have the same first bytes if they agree on each of them.
LEMMA SubSeqAgree ==
  ASSUME NEW s \in Seq(Int), NEW t \in Seq(Int), NEW n \in 0..Len(s), n <= Len(t)
  PROVE  SubSeq(s, 1, n) = SubSeq(t, 1, n) <=> Agree(s, t, n)
  <1>1. /\ SubSeq(s, 1, n) \in Seq(Int) /\ Len(SubSeq(s, 1, n)) = n
        /\ \A i \in 1..n : SubSeq(s, 1, n)[i] = s[i]
    OBVIOUS
  <1>2. /\ SubSeq(t, 1, n) \in Seq(Int) /\ Len(SubSeq(t, 1, n)) = n
        /\ \A i \in 1..n : SubSeq(t, 1, n)[i] = t[i]
    OBVIOUS
  <1>3. ASSUME SubSeq(s, 1, n) = SubSeq(t, 1, n) PROVE Agree(s, t, n)
    BY <1>1, <1>2, <1>3 DEF Agree
  <1>4. ASSUME Agree(s, t, n) PROVE SubSeq(s, 1, n) = SubSeq(t, 1, n)
    BY <1>1, <1>2, <1>4 DEF Agree
  <1> QED
    BY <1>3, <1>4

\* The byte-wise order, in terms of the bytes.
LEMMA BelowIs ==
  ASSUME NEW s \in Seq(Int), NEW t \in Seq(Int)
  PROVE  Prefixes!Below(s, t) <=> \/ Len(s) < Len(t) /\ Agree(s, t, Len(s))
                         \/ \E i \in 1..Len(s) : i <= Len(t) /\ Agree(s, t, i - 1) /\ s[i] < t[i]
  <1>1. Len(s) \in Nat /\ Len(t) \in Nat
    OBVIOUS
  <1>2. ASSUME Len(s) < Len(t)
        PROVE  SubSeq(t, 1, Len(s)) = s <=> Agree(s, t, Len(s))
    <2>1. SubSeq(s, 1, Len(s)) = s
      OBVIOUS
    <2>2. SubSeq(s, 1, Len(s)) = SubSeq(t, 1, Len(s)) <=> Agree(s, t, Len(s))
      BY <1>1, <1>2, SubSeqAgree
    <2> QED
      BY <2>1, <2>2
  <1>3. ASSUME NEW i \in 1..Len(s), i <= Len(t)
        PROVE  SubSeq(s, 1, i - 1) = SubSeq(t, 1, i - 1) <=> Agree(s, t, i - 1)
    <2>1. i - 1 \in 0..Len(s) /\ i - 1 <= Len(t)
      BY <1>1, <1>3
    <2> QED
      BY <2>1, SubSeqAgree
  <1> QED
    BY <1>2, <1>3, Zenon DEF Prefixes!Below

\* Two strings agree as far as both go, or there is a first byte where they differ.
LEMMA FirstDifference ==
  ASSUME NEW s \in Seq(Int), NEW t \in Seq(Int)
  PROVE  \/ Len(s) <= Len(t) /\ Agree(s, t, Len(s))
         \/ Len(t) <= Len(s) /\ Agree(s, t, Len(t))
         \/ \E i \in 1..Len(s) : i <= Len(t) /\ Agree(s, t, i - 1) /\ s[i] # t[i]
  <1> DEFINE D == {i \in 1..Len(s) : i <= Len(t) /\ s[i] # t[i]}
  <1>1. Len(s) \in Nat /\ Len(t) \in Nat
    OBVIOUS
  <1>2. CASE D = {}
    <2>1. \A i \in 1..Len(s) : i <= Len(t) => s[i] = t[i]
      BY <1>2
    <2>2. Len(s) <= Len(t) => \A i \in 1..Len(s) : s[i] = t[i]
      BY <1>1, <2>1
    <2>3. Len(t) <= Len(s) => \A i \in 1..Len(t) : s[i] = t[i]
      BY <1>1, <2>1
    <2>4. Len(s) <= Len(t) \/ Len(t) <= Len(s)
      BY <1>1
    <2> QED
      BY <2>2, <2>3, <2>4, Zenon DEF Agree
  <1>3. CASE D # {}
    <2>1. D \subseteq Nat
      BY <1>1
    <2>2. PICK m \in D : \A x \in D : m <= x
      <3> HIDE DEF D
      <3> QED BY <1>3, <2>1, MinExists, Zenon
    <2>3. ASSUME NEW i \in 1..(m - 1) PROVE s[i] = t[i]
      <3>1. m \in 1..Len(s) /\ m <= Len(t)
        BY <2>2
      <3>2. i \in 1..Len(s) /\ i <= Len(t) /\ ~(m <= i)
        BY <1>1, <3>1
      <3>3. i \notin D
        BY <2>2, <3>2
      <3> QED
        BY <3>2, <3>3
    <2> QED
      BY <2>2, <2>3 DEF Agree
  <1> QED
    BY <1>2, <1>3

\* A key starts with the prefix if it is long enough and has the prefix's bytes.
LEMMA StartsWithIs ==
  ASSUME NEW k \in Seq(Int), NEW p \in Seq(Int)
  PROVE  Prefixes!startswith(k, p) <=> Len(p) <= Len(k) /\ Agree(k, p, Len(p))
  <1>1. Len(p) \in Nat /\ Len(k) \in Nat /\ SubSeq(p, 1, Len(p)) = p
    OBVIOUS
  <1>2. ASSUME Len(p) <= Len(k) PROVE SubSeq(k, 1, Len(p)) = SubSeq(p, 1, Len(p)) <=> Agree(k, p, Len(p))
    <2>1. Len(p) \in 0..Len(k) /\ Len(p) <= Len(p)
      BY <1>1, <1>2
    <2> QED
      BY <2>1, SubSeqAgree
  <1> QED
    BY <1>1, <1>2 DEF Prefixes!startswith

\* A key is not below the prefix if it starts with it; otherwise it is below it or it has
\* a first byte that differs and is greater.
LEMMA NotBelowPrefix ==
  ASSUME NEW k \in Seq(Int), NEW p \in Seq(Int)
  PROVE  /\ Prefixes!startswith(k, p) => ~Prefixes!Below(k, p)
         /\ ~Prefixes!Below(k, p) => \/ Prefixes!startswith(k, p)
                            \/ \E i \in 1..Len(k) : i <= Len(p) /\ Agree(k, p, i - 1) /\ k[i] > p[i]
  <1>1. Len(p) \in Nat /\ Len(k) \in Nat
    OBVIOUS
  <1>t. /\ \A i \in 1..Len(k) : k[i] \in Int
        /\ \A i \in 1..Len(p) : p[i] \in Int
    OBVIOUS
  <1>2. ASSUME Prefixes!startswith(k, p) PROVE ~Prefixes!Below(k, p)
    <2>1. Len(p) <= Len(k) /\ Agree(k, p, Len(p))
      BY <1>2, StartsWithIs
    <2>2. ASSUME NEW i \in 1..Len(k), i <= Len(p) PROVE ~(k[i] < p[i])
      BY <2>1, <2>2, <1>t DEF Agree
    <2> QED
      BY <1>1, <2>1, <2>2, BelowIs
  <1>3. ASSUME ~Prefixes!Below(k, p)
        PROVE  \/ Prefixes!startswith(k, p)
               \/ \E i \in 1..Len(k) : i <= Len(p) /\ Agree(k, p, i - 1) /\ k[i] > p[i]
    <2>1. CASE Len(k) <= Len(p) /\ Agree(k, p, Len(k))
      <3>1. ~(Len(k) < Len(p))
        BY <1>3, <2>1, BelowIs
      <3> QED
        BY <1>1, <2>1, <3>1, StartsWithIs
    <2>2. CASE Len(p) <= Len(k) /\ Agree(k, p, Len(p))
      BY <2>2, StartsWithIs
    <2>3. ASSUME NEW i \in 1..Len(k), i <= Len(p), Agree(k, p, i - 1), k[i] # p[i]
          PROVE  k[i] > p[i]
      <3>1. ~(k[i] < p[i])
        BY <1>3, <2>3, BelowIs
      <3> QED
        BY <3>1, <2>3, <1>1, <1>t
    <2> QED
      BY <2>1, <2>2, <2>3, FirstDifference, Zenon
  <1> QED
    BY <1>2, <1>3

\* A prefix of 0xFF bytes only: the range has no end, and no key is above the prefix
\* without starting with it.
LEMMA FullPrefix ==
  ASSUME Prefixes!RangeAssumption, NEW k \in Seq(Prefixes!Bytes), NEW p \in Seq(Prefixes!Bytes), Prefixes!NotFull(p) = {}
  PROVE  Prefixes!startswith(k, p) <=> ~Prefixes!Below(k, p)
  <1>1. MaxByte \in Nat /\ k \in Seq(Int) /\ p \in Seq(Int)
    BY DEF Prefixes!RangeAssumption, Prefixes!Bytes
  <1>2. ASSUME NEW i \in 1..Len(k), i <= Len(p) PROVE ~(k[i] > p[i])
    <2>1. i \in 1..Len(p) /\ k[i] \in Prefixes!Bytes /\ p[i] \in Prefixes!Bytes
      BY <1>2
    <2>2. ~(p[i] < MaxByte)
      BY <2>1 DEF Prefixes!NotFull
    <2> QED
      BY <1>1, <2>1, <2>2 DEF Prefixes!Bytes
  <1> QED
    BY <1>1, <1>2, NotBelowPrefix, Zenon

\* The end of the range otherwise: the bytes up to the last that is not 0xFF, incremented.
LEMMA EndOfRange ==
  ASSUME Prefixes!RangeAssumption, NEW p \in Seq(Prefixes!Bytes), Prefixes!NotFull(p) # {}
  PROVE  \E m \in Prefixes!NotFull(p) :
           /\ \A j \in Prefixes!NotFull(p) : j <= m
           /\ Prefixes!prefix_end(p) \in Seq(Int) /\ Len(Prefixes!prefix_end(p)) = m
           /\ Agree(Prefixes!prefix_end(p), p, m - 1) /\ Prefixes!prefix_end(p)[m] = p[m] + 1
           /\ Prefixes!prefix_end(p) # <<0>>
  <1> DEFINE m == CHOOSE i \in Prefixes!NotFull(p) : \A j \in Prefixes!NotFull(p) : j <= i
             q == SubSeq(p, 1, m)
             e == [q EXCEPT ![m] = @ + 1]
  <1>1. Len(p) \in Nat /\ Prefixes!NotFull(p) \subseteq Nat /\ \A i \in Prefixes!NotFull(p) : i <= Len(p)
    BY DEF Prefixes!NotFull
  <1>2. \E i \in Prefixes!NotFull(p) : \A j \in Prefixes!NotFull(p) : j <= i
    BY <1>1, MaxExists
  <1>3. m \in Prefixes!NotFull(p) /\ \A j \in Prefixes!NotFull(p) : j <= m
    BY <1>2, Zenon
  <1>4. m \in 1..Len(p)
    BY <1>3 DEF Prefixes!NotFull
  <1>5. Prefixes!prefix_end(p) = e
    BY DEF Prefixes!prefix_end
  <1>6. \A i \in 1..Len(p) : p[i] \in Int /\ p[i] >= 0
    BY DEF Prefixes!Bytes, Prefixes!RangeAssumption
  <1> HIDE DEF m
  <1>7. q \in Seq(Int) /\ Len(q) = m /\ \A i \in 1..m : q[i] = p[i]
    BY <1>1, <1>4, <1>6
  <1> HIDE DEF q
  <1>8. e \in Seq(Int) /\ Len(e) = m
    BY <1>4, <1>6, <1>7
  <1>9. e[m] = p[m] + 1 /\ \A i \in 1..(m - 1) : e[i] = p[i]
    BY <1>4, <1>7
  <1>10. e # <<0>>
    <2>1. e[m] > 0
      BY <1>4, <1>6, <1>9
    <2> HIDE DEF e
    <2> QED
      BY <1>4, <1>8, <2>1
  <1> HIDE DEF e
  <1> QED
    BY <1>3, <1>5, <1>8, <1>9, <1>10 DEF Agree

\* A key lies between the prefix and that end exactly if it starts with the prefix.
LEMMA OtherPrefix ==
  ASSUME Prefixes!RangeAssumption, NEW k \in Seq(Prefixes!Bytes), NEW p \in Seq(Prefixes!Bytes), Prefixes!NotFull(p) # {}
  PROVE  Prefixes!startswith(k, p) <=> ~Prefixes!Below(k, p) /\ Prefixes!Below(k, Prefixes!prefix_end(p))
  <1> DEFINE e == Prefixes!prefix_end(p)
  <1>1. PICK m \in Prefixes!NotFull(p) :
          /\ \A j \in Prefixes!NotFull(p) : j <= m
          /\ e \in Seq(Int) /\ Len(e) = m
          /\ Agree(e, p, m - 1) /\ e[m] = p[m] + 1
    BY EndOfRange, Zenon
  <1> HIDE DEF e
  <1>2. m \in 1..Len(p) /\ Len(p) \in Nat /\ Len(k) \in Nat
    BY DEF Prefixes!NotFull
  <1>3. k \in Seq(Int) /\ p \in Seq(Int)
    BY DEF Prefixes!Bytes, Prefixes!RangeAssumption
  <1>4. /\ \A i \in 1..Len(k) : k[i] \in Int /\ k[i] <= MaxByte
        /\ \A i \in 1..Len(p) : p[i] \in Int
        /\ \A i \in 1..m : e[i] \in Int
        /\ MaxByte \in Nat
    <2>1. \A i \in 1..Len(k) : k[i] \in 0..MaxByte
      <3>1. \A i \in 1..Len(k) : k[i] \in Prefixes!Bytes
        OBVIOUS
      <3> QED
        BY <3>1 DEF Prefixes!Bytes
    <2>2. MaxByte \in Nat
      BY DEF Prefixes!RangeAssumption
    <2> QED
      BY <1>1, <1>3, <2>1, <2>2
  <1>5. ASSUME Prefixes!startswith(k, p) PROVE ~Prefixes!Below(k, p) /\ Prefixes!Below(k, e)
    <2>1. Len(p) <= Len(k) /\ Agree(k, p, Len(p))
      BY <1>3, <1>5, StartsWithIs
    <2>2. m \in 1..Len(k) /\ k[m] < e[m]
      BY <1>1, <1>2, <1>4, <2>1 DEF Agree
    <2>3. Agree(k, e, m - 1)
      BY <1>1, <1>2, <2>1 DEF Agree
    <2>4. Prefixes!Below(k, e)
      BY <1>1, <1>2, <1>3, <2>2, <2>3, BelowIs
    <2> QED
      BY <1>3, <1>5, <2>4, NotBelowPrefix
  <1>6. ASSUME ~Prefixes!Below(k, p), Prefixes!Below(k, e) PROVE Prefixes!startswith(k, p)
    <2>1. SUFFICES ASSUME NEW i \in 1..Len(k), i <= Len(p), Agree(k, p, i - 1), k[i] > p[i]
                   PROVE  FALSE
      BY <1>3, <1>6, NotBelowPrefix, Zenon
    <2>2. i \in Prefixes!NotFull(p)
      BY <1>2, <1>4, <2>1 DEF Prefixes!NotFull
    <2>3. i <= m
      BY <1>1, <2>2
    <2>4. k[i] >= e[i]
      <3>1. CASE i = m
        BY <1>1, <1>2, <1>4, <2>1, <3>1
      <3>2. CASE i < m
        BY <1>1, <1>2, <1>4, <2>1, <3>2 DEF Agree
      <3> QED
        BY <1>2, <2>3, <3>1, <3>2
    <2>5. Agree(k, e, i - 1)
      BY <1>1, <1>2, <2>1, <2>3 DEF Agree
    <2>6. CASE Len(k) < Len(e) /\ Agree(k, e, Len(k))
      <3>1. i < m
        BY <1>1, <1>2, <2>1, <2>6
      <3>2. k[i] = e[i] /\ e[i] = p[i]
        BY <1>1, <1>2, <2>1, <2>6, <3>1 DEF Agree
      <3> QED
        BY <1>2, <1>4, <2>1, <3>2
    <2>7. ASSUME NEW j \in 1..Len(k), j <= Len(e), Agree(k, e, j - 1), k[j] < e[j] PROVE FALSE
      <3>1. CASE j < i
        BY <1>1, <1>2, <1>4, <2>5, <2>7, <3>1 DEF Agree
      <3>2. CASE j = i
        BY <1>1, <1>2, <1>4, <2>4, <2>7, <3>2
      <3>3. CASE i < j
        <4>1. i < m
          BY <1>1, <1>2, <2>7, <3>3
        <4>2. k[i] = e[i] /\ e[i] = p[i]
          BY <1>1, <1>2, <2>1, <2>7, <3>3, <4>1 DEF Agree
        <4> QED
          BY <1>2, <1>4, <2>1, <4>2
      <3> QED
        BY <1>2, <3>1, <3>2, <3>3
    <2> QED
      BY <1>1, <1>3, <1>6, <2>6, <2>7, BelowIs, Zenon
  <1> QED
    BY <1>5, <1>6 DEF e

RangeInv == prefix \in Seq(Prefixes!Bytes) /\ keys \subseteq Seq(Prefixes!Bytes)

\* The range is right for every prefix and every set of keys.
LEMMA InvRange ==
  ASSUME Prefixes!RangeAssumption, RangeInv PROVE Prefixes!RangeIsPrefix
  <1>1. ASSUME NEW k \in keys
        PROVE  k \in Prefixes!get_prefix(prefix) <=> Prefixes!startswith(k, prefix)
    <2>1. k \in Seq(Prefixes!Bytes) /\ prefix \in Seq(Prefixes!Bytes)
      BY DEF RangeInv
    <2>2. CASE Prefixes!NotFull(prefix) = {}
      <3>1. Prefixes!prefix_end(prefix) = <<0>>
        BY <2>2 DEF Prefixes!prefix_end
      <3> QED
        BY <2>1, <2>2, <3>1, FullPrefix, Zenon DEF Prefixes!get_prefix, Prefixes!Range
    <2>3. CASE Prefixes!NotFull(prefix) # {}
      <3>1. Prefixes!prefix_end(prefix) # <<0>>
        BY <2>1, <2>3, EndOfRange, Zenon
      <3> QED
        BY <2>1, <2>3, <3>1, OtherPrefix, Zenon DEF Prefixes!get_prefix, Prefixes!Range
    <2> QED
      BY <2>2, <2>3
  <1>2. Prefixes!get_prefix(prefix) \subseteq keys
    BY DEF Prefixes!get_prefix, Prefixes!Range
  <1> QED
    BY <1>1, <1>2, Zenon DEF Prefixes!RangeIsPrefix

\* The strings the module draws prefixes and keys from are byte strings.
LEMMA StringsAreBytes == Prefixes!RangeAssumption => Prefixes!Strings \subseteq Seq(Prefixes!Bytes)
  BY DEF Prefixes!Strings, Prefixes!RangeAssumption

LEMMA RangeInit == ASSUME Prefixes!RangeAssumption PROVE Prefixes!Init => RangeInv
  BY StringsAreBytes DEF Prefixes!Init, RangeInv

LEMMA RangeNext ==
  ASSUME Prefixes!RangeAssumption, RangeInv, [Prefixes!Next]_(Prefixes!vars) PROVE RangeInv'
  BY StringsAreBytes DEF RangeInv, Prefixes!Next, Prefixes!Put, Prefixes!vars
-----------------------------------------------------------------------------
(* EventFeed *)

\* Appending an event.
LEMMA Appended ==
  ASSUME NEW s \in Seq(Events!Event), NEW e \in Events!Event
  PROVE  /\ Append(s, e) \in Seq(Events!Event) /\ Len(Append(s, e)) = Len(s) + 1
         /\ DOMAIN Append(s, e) = 1..(Len(s) + 1) /\ DOMAIN s = 1..Len(s) /\ Len(s) \in Nat
         /\ \A i \in DOMAIN s : Append(s, e)[i] = s[i]
         /\ Append(s, e)[Len(s) + 1] = e
  OBVIOUS

\* Taking the first event.
LEMMA Tailed ==
  ASSUME NEW s \in Seq(Events!Event), s # <<>>
  PROVE  /\ Tail(s) \in Seq(Events!Event) /\ Head(s) \in Events!Event /\ Head(s) = s[1]
         /\ DOMAIN Tail(s) = 1..(Len(s) - 1) /\ Len(Tail(s)) = Len(s) - 1
         /\ DOMAIN s = 1..Len(s) /\ Len(s) \in Nat /\ 1 \in DOMAIN s
         /\ \A i \in DOMAIN Tail(s) : Tail(s)[i] = s[i + 1] /\ i + 1 \in DOMAIN s
  OBVIOUS

\* The numbers of a line to which an event is added, or whose first event is taken.
LEMMA NumbersAppended ==
  ASSUME NEW s \in Seq(Events!Event), NEW e \in Events!Event
  PROVE  Events!Numbers(Append(s, e)) = Events!Numbers(s) \cup {e.n}
  <1>1. ASSUME NEW x \in Events!Numbers(Append(s, e)) PROVE x \in Events!Numbers(s) \cup {e.n}
    <2>1. PICK i \in DOMAIN Append(s, e) : x = Append(s, e)[i].n
      BY DEF Events!Numbers
    <2>2. CASE i \in DOMAIN s
      BY <2>1, <2>2, Appended DEF Events!Numbers
    <2>3. CASE i = Len(s) + 1
      BY <2>1, <2>3, Appended
    <2> QED
      BY <2>1, <2>2, <2>3, Appended
  <1>2. ASSUME NEW x \in Events!Numbers(s) PROVE x \in Events!Numbers(Append(s, e))
    <2>1. PICK i \in DOMAIN s : x = s[i].n
      BY DEF Events!Numbers
    <2> QED
      BY <2>1, Appended DEF Events!Numbers
  <1>3. e.n \in Events!Numbers(Append(s, e))
    <2>1. Len(s) + 1 \in DOMAIN Append(s, e) /\ Append(s, e)[Len(s) + 1] = e
      BY Appended
    <2> QED
      BY <2>1 DEF Events!Numbers
  <1> QED
    BY <1>1, <1>2, <1>3

\* The numbers left when the first event is taken.
LEMMA NumbersTailed ==
  ASSUME NEW s \in Seq(Events!Event), s # <<>>
  PROVE  Events!Numbers(s) = {Head(s).n} \cup Events!Numbers(Tail(s))
  <1>1. ASSUME NEW x \in Events!Numbers(s) PROVE x \in {Head(s).n} \cup Events!Numbers(Tail(s))
    <2>1. PICK i \in DOMAIN s : x = s[i].n
      BY DEF Events!Numbers
    <2>2. CASE i = 1
      BY <2>1, <2>2, Tailed
    <2>3. CASE i # 1
      <3>1. i - 1 \in DOMAIN Tail(s) /\ Tail(s)[i - 1] = s[i]
        BY <2>1, <2>3, Tailed
      <3> QED
        BY <2>1, <3>1 DEF Events!Numbers
    <2> QED
      BY <2>2, <2>3
  <1>2. ASSUME NEW x \in Events!Numbers(Tail(s)) PROVE x \in Events!Numbers(s)
    <2>1. PICK i \in DOMAIN Tail(s) : x = Tail(s)[i].n
      BY DEF Events!Numbers
    <2> QED
      BY <2>1, Tailed DEF Events!Numbers
  <1>3. Head(s).n \in Events!Numbers(s)
    BY Tailed DEF Events!Numbers
  <1> QED
    BY <1>1, <1>2, <1>3

\* A later event goes to the end of an ordered line; a line stays ordered when its first
\* event is taken, which is earlier than the others.
LEMMA OrderedAppended ==
  ASSUME NEW s \in Seq(Events!Event), NEW e \in Events!Event, Events!Ordered(s), \A i \in DOMAIN s : s[i].n < e.n
  PROVE  Events!Ordered(Append(s, e))
  <1> SUFFICES ASSUME NEW i \in DOMAIN Append(s, e), NEW j \in DOMAIN Append(s, e), i < j
               PROVE  Append(s, e)[i].n < Append(s, e)[j].n
    BY DEF Events!Ordered
  <1>1. i \in DOMAIN s /\ Append(s, e)[i] = s[i]
    BY Appended
  <1>2. CASE j \in DOMAIN s
    BY <1>1, <1>2, Appended DEF Events!Ordered
  <1>3. CASE j = Len(s) + 1
    BY <1>1, <1>3, Appended
  <1> QED
    BY <1>2, <1>3, Appended

\* What is left of an ordered queue is ordered, and comes after what was taken.
LEMMA OrderedTailed ==
  ASSUME NEW s \in Seq(Events!Event), s # <<>>, Events!Ordered(s)
  PROVE  Events!Ordered(Tail(s)) /\ \A i \in DOMAIN Tail(s) : Head(s).n < Tail(s)[i].n
  <1>1. ASSUME NEW i \in DOMAIN Tail(s), NEW j \in DOMAIN Tail(s), i < j
        PROVE  Tail(s)[i].n < Tail(s)[j].n
    <2>1. i + 1 \in DOMAIN s /\ j + 1 \in DOMAIN s /\ i + 1 < j + 1
      BY <1>1, Tailed
    <2> QED
      BY <2>1, Tailed DEF Events!Ordered
  <1>2. ASSUME NEW i \in DOMAIN Tail(s) PROVE Head(s).n < Tail(s)[i].n
    <2>1. i + 1 \in DOMAIN s /\ 1 \in DOMAIN s /\ 1 < i + 1
      BY Tailed
    <2> QED
      BY <2>1, Tailed DEF Events!Ordered
  <1> QED
    BY <1>1, <1>2 DEF Events!Ordered

\* What is said of all the events of a line, after an event is added and after one is taken.
LEMMA PrecedesAppended ==
  ASSUME NEW s \in Seq(Events!Event), NEW t \in Seq(Events!Event), NEW e \in Events!Event, Events!Precedes(s, t)
  PROVE  /\ (\A i \in DOMAIN s : s[i].n < e.n) => Events!Precedes(s, Append(t, e))
         /\ (\A j \in DOMAIN t : e.n < t[j].n) => Events!Precedes(Append(s, e), t)
  <1>1. ASSUME \A i \in DOMAIN s : s[i].n < e.n, NEW i \in DOMAIN s, NEW j \in DOMAIN Append(t, e)
        PROVE  s[i].n < Append(t, e)[j].n
    <2>1. CASE j \in DOMAIN t
      BY <2>1, Appended DEF Events!Precedes
    <2>2. CASE j = Len(t) + 1
      BY <1>1, <2>2, Appended
    <2> QED
      BY <2>1, <2>2, Appended
  <1>2. ASSUME \A j \in DOMAIN t : e.n < t[j].n, NEW i \in DOMAIN Append(s, e), NEW j \in DOMAIN t
        PROVE  Append(s, e)[i].n < t[j].n
    <2>1. CASE i \in DOMAIN s
      BY <2>1, Appended DEF Events!Precedes
    <2>2. CASE i = Len(s) + 1
      BY <1>2, <2>2, Appended
    <2> QED
      BY <2>1, <2>2, Appended
  <1> QED
    BY <1>1, <1>2 DEF Events!Precedes

\* Two queues stay in line when the first event of either is taken.
LEMMA PrecedesTailed ==
  ASSUME NEW s \in Seq(Events!Event), NEW t \in Seq(Events!Event), Events!Precedes(s, t)
  PROVE  /\ t # <<>> => Events!Precedes(s, Tail(t)) /\ \A i \in DOMAIN s : s[i].n < Head(t).n
         /\ s # <<>> => Events!Precedes(Tail(s), t) /\ \A j \in DOMAIN t : Head(s).n < t[j].n
  <1>1. ASSUME t # <<>> PROVE Events!Precedes(s, Tail(t)) /\ \A i \in DOMAIN s : s[i].n < Head(t).n
    <2>1. \A i \in DOMAIN s : s[i].n < Head(t).n
      BY <1>1, Tailed DEF Events!Precedes
    <2>2. Events!Precedes(s, Tail(t))
      BY <1>1, Tailed DEF Events!Precedes
    <2> QED
      BY <2>1, <2>2
  <1>2. ASSUME s # <<>> PROVE Events!Precedes(Tail(s), t) /\ \A j \in DOMAIN t : Head(s).n < t[j].n
    <2>1. \A j \in DOMAIN t : Head(s).n < t[j].n
      BY <1>2, Tailed DEF Events!Precedes
    <2>2. Events!Precedes(Tail(s), t)
      BY <1>2, Tailed DEF Events!Precedes
    <2> QED
      BY <2>1, <2>2
  <1> QED
    BY <1>1, <1>2

\* An event that was published goes to the end of a line of published events.
LEMMA PublishedAppended ==
  ASSUME NEW s \in Seq(Events!Event), NEW e \in Events!Event, Events!PublishedOf(s), e.run = runId, e.n <= published[runId]
  PROVE  Events!PublishedOf(Append(s, e))
  <1> SUFFICES ASSUME NEW i \in DOMAIN Append(s, e)
               PROVE  Append(s, e)[i].run = runId /\ Append(s, e)[i].n <= published[runId]
    BY DEF Events!PublishedOf
  <1>1. CASE i \in DOMAIN s
    BY <1>1, Appended DEF Events!PublishedOf
  <1>2. CASE i = Len(s) + 1
    BY <1>2, Appended
  <1> QED
    BY <1>1, <1>2, Appended

\* The empty line.
LEMMA EmptyLine ==
  ASSUME NEW s
  PROVE  /\ Events!Ordered(<<>>) /\ Events!Precedes(s, <<>>) /\ Events!Precedes(<<>>, s) /\ Events!PublishedOf(<<>>)
         /\ Events!Numbers(<<>>) = {} /\ <<>> \in Seq(Events!Event)
  BY DEF Events!Ordered, Events!Precedes, Events!PublishedOf, Events!Numbers
-----------------------------------------------------------------------------
\* Before anything is published and any page is open.
LEMMA FeedInit == ASSUME Events!FeedAssumption PROVE Events!Init => Events!FeedInv
  <1> SUFFICES ASSUME Events!Init PROVE Events!FeedInv
    OBVIOUS
  <1> USE DEF Events!Init, Events!NoSub, Events!FeedAssumption
  <1>1. Events!TypeOK
    BY EmptyLine DEF Events!TypeOK, Events!Subscriber
  <1>2. Events!OneSource
    BY DEF Events!OneSource
  <1>3. Events!InOneLine
    BY EmptyLine DEF Events!InOneLine, Events!OnWire, Events!Queued
  <1> QED
    BY <1>1, <1>2, <1>3 DEF Events!FeedInv

\* The list keeps its cap.
LEMMA PushedType ==
  ASSUME Events!FeedAssumption, Events!TypeOK, NEW e \in Events!Event
  PROVE  Events!Pushed(e) \in Seq(Events!Event) /\ Len(Events!Pushed(e)) <= MAX_EVENTS
  <1> DEFINE k == IF Len(events) < MAX_EVENTS THEN 1 ELSE 2
             t == SubSeq(events, k, Len(events))
  <1>1. events \in Seq(Events!Event) /\ Len(events) \in Nat /\ Len(events) <= MAX_EVENTS /\ MAX_EVENTS \in Nat \ {0}
    BY DEF Events!TypeOK, Events!FeedAssumption
  <1>2. t \in Seq(Events!Event) /\ Len(t) < MAX_EVENTS
    BY <1>1
  <1> HIDE DEF t
  <1>3. Append(t, e) \in Seq(Events!Event) /\ Len(Append(t, e)) <= MAX_EVENTS
    BY <1>1, <1>2, Appended
  <1> QED
    BY <1>3 DEF Events!Pushed, t

\* A subscriber that is offered an event still has at most a queue of them.
LEMMA OfferedType ==
  ASSUME Events!FeedAssumption, NEW c \in Conn, NEW e \in Events!Event,
         subs[c] \in Events!Subscriber, Len(subs[c].queue) <= QueueMax
  PROVE  /\ Events!Offered(c, e) \in Events!Subscriber /\ Len(Events!Offered(c, e).queue) <= QueueMax
         /\ Events!Offered(c, e).run = subs[c].run /\ Events!Offered(c, e).up = subs[c].up
         /\ Events!Offered(c, e).queue = IF Len(subs[c].queue) = QueueMax THEN subs[c].queue
                                                                   ELSE Append(subs[c].queue, e)
  <1> DEFINE q == Append(subs[c].queue, e)
  <1>1. subs[c].queue \in Seq(Events!Event) /\ Len(subs[c].queue) \in Nat /\ QueueMax \in Nat
    BY DEF Events!Subscriber, Events!FeedAssumption
  <1>2. q \in Seq(Events!Event) /\ Len(q) = Len(subs[c].queue) + 1
    BY <1>1, Appended
  <1>3. CASE Len(subs[c].queue) < QueueMax
    <2>1. Events!Offered(c, e) = [subs[c] EXCEPT !.queue = q]
      BY <1>3 DEF Events!Offered
    <2> HIDE DEF q
    <2>2. /\ Events!Offered(c, e) \in Events!Subscriber /\ Events!Offered(c, e).queue = q
          /\ Events!Offered(c, e).run = subs[c].run /\ Events!Offered(c, e).up = subs[c].up
      BY <1>2, <2>1 DEF Events!Subscriber
    <2> QED
      BY <1>1, <1>2, <1>3, <2>2 DEF q
  <1>4. CASE ~(Len(subs[c].queue) < QueueMax)
    BY <1>1, <1>4 DEF Events!Offered
  <1> QED
    BY <1>3, <1>4

\* The events of a line have numbers.
LEMMA EventNumbers ==
  ASSUME NEW s \in Seq(Events!Event), NEW i \in DOMAIN s PROVE s[i] \in Events!Event /\ s[i].n \in 1..MaxEvents
  <1>1. s[i] \in Events!Event
    OBVIOUS
  <1> QED
    BY <1>1 DEF Events!Event

\* Every step of the server and of the browser keeps the types.
LEMMA FeedTypeNext == ASSUME Events!FeedAssumption, Events!FeedInv, [Events!Next]_(Events!vars) PROVE Events!TypeOK'
  <1> USE DEF Events!FeedAssumption, Events!FeedInv, Events!TypeOK
  <1>1. ASSUME NEW r \in Run, NEW name \in Events!ServerNames, Events!publish_event(r, name) PROVE Events!TypeOK'
    <2> DEFINE e == [run |-> r, n |-> published[r] + 1, listed |-> name \in Events!Listened]
    <2>1. e \in Events!Event /\ published' = [published EXCEPT ![r] = e.n]
      BY <1>1 DEF Events!publish_event, Events!Event
    <2>n. published[r] + 1 \in 1..MaxEvents
      BY <1>1 DEF Events!publish_event
    <2>2. published' \in [Run -> 0..MaxEvents] /\ missed' \subseteq 1..MaxEvents
      <3>1. published' = [published EXCEPT ![r] = published[r] + 1]
        BY <2>1
      <3>2. missed' \subseteq missed \cup {published[r] + 1}
        BY <1>1 DEF Events!publish_event
      <3> QED
        BY <2>n, <3>1, <3>2
    <2>3. ASSUME NEW c \in Conn
          PROVE  Events!Offered(c, e) \in Events!Subscriber /\ Len(Events!Offered(c, e).queue) <= QueueMax
      <3> HIDE DEF e
      <3> QED
        BY <2>1, OfferedType
    <2>4. subs' = [c \in Conn |-> IF subs[c].run = r THEN Events!Offered(c, e) ELSE subs[c]]
      BY <1>1 DEF Events!publish_event
    <2> HIDE DEF e
    <2>5. subs' \in [Conn -> Events!Subscriber] /\ \A c \in Conn : Len(subs'[c].queue) <= QueueMax
      BY <2>3, <2>4
    <2> QED
      BY <1>1, <2>2, <2>5 DEF Events!publish_event
  <1>2. ASSUME NEW c \in Conn, Events!run_events(c) PROVE Events!TypeOK'
    <2>1. [run |-> runId, queue |-> <<>>, streaming |-> FALSE, up |-> TRUE] \in Events!Subscriber
      BY EmptyLine DEF Events!Subscriber
    <2> QED
      BY <1>2, <2>1 DEF Events!run_events
  <1>3. ASSUME NEW c \in Conn, Events!Stream(c) PROVE Events!TypeOK'
    BY <1>3 DEF Events!Stream, Events!Subscriber
  <1>4. ASSUME NEW c \in Conn, Events!Yield(c) PROVE Events!TypeOK'
    <2>1. subs[c].queue \in Seq(Events!Event) /\ subs[c].queue # <<>> /\ wire[c] \in Seq(Events!Event)
      BY <1>4 DEF Events!Yield, Events!Subscriber
    <2>2. /\ Tail(subs[c].queue) \in Seq(Events!Event) /\ Len(Tail(subs[c].queue)) <= QueueMax
          /\ Append(wire[c], Head(subs[c].queue)) \in Seq(Events!Event)
      BY <2>1, Tailed, Appended
    <2>3. subs' \in [Conn -> Events!Subscriber] /\ \A d \in Conn : Len(subs'[d].queue) <= QueueMax
      BY <1>4, <2>2 DEF Events!Yield, Events!Subscriber
    <2>4. wire' \in [Conn -> Seq(Events!Event)]
      BY <1>4, <2>2 DEF Events!Yield
    <2> QED
      BY <1>4, <2>3, <2>4 DEF Events!Yield
  <1>5. ASSUME NEW c \in Conn, Events!Unsubscribe(c) PROVE Events!TypeOK'
    <2>1. Events!NoSub \in Events!Subscriber /\ Len(Events!NoSub.queue) = 0
      BY EmptyLine DEF Events!Subscriber, Events!NoSub
    <2> QED
      BY <1>5, <2>1 DEF Events!Unsubscribe
  <1>d. /\ Events!Disconnected \in [Conn -> Events!Subscriber] /\ \A c \in Conn : Len(Events!Disconnected[c].queue) <= QueueMax
        /\ Events!Lost \in [Conn -> Seq(Events!Event)]
    BY EmptyLine DEF Events!Disconnected, Events!Lost, Events!Subscriber
  <1>6. ASSUME NEW r \in Run, Events!Mount(r) PROVE Events!TypeOK'
    BY <1>6, EmptyLine DEF Events!Mount, Events!Before
  <1>7. ASSUME NEW r \in Run \cup {None}, Events!ChangeRun(r) PROVE Events!TypeOK'
    BY <1>7, <1>d, EmptyLine DEF Events!ChangeRun, Events!Changed, Events!Before, Events!Ending
  <1>8. CASE Events!Break
    <2>1. Events!LostNumbers \subseteq 1..MaxEvents
      <3>2. es # None => wire[es] \in Seq(Events!Event) /\ subs[es].queue \in Seq(Events!Event)
        BY DEF Events!Subscriber
      <3> QED
        BY <3>2, EventNumbers DEF Events!LostNumbers
    <2> QED
      BY <1>8, <1>d, <2>1 DEF Events!Break, Events!Ending
  <1>9. CASE Events!Receive
    <2>1. es \in Conn /\ wire[es] \in Seq(Events!Event) /\ wire[es] # <<>>
      BY <1>9 DEF Events!Receive
    <2>2. Head(wire[es]) \in Events!Event /\ Tail(wire[es]) \in Seq(Events!Event)
      BY <2>1, Tailed
    <2>3. arrived' \in Seq(Events!Event)
      BY <1>9, <2>2, Appended DEF Events!Receive
    <2>4. events' \in Seq(Events!Event) /\ Len(events') <= MAX_EVENTS
      BY <1>9, <2>2, PushedType DEF Events!Receive
    <2>5. wire' \in [Conn -> Seq(Events!Event)]
      BY <1>9, <2>1, <2>2 DEF Events!Receive
    <2> QED
      BY <1>9, <2>3, <2>4, <2>5 DEF Events!Receive
  <1>10. CASE UNCHANGED Events!vars
    BY <1>10 DEF Events!vars
  <1> QED
    BY <1>1, <1>2, <1>3, <1>4, <1>5, <1>6, <1>7, <1>8, <1>9, <1>10 DEF Events!Next
-----------------------------------------------------------------------------
\* Every step keeps the page's connection the only one that is up, and on its run.
LEMMA FeedSourceNext == ASSUME Events!FeedAssumption, Events!FeedInv, [Events!Next]_(Events!vars) PROVE Events!OneSource'
  <1> USE DEF Events!FeedAssumption, Events!FeedInv, Events!OneSource
  <1>t. /\ runId \in Run \cup {None} /\ es \in Conn \cup {None}
        /\ subs \in [Conn -> Events!Subscriber] /\ wire \in [Conn -> Seq(Events!Event)]
        /\ \A c \in Conn : Len(subs[c].queue) <= QueueMax
    BY DEF Events!TypeOK
  <1>1. ASSUME NEW r \in Run, NEW name \in Events!ServerNames, Events!publish_event(r, name) PROVE Events!OneSource'
    <2> DEFINE e == [run |-> r, n |-> published[r] + 1, listed |-> name \in Events!Listened]
    <2>1. e \in Events!Event
      BY <1>1 DEF Events!publish_event, Events!Event, Events!TypeOK
    <2>2. subs' = [c \in Conn |-> IF subs[c].run = r THEN Events!Offered(c, e) ELSE subs[c]]
          /\ UNCHANGED <<wire, runId, es, arrived>>
      BY <1>1 DEF Events!publish_event
    <2> HIDE DEF e
    <2>3. \A c \in Conn : subs'[c].up = subs[c].up /\ subs'[c].run = subs[c].run
      BY <1>t, <2>1, <2>2, OfferedType
    <2> QED
      BY <1>t, <2>2, <2>3
  <1>2. ASSUME NEW c \in Conn, Events!run_events(c) PROVE Events!OneSource'
    BY <1>2, <1>t DEF Events!run_events
  <1>3. ASSUME NEW c \in Conn, Events!Stream(c) PROVE Events!OneSource'
    BY <1>3, <1>t DEF Events!Stream, Events!Subscriber
  <1>4. ASSUME NEW c \in Conn, Events!Yield(c) PROVE Events!OneSource'
    <2>1. \A d \in Conn : subs'[d].up = subs[d].up /\ subs'[d].run = subs[d].run
      BY <1>4, <1>t DEF Events!Yield, Events!Subscriber
    <2>2. \A d \in Conn : d # es => wire'[d] = wire[d]
      BY <1>4, <1>t DEF Events!Yield
    <2> QED
      BY <1>4, <1>t, <2>1, <2>2 DEF Events!Yield
  <1>5. ASSUME NEW c \in Conn, Events!Unsubscribe(c) PROVE Events!OneSource'
    BY <1>5, <1>t DEF Events!Unsubscribe, Events!NoSub
  <1>d. /\ \A c \in Conn : ~Events!Disconnected[c].up /\ Events!Lost[c] = <<>>
    BY <1>t DEF Events!Disconnected, Events!Lost, Events!Subscriber
  <1>6. ASSUME NEW r \in Run, Events!Mount(r) PROVE Events!OneSource'
    BY <1>6, <1>t DEF Events!Mount
  <1>7. ASSUME NEW r \in Run \cup {None}, Events!ChangeRun(r) PROVE Events!OneSource'
    BY <1>7, <1>d DEF Events!ChangeRun, Events!Changed
  <1>8. CASE Events!Break
    BY <1>8, <1>d, <1>t DEF Events!Break
  <1>9. CASE Events!Receive
    BY <1>9, <1>t DEF Events!Receive
  <1>10. CASE UNCHANGED Events!vars
    BY <1>10 DEF Events!vars
  <1> QED
    BY <1>1, <1>2, <1>3, <1>4, <1>5, <1>6, <1>7, <1>8, <1>9, <1>10 DEF Events!Next

\* Every step keeps page, wire and queue in one line.
LEMMA FeedLineNext == ASSUME Events!FeedAssumption, Events!FeedInv, [Events!Next]_(Events!vars) PROVE Events!InOneLine'
  <1>t. /\ published \in [Run -> 0..MaxEvents] /\ MaxEvents \in Nat
        /\ runId \in Run \cup {None} /\ es \in Conn \cup {None} /\ None \notin Run \cup Conn
        /\ subs \in [Conn -> Events!Subscriber] /\ wire \in [Conn -> Seq(Events!Event)]
        /\ \A c \in Conn : Len(subs[c].queue) <= QueueMax
        /\ arrived \in Seq(Events!Event)
    BY DEF Events!FeedAssumption, Events!FeedInv, Events!TypeOK
  <1>u. Events!OnWire \in Seq(Events!Event) /\ Events!Queued \in Seq(Events!Event)
    BY <1>t, EmptyLine DEF Events!OnWire, Events!Queued, Events!Subscriber
  <1>s. ASSUME UNCHANGED <<arrived, Events!OnWire, Events!Queued, runId, published, missed>> PROVE Events!InOneLine'
    BY <1>s DEF Events!FeedInv, Events!InOneLine, Events!PublishedOf
  <1>e. /\ Events!Ordered(<<>>) /\ \A s : Events!Precedes(s, <<>>) /\ Events!Precedes(<<>>, s)
        /\ Events!PublishedOf(<<>>)' /\ Events!Numbers(<<>>) = {}
    BY EmptyLine DEF Events!PublishedOf
  <1>1. ASSUME NEW r \in Run, NEW name \in Events!ServerNames, Events!publish_event(r, name) PROVE Events!InOneLine'
    <2> DEFINE e == [run |-> r, n |-> published[r] + 1, listed |-> name \in Events!Listened]
    <2>1. e \in Events!Event /\ e.n = published[r] + 1 /\ e.run = r /\ published[r] \in Nat
      BY <1>1, <1>t DEF Events!publish_event, Events!Event
    <2>2. /\ subs' = [c \in Conn |-> IF subs[c].run = r THEN Events!Offered(c, e) ELSE subs[c]]
          /\ published' = [published EXCEPT ![r] = published[r] + 1]
          /\ missed' = IF runId = r /\ (es = None \/ Len(subs[es].queue) = QueueMax)
                       THEN missed \cup {published[r] + 1} ELSE missed
          /\ UNCHANGED <<wire, runId, es, arrived>>
      BY <1>1 DEF Events!publish_event
    <2> HIDE DEF e
    <2>3. Events!OnWire' = Events!OnWire
      BY <2>2 DEF Events!OnWire
    <2>4. CASE runId # r
      <3>1. es # None => subs'[es] = subs[es]
        BY <1>t, <2>2, <2>4 DEF Events!FeedInv, Events!OneSource
      <3>2. Events!Queued' = Events!Queued
        BY <2>2, <3>1 DEF Events!Queued
      <3>3. runId # None => published'[runId] = published[runId]
        BY <1>t, <2>2, <2>4
      <3>4. \A s : Events!PublishedOf(s)' <=> IF runId = None THEN Events!PublishedOf(s)' ELSE Events!PublishedOf(s)
        BY <2>2, <3>3 DEF Events!PublishedOf
      <3>5. runId = None => arrived = <<>> /\ Events!OnWire = <<>> /\ Events!Queued = <<>>
        BY DEF Events!FeedInv, Events!OneSource, Events!OnWire, Events!Queued
      <3> QED
        BY <1>e, <2>2, <2>3, <2>4, <3>2, <3>3, <3>4, <3>5 DEF Events!FeedInv, Events!InOneLine
    <2>5. CASE runId = r
      <3>1. published'[r] = published[r] + 1 /\ 1..published'[r] = (1..published[r]) \cup {e.n}
        BY <1>t, <2>1, <2>2
      <3>2. ASSUME NEW s \in Seq(Events!Event), Events!PublishedOf(s)
            PROVE  Events!PublishedOf(s)' /\ \A i \in DOMAIN s : s[i].n < e.n
        <4>1. \A i \in DOMAIN s : s[i].run = r /\ s[i].n <= published[r] /\ s[i].n \in Nat
          BY <2>5, <3>2, EventNumbers DEF Events!PublishedOf
        <4> QED
          BY <2>1, <2>2, <2>5, <3>1, <4>1 DEF Events!PublishedOf
      <3>3. CASE Events!Queued' = Events!Queued /\ missed' = missed \cup {e.n}
        BY <1>t, <1>u, <2>2, <2>3, <2>5, <3>1, <3>2, <3>3 DEF Events!FeedInv, Events!InOneLine
      <3>4. CASE Events!Queued' = Append(Events!Queued, e) /\ missed' = missed
        <4>1. Events!Ordered(Events!Queued') /\ Events!Precedes(arrived, Events!Queued') /\ Events!Precedes(Events!OnWire, Events!Queued')
          BY <1>t, <1>u, <2>1, <3>2, <3>4, OrderedAppended, PrecedesAppended DEF Events!FeedInv, Events!InOneLine
        <4>2. Events!PublishedOf(Events!Queued)'
          <5>1. \A i \in DOMAIN Events!Queued : Events!Queued[i].run = r /\ Events!Queued[i].n <= published[r] /\ Events!Queued[i].n \in Nat
            BY <1>u, <2>5, EventNumbers DEF Events!PublishedOf, Events!FeedInv, Events!InOneLine
          <5>2. ASSUME NEW i \in DOMAIN Events!Queued'
                PROVE  Events!Queued'[i].run = r /\ Events!Queued'[i].n <= published[r] + 1
            <6>1. CASE i \in DOMAIN Events!Queued
              BY <1>u, <2>1, <3>4, <5>1, <6>1, Appended
            <6>2. CASE i = Len(Events!Queued) + 1
              BY <1>u, <2>1, <3>4, <6>2, Appended
            <6> QED
              BY <1>u, <2>1, <3>4, <6>1, <6>2, Appended
          <5> QED
            BY <2>2, <2>5, <3>1, <5>2 DEF Events!PublishedOf
        <4>3. Events!Numbers(Events!Queued') = Events!Numbers(Events!Queued) \cup {e.n}
          BY <1>u, <2>1, <3>4, NumbersAppended
        <4> QED
          BY <1>t, <1>u, <2>2, <2>3, <2>5, <3>1, <3>2, <3>4, <4>1, <4>2, <4>3 DEF Events!FeedInv, Events!InOneLine
      <3>5. \/ Events!Queued' = Events!Queued /\ missed' = missed \cup {e.n}
            \/ Events!Queued' = Append(Events!Queued, e) /\ missed' = missed
        <4>1. CASE es = None
          BY <2>1, <2>2, <2>5, <4>1 DEF Events!Queued
        <4>2. CASE es # None
          <5>1. es \in Conn /\ subs[es].run = r /\ subs'[es] = Events!Offered(es, e)
            BY <1>t, <2>2, <2>5, <4>2 DEF Events!FeedInv, Events!OneSource
          <5>2. Events!Queued = subs[es].queue /\ Events!Queued' = Events!Offered(es, e).queue
            BY <2>2, <4>2, <5>1 DEF Events!Queued
          <5>3. subs[es] \in Events!Subscriber
            BY <1>t, <5>1
          <5> QED
            BY <1>t, <2>1, <2>2, <2>5, <4>2, <5>1, <5>2, <5>3, OfferedType
        <4> QED
          BY <4>1, <4>2
      <3> QED
        BY <3>3, <3>4, <3>5
    <2> QED
      BY <2>4, <2>5
  <1>2. ASSUME NEW c \in Conn, Events!run_events(c) PROVE Events!InOneLine'
    <2>1. /\ Events!OnWire = <<>> /\ Events!Queued = <<>> /\ Events!OnWire' = <<>> /\ Events!Queued' = <<>>
          /\ UNCHANGED <<arrived, runId, published, missed>>
      BY <1>2, <1>t DEF Events!run_events, Events!OnWire, Events!Queued
    <2> QED
      BY <1>s, <2>1
  <1>3. ASSUME NEW c \in Conn, Events!Stream(c) PROVE Events!InOneLine'
    <2>1. Events!OnWire' = Events!OnWire /\ UNCHANGED <<arrived, runId, published, missed>>
      BY <1>3 DEF Events!Stream, Events!OnWire
    <2>2. Events!Queued' = Events!Queued
      BY <1>3, <1>t DEF Events!Stream, Events!Queued, Events!Subscriber
    <2> QED
      BY <1>s, <2>1, <2>2
  <1>4. ASSUME NEW c \in Conn, Events!Yield(c) PROVE Events!InOneLine'
    <2>0. UNCHANGED <<arrived, runId, published, missed, es>>
      BY <1>4 DEF Events!Yield
    <2>1. CASE c # es
      <3>1. Events!OnWire' = Events!OnWire /\ Events!Queued' = Events!Queued
        BY <1>4, <1>t, <2>1 DEF Events!Yield, Events!OnWire, Events!Queued
      <3> QED
        BY <1>s, <2>0, <3>1
    <2>2. CASE c = es
      <3>1. Events!Queued # <<>> /\ Events!Queued' = Tail(Events!Queued) /\ Events!OnWire' = Append(Events!OnWire, Head(Events!Queued))
        BY <1>4, <1>t, <2>2 DEF Events!Yield, Events!OnWire, Events!Queued, Events!FeedInv, Events!OneSource, Events!Subscriber
      <3> DEFINE e == Head(Events!Queued)
      <3>2. e \in Events!Event /\ Events!Queued' \in Seq(Events!Event) /\ Events!OnWire' \in Seq(Events!Event)
        BY <1>u, <3>1, Tailed, Appended
      <3>3. /\ Events!Ordered(Events!Queued') /\ \A i \in DOMAIN Events!Queued' : e.n < Events!Queued'[i].n
            /\ Events!Precedes(arrived, Events!Queued') /\ \A i \in DOMAIN arrived : arrived[i].n < e.n
            /\ Events!Precedes(Events!OnWire, Events!Queued') /\ \A i \in DOMAIN Events!OnWire : Events!OnWire[i].n < e.n
        BY <1>t, <1>u, <3>1, OrderedTailed, PrecedesTailed DEF Events!FeedInv, Events!InOneLine
      <3>4. Events!PublishedOf(Events!Queued') /\ e.run = runId /\ e.n <= published[runId]
        BY <1>u, <3>1, Tailed DEF Events!FeedInv, Events!InOneLine, Events!PublishedOf
      <3>5. Events!Numbers(Events!Queued) = {e.n} \cup Events!Numbers(Events!Queued')
        BY <1>u, <3>1, NumbersTailed
      <3> HIDE DEF e
      <3>6. Events!OnWire' = Append(Events!OnWire, e)
        BY <3>1 DEF e
      <3>7. Events!Ordered(Events!OnWire') /\ Events!Precedes(arrived, Events!OnWire') /\ Events!Precedes(Events!OnWire', Events!Queued')
        BY <1>t, <1>u, <3>2, <3>3, <3>6, OrderedAppended, PrecedesAppended DEF Events!FeedInv, Events!InOneLine
      <3>8. Events!Numbers(Events!OnWire') = Events!Numbers(Events!OnWire) \cup {e.n}
        BY <1>u, <3>2, <3>6, NumbersAppended
      <3>9. Events!PublishedOf(Events!OnWire')
        BY <1>u, <3>2, <3>4, <3>6, PublishedAppended DEF Events!FeedInv, Events!InOneLine
      <3>10. \A s : Events!PublishedOf(s) => /\ \A i \in DOMAIN s : s[i].run = runId' /\ s[i].n <= published'[runId']
        BY <2>0 DEF Events!PublishedOf
      <3> QED
        BY <2>0, <3>3, <3>4, <3>5, <3>7, <3>8, <3>9, <3>10 DEF Events!FeedInv, Events!InOneLine, Events!PublishedOf
    <2> QED
      BY <2>1, <2>2
  <1>5. ASSUME NEW c \in Conn, Events!Unsubscribe(c) PROVE Events!InOneLine'
    <2>1. Events!OnWire' = Events!OnWire /\ UNCHANGED <<arrived, runId, published, missed>>
      BY <1>5 DEF Events!Unsubscribe, Events!OnWire
    <2>2. Events!Queued' = Events!Queued
      BY <1>5, <1>t DEF Events!Unsubscribe, Events!Queued, Events!FeedInv, Events!OneSource
    <2> QED
      BY <1>s, <2>1, <2>2
  <1>6. ASSUME NEW r \in Run \cup {None},
               es' = None, arrived' = <<>>, runId' = r, missed' = Events!Before(r), published' = published
        PROVE  Events!InOneLine'
    <2>1. Events!OnWire' = <<>> /\ Events!Queued' = <<>>
      BY <1>6 DEF Events!OnWire, Events!Queued
    <2>2. r # None => 1..published'[r] \subseteq missed'
      BY <1>6 DEF Events!Before
    <2> QED
      BY <1>e, <1>6, <2>1, <2>2 DEF Events!InOneLine
  <1>7. ASSUME NEW r \in Run, Events!Mount(r) PROVE Events!InOneLine'
    BY <1>6, <1>7 DEF Events!Mount, Events!FeedInv, Events!OneSource
  <1>8. ASSUME NEW r \in Run \cup {None}, Events!ChangeRun(r) PROVE Events!InOneLine'
    BY <1>6, <1>8 DEF Events!ChangeRun, Events!Changed
  <1>9. CASE Events!Break
    <2>1. Events!OnWire' = <<>> /\ Events!Queued' = <<>> /\ UNCHANGED <<arrived, runId, published>>
      BY <1>9 DEF Events!Break, Events!OnWire, Events!Queued
    <2>2. missed' = missed \cup Events!Numbers(Events!OnWire) \cup Events!Numbers(Events!Queued)
      BY <1>9 DEF Events!Break, Events!LostNumbers, Events!Numbers, Events!OnWire, Events!Queued
    <2>3. Events!PublishedOf(arrived)'
      BY <2>1 DEF Events!FeedInv, Events!InOneLine, Events!PublishedOf
    <2> QED
      BY <1>e, <2>1, <2>2, <2>3 DEF Events!FeedInv, Events!InOneLine
  <1>10. CASE Events!Receive
    <2>0. UNCHANGED <<runId, published, missed, es, subs>> /\ Events!Queued' = Events!Queued
      BY <1>10 DEF Events!Receive, Events!Queued
    <2>1. Events!OnWire # <<>> /\ Events!OnWire' = Tail(Events!OnWire) /\ arrived' = Append(arrived, Head(Events!OnWire))
      BY <1>10, <1>t DEF Events!Receive, Events!OnWire
    <2> DEFINE e == Head(Events!OnWire)
    <2>2. e \in Events!Event /\ Events!OnWire' \in Seq(Events!Event) /\ arrived' \in Seq(Events!Event)
      BY <1>t, <1>u, <2>1, Tailed, Appended
    <2>3. /\ Events!Ordered(Events!OnWire') /\ \A i \in DOMAIN Events!OnWire' : e.n < Events!OnWire'[i].n
          /\ Events!Precedes(arrived, Events!OnWire') /\ \A i \in DOMAIN arrived : arrived[i].n < e.n
          /\ Events!Precedes(Events!OnWire', Events!Queued) /\ \A i \in DOMAIN Events!Queued : e.n < Events!Queued[i].n
      BY <1>t, <1>u, <2>1, OrderedTailed, PrecedesTailed DEF Events!FeedInv, Events!InOneLine
    <2>4. Events!PublishedOf(Events!OnWire') /\ e.run = runId /\ e.n <= published[runId]
      BY <1>u, <2>1, Tailed DEF Events!FeedInv, Events!InOneLine, Events!PublishedOf
    <2>5. Events!Numbers(Events!OnWire) = {e.n} \cup Events!Numbers(Events!OnWire')
      BY <1>u, <2>1, NumbersTailed
    <2> HIDE DEF e
    <2>6. arrived' = Append(arrived, e)
      BY <2>1 DEF e
    <2>7. Events!Ordered(arrived') /\ Events!Precedes(arrived', Events!OnWire') /\ Events!Precedes(arrived', Events!Queued)
      BY <1>t, <1>u, <2>2, <2>3, <2>6, OrderedAppended, PrecedesAppended DEF Events!FeedInv, Events!InOneLine
    <2>8. Events!Numbers(arrived') = Events!Numbers(arrived) \cup {e.n}
      BY <1>t, <2>2, <2>6, NumbersAppended
    <2>9. Events!PublishedOf(arrived')
      BY <1>t, <2>2, <2>4, <2>6, PublishedAppended DEF Events!FeedInv, Events!InOneLine
    <2> QED
      BY <2>0, <2>3, <2>4, <2>5, <2>7, <2>8, <2>9 DEF Events!FeedInv, Events!InOneLine, Events!PublishedOf
  <1>11. CASE UNCHANGED Events!vars
    BY <1>s, <1>11 DEF Events!vars, Events!OnWire, Events!Queued
  <1> QED
    BY <1>1, <1>2, <1>3, <1>4, <1>5, <1>7, <1>8, <1>9, <1>10, <1>11 DEF Events!Next
-----------------------------------------------------------------------------
\* One connection is up, it is on the page's run, and page, wire and queue hold the run's
\* events in one line without unexplained gaps: every step keeps that.
LEMMA FeedNext ==
  ASSUME Events!FeedAssumption, Events!FeedInv, [Events!Next]_(Events!vars) PROVE Events!FeedInv'
  BY FeedTypeNext, FeedSourceNext, FeedLineNext DEF Events!FeedInv

\* What is in one line arrives in order, each event once.
LEMMA FeedInOrder == Events!FeedInv => Events!InOrderOnce
  BY DEF Events!FeedInv, Events!InOneLine, Events!InOrderOnce, Events!Ordered, Events!PublishedOf

\* An event before the last one that arrived is neither on the wire nor in the queue.
LEMMA FeedGaps == ASSUME Events!FeedAssumption PROVE Events!FeedInv => Events!GapsAreExplained
  <1>1. ASSUME Events!FeedInv, arrived # <<>> PROVE 1..arrived[Len(arrived)].n \subseteq Events!Numbers(arrived) \cup missed
    <2> DEFINE last == arrived[Len(arrived)]
    <2>1. arrived \in Seq(Events!Event) /\ Len(arrived) \in DOMAIN arrived /\ last.n \in Nat
      BY <1>1, EventNumbers DEF Events!FeedInv, Events!TypeOK
    <2>2. last.n <= published[runId] /\ runId \in Run /\ published[runId] \in Nat
      BY <1>1, <2>1 DEF Events!FeedInv, Events!InOneLine, Events!PublishedOf, Events!OneSource, Events!TypeOK
    <2>3. \A i \in DOMAIN Events!OnWire : last.n < Events!OnWire[i].n
      BY <1>1, <2>1 DEF Events!FeedInv, Events!InOneLine, Events!Precedes
    <2>4. \A i \in DOMAIN Events!Queued : last.n < Events!Queued[i].n
      BY <1>1, <2>1 DEF Events!FeedInv, Events!InOneLine, Events!Precedes
    <2>5. runId # None
      BY <1>1 DEF Events!FeedInv, Events!OneSource
    <2>u. Events!OnWire \in Seq(Events!Event) /\ Events!Queued \in Seq(Events!Event)
      BY <1>1, EmptyLine DEF Events!OnWire, Events!Queued, Events!Subscriber, Events!FeedInv, Events!TypeOK
    <2> HIDE DEF last
    <2>6. SUFFICES ASSUME NEW k \in 1..last.n PROVE k \in Events!Numbers(arrived) \cup missed
      BY DEF last
    <2>7. k \in Events!Numbers(arrived) \cup Events!Numbers(Events!OnWire) \cup Events!Numbers(Events!Queued) \cup missed
      BY <1>1, <2>1, <2>2, <2>5, <2>6 DEF Events!FeedInv, Events!InOneLine
    <2>8. k \notin Events!Numbers(Events!OnWire)
      BY <2>1, <2>3, <2>6, <2>u, EventNumbers DEF Events!Numbers
    <2>9. k \notin Events!Numbers(Events!Queued)
      BY <2>1, <2>4, <2>6, <2>u, EventNumbers DEF Events!Numbers
    <2> QED
      BY <2>7, <2>8, <2>9
  <1> QED
    BY <1>1 DEF Events!GapsAreExplained
-----------------------------------------------------------------------------
(* Retention *)

\* The instance counts the elements of a set as FiniteSets does.
LEMMA PassesFinite == \A S : Passes!IsFiniteSet(S) <=> IsFiniteSet(S)
  BY DEF Passes!IsFiniteSet, IsFiniteSet
LEMMA PassesCardinality == \A S : Passes!Cardinality(S) = Cardinality(S)
  BY PassesFinite DEF Passes!Cardinality, Cardinality

\* The objects of different checkpoints, and the two of one checkpoint, are different.
LEMMA Names ==
  \A c, d : /\ Passes!Manifest(c) # Passes!Shards(d)
            /\ Passes!Manifest(c) = Passes!Manifest(d) => c = d
            /\ Passes!Shards(c) = Passes!Shards(d) => c = d
            /\ Passes!Of(c) = {Passes!Manifest(c), Passes!Shards(c)}
  BY DEF Passes!Manifest, Passes!Shards, Passes!Of

\* Writing an object changes that object alone.
LEMMA PutFacts ==
  ASSUME NEW o
  PROVE  /\ DOMAIN Passes!Put(o) = DOMAIN objects \cup {o}
         /\ Passes!Put(o)[o] = now
         /\ \A x \in DOMAIN objects : x # o => Passes!Put(o)[x] = objects[x]
  BY DEF Passes!Put

\* A write keeps the times of the objects within bounds.
LEMMA PutTimed ==
  ASSUME NEW o \in Passes!Object, Passes!Timed(objects), now \in 1..MaxTime PROVE Passes!Timed(Passes!Put(o))
  <1>1. ASSUME NEW x \in DOMAIN Passes!Put(o) PROVE x \in Passes!Object /\ Passes!Put(o)[x] \in 1..MaxTime
    <2>1. CASE x = o
      BY <2>1, PutFacts
    <2>2. CASE x # o
      BY <2>2, PutFacts DEF Passes!Timed
    <2> QED
      BY <2>1, <2>2
  <1> QED
    BY <1>1 DEF Passes!Timed

\* So does a deletion.
LEMMA WithoutTimed ==
  ASSUME NEW gone, Passes!Timed(objects) PROVE Passes!Timed(Passes!Without(objects, gone))
  <1>1. ASSUME NEW x \in DOMAIN Passes!Without(objects, gone)
        PROVE  x \in Passes!Object /\ Passes!Without(objects, gone)[x] \in 1..MaxTime
    BY DEF Passes!Timed, Passes!Without
  <1> QED
    BY <1>1 DEF Passes!Timed

\* A checkpoint that is in some state has metadata.
LEMMA RecordTypes ==
  ASSUME Passes!RetentionAssumption, Passes!TypeOK
  PROVE  \A c \in Ckpt : record[c] # None =>
           record[c].state \in {"IN_PROGRESS", "COMMITTED", "FAILED"} /\ record[c].at \in 1..MaxTime
  BY DEF Passes!RetentionAssumption, Passes!TypeOK

\* A fresh deployment has no objects and no metadata.
LEMMA RetentionInit == ASSUME Passes!RetentionAssumption PROVE Passes!Init => Passes!RetentionInv
  <1> SUFFICES ASSUME Passes!Init PROVE Passes!RetentionInv
    OBVIOUS
  <1> USE DEF Passes!Init, Passes!NoObjects, Passes!In
  <1>1. Passes!TypeOK
    BY DEF Passes!TypeOK, Passes!Timed, Passes!RL!RunStates, Passes!RetentionAssumption
  <1>2. Passes!StampsArePast /\ Passes!ObjectsMatchRecords /\ Passes!ListingIsRecent /\ Passes!VictimsAreSpare
    BY Names DEF Passes!StampsArePast, Passes!ObjectsMatchRecords, Passes!ListingIsRecent, Passes!VictimsAreSpare
  <1>3. Passes!KeepsLatest /\ Passes!UploadsHaveGrace
    BY DEF Passes!KeepsLatest, Passes!UploadsHaveGrace
  <1> QED
    BY <1>1, <1>2, <1>3 DEF Passes!RetentionInv

\* Every step of the runs and of a pass keeps the types.
LEMMA RetentionTypeNext == ASSUME Passes!RetentionAssumption, Passes!TypeOK, [Passes!Next]_(Passes!vars) PROVE Passes!TypeOK'
  <1> USE DEF Passes!RetentionAssumption, Passes!TypeOK, Passes!training, Passes!pass
  <1>o. \A c \in Ckpt : Passes!Manifest(c) \in Passes!Object /\ Passes!Shards(c) \in Passes!Object
    BY Names DEF Passes!Object
  <1>p. ASSUME NEW o \in Passes!Object PROVE Passes!Timed(Passes!Put(o))
    BY PutTimed
  <1>w. ASSUME NEW gone PROVE Passes!Timed(Passes!Without(objects, gone))
    BY WithoutTimed
  <1>m. ASSUME NEW r \in Run, NEW s \in Passes!RL!RunStates, Passes!Moves(r, s)
        PROVE  runState' \in [Run -> Passes!RL!RunStates] /\ updated' \in [Run -> 0..MaxTime]
    BY <1>m DEF Passes!Moves
  <1>1. ASSUME NEW c \in Ckpt, Passes!Upload(c) PROVE Passes!TypeOK'
    <2>1. now' \in 1..MaxTime /\ listedAt \in 0..now'
      BY <1>1 DEF Passes!Upload, Passes!Works, Passes!TimePasses
    <2>2. runState' \in [Run -> Passes!RL!RunStates] /\ updated' \in [Run -> 0..MaxTime]
      BY <1>1, <1>m DEF Passes!Upload, Passes!RL!RunStates
    <2>3. Passes!Timed(objects')
      BY <1>1, <1>o, <1>p DEF Passes!Upload
    <2>4. record' \in [Ckpt -> {None} \cup [state : {"IN_PROGRESS", "COMMITTED", "FAILED"}, at : 1..MaxTime]]
      BY <1>1 DEF Passes!Upload, Passes!At
    <2> QED
      BY <1>1, <2>1, <2>2, <2>3, <2>4 DEF Passes!Upload
  <1>2. ASSUME NEW c \in Ckpt, Passes!Commit(c) PROVE Passes!TypeOK'
    <2>1. now' \in 1..MaxTime /\ listedAt \in 0..now'
      BY <1>2 DEF Passes!Commit, Passes!Works, Passes!TimePasses
    <2>2. runState' \in [Run -> Passes!RL!RunStates] /\ updated' \in [Run -> 0..MaxTime]
      BY <1>2, <1>m DEF Passes!Commit, Passes!RL!RunStates
    <2>3. Passes!Timed(objects')
      BY <1>2, <1>o, <1>p DEF Passes!Commit
    <2>4. record' \in [Ckpt -> {None} \cup [state : {"IN_PROGRESS", "COMMITTED", "FAILED"}, at : 1..MaxTime]]
      BY <1>2 DEF Passes!Commit, Passes!At
    <2> QED
      BY <1>2, <2>1, <2>2, <2>3, <2>4 DEF Passes!Commit
  <1>3. ASSUME NEW r \in Run, NEW s \in Passes!RL!RunStates, Passes!Transition(r, s) PROVE Passes!TypeOK'
    <2>1. now' \in 1..MaxTime /\ listedAt \in 0..now'
      BY <1>3 DEF Passes!Transition, Passes!Works, Passes!TimePasses
    <2>2. runState' \in [Run -> Passes!RL!RunStates] /\ updated' \in [Run -> 0..MaxTime]
      BY <1>3, <1>m DEF Passes!Transition
    <2>3. record' \in [Ckpt -> {None} \cup [state : {"IN_PROGRESS", "COMMITTED", "FAILED"}, at : 1..MaxTime]]
      BY <1>3 DEF Passes!Transition, Passes!At
    <2> QED
      BY <1>3, <2>1, <2>2, <2>3 DEF Passes!Transition, Passes!Timed
  <1>4. CASE Passes!Tick
    BY <1>4 DEF Passes!Tick, Passes!TimePasses, Passes!Timed
  <1>5. CASE Passes!List
    BY <1>5 DEF Passes!List, Passes!Timed
  <1>6. CASE Passes!Decide
    <2>1. Passes!to_delete \subseteq Ckpt
      BY DEF Passes!to_delete, Passes!Listed
    <2> QED
      BY <1>6, <2>1 DEF Passes!Decide, Passes!Timed
  <1>7. CASE Passes!DeleteBatch
    <2>1. PICK b \in Passes!Batches : todo' = todo \ b /\ objects' = Passes!Without(objects, b)
      BY <1>7 DEF Passes!DeleteBatch
    <2> QED
      BY <1>7, <1>w, <2>1 DEF Passes!DeleteBatch, Passes!Timed
  <1>8. CASE Passes!DeleteFails
    <2>1. PICK done : objects' = Passes!Without(objects, done)
      BY <1>8 DEF Passes!DeleteFails, Passes!Fails
    <2> QED
      BY <1>8, <1>w, <2>1 DEF Passes!DeleteFails, Passes!Fails, Passes!Timed
  <1>9. ASSUME NEW c \in Ckpt, Passes!delete_checkpoint(c) PROVE Passes!TypeOK'
    BY <1>9 DEF Passes!delete_checkpoint, Passes!Timed
  <1>10. CASE Passes!Finish
    BY <1>10 DEF Passes!Finish, Passes!Timed
  <1>11. CASE UNCHANGED Passes!vars
    BY <1>11 DEF Passes!vars, Passes!Timed
  <1> QED
    BY <1>1, <1>2, <1>3, <1>4, <1>5, <1>6, <1>7, <1>8, <1>9, <1>10, <1>11 DEF Passes!Next, Passes!Pass
-----------------------------------------------------------------------------
(* What a pass decides. *)

\* last_modified of a listed checkpoint is the time of its manifest, which is written
\* after the shards, and of its shards while there is no manifest.
LEMMA LastModifiedIs ==
  ASSUME NEW c \in Ckpt, Passes!Timed(listing), MaxTime \in Nat
  PROVE  /\ Passes!Manifest(c) \in DOMAIN listing
            /\ (Passes!Shards(c) \in DOMAIN listing => listing[Passes!Shards(c)] < listing[Passes!Manifest(c)])
            => Passes!LastModified(c) = listing[Passes!Manifest(c)]
         /\ Passes!Manifest(c) \notin DOMAIN listing /\ Passes!Shards(c) \in DOMAIN listing
            => Passes!LastModified(c) = listing[Passes!Shards(c)]
  <1> DEFINE times == {listing[o] : o \in Passes!Of(c) \cap DOMAIN listing}
  <1>1. Passes!LastModified(c) = CHOOSE t \in times : \A u \in times : u <= t
    BY DEF Passes!LastModified
  <1>2. times \subseteq Nat
    BY DEF Passes!Timed
  <1>3. CASE /\ Passes!Manifest(c) \in DOMAIN listing
             /\ Passes!Shards(c) \in DOMAIN listing => listing[Passes!Shards(c)] < listing[Passes!Manifest(c)]
    <2> DEFINE m == listing[Passes!Manifest(c)]
    <2>1. m \in times
      BY <1>3, Names
    <2>2. \A u \in times : u <= m
      BY <1>2, <1>3, <2>1, Names
    <2> HIDE DEF times, m
    <2>3. \A t \in times : (\A u \in times : u <= t) => t = m
      BY <1>2, <2>1, <2>2
    <2>4. Passes!LastModified(c) = m
      BY <1>1, <2>1, <2>2, <2>3
    <2> QED
      BY <1>3, <2>4 DEF m
  <1>4. CASE Passes!Manifest(c) \notin DOMAIN listing /\ Passes!Shards(c) \in DOMAIN listing
    <2> DEFINE m == listing[Passes!Shards(c)]
    <2>1. times = {m}
      BY <1>4, Names
    <2>2. m <= m
      BY <1>2, <2>1
    <2> QED
      BY <1>1, <1>4, <2>1, <2>2
  <1> QED
    BY <1>3, <1>4

\* A manifest that was written after the listing belongs to an upload whose shards are
\* within the grace period when the pass decides.
LEMMA LateManifest ==
  ASSUME Passes!RetentionAssumption, Passes!RetentionInv, pc = "listed",
         NEW c \in Ckpt, Passes!Safe(c), c \in Passes!Listed,
         Passes!Manifest(c) \in DOMAIN objects, Passes!Manifest(c) \notin DOMAIN listing
  PROVE  ~(Passes!LastModified(c) + orphan_grace < now)
  <1>1. Passes!Shards(c) \in DOMAIN listing
    BY Names DEF Passes!Listed
  <1>2. Passes!Shards(c) \in DOMAIN objects /\ objects[Passes!Shards(c)] = listing[Passes!Shards(c)]
    BY <1>1 DEF Passes!RetentionInv, Passes!ListingIsRecent
  <1>3. record[c].at >= listedAt /\ record[c].at <= objects[Passes!Shards(c)] + UploadTime
    BY <1>2, Names DEF Passes!RetentionInv, Passes!ListingIsRecent
  <1>4. Passes!LastModified(c) = objects[Passes!Shards(c)]
    BY <1>1, <1>2, LastModifiedIs DEF Passes!RetentionInv, Passes!TypeOK, Passes!RetentionAssumption
  <1>5. now <= listedAt + ListTime
    BY DEF Passes!RetentionInv, Passes!ListingIsRecent
  <1>6. objects[Passes!Shards(c)] \in Nat /\ now \in Nat /\ listedAt \in Nat
    BY <1>2 DEF Passes!RetentionInv, Passes!TypeOK, Passes!Timed, Passes!RetentionAssumption
  <1>7. Passes!In(c, "COMMITTED")
    BY DEF Passes!RetentionInv, Passes!ObjectsMatchRecords
  <1>8. record[c].at \in Nat
    BY <1>7, RecordTypes DEF Passes!RetentionInv, Passes!In
  <1> QED
    BY <1>3, <1>4, <1>5, <1>6, <1>8 DEF Passes!RetentionAssumption

\* Of a run that is kept, the commit with the newest metadata is not deleted: the
\* manifests that were listed carry the times of the metadata, so nothing listed is newer.
LEMMA NewestStays ==
  ASSUME Passes!RetentionAssumption, Passes!RetentionInv, pc = "listed",
         NEW c \in Ckpt, Passes!Safe(c), Owner[c] \in Passes!retained_run_ids, Passes!In(c, "COMMITTED"),
         \A d \in Ckpt : Owner[d] = Owner[c] /\ Passes!In(d, "COMMITTED") => record[d].at <= record[c].at
  PROVE  c \notin Passes!to_delete
  <1> SUFFICES ASSUME c \in Passes!to_delete PROVE FALSE
    OBVIOUS
  <1>1. c \in Passes!Listed
    BY DEF Passes!to_delete
  <1>2. Passes!Of(c) \subseteq DOMAIN objects
    BY DEF Passes!RetentionInv, Passes!KeepsLatest, Passes!Safe
  <1>3. CASE Passes!Manifest(c) \notin DOMAIN listing
    <2>1. ~(Passes!LastModified(c) + orphan_grace < now)
      BY <1>1, <1>2, <1>3, LateManifest, Names
    <2> QED
      BY <1>3, <2>1 DEF Passes!to_delete, Passes!Committed
  <1>4. CASE Passes!Manifest(c) \in DOMAIN listing
    <2> DEFINE C == Passes!Committed(Owner[c])
               time == [x \in Passes!Listed |-> Passes!LastModified(x)]
    <2>1. ASSUME NEW d \in C
          PROVE  /\ d \in Passes!Listed /\ time[d] = record[d].at
                 /\ record[d].at \in Nat /\ record[d].at <= record[c].at
      <3>1. d \in Ckpt /\ d \in Passes!Listed /\ Owner[d] = Owner[c] /\ Passes!Manifest(d) \in DOMAIN listing
        BY DEF Passes!Committed, Passes!Listed
      <3>2. Passes!Manifest(d) \in DOMAIN objects /\ objects[Passes!Manifest(d)] = listing[Passes!Manifest(d)]
        BY <3>1 DEF Passes!RetentionInv, Passes!ListingIsRecent
      <3>3. Passes!Safe(d)
        BY <3>1 DEF Passes!Safe
      <3>4. Passes!In(d, "COMMITTED") /\ objects[Passes!Manifest(d)] = record[d].at
        BY <3>1, <3>2, <3>3 DEF Passes!RetentionInv, Passes!ObjectsMatchRecords
      <3>5. Passes!Shards(d) \in DOMAIN listing => listing[Passes!Shards(d)] < listing[Passes!Manifest(d)]
        <4>1. SUFFICES ASSUME Passes!Shards(d) \in DOMAIN listing PROVE listing[Passes!Shards(d)] < listing[Passes!Manifest(d)]
          OBVIOUS
        <4>2. Passes!Shards(d) \in DOMAIN objects /\ objects[Passes!Shards(d)] = listing[Passes!Shards(d)]
          BY <4>1 DEF Passes!RetentionInv, Passes!ListingIsRecent
        <4> QED
          BY <3>1, <3>2, <4>2, Names DEF Passes!RetentionInv, Passes!ObjectsMatchRecords
      <3>6. Passes!LastModified(d) = listing[Passes!Manifest(d)]
        BY <3>1, <3>5, LastModifiedIs DEF Passes!RetentionInv, Passes!TypeOK, Passes!RetentionAssumption
      <3>7. record[d].at \in Nat
        BY <3>1, <3>4, RecordTypes DEF Passes!RetentionInv, Passes!In
      <3> QED
        BY <3>1, <3>2, <3>4, <3>6, <3>7
    <2>2. c \in C
      BY <1>1, <1>4 DEF Passes!Committed
    <2>4. {d \in C : time[d] > time[c]} = {}
      BY <2>1, <2>2
    <2>5. Cardinality({d \in C : time[d] > time[c]}) = 0
      BY <2>4, FS_EmptySet
    <2>6. c \in Passes!Kept(Owner[c])
      BY <2>2, <2>5, PassesCardinality DEF Passes!Kept, Passes!Newest, Passes!RetentionAssumption
    <2> QED
      BY <1>4, <2>6 DEF Passes!to_delete, Passes!Orphans
  <1> QED
    BY <1>3, <1>4

\* So every commit of a kept run that is deleted has a newer one that is not.
LEMMA NewestExists ==
  ASSUME Passes!RetentionAssumption, Passes!RetentionInv, NEW c \in Ckpt, Passes!In(c, "COMMITTED")
  PROVE  \E d \in Ckpt :
           /\ Owner[d] = Owner[c] /\ Passes!In(d, "COMMITTED")
           /\ \A e \in Ckpt : Owner[e] = Owner[c] /\ Passes!In(e, "COMMITTED") => record[e].at <= record[d].at
  <1> DEFINE D == {d \in Ckpt : Owner[d] = Owner[c] /\ Passes!In(d, "COMMITTED")}
             S == {record[d].at : d \in D}
  <1>1. S \subseteq Nat
    BY RecordTypes DEF Passes!RetentionInv, Passes!In
  <1>2. S # {}
    OBVIOUS
  <1>3. \A x \in S : x <= MaxTime
    BY RecordTypes DEF Passes!RetentionInv, Passes!In, Passes!RetentionAssumption
  <1>4. MaxTime \in Nat
    BY DEF Passes!RetentionAssumption
  <1>5. \E m \in S : \A x \in S : x <= m
    <2> HIDE DEF S
    <2> QED
      BY <1>1, <1>2, <1>3, <1>4, MaxExists
  <1> QED
    BY <1>5

\* The decision of a pass keeps the invariant.
LEMMA DecideInv ==
  ASSUME Passes!RetentionAssumption, Passes!RetentionInv, Passes!Decide
  PROVE  /\ Passes!StampsArePast' /\ Passes!ObjectsMatchRecords' /\ Passes!ListingIsRecent' /\ Passes!VictimsAreSpare'
         /\ Passes!KeepsLatest' /\ Passes!UploadsHaveGrace'
  <1>1. UNCHANGED <<now, objects, record, listing, listedAt>> /\ pc = "listed" /\ pc' = "deleting"
    BY DEF Passes!Decide
  <1>2. \A c \in Ckpt : Passes!Safe(c)' => Passes!Safe(c) /\ Owner[c] \in Passes!retained_run_ids
    BY DEF Passes!Decide, Passes!Safe, Passes!retained_run_ids, Passes!RetentionAssumption
  <1>3. Passes!StampsArePast' /\ Passes!ListingIsRecent'
    BY <1>1 DEF Passes!RetentionInv, Passes!StampsArePast, Passes!ListingIsRecent, Passes!In
  <1>4. Passes!ObjectsMatchRecords'
    BY <1>1, <1>2 DEF Passes!RetentionInv, Passes!ObjectsMatchRecords, Passes!In
  <1>5. Passes!KeepsLatest' /\ Passes!UploadsHaveGrace'
    BY <1>1, <1>2 DEF Passes!RetentionInv, Passes!KeepsLatest, Passes!UploadsHaveGrace, Passes!In, Passes!Safe
  <1>6. Passes!VictimsAreSpare'
    <2>1. SUFFICES ASSUME NEW c \in Ckpt, c \in Passes!to_delete
          PROVE  /\ Passes!Shards(c) \in DOMAIN objects => Passes!Shards(c) \in todo'
                 /\ Passes!Safe(c)' /\ Passes!Manifest(c) \in DOMAIN objects => Passes!Manifest(c) \in todo'
                 /\ Passes!Safe(c)' /\ Passes!In(c, "IN_PROGRESS") => record[c].at + orphan_grace < now
                 /\ Passes!Safe(c)' /\ Passes!In(c, "COMMITTED") => \E d \in Ckpt \ Passes!to_delete : Passes!Newer(d, c)
      <3>1. victims' = Passes!to_delete /\ Passes!to_delete \subseteq Ckpt
        BY DEF Passes!Decide, Passes!to_delete, Passes!Listed
      <3> QED
        BY <1>1, <3>1 DEF Passes!VictimsAreSpare, Passes!In, Passes!Newer
    <2>2. c \in Passes!Listed
      BY <2>1 DEF Passes!to_delete
    <2>3. \A o \in Passes!Of(c) : o \in DOMAIN listing => o \in todo'
      BY <2>1, Zenon DEF Passes!Decide
    <2>4. Passes!Shards(c) \in DOMAIN objects => Passes!Shards(c) \in todo'
      BY <1>1, <2>2, <2>3, Names DEF Passes!RetentionInv, Passes!ListingIsRecent
    <2>5. ASSUME Passes!Safe(c)', Passes!Manifest(c) \notin DOMAIN listing PROVE Passes!LastModified(c) + orphan_grace < now
      BY <1>2, <2>1, <2>5 DEF Passes!to_delete, Passes!Committed
    <2>6. ASSUME Passes!Safe(c)', Passes!Manifest(c) \in DOMAIN objects PROVE Passes!Manifest(c) \in todo'
      BY <1>1, <1>2, <2>2, <2>3, <2>5, <2>6, LateManifest, Names
    <2>7. ASSUME Passes!Safe(c)', Passes!In(c, "IN_PROGRESS") PROVE record[c].at + orphan_grace < now
      <3>1. Passes!Manifest(c) \notin DOMAIN listing
        BY <1>1, <2>7 DEF Passes!RetentionInv, Passes!ObjectsMatchRecords, Passes!ListingIsRecent
      <3>2. Passes!Shards(c) \in DOMAIN listing
        BY <2>2, <3>1, Names DEF Passes!Listed
      <3>3. Passes!LastModified(c) = record[c].at
        BY <1>1, <2>7, <3>1, <3>2, LastModifiedIs
        DEF Passes!RetentionInv, Passes!TypeOK, Passes!ObjectsMatchRecords, Passes!ListingIsRecent, Passes!RetentionAssumption
      <3> QED
        BY <2>5, <2>7, <3>1, <3>3
    <2>8. ASSUME Passes!Safe(c)', Passes!In(c, "COMMITTED") PROVE \E d \in Ckpt \ Passes!to_delete : Passes!Newer(d, c)
      <3>1. PICK d \in Ckpt :
              /\ Owner[d] = Owner[c] /\ Passes!In(d, "COMMITTED")
              /\ \A e \in Ckpt : Owner[e] = Owner[c] /\ Passes!In(e, "COMMITTED") => record[e].at <= record[d].at
        BY <2>8, NewestExists
      <3>2. Passes!Safe(d) /\ Owner[d] \in Passes!retained_run_ids
        BY <1>2, <2>8, <3>1 DEF Passes!Safe
      <3>3. d \notin Passes!to_delete
        BY <1>1, <3>1, <3>2, NewestStays
      <3>4. record[c].at # record[d].at
        BY <2>1, <2>8, <3>1, <3>3 DEF Passes!RetentionInv, Passes!StampsArePast
      <3>5. record[c].at \in Nat /\ record[d].at \in Nat
        BY <2>8, <3>1, RecordTypes DEF Passes!RetentionInv, Passes!In
      <3>6. record[d].at > record[c].at
        BY <2>8, <3>1, <3>4, <3>5
      <3> QED
        BY <3>1, <3>3, <3>6 DEF Passes!Newer
    <2> QED
      BY <2>4, <2>6, <2>7, <2>8
  <1> QED
    BY <1>3, <1>4, <1>5, <1>6
-----------------------------------------------------------------------------
(* The deletions. *)

\* A pass that removes only what is in its todo list keeps the invariant, whether the
\* batch succeeds, is reported as failed in part, or raises.
LEMMA RemoveInv ==
  ASSUME Passes!RetentionAssumption, Passes!RetentionInv, pc = "deleting",
         NEW b, b \subseteq todo, objects' = Passes!Without(objects, b),
         UNCHANGED <<now, record, listing, listedAt, dropped>>,
         \/ pc' = "deleting" /\ victims' = victims /\ todo' = todo \ b
         \/ pc' = "idle" /\ victims' = {} /\ todo' = {}
  PROVE  /\ Passes!StampsArePast' /\ Passes!ObjectsMatchRecords' /\ Passes!ListingIsRecent' /\ Passes!VictimsAreSpare'
         /\ Passes!KeepsLatest' /\ Passes!UploadsHaveGrace'
  <1>1. /\ DOMAIN objects' = DOMAIN objects \ b
        /\ \A o \in DOMAIN objects' : objects'[o] = objects[o]
    BY DEF Passes!Without
  <1>2. ASSUME NEW c \in Ckpt, NEW o \in Passes!Of(c), o \in b PROVE c \in victims
    <2>1. PICK d \in victims : o \in Passes!Of(d)
      BY <1>2 DEF Passes!RetentionInv, Passes!TypeOK
    <2> QED
      BY <1>2, <2>1, Names
  <1>3. Passes!StampsArePast'
    BY <1>1 DEF Passes!RetentionInv, Passes!StampsArePast, Passes!In
  <1>4. Passes!ObjectsMatchRecords'
    BY <1>1, Names DEF Passes!RetentionInv, Passes!ObjectsMatchRecords, Passes!In, Passes!Safe
  <1>5. Passes!ListingIsRecent'
    BY DEF Passes!ListingIsRecent
  <1>6. Passes!VictimsAreSpare'
    BY <1>1 DEF Passes!RetentionInv, Passes!VictimsAreSpare, Passes!In, Passes!Safe, Passes!Newer
  <1>7. Passes!KeepsLatest'
    <2>1. SUFFICES ASSUME NEW c \in Ckpt, Passes!Safe(c), Passes!In(c, "COMMITTED"),
                          \A d \in Ckpt : Owner[d] = Owner[c] /\ Passes!In(d, "COMMITTED") => record[d].at <= record[c].at
                   PROVE  Passes!Of(c) \subseteq DOMAIN objects'
      BY DEF Passes!KeepsLatest, Passes!In, Passes!Safe
    <2>2. Passes!Of(c) \subseteq DOMAIN objects
      BY <2>1 DEF Passes!RetentionInv, Passes!KeepsLatest, Passes!Safe
    <2>3. c \notin victims
      <3>1. ASSUME NEW d \in Ckpt, Passes!Newer(d, c) PROVE FALSE
        <4>1. record[c].at \in Nat /\ record[d].at \in Nat
          BY <2>1, <3>1, RecordTypes DEF Passes!RetentionInv, Passes!In, Passes!Newer
        <4> QED
          BY <2>1, <3>1, <4>1 DEF Passes!Newer
      <3> QED
        BY <2>1, <3>1 DEF Passes!RetentionInv, Passes!VictimsAreSpare
    <2> QED
      BY <1>1, <1>2, <2>2, <2>3
  <1>8. Passes!UploadsHaveGrace'
    <2>1. SUFFICES ASSUME NEW c \in Ckpt, Passes!Safe(c), Passes!In(c, "IN_PROGRESS"), now <= record[c].at + orphan_grace
                   PROVE  Passes!Shards(c) \in DOMAIN objects'
      BY DEF Passes!UploadsHaveGrace, Passes!In, Passes!Safe
    <2>2. Passes!Shards(c) \in DOMAIN objects
      BY <2>1 DEF Passes!RetentionInv, Passes!UploadsHaveGrace, Passes!Safe
    <2>3. record[c].at \in Nat /\ now \in Nat /\ orphan_grace \in Nat
      BY <2>1, RecordTypes DEF Passes!RetentionInv, Passes!In, Passes!TypeOK, Passes!RetentionAssumption
    <2>4. c \notin victims
      BY <2>1, <2>3 DEF Passes!RetentionInv, Passes!VictimsAreSpare
    <2> QED
      BY <1>1, <1>2, <2>2, <2>4, Names
  <1> QED
    BY <1>3, <1>4, <1>5, <1>6, <1>7, <1>8

\* The metadata of a checkpoint goes after its objects, and a commit that another one
\* is spared for has a newer one itself.
LEMMA DeleteCheckpointInv ==
  ASSUME Passes!RetentionAssumption, Passes!RetentionInv, NEW c \in Ckpt, Passes!delete_checkpoint(c)
  PROVE  /\ Passes!StampsArePast' /\ Passes!ObjectsMatchRecords' /\ Passes!ListingIsRecent' /\ Passes!VictimsAreSpare'
         /\ Passes!KeepsLatest' /\ Passes!UploadsHaveGrace'
  <1>1. /\ pc = "deleting" /\ todo = {} /\ c \in victims
        /\ victims' = victims \ {c} /\ UNCHANGED <<now, objects, pc, listing, listedAt, todo, dropped>>
    BY DEF Passes!delete_checkpoint
  <1>2. record'[c] = None /\ \A d \in Ckpt \ {c} : record'[d] = record[d]
    BY DEF Passes!delete_checkpoint, Passes!RetentionInv, Passes!TypeOK
  <1>3. ASSUME NEW d \in Ckpt, NEW st PROVE Passes!In(d, st)' <=> d # c /\ Passes!In(d, st)
    BY <1>2 DEF Passes!In
  <1>4. Passes!StampsArePast'
    BY <1>1, <1>2, <1>3 DEF Passes!RetentionInv, Passes!StampsArePast
  <1>5. Passes!ObjectsMatchRecords'
    <2>1. Passes!Safe(c) => Passes!Manifest(c) \notin DOMAIN objects
      BY <1>1 DEF Passes!RetentionInv, Passes!VictimsAreSpare
    <2> QED
      BY <1>1, <1>2, <1>3, <2>1 DEF Passes!RetentionInv, Passes!ObjectsMatchRecords, Passes!Safe
  <1>6. Passes!ListingIsRecent'
    BY <1>1 DEF Passes!ListingIsRecent
  <1>7. ASSUME NEW d \in Ckpt, NEW e \in Ckpt, Passes!Newer(e, d), e # c, d # c PROVE Passes!Newer(e, d)'
    BY <1>2, <1>3, <1>7 DEF Passes!Newer
  <1>8. Passes!VictimsAreSpare'
    <2>1. SUFFICES ASSUME NEW d \in victims, d # c, d \in Ckpt
          PROVE  /\ Passes!Shards(d) \in DOMAIN objects => Passes!Shards(d) \in todo
                 /\ Passes!Safe(d) /\ Passes!Manifest(d) \in DOMAIN objects => Passes!Manifest(d) \in todo
                 /\ Passes!Safe(d) /\ Passes!In(d, "IN_PROGRESS") => record[d].at + orphan_grace < now
                 /\ Passes!Safe(d) /\ Passes!In(d, "COMMITTED") => \E e \in Ckpt \ victims' : Passes!Newer(e, d)'
      BY <1>1, <1>2, <1>3 DEF Passes!VictimsAreSpare, Passes!Safe, Passes!RetentionInv, Passes!TypeOK
    <2>2. ASSUME Passes!Safe(d), Passes!In(d, "COMMITTED") PROVE \E e \in Ckpt \ victims' : Passes!Newer(e, d)'
      <3>1. PICK e \in Ckpt \ victims : Passes!Newer(e, d)
        BY <1>1, <2>1, <2>2 DEF Passes!RetentionInv, Passes!VictimsAreSpare
      <3> QED
        BY <1>1, <1>7, <2>1, <3>1
    <2> QED
      BY <1>1, <2>1, <2>2 DEF Passes!RetentionInv, Passes!VictimsAreSpare
  <1>9. Passes!KeepsLatest'
    <2>1. SUFFICES ASSUME NEW x \in Ckpt, x # c, Passes!Safe(x), Passes!In(x, "COMMITTED"),
                          \A d \in Ckpt \ {c} : Owner[d] = Owner[x] /\ Passes!In(d, "COMMITTED") => record[d].at <= record[x].at
                   PROVE  Passes!Of(x) \subseteq DOMAIN objects
      BY <1>1, <1>2, <1>3 DEF Passes!KeepsLatest, Passes!Safe
    <2>2. ASSUME Owner[c] = Owner[x], Passes!In(c, "COMMITTED") PROVE record[c].at <= record[x].at
      <3>1. PICK e \in Ckpt \ victims : Passes!Newer(e, c)
        BY <1>1, <2>1, <2>2 DEF Passes!RetentionInv, Passes!VictimsAreSpare, Passes!Safe
      <3>2. record[c].at \in Nat /\ record[e].at \in Nat /\ record[x].at \in Nat
        BY <2>1, <2>2, <3>1, RecordTypes DEF Passes!RetentionInv, Passes!In, Passes!Newer
      <3> QED
        BY <1>1, <2>1, <2>2, <3>1, <3>2 DEF Passes!Newer
    <2> QED
      BY <2>1, <2>2 DEF Passes!RetentionInv, Passes!KeepsLatest, Passes!Safe
  <1>10. Passes!UploadsHaveGrace'
    BY <1>1, <1>2, <1>3 DEF Passes!RetentionInv, Passes!UploadsHaveGrace
  <1> QED
    BY <1>4, <1>5, <1>6, <1>8, <1>9, <1>10
-----------------------------------------------------------------------------
(* The runs, while a pass may be between any two of its steps. *)

\* A first shard: the checkpoint is none that a pass has listed or is deleting.
LEMMA UploadInv ==
  ASSUME Passes!RetentionAssumption, Passes!RetentionInv, NEW c \in Ckpt, Passes!Upload(c)
  PROVE  /\ Passes!StampsArePast' /\ Passes!ObjectsMatchRecords' /\ Passes!ListingIsRecent' /\ Passes!VictimsAreSpare'
         /\ Passes!KeepsLatest' /\ Passes!UploadsHaveGrace'
  <1>1. /\ record[c] = None /\ Passes!Of(c) \cap DOMAIN objects = {} /\ c \notin victims
        /\ now' = now + 1 /\ (pc = "listed" => now < listedAt + ListTime)
        /\ UNCHANGED <<pc, listing, listedAt, victims, todo, dropped>>
    BY DEF Passes!Upload, Passes!Works, Passes!TimePasses, Passes!pass
  <1>2. record'[c] = [state |-> "IN_PROGRESS", at |-> now] /\ \A d \in Ckpt \ {c} : record'[d] = record[d]
    BY DEF Passes!Upload, Passes!At, Passes!RetentionInv, Passes!TypeOK
  <1>3. /\ DOMAIN objects' = DOMAIN objects \cup {Passes!Shards(c)} /\ objects'[Passes!Shards(c)] = now
        /\ \A o \in DOMAIN objects : o # Passes!Shards(c) /\ objects'[o] = objects[o]
    BY <1>1, Names DEF Passes!Upload, Passes!Put
  <1>4. now \in Nat /\ listedAt \in Nat /\ ListTime \in Nat /\ orphan_grace \in Nat /\ listedAt <= now
    BY DEF Passes!RetentionInv, Passes!TypeOK, Passes!RetentionAssumption
  <1>5. record'[c] # None
    BY <1>2, <1>4 DEF Passes!RetentionAssumption
  <1>6. ASSUME NEW d \in Ckpt, NEW st PROVE Passes!In(d, st)' <=> IF d = c THEN st = "IN_PROGRESS" ELSE Passes!In(d, st)
    BY <1>2, <1>5 DEF Passes!In
  <1>7. \A d \in Ckpt : record[d] # None => record[d].at \in Nat
    BY RecordTypes DEF Passes!RetentionInv
  <1>8. \A o \in DOMAIN objects : objects[o] \in Nat
    BY DEF Passes!RetentionInv, Passes!TypeOK, Passes!Timed
  <1>9. Passes!StampsArePast'
    <2>1. \A o \in DOMAIN objects' : objects'[o] < now'
      BY <1>1, <1>3, <1>4, <1>8 DEF Passes!RetentionInv, Passes!StampsArePast
    <2>2. \A d \in Ckpt : record'[d] # None => record'[d].at < now'
      BY <1>1, <1>2, <1>4, <1>7 DEF Passes!RetentionInv, Passes!StampsArePast
    <2> QED
      BY <1>2, <1>6, <2>1, <2>2 DEF Passes!RetentionInv, Passes!StampsArePast
  <1>10. Passes!ObjectsMatchRecords'
    <2> USE DEF Passes!ObjectsMatchRecords
    <2> TAKE d \in Ckpt
    <2>1. CASE d = c
      BY <1>1, <1>2, <1>3, <1>6, <2>1, Names
    <2>2. CASE d # c
      BY <1>1, <1>2, <1>3, <1>6, <2>2, Names DEF Passes!RetentionInv, Passes!Safe
    <2> QED
      BY <2>1, <2>2
  <1>11. Passes!ListingIsRecent'
    <2>1. SUFFICES ASSUME pc = "listed"
                   PROVE  Passes!ListingIsRecent'
      BY <1>1 DEF Passes!ListingIsRecent
    <2>2. Passes!Of(c) \cap DOMAIN listing = {} /\ c \notin Passes!Listed
      BY <1>1, <2>1 DEF Passes!RetentionInv, Passes!ListingIsRecent, Passes!Listed
    <2>3. Passes!Listed' = Passes!Listed
      BY <1>1 DEF Passes!Listed
    <2>4. \A d \in Passes!Listed : Passes!Shards(d) \in DOMAIN objects' => Passes!Shards(d) \in DOMAIN listing
      BY <1>3, <2>1, <2>2, Names DEF Passes!RetentionInv, Passes!ListingIsRecent
    <2>5. ASSUME NEW d \in Ckpt, Passes!Safe(d), Passes!Of(d) \subseteq DOMAIN objects', Passes!Manifest(d) \notin DOMAIN listing
          PROVE  record'[d].at >= listedAt /\ record'[d].at <= objects'[Passes!Shards(d)] + UploadTime
      <3>1. d # c
        BY <1>1, <1>3, <2>5, Names
      <3> QED
        BY <1>2, <1>3, <2>1, <2>5, <3>1, Names DEF Passes!RetentionInv, Passes!ListingIsRecent
    <2> QED
      BY <1>1, <1>3, <1>4, <2>1, <2>3, <2>4, <2>5 DEF Passes!RetentionInv, Passes!ListingIsRecent, Passes!Safe
  <1>12. ASSUME NEW d \in Ckpt, NEW e \in Ckpt, Passes!Newer(e, d), d # c PROVE Passes!Newer(e, d)'
    BY <1>1, <1>2, <1>6, <1>12 DEF Passes!Newer, Passes!In
  <1>13. Passes!VictimsAreSpare'
    <2>1. SUFFICES ASSUME pc = "deleting", NEW d \in victims, d \in Ckpt, d # c
          PROVE  /\ Passes!Shards(d) \in DOMAIN objects => Passes!Shards(d) \in todo
                 /\ Passes!Safe(d) /\ Passes!Manifest(d) \in DOMAIN objects => Passes!Manifest(d) \in todo
                 /\ Passes!Safe(d) /\ Passes!In(d, "IN_PROGRESS") => record[d].at + orphan_grace < now'
                 /\ Passes!Safe(d) /\ Passes!In(d, "COMMITTED") => \E e \in Ckpt \ victims : Passes!Newer(e, d)'
      BY <1>1, <1>2, <1>3, <1>6, Names DEF Passes!VictimsAreSpare, Passes!Safe, Passes!RetentionInv, Passes!TypeOK
    <2>2. Passes!Safe(d) /\ Passes!In(d, "IN_PROGRESS") => record[d].at + orphan_grace < now'
      BY <1>1, <1>4, <1>7, <2>1 DEF Passes!RetentionInv, Passes!VictimsAreSpare, Passes!In
    <2> QED
      BY <1>12, <2>1, <2>2 DEF Passes!RetentionInv, Passes!VictimsAreSpare
  <1>14. Passes!KeepsLatest'
    <2>1. SUFFICES ASSUME NEW x \in Ckpt, x # c, Passes!Safe(x), Passes!In(x, "COMMITTED"),
                          \A d \in Ckpt \ {c} : Owner[d] = Owner[x] /\ Passes!In(d, "COMMITTED") => record[d].at <= record[x].at
                   PROVE  Passes!Of(x) \subseteq DOMAIN objects'
      BY <1>1, <1>2, <1>6 DEF Passes!KeepsLatest, Passes!Safe
    <2>2. ~Passes!In(c, "COMMITTED")
      BY <1>1 DEF Passes!In
    <2> QED
      BY <1>3, <2>1, <2>2 DEF Passes!RetentionInv, Passes!KeepsLatest, Passes!Safe
  <1>15. Passes!UploadsHaveGrace'
    <2>1. SUFFICES ASSUME NEW x \in Ckpt, x # c, Passes!Safe(x), Passes!In(x, "IN_PROGRESS"), now + 1 <= record[x].at + orphan_grace
                   PROVE  Passes!Shards(x) \in DOMAIN objects
      BY <1>1, <1>2, <1>3, <1>6 DEF Passes!UploadsHaveGrace, Passes!Safe
    <2>2. now <= record[x].at + orphan_grace
      BY <1>4, <1>7, <2>1 DEF Passes!In
    <2> QED
      BY <2>1, <2>2 DEF Passes!RetentionInv, Passes!UploadsHaveGrace, Passes!Safe
  <1> QED
    BY <1>9, <1>10, <1>11, <1>13, <1>14, <1>15

\* A commit: an upload that may still be committed is within the grace period, so a
\* pass that is deleting does not have it, and its record is the newest of its run.
LEMMA CommitInv ==
  ASSUME Passes!RetentionAssumption, Passes!RetentionInv, NEW c \in Ckpt, Passes!Commit(c)
  PROVE  /\ Passes!StampsArePast' /\ Passes!ObjectsMatchRecords' /\ Passes!ListingIsRecent' /\ Passes!VictimsAreSpare'
         /\ Passes!KeepsLatest' /\ Passes!UploadsHaveGrace'
  <1>1. /\ Passes!In(c, "IN_PROGRESS") /\ Passes!Shards(c) \in DOMAIN objects /\ now <= objects[Passes!Shards(c)] + UploadTime
        /\ now' = now + 1 /\ (pc = "listed" => now < listedAt + ListTime)
        /\ UNCHANGED <<pc, listing, listedAt, victims, todo, dropped>>
    BY DEF Passes!Commit, Passes!Works, Passes!TimePasses, Passes!pass
  <1>2. record'[c] = [state |-> "COMMITTED", at |-> now] /\ \A d \in Ckpt \ {c} : record'[d] = record[d]
    BY DEF Passes!Commit, Passes!At, Passes!RetentionInv, Passes!TypeOK
  <1>m. Passes!Manifest(c) \notin DOMAIN objects /\ objects[Passes!Shards(c)] = record[c].at
    BY <1>1 DEF Passes!RetentionInv, Passes!ObjectsMatchRecords
  <1>3. /\ DOMAIN objects' = DOMAIN objects \cup {Passes!Manifest(c)} /\ objects'[Passes!Manifest(c)] = now
        /\ \A o \in DOMAIN objects : o # Passes!Manifest(c) /\ objects'[o] = objects[o]
    BY <1>m, Names DEF Passes!Commit, Passes!Put
  <1>4. /\ now \in Nat /\ listedAt \in Nat /\ ListTime \in Nat /\ orphan_grace \in Nat /\ UploadTime \in Nat
        /\ UploadTime <= orphan_grace /\ listedAt <= now
    BY DEF Passes!RetentionInv, Passes!TypeOK, Passes!RetentionAssumption
  <1>5. record'[c] # None
    BY <1>2, <1>4 DEF Passes!RetentionAssumption
  <1>6. ASSUME NEW d \in Ckpt, NEW st PROVE Passes!In(d, st)' <=> IF d = c THEN st = "COMMITTED" ELSE Passes!In(d, st)
    BY <1>2, <1>5 DEF Passes!In
  <1>7. \A d \in Ckpt : record[d] # None => record[d].at \in Nat /\ record[d].at < now
    BY RecordTypes DEF Passes!RetentionInv, Passes!StampsArePast
  <1>8. \A o \in DOMAIN objects : objects[o] \in Nat /\ objects[o] < now
    BY DEF Passes!RetentionInv, Passes!TypeOK, Passes!Timed, Passes!StampsArePast
  <1>9. Passes!StampsArePast'
    <2>1. \A o \in DOMAIN objects' : objects'[o] < now'
      BY <1>1, <1>3, <1>4, <1>8
    <2>2. \A d \in Ckpt : record'[d] # None => record'[d].at < now'
      BY <1>1, <1>2, <1>4, <1>7
    <2>3. ASSUME NEW d \in Ckpt, NEW e \in Ckpt, Passes!In(d, "COMMITTED")', Passes!In(e, "COMMITTED")',
                 record'[d].at = record'[e].at
          PROVE  d = e
      <3>1. CASE d # c /\ e # c
        BY <1>2, <1>6, <2>3, <3>1 DEF Passes!RetentionInv, Passes!StampsArePast
      <3>2. ASSUME NEW x \in Ckpt \ {c}, Passes!In(x, "COMMITTED")' PROVE record'[x].at < now
        BY <1>2, <1>6, <1>7, <3>2 DEF Passes!In
      <3>3. record'[c].at = now
        BY <1>2
      <3> QED
        BY <1>4, <2>3, <3>1, <3>2, <3>3
    <2> QED
      BY <2>1, <2>2, <2>3 DEF Passes!StampsArePast
  <1>10. Passes!ObjectsMatchRecords'
    <2> USE DEF Passes!ObjectsMatchRecords
    <2> TAKE d \in Ckpt
    <2>1. CASE d = c
      BY <1>1, <1>2, <1>3, <1>6, <1>8, <2>1, Names
    <2>2. CASE d # c
      BY <1>1, <1>2, <1>3, <1>6, <2>2, Names DEF Passes!RetentionInv, Passes!Safe
    <2> QED
      BY <2>1, <2>2
  <1>11. Passes!ListingIsRecent'
    <2>1. SUFFICES ASSUME pc = "listed"
                   PROVE  Passes!ListingIsRecent'
      BY <1>1 DEF Passes!ListingIsRecent
    <2>2. Passes!Listed' = Passes!Listed
      BY <1>1 DEF Passes!Listed
    <2>3. \A d \in Passes!Listed : Passes!Shards(d) \in DOMAIN objects' => Passes!Shards(d) \in DOMAIN listing
      BY <1>3, <2>1, Names DEF Passes!RetentionInv, Passes!ListingIsRecent
    <2>4. ASSUME NEW d \in Ckpt, Passes!Safe(d), Passes!Of(d) \subseteq DOMAIN objects', Passes!Manifest(d) \notin DOMAIN listing
          PROVE  record'[d].at >= listedAt /\ record'[d].at <= objects'[Passes!Shards(d)] + UploadTime
      <3>1. CASE d = c
        BY <1>1, <1>2, <1>3, <1>4, <3>1
      <3>2. CASE d # c
        BY <1>2, <1>3, <2>1, <2>4, <3>2, Names DEF Passes!RetentionInv, Passes!ListingIsRecent
      <3> QED
        BY <3>1, <3>2
    <2> QED
      BY <1>1, <1>3, <1>4, <2>1, <2>2, <2>3, <2>4 DEF Passes!RetentionInv, Passes!ListingIsRecent, Passes!Safe
  <1>12. ASSUME NEW d \in Ckpt, NEW e \in Ckpt, Passes!Newer(e, d), d # c PROVE Passes!Newer(e, d)'
    <2>1. e # c
      BY <1>1, <1>12 DEF Passes!Newer, Passes!In
    <2> QED
      BY <1>2, <1>6, <1>12, <2>1 DEF Passes!Newer
  <1>13. Passes!VictimsAreSpare'
    <2>1. SUFFICES ASSUME pc = "deleting", NEW d \in victims, d \in Ckpt
          PROVE  /\ Passes!Shards(d) \in DOMAIN objects => Passes!Shards(d) \in todo
                 /\ Passes!Safe(d) /\ Passes!Manifest(d) \in DOMAIN objects' => Passes!Manifest(d) \in todo
                 /\ Passes!Safe(d) /\ Passes!In(d, "IN_PROGRESS")' => record'[d].at + orphan_grace < now'
                 /\ Passes!Safe(d) /\ Passes!In(d, "COMMITTED")' => \E e \in Ckpt \ victims : Passes!Newer(e, d)'
      BY <1>1, <1>3, Names DEF Passes!VictimsAreSpare, Passes!Safe, Passes!RetentionInv, Passes!TypeOK
    <2>2. c \in victims => ~Passes!Safe(c)
      <3>1. SUFFICES ASSUME c \in victims, Passes!Safe(c) PROVE FALSE
        OBVIOUS
      <3>2. record[c].at + orphan_grace < now
        BY <1>1, <2>1, <3>1 DEF Passes!RetentionInv, Passes!VictimsAreSpare
      <3> QED
        BY <1>1, <1>m, <1>4, <1>7, <3>2 DEF Passes!In
    <2>3. ASSUME Passes!Safe(d) PROVE d # c
      BY <2>2, <2>3
    <2>4. Passes!Safe(d) /\ Passes!In(d, "IN_PROGRESS")' => record'[d].at + orphan_grace < now'
      BY <1>1, <1>2, <1>4, <1>6, <1>7, <2>1, <2>3 DEF Passes!RetentionInv, Passes!VictimsAreSpare, Passes!In
    <2>5. Passes!Safe(d) /\ Passes!In(d, "COMMITTED")' => \E e \in Ckpt \ victims : Passes!Newer(e, d)'
      BY <1>6, <1>12, <2>1, <2>3 DEF Passes!RetentionInv, Passes!VictimsAreSpare
    <2>6. Passes!Safe(d) /\ Passes!Manifest(d) \in DOMAIN objects' => Passes!Manifest(d) \in todo
      BY <1>3, <2>1, <2>3, Names DEF Passes!RetentionInv, Passes!VictimsAreSpare
    <2> QED
      BY <2>1, <2>4, <2>5, <2>6 DEF Passes!RetentionInv, Passes!VictimsAreSpare
  <1>14. Passes!KeepsLatest'
    <2>1. SUFFICES ASSUME NEW x \in Ckpt, Passes!Safe(x), Passes!In(x, "COMMITTED")',
                          \A d \in Ckpt : Owner[d] = Owner[x] /\ Passes!In(d, "COMMITTED")' => record'[d].at <= record'[x].at
                   PROVE  Passes!Of(x) \subseteq DOMAIN objects'
      BY <1>1 DEF Passes!KeepsLatest, Passes!Safe
    <2>2. CASE x = c
      BY <1>1, <1>3, <2>2, Names
    <2>3. CASE x # c
      <3>1. \A d \in Ckpt : Owner[d] = Owner[x] /\ Passes!In(d, "COMMITTED") => record[d].at <= record[x].at
        BY <1>1, <1>2, <1>6, <2>1, <2>3 DEF Passes!In
      <3> QED
        BY <1>3, <1>6, <2>1, <2>3, <3>1 DEF Passes!RetentionInv, Passes!KeepsLatest, Passes!Safe
    <2> QED
      BY <2>2, <2>3
  <1>15. Passes!UploadsHaveGrace'
    <2>1. SUFFICES ASSUME NEW x \in Ckpt, x # c, Passes!Safe(x), Passes!In(x, "IN_PROGRESS"), now + 1 <= record[x].at + orphan_grace
                   PROVE  Passes!Shards(x) \in DOMAIN objects
      BY <1>1, <1>2, <1>3, <1>6 DEF Passes!UploadsHaveGrace, Passes!Safe
    <2>2. now <= record[x].at + orphan_grace
      BY <1>4, <1>7, <2>1 DEF Passes!In
    <2> QED
      BY <2>1, <2>2 DEF Passes!RetentionInv, Passes!UploadsHaveGrace, Passes!Safe
  <1> QED
    BY <1>9, <1>10, <1>11, <1>13, <1>14, <1>15

\* Time passes, and what a run had in progress may be abandoned.
LEMMA AbandonInv ==
  ASSUME Passes!RetentionAssumption, Passes!RetentionInv,
         now' = now + 1, pc = "listed" => now < listedAt + ListTime,
         UNCHANGED <<objects, pc, listing, listedAt, victims, todo, dropped>>,
         \A c \in Ckpt : \/ record'[c] = record[c]
                         \/ Passes!In(c, "IN_PROGRESS") /\ record'[c] = [state |-> "FAILED", at |-> now]
  PROVE  /\ Passes!StampsArePast' /\ Passes!ObjectsMatchRecords' /\ Passes!ListingIsRecent' /\ Passes!VictimsAreSpare'
         /\ Passes!KeepsLatest' /\ Passes!UploadsHaveGrace'
  <1>1. now \in Nat /\ listedAt \in Nat /\ ListTime \in Nat /\ orphan_grace \in Nat /\ listedAt <= now
    BY DEF Passes!RetentionInv, Passes!TypeOK, Passes!RetentionAssumption
  <1>2. \A d \in Ckpt : record[d] # None => record[d].at \in Nat /\ record[d].at < now
    BY RecordTypes DEF Passes!RetentionInv, Passes!StampsArePast
  <1>3. \A o \in DOMAIN objects : objects[o] \in Nat /\ objects[o] < now
    BY DEF Passes!RetentionInv, Passes!TypeOK, Passes!Timed, Passes!StampsArePast
  <1>4. ASSUME NEW d \in Ckpt
        PROVE  /\ Passes!In(d, "COMMITTED")' <=> Passes!In(d, "COMMITTED")
               /\ Passes!In(d, "IN_PROGRESS")' => Passes!In(d, "IN_PROGRESS")
               /\ Passes!In(d, "COMMITTED") \/ Passes!In(d, "IN_PROGRESS")' => record'[d] = record[d]
    BY DEF Passes!In
  <1>5. Passes!StampsArePast'
    <2>1. \A d \in Ckpt : record'[d] # None => record'[d].at < now'
      BY <1>1, <1>2
    <2>2. \A o \in DOMAIN objects : objects[o] < now'
      BY <1>1, <1>3
    <2> QED
      BY <1>4, <2>1, <2>2 DEF Passes!RetentionInv, Passes!StampsArePast
  <1>6. Passes!ObjectsMatchRecords'
    BY <1>4 DEF Passes!RetentionInv, Passes!ObjectsMatchRecords, Passes!Safe
  <1>7. Passes!ListingIsRecent'
    <2>1. SUFFICES ASSUME pc = "listed" PROVE Passes!ListingIsRecent'
      BY DEF Passes!ListingIsRecent
    <2>2. Passes!Listed' = Passes!Listed
      BY DEF Passes!Listed
    <2>3. ASSUME NEW d \in Ckpt, Passes!Safe(d), Passes!Of(d) \subseteq DOMAIN objects PROVE record'[d] = record[d]
      BY <1>4, <2>3, Names DEF Passes!RetentionInv, Passes!ObjectsMatchRecords
    <2> QED
      BY <1>1, <2>1, <2>2, <2>3 DEF Passes!RetentionInv, Passes!ListingIsRecent, Passes!Safe
  <1>8. ASSUME NEW d \in Ckpt, NEW e \in Ckpt, Passes!Newer(e, d), Passes!In(d, "COMMITTED") PROVE Passes!Newer(e, d)'
    BY <1>4, <1>8 DEF Passes!Newer
  <1>9. Passes!VictimsAreSpare'
    <2>1. SUFFICES ASSUME pc = "deleting", NEW d \in victims, d \in Ckpt
          PROVE  /\ Passes!Shards(d) \in DOMAIN objects => Passes!Shards(d) \in todo
                 /\ Passes!Safe(d) /\ Passes!Manifest(d) \in DOMAIN objects => Passes!Manifest(d) \in todo
                 /\ Passes!Safe(d) /\ Passes!In(d, "IN_PROGRESS")' => record'[d].at + orphan_grace < now'
                 /\ Passes!Safe(d) /\ Passes!In(d, "COMMITTED") => \E e \in Ckpt \ victims : Passes!Newer(e, d)'
      BY <1>4 DEF Passes!VictimsAreSpare, Passes!Safe, Passes!RetentionInv, Passes!TypeOK
    <2>2. Passes!Safe(d) /\ Passes!In(d, "IN_PROGRESS")' => record'[d].at + orphan_grace < now'
      BY <1>1, <1>2, <1>4, <2>1 DEF Passes!RetentionInv, Passes!VictimsAreSpare, Passes!In
    <2> QED
      BY <1>8, <2>1, <2>2 DEF Passes!RetentionInv, Passes!VictimsAreSpare
  <1>10. Passes!KeepsLatest'
    BY <1>4 DEF Passes!RetentionInv, Passes!KeepsLatest
  <1>11. Passes!UploadsHaveGrace'
    <2>1. SUFFICES ASSUME NEW x \in Ckpt, Passes!Safe(x), Passes!In(x, "IN_PROGRESS"), now + 1 <= record[x].at + orphan_grace
                   PROVE  Passes!Shards(x) \in DOMAIN objects
      BY <1>4 DEF Passes!UploadsHaveGrace, Passes!Safe
    <2>2. now <= record[x].at + orphan_grace
      BY <1>1, <1>2, <2>1 DEF Passes!In
    <2> QED
      BY <2>1, <2>2 DEF Passes!RetentionInv, Passes!UploadsHaveGrace, Passes!Safe
  <1> QED
    BY <1>5, <1>6, <1>7, <1>9, <1>10, <1>11
-----------------------------------------------------------------------------
(* The theorems. *)

\* Every step of the runs and of a pass keeps the invariant.
LEMMA RetentionNext == ASSUME Passes!RetentionAssumption, Passes!RetentionInv, [Passes!Next]_(Passes!vars) PROVE Passes!RetentionInv'
  <1>t. Passes!TypeOK'
    BY RetentionTypeNext DEF Passes!RetentionInv
  <1>1. ASSUME NEW c \in Ckpt, Passes!Upload(c) PROVE Passes!RetentionInv'
    BY <1>t, <1>1, UploadInv DEF Passes!RetentionInv
  <1>2. ASSUME NEW c \in Ckpt, Passes!Commit(c) PROVE Passes!RetentionInv'
    BY <1>t, <1>2, CommitInv DEF Passes!RetentionInv
  <1>3. ASSUME NEW r \in Run, NEW s \in Passes!RL!RunStates, Passes!Transition(r, s) PROVE Passes!RetentionInv'
    <2>1. /\ now' = now + 1 /\ (pc = "listed" => now < listedAt + ListTime)
          /\ UNCHANGED <<objects, pc, listing, listedAt, victims, todo, dropped>>
      BY <1>3 DEF Passes!Transition, Passes!Works, Passes!TimePasses, Passes!pass
    <2>2. \A c \in Ckpt : \/ record'[c] = record[c]
                          \/ Passes!In(c, "IN_PROGRESS") /\ record'[c] = [state |-> "FAILED", at |-> now]
      BY <1>3 DEF Passes!Transition, Passes!At
    <2> QED
      BY <1>t, <2>1, <2>2, AbandonInv DEF Passes!RetentionInv
  <1>4. CASE Passes!Tick
    <2>1. /\ now' = now + 1 /\ (pc = "listed" => now < listedAt + ListTime)
          /\ UNCHANGED <<objects, record, pc, listing, listedAt, victims, todo, dropped>>
      BY <1>4 DEF Passes!Tick, Passes!TimePasses, Passes!pass
    <2> QED
      BY <1>t, <2>1, AbandonInv DEF Passes!RetentionInv
  <1>5. CASE Passes!List
    <2> USE <1>5 DEF Passes!RetentionInv, Passes!List
    <2>1. Passes!StampsArePast' /\ Passes!ObjectsMatchRecords' /\ Passes!VictimsAreSpare'
      BY DEF Passes!StampsArePast, Passes!ObjectsMatchRecords, Passes!VictimsAreSpare, Passes!In, Passes!Safe
    <2>2. Passes!ListingIsRecent'
      <3>1. listedAt' <= now' /\ now' <= listedAt' + ListTime
        BY DEF Passes!TypeOK, Passes!RetentionAssumption
      <3>2. \A c \in Passes!Listed' : Passes!Shards(c) \in DOMAIN objects' => Passes!Shards(c) \in DOMAIN listing'
        OBVIOUS
      <3> QED
        BY <3>1, <3>2, Names DEF Passes!ListingIsRecent
    <2>3. Passes!KeepsLatest' /\ Passes!UploadsHaveGrace'
      BY DEF Passes!KeepsLatest, Passes!UploadsHaveGrace, Passes!In
    <2> QED
      BY <1>t, <2>1, <2>2, <2>3
  <1>6. CASE Passes!Decide
    BY <1>t, <1>6, DecideInv DEF Passes!RetentionInv
  <1>7. CASE Passes!DeleteBatch
    <2>1. PICK b \in Passes!Batches : todo' = todo \ b /\ objects' = Passes!Without(objects, b)
      BY <1>7 DEF Passes!DeleteBatch
    <2>2. b \subseteq todo
      BY <2>1 DEF Passes!Batches
    <2> QED
      BY <1>t, <1>7, <2>1, <2>2, RemoveInv DEF Passes!RetentionInv, Passes!DeleteBatch
  <1>8. CASE Passes!DeleteFails
    <2>1. PICK b \in Passes!Batches : \E done \in SUBSET b : objects' = Passes!Without(objects, done)
      BY <1>8 DEF Passes!DeleteFails, Passes!Fails
    <2>2. PICK done \in SUBSET todo : objects' = Passes!Without(objects, done)
      BY <2>1 DEF Passes!Batches
    <2>3. /\ pc = "deleting" /\ pc' = "idle" /\ victims' = {} /\ todo' = {}
          /\ UNCHANGED <<now, record, listing, listedAt, dropped>>
      BY <1>8 DEF Passes!DeleteFails, Passes!Fails
    <2> QED
      BY <1>t, <2>1, <2>2, <2>3, RemoveInv DEF Passes!RetentionInv
  <1>9. ASSUME NEW c \in Ckpt, Passes!delete_checkpoint(c) PROVE Passes!RetentionInv'
    BY <1>t, <1>9, DeleteCheckpointInv DEF Passes!RetentionInv
  <1>10. CASE Passes!Finish
    <2> USE <1>10 DEF Passes!RetentionInv, Passes!Finish
    <2>1. Passes!StampsArePast' /\ Passes!ObjectsMatchRecords' /\ Passes!ListingIsRecent' /\ Passes!VictimsAreSpare'
      BY DEF Passes!StampsArePast, Passes!ObjectsMatchRecords, Passes!ListingIsRecent, Passes!VictimsAreSpare, Passes!In, Passes!Safe
    <2>2. Passes!KeepsLatest' /\ Passes!UploadsHaveGrace'
      BY DEF Passes!KeepsLatest, Passes!UploadsHaveGrace, Passes!In
    <2> QED
      BY <1>t, <2>1, <2>2
  <1>11. CASE UNCHANGED Passes!vars
    <2> USE <1>11 DEF Passes!RetentionInv, Passes!vars, Passes!training, Passes!pass
    <2>1. Passes!StampsArePast' /\ Passes!ObjectsMatchRecords'
      BY DEF Passes!StampsArePast, Passes!ObjectsMatchRecords, Passes!In, Passes!Safe
    <2>2. Passes!ListingIsRecent' /\ Passes!VictimsAreSpare'
      BY DEF Passes!ListingIsRecent, Passes!VictimsAreSpare, Passes!In, Passes!Safe, Passes!Newer, Passes!Listed
    <2>3. Passes!KeepsLatest' /\ Passes!UploadsHaveGrace'
      BY DEF Passes!KeepsLatest, Passes!UploadsHaveGrace, Passes!In
    <2> QED
      BY <1>t, <2>1, <2>2, <2>3
  <1> QED
    BY <1>1, <1>2, <1>3, <1>4, <1>5, <1>6, <1>7, <1>8, <1>9, <1>10, <1>11 DEF Passes!Next, Passes!Pass

\* No step removes the metadata of a checkpoint while its shards are stored: only
\* delete_checkpoint removes any, and only for victims whose shards are gone.
LEMMA MetadataStep ==
  ASSUME Passes!RetentionAssumption, Passes!RetentionInv, [Passes!Next]_(Passes!vars)
  PROVE  Passes!MetadataOutlivesShards
  <1>1. ASSUME NEW c \in Ckpt, record[c] # None, record'[c] = None
        PROVE  Passes!Shards(c) \notin DOMAIN objects'
    <2>1. now \in Nat
      BY <1>1 DEF Passes!RetentionInv, Passes!TypeOK, Passes!RetentionAssumption
    <2>3. record \in [Ckpt -> {None} \cup [state : {"IN_PROGRESS", "COMMITTED", "FAILED"}, at : 1..MaxTime]]
      BY <1>1 DEF Passes!RetentionInv, Passes!TypeOK
    <2>4. ASSUME NEW st \in {"IN_PROGRESS", "COMMITTED", "FAILED"} PROVE Passes!At(st) # None
      BY <2>1 DEF Passes!At, Passes!RetentionAssumption
    <2>5. ~(\E d \in Ckpt : Passes!Upload(d) \/ Passes!Commit(d))
      BY <1>1, <2>3, <2>4 DEF Passes!Upload, Passes!Commit
    <2>6. ~(\E r \in Run, s \in Passes!RL!RunStates : Passes!Transition(r, s))
      BY <1>1, <2>3, <2>4 DEF Passes!Transition
    <2>7. ~(Passes!Tick \/ Passes!List \/ Passes!Decide \/ Passes!DeleteBatch \/ Passes!DeleteFails \/ Passes!Finish \/ UNCHANGED Passes!vars)
      BY <1>1 DEF Passes!Tick, Passes!List, Passes!Decide, Passes!DeleteBatch, Passes!DeleteFails, Passes!Fails, Passes!Finish, Passes!vars
    <2>8. PICK d \in Ckpt : Passes!delete_checkpoint(d)
      BY <1>1, <2>5, <2>6, <2>7 DEF Passes!Next, Passes!Pass
    <2>9. c = d
      BY <1>1, <2>3, <2>8 DEF Passes!delete_checkpoint
    <2> QED
      BY <1>1, <2>8, <2>9 DEF Passes!delete_checkpoint, Passes!RetentionInv, Passes!VictimsAreSpare
  <1> QED
    BY <1>1 DEF Passes!MetadataOutlivesShards
-----------------------------------------------------------------------------
(* LogPane *)

LEMMA PaneInit == ASSUME Pane!PaneAssumption PROVE Pane!Init => Pane!PaneInv
  <1> SUFFICES ASSUME Pane!Init PROVE Pane!PaneInv
    OBVIOUS
  <1>1. Pane!Bottom = 0 /\ Near \in Nat \ {0}
    BY DEF Pane!Init, Pane!Bottom, Pane!PaneAssumption
  <1>2. {nextScrolled, userScrolled, effect, event} \subseteq BOOLEAN
    BY DEF Pane!Init
  <1>3. Pane!TypeOK /\ queued <= received
    BY <1>1, <1>2 DEF Pane!Init, Pane!TypeOK, Pane!PaneAssumption
  <1>4. Pane!FlagIsRight
    BY <1>1 DEF Pane!Init, Pane!FlagIsRight
  <1> QED
    BY <1>3, <1>4 DEF Pane!PaneInv

\* The end of the log only moves down.
LEMMA PaneGrows ==
  ASSUME Pane!PaneAssumption, Pane!TypeOK, Pane!Commit
  PROVE  lines' \in lines..MAX_LINES /\ Pane!Bottom \in Nat /\ Pane!Bottom' \in Nat /\ Pane!Bottom <= Pane!Bottom'
  BY DEF Pane!PaneAssumption, Pane!TypeOK, Pane!Commit, Pane!Smaller, Pane!Bottom

\* Scrolling stays within the log and is announced if it moves anything.
LEMMA PaneScrolls ==
  ASSUME Pane!PaneAssumption, Pane!TypeOK, NEW y \in 0..Pane!Bottom, Pane!ScrollTo(y), Pane!Bottom' = Pane!Bottom
  PROVE  scrollTop' \in 0..Pane!Bottom' /\ event' \in BOOLEAN /\ (~event' => ~event /\ scrollTop = y)
  <1>1. event \in BOOLEAN
    BY DEF Pane!TypeOK
  <1>2. event' \in BOOLEAN /\ (~event' => ~event /\ scrollTop = y)
    BY <1>1, Zenon DEF Pane!ScrollTo
  <1> QED
    BY <1>2 DEF Pane!ScrollTo

LEMMA PaneNext ==
  ASSUME Pane!PaneAssumption, Pane!PaneInv, [Pane!Next]_(Pane!vars) PROVE Pane!PaneInv'
  <1> USE DEF Pane!PaneInv, Pane!FlagIsRight
  <1>t. Pane!Bottom \in Nat /\ View \in Nat /\ Near \in Nat \ {0} /\ scrollTop \in Nat
    BY DEF Pane!PaneAssumption, Pane!TypeOK, Pane!Bottom
  <1>b. /\ nextScrolled \in BOOLEAN /\ userScrolled \in BOOLEAN /\ effect \in BOOLEAN /\ event \in BOOLEAN
        /\ Pane!Bottom \in 0..Pane!Bottom
    BY <1>t DEF Pane!TypeOK
  <1>1. CASE Pane!Message
    <2>1. Pane!TypeOK' /\ queued' <= received'
      BY <1>1 DEF Pane!Message, Pane!PaneAssumption, Pane!TypeOK, Pane!Bottom
    <2>2. Pane!atBottom' = Pane!atBottom
      BY <1>1 DEF Pane!Message, Pane!Bottom, Pane!atBottom
    <2> QED
      BY <1>1, <2>1, <2>2 DEF Pane!Message
  <1>2. CASE Pane!Commit
    <2>1. Pane!TypeOK' /\ queued' <= received'
      BY <1>2, <1>t, PaneGrows DEF Pane!Commit, Pane!TypeOK, Pane!PaneAssumption
    <2>2. ~Pane!atBottom => ~Pane!atBottom'
      <3>1. scrollTop' = scrollTop /\ Pane!Bottom \in Nat /\ Pane!Bottom' \in Nat /\ Pane!Bottom <= Pane!Bottom'
        BY <1>2, PaneGrows DEF Pane!Commit
      <3>2. Pane!Bottom' - scrollTop < Near => Pane!Bottom - scrollTop < Near
        <4>1. \A x, y, z, n \in Nat : x <= y /\ y - z < n => x - z < n
          OBVIOUS
        <4> QED
          BY <1>t, <3>1, <4>1, Zenon
      <3> QED
        BY <3>1, <3>2 DEF Pane!atBottom
    <2> QED
      BY <1>2, <2>1, <2>2 DEF Pane!Commit
  <1>3. CASE Pane!AutoScroll
    <2>1. Pane!Bottom' = Pane!Bottom
      BY <1>3 DEF Pane!AutoScroll, Pane!Bottom
    <2>3. CASE userScrolled
      <3>1. UNCHANGED <<scrollTop, event, queued, nextScrolled, lines, userScrolled, received, scrolls>> /\ effect' = FALSE
        BY <1>3, <2>3 DEF Pane!AutoScroll
      <3>2. Pane!TypeOK' /\ queued' <= received'
        BY <2>1, <3>1 DEF Pane!TypeOK
      <3>3. Pane!atBottom' = Pane!atBottom
        BY <2>1, <3>1 DEF Pane!atBottom
      <3> QED
        BY <2>3, <3>1, <3>2, <3>3
    <2>4. CASE ~userScrolled
      <3>1. Pane!ScrollTo(Pane!Bottom) /\ UNCHANGED <<queued, nextScrolled, lines, userScrolled, received, scrolls>> /\ effect' = FALSE
        BY <1>3, <2>4 DEF Pane!AutoScroll
      <3>2. scrollTop' \in 0..Pane!Bottom' /\ event' \in BOOLEAN /\ (~event' => ~event /\ scrollTop = Pane!Bottom)
        BY <1>b, <2>1, <3>1, PaneScrolls
      <3>3. Pane!TypeOK' /\ queued' <= received'
        BY <1>b, <3>1, <3>2 DEF Pane!TypeOK
      <3>4. Pane!atBottom'
        BY <1>t, <2>1, <3>1 DEF Pane!ScrollTo, Pane!atBottom
      <3>5. ~event' => Pane!atBottom
        BY <1>t, <3>2 DEF Pane!atBottom
      <3> QED
        BY <3>1, <3>2, <3>3, <3>4, <3>5
    <2> QED
      BY <2>3, <2>4
  <1>4. CASE Pane!handleScroll
    <2>1. Pane!atBottom' = Pane!atBottom
      BY <1>4 DEF Pane!handleScroll, Pane!Bottom, Pane!atBottom
    <2>2. (~Pane!atBottom) \in BOOLEAN
      OBVIOUS
    <2>3. Pane!TypeOK' /\ queued' <= received'
      BY <1>4, <1>b, <2>2 DEF Pane!handleScroll, Pane!TypeOK, Pane!Bottom
    <2> QED
      BY <1>4, <2>1, <2>3 DEF Pane!handleScroll
  <1>5. CASE Pane!ScrollToLatest
    <2>1. Pane!Bottom' = Pane!Bottom
      BY <1>5 DEF Pane!ScrollToLatest, Pane!Bottom
    <2>2. scrollTop' \in 0..Pane!Bottom' /\ event' \in BOOLEAN
      BY <1>5, <1>b, <2>1, PaneScrolls DEF Pane!ScrollToLatest
    <2>3. Pane!TypeOK' /\ queued' <= received'
      BY <1>5, <1>b, <2>2 DEF Pane!ScrollToLatest, Pane!TypeOK
    <2>4. Pane!atBottom'
      BY <1>5, <1>t, <2>1 DEF Pane!ScrollToLatest, Pane!ScrollTo, Pane!atBottom
    <2> QED
      BY <1>5, <2>3, <2>4 DEF Pane!ScrollToLatest
  <1>6. CASE \E y \in 0..Pane!Bottom : Pane!UserScrolls(y)
    <2>1. PICK y \in 0..Pane!Bottom : Pane!UserScrolls(y)
      BY <1>6
    <2>2. Pane!Bottom' = Pane!Bottom
      BY <2>1 DEF Pane!UserScrolls, Pane!Bottom
    <2>3. scrollTop' \in 0..Pane!Bottom' /\ event' \in BOOLEAN /\ event'
      BY <2>1, <2>2, PaneScrolls DEF Pane!UserScrolls
    <2>4. Pane!TypeOK' /\ queued' <= received'
      BY <1>b, <2>1, <2>3 DEF Pane!UserScrolls, Pane!TypeOK, Pane!PaneAssumption
    <2> QED
      BY <2>3, <2>4
  <1>7. CASE UNCHANGED Pane!vars
    BY <1>7 DEF Pane!vars, Pane!TypeOK, Pane!Bottom, Pane!atBottom
  <1> QED
    BY <1>1, <1>2, <1>3, <1>4, <1>5, <1>6, <1>7 DEF Pane!Next

LEMMA PaneShows == Pane!PaneInv => Pane!ButtonWhenAway
  BY DEF Pane!PaneInv, Pane!FlagIsRight, Pane!ButtonWhenAway, Pane!Settled, Pane!TypeOK
-----------------------------------------------------------------------------
(* KillDemo *)

LEMMA KillInit == Kill!Init => Kill!KillInv
  BY DEF Kill!Init, Kill!KillInv, Kill!ActiveIsUp, Kill!Running

\* A kill fails the run in the same step, and nothing but a kill stops a container.
LEMMA KillNext ==
  ASSUME Kill!KillInv, [Kill!Next]_(Kill!vars) PROVE Kill!KillInv'
  <1> USE DEF Kill!KillInv, Kill!ActiveIsUp, Kill!Running
  <1>1. CASE \E c \in Worker : Kill!demo_kill_worker(c)
    BY <1>1 DEF Kill!demo_kill_worker
  <1>2. CASE \E c \in Worker : Kill!KillTimesOut(c)
    BY <1>2 DEF Kill!KillTimesOut
  <1>3. CASE \E c \in Worker : Kill!DockerRestarts(c)
    BY <1>3 DEF Kill!DockerRestarts
  <1>4. CASE Kill!restart
    BY <1>4 DEF Kill!restart, Kill!Started
  <1>5. CASE Kill!ScheduleRestart \/ Kill!PollContainers \/ Kill!ContainersFail \/ Kill!PollSystem
    BY <1>5 DEF Kill!ScheduleRestart, Kill!PollContainers, Kill!ContainersFail, Kill!PollSystem
  <1>6. CASE Kill!Resume
    BY <1>6 DEF Kill!Resume
  <1>7. CASE UNCHANGED Kill!vars
    BY <1>7 DEF Kill!vars
  <1> QED
    BY <1>1, <1>2, <1>3, <1>4, <1>5, <1>6, <1>7 DEF Kill!Next

\* The types of the kill demo.
LEMMA KillTypeInit == ASSUME Kill!KillAssumption PROVE Kill!Init => Kill!TypeOK
  BY DEF Kill!KillAssumption, Kill!Init, Kill!TypeOK, Kill!Dots

\* A poll lists the containers there are; every net was started by a kill.
LEMMA KillTypeNext ==
  ASSUME Kill!KillAssumption, Kill!TypeOK, [Kill!Next]_(Kill!vars) PROVE Kill!TypeOK'
  <1> USE DEF Kill!TypeOK
  <1>1. CASE UNCHANGED data /\ ~Kill!PollContainers
    <2>0. Kill!Dots' = Kill!Dots
      BY <1>1 DEF Kill!Dots
    <2>1. ASSUME NEW c \in Worker, Kill!demo_kill_worker(c) PROVE Kill!TypeOK'
      BY <2>0, <2>1 DEF Kill!demo_kill_worker, Kill!Call, Kill!KillAssumption
    <2>2. ASSUME NEW c \in Worker, Kill!KillTimesOut(c) PROVE FALSE
      BY <2>2 DEF Kill!KillTimesOut
    <2>3. CASE Kill!ScheduleRestart
      BY <2>0, <2>3 DEF Kill!ScheduleRestart
    <2>4. CASE Kill!restart
      BY <2>0, <2>4 DEF Kill!restart, Kill!Started
    <2>5. ASSUME NEW c \in Worker, Kill!DockerRestarts(c) PROVE Kill!TypeOK'
      BY <2>0, <2>5 DEF Kill!DockerRestarts
    <2>6. CASE Kill!Resume \/ Kill!PollSystem \/ UNCHANGED Kill!vars
      BY <2>0, <2>6 DEF Kill!Resume, Kill!PollSystem, Kill!vars
    <2> QED
      BY <1>1, <2>1, <2>2, <2>3, <2>4, <2>5, <2>6 DEF Kill!Next, Kill!ContainersFail
  <1>2. CASE Kill!PollContainers
    <2>1. Kill!Dots' \subseteq Worker \X {"ok", "err"}
      BY <1>2 DEF Kill!PollContainers, Kill!Dots
    <2> QED
      BY <1>2, <2>1 DEF Kill!PollContainers
  <1>3. ~Kill!ContainersFail
    BY DEF Kill!ContainersFail
  <1>4. UNCHANGED data \/ Kill!PollContainers
    BY <1>3 DEF Kill!Next, Kill!vars, Kill!demo_kill_worker, Kill!KillTimesOut, Kill!ScheduleRestart, Kill!restart,
                Kill!Started, Kill!DockerRestarts, Kill!Resume, Kill!PollSystem
  <1> QED
    BY <1>1, <1>2, <1>4
-----------------------------------------------------------------------------
(* LogFeed *)

\* A new element at the end of a list of distinct ones, whose first are cut off.
LEMMA PushedOnce ==
  ASSUME NEW S, NEW list \in Seq(S), NEW max \in Nat \ {0}, NEW x, x \notin S,
         \A i, j \in DOMAIN list : i # j => list[i] # list[j]
  PROVE  /\ Parser!Push(list, max, x) \in Seq(S \cup {x})
         /\ LET new == Parser!Push(list, max, x)
            IN  \A i, j \in DOMAIN new : i # j => new[i] # new[j]
  <1> DEFINE n == IF Len(list) < max THEN 1 ELSE Len(list) - max + 2
             old == SubSeq(list, n, Len(list))
             new == Append(old, x)
  <1>1. n \in 1..(Len(list) + 1) /\ Len(list) \in Nat
    OBVIOUS
  <1> HIDE DEF n
  <1>2. /\ old \in Seq(S) /\ Len(old) = Len(list) + 1 - n
        /\ \A i \in 1..Len(old) : old[i] = list[i + n - 1] /\ i + n - 1 \in DOMAIN list
    BY <1>1
  <1> HIDE DEF old
  <1>3. /\ new \in Seq(S \cup {x}) /\ DOMAIN new = 1..(Len(old) + 1) /\ new[Len(old) + 1] = x
        /\ \A i \in 1..Len(old) : new[i] = old[i] /\ old[i] \in S
    BY <1>2
  <1> HIDE DEF new
  <1>4. ASSUME NEW i \in DOMAIN new, NEW j \in DOMAIN new, i # j PROVE new[i] # new[j]
    <2>1. Len(old) \in Nat
      BY <1>2
    <2>2. CASE i = Len(old) + 1
      BY <1>3, <1>4, <2>1, <2>2
    <2>3. CASE j = Len(old) + 1
      BY <1>3, <1>4, <2>1, <2>3
    <2>4. CASE i \in 1..Len(old) /\ j \in 1..Len(old)
      <3>1. i + n - 1 # j + n - 1
        BY <1>1, <1>4, <2>4
      <3> QED
        BY <1>2, <1>3, <2>4, <3>1
    <2> QED
      BY <1>3, <2>1, <2>2, <2>3, <2>4
  <1>5. Parser!Push(list, max, x) = new
    BY DEF Parser!Push, n, old, new
  <1> QED
    BY <1>3, <1>4, <1>5

LEMMA ParserInit == Parser!Init => Parser!CurveInv
  BY DEF Parser!Init, Parser!CurveInv, Parser!StepsOnce

\* A point is added only for a step that was never seen.
LEMMA ParserNext ==
  ASSUME Parser!LogAssumption, Parser!CurveInv, [Parser!Next]_(Parser!vars) PROVE Parser!CurveInv'
  <1> USE DEF Parser!CurveInv, Parser!StepsOnce
  <1>1. ASSUME NEW w \in Worker, Parser!Deliver(w) PROVE Parser!CurveInv'
    <2> DEFINE l == log[w][pos[w] + 1]
    <2>1. Parser!Parsed(l, Parser!Push(checkpointMarkers, MAX_CKPT, l.step))
      BY <1>1 DEF Parser!Deliver, Parser!Parse
    <2> HIDE DEF l
    <2>2. CASE /\ l.kind = "loss" /\ l.step \notin seenSteps /\ seenSteps' = seenSteps \cup {l.step}
               /\ lossHistory' = Parser!Push(lossHistory, MAX_LOSS, l.step)
      BY <2>2, PushedOnce DEF Parser!LogAssumption
    <2>3. CASE UNCHANGED <<seenSteps, lossHistory>>
      BY <2>3
    <2> QED
      BY <2>1, <2>2, <2>3 DEF Parser!Parsed, Parser!parsed
  <1>2. ASSUME NEW w \in Worker, Parser!Train(w) PROVE Parser!CurveInv'
    BY <1>2 DEF Parser!Train, Parser!parsed
  <1>3. CASE Parser!Recover \/ Parser!Connect \/ Parser!Break \/ Parser!SetActive
    BY <1>3 DEF Parser!Recover, Parser!Connect, Parser!Break, Parser!SetActive, Parser!parsed
  <1>4. CASE UNCHANGED Parser!vars
    BY <1>4 DEF Parser!vars, Parser!parsed
  <1> QED
    BY <1>1, <1>2, <1>3, <1>4 DEF Parser!Next

\* A list with a new element at its end: the others are fewer than the cap.
LEMMA PushAppends ==
  ASSUME NEW S, NEW list \in Seq(S), NEW max \in Nat \ {0}, Len(list) <= max, NEW x \in S
  PROVE  \E old \in Seq(S) : Len(old) < max /\ Parser!Push(list, max, x) = Append(old, x)
  <1> DEFINE n == IF Len(list) < max THEN 1 ELSE Len(list) - max + 2
             old == SubSeq(list, n, Len(list))
  <1>0. Len(list) \in Nat
    OBVIOUS
  <1>1. n \in 1..(Len(list) + 1) /\ Len(list) \in Nat /\ Len(list) + 1 - n < max
    <2>1. CASE Len(list) < max
      BY <1>0, <2>1
    <2>2. CASE ~(Len(list) < max)
      BY <1>0, <2>2
    <2> QED
      BY <2>1, <2>2
  <1> HIDE DEF n
  <1>2. old \in Seq(S) /\ Len(old) = Len(list) + 1 - n
    BY <1>1
  <1>3. Parser!Push(list, max, x) = Append(old, x)
    BY DEF Parser!Push, n
  <1> HIDE DEF old
  <1> QED
    BY <1>1, <1>2, <1>3
\* So it keeps its type and its cap,
LEMMA CappedPush ==
  ASSUME NEW S, NEW list \in Seq(S), NEW max \in Nat \ {0}, Len(list) <= max, NEW x \in S
  PROVE  Parser!Push(list, max, x) \in Seq(S) /\ Len(Parser!Push(list, max, x)) <= max
  <1>1. PICK old \in Seq(S) : Len(old) < max /\ Parser!Push(list, max, x) = Append(old, x)
    BY PushAppends
  <1>2. Append(old, x) \in Seq(S) /\ Len(Append(old, x)) = Len(old) + 1 /\ Len(old) \in Nat
    OBVIOUS
  <1> QED
    BY <1>1, <1>2
\* and its last element is the new one.
LEMMA LastPush ==
  ASSUME NEW S, NEW list \in Seq(S), NEW max \in Nat \ {0}, Len(list) <= max, NEW x \in S,
         NEW p, p = Parser!Push(list, max, x)
  PROVE  p # <<>> /\ p[Len(p)] = x
  <1>1. PICK old \in Seq(S) : p = Append(old, x)
    BY PushAppends
  <1> QED
    BY <1>1

\* The types of the logs and of what is parsed.
LEMMA LogTypeInit == ASSUME Parser!LogAssumption PROVE Parser!Init => Parser!TypeOK
  <1> SUFFICES ASSUME Parser!Init PROVE Parser!TypeOK
    OBVIOUS
  <1>1. /\ MaxStep \in Nat /\ MaxCrashes \in Nat /\ MaxBreaks \in Nat
        /\ MAX_LOSS \in Nat /\ MAX_CKPT \in Nat /\ MAX_RESTORE \in Nat
    BY DEF Parser!LogAssumption
  <1>2. active \in BOOLEAN /\ open \in BOOLEAN
    BY Zenon DEF Parser!Init
  <1>3. <<>> \in Seq(Parser!LogLine) /\ <<>> \in Seq(Parser!Steps) /\ Len(<<>>) = 0
    OBVIOUS
  <1>4. log \in [Worker -> Seq(Parser!LogLine)] /\ pos \in [Worker -> Nat] /\ \A w \in Worker : pos[w] <= Len(log[w])
    BY <1>3 DEF Parser!Init
  <1>5. step \in [Worker -> 0..MaxStep] /\ saved \in 0..MaxStep /\ crashes \in 0..MaxCrashes /\ breaks \in 0..MaxBreaks
    BY <1>1 DEF Parser!Init
  <1>6. /\ lossHistory \in Seq(Parser!Steps) /\ checkpointMarkers \in Seq(Parser!Steps) /\ recoveryMarkers \in Seq(Parser!Steps)
        /\ Len(lossHistory) <= MAX_LOSS /\ Len(checkpointMarkers) <= MAX_CKPT /\ Len(recoveryMarkers) <= MAX_RESTORE
        /\ seenSteps \subseteq Parser!Steps
    BY <1>1, <1>3 DEF Parser!Init
  <1> QED
    BY <1>2, <1>4, <1>5, <1>6 DEF Parser!TypeOK

\* What every step of the log and of the parser needs of the types.
LEMMA LogTypeNext ==
  ASSUME Parser!LogAssumption, Parser!TypeOK, [Parser!Next]_(Parser!vars) PROVE Parser!TypeOK'
  <1> DEFINE Lists == /\ lossHistory \in Seq(Parser!Steps) /\ Len(lossHistory) <= MAX_LOSS
                      /\ checkpointMarkers \in Seq(Parser!Steps) /\ Len(checkpointMarkers) <= MAX_CKPT
                      /\ recoveryMarkers \in Seq(Parser!Steps) /\ Len(recoveryMarkers) <= MAX_RESTORE
                      /\ seenSteps \subseteq Parser!Steps
             Lines == /\ log \in [Worker -> Seq(Parser!LogLine)] /\ pos \in [Worker -> Nat]
                      /\ \A w \in Worker : pos[w] <= Len(log[w])
             Counts == /\ step \in [Worker -> 0..MaxStep] /\ saved \in 0..MaxStep
                       /\ crashes \in 0..MaxCrashes /\ breaks \in 0..MaxBreaks
             Flags == active \in BOOLEAN /\ open \in BOOLEAN
  <1>0. Parser!TypeOK <=> Lists /\ Lines /\ Counts /\ Flags
    BY DEF Parser!TypeOK
  <1>n. Parser!TypeOK' <=> Lists' /\ Lines' /\ Counts' /\ Flags'
    BY DEF Parser!TypeOK
  <1>c. /\ MaxStep \in Nat /\ MaxCrashes \in Nat /\ MaxBreaks \in Nat /\ TailLines \in Nat /\ CkptEvery \in Nat \ {0}
        /\ MAX_LOSS \in Nat \ {0} /\ MAX_CKPT \in Nat \ {0} /\ MAX_RESTORE \in Nat \ {0}
    BY DEF Parser!LogAssumption
  <1>1. ASSUME NEW w \in Worker, Parser!Train(w) PROVE Lists' /\ Lines' /\ Counts' /\ Flags'
    <2> DEFINE n == step[w] + 1
               saves == w = Rank0 /\ n % CkptEvery = 0
               new == <<Parser!Line("loss", n)>> \o (IF saves THEN <<Parser!Line("ckpt", n)>> ELSE <<>>)
    <2>1. n \in Parser!Steps /\ n \in 0..MaxStep
      <3>1. step[w] \in 0..MaxStep /\ step[w] < MaxStep
        BY <1>0, <1>1 DEF Parser!Train
      <3> QED
        BY <1>c, <3>1 DEF Parser!Steps
    <2>2. /\ step' = [step EXCEPT ![w] = n] /\ saved' = IF saves THEN n ELSE saved
          /\ log' = [log EXCEPT ![w] = @ \o <<Parser!Line("loss", n)>> \o (IF saves THEN <<Parser!Line("ckpt", n)>> ELSE <<>>)]
          /\ UNCHANGED <<active, open, pos, seenSteps, lossHistory, checkpointMarkers, recoveryMarkers, crashes, breaks>>
      BY <1>1 DEF Parser!Train, Parser!parsed
    <2> HIDE DEF n, saves
    <2>3. Counts'
      BY <1>0, <2>1, <2>2
    <2>4. Parser!Line("loss", n) \in Parser!LogLine /\ Parser!Line("ckpt", n) \in Parser!LogLine
      BY <2>1 DEF Parser!Line, Parser!LogLine
    <2>5. log[w] \in Seq(Parser!LogLine)
      BY <1>0
    <2>6. /\ log'[w] \in Seq(Parser!LogLine) /\ Len(log[w]) <= Len(log'[w])
      <3> HIDE DEF Lists, Counts, Flags
      <3> DEFINE l1 == Parser!Line("loss", n)
                 l2 == Parser!Line("ckpt", n)
      <3>1. log'[w] = log[w] \o <<l1>> \o (IF saves THEN <<l2>> ELSE <<>>)
        BY <1>0, <2>2
      <3> HIDE DEF l1, l2
      <3>2. CASE saves
        BY <2>4, <2>5, <3>1, <3>2 DEF l1, l2
      <3>3. CASE ~saves
        BY <2>4, <2>5, <3>1, <3>3 DEF l1
      <3> QED
        BY <3>2, <3>3
    <2>7. Lines'
      BY <1>0, <2>2, <2>5, <2>6
    <2> QED
      BY <1>0, <2>2, <2>3, <2>7
  <1>2. CASE Parser!Recover
    <2>1. /\ crashes < MaxCrashes /\ crashes' = crashes + 1 /\ step' = [w \in Worker |-> saved]
          /\ log' = [w \in Worker |-> IF saved > 0 THEN Append(log[w], Parser!Line("restore", saved)) ELSE log[w]]
          /\ UNCHANGED <<saved, active, open, pos, seenSteps, lossHistory, checkpointMarkers, recoveryMarkers, breaks>>
      BY <1>2 DEF Parser!Recover, Parser!parsed
    <2>2. saved > 0 => Parser!Line("restore", saved) \in Parser!LogLine
      BY <1>0 DEF Parser!Line, Parser!LogLine, Parser!Steps
    <2>3. \A w \in Worker : log'[w] \in Seq(Parser!LogLine) /\ Len(log[w]) <= Len(log'[w]) /\ Len(log[w]) \in Nat
      BY <1>0, <2>1, <2>2
    <2>4. Lines'
      BY <1>0, <2>1, <2>3
    <2>5. Counts'
      BY <1>0, <1>c, <2>1
    <2> QED
      BY <1>0, <1>n, <2>1, <2>4, <2>5
  <1>3. CASE Parser!Connect
    <2>1. \A w \in Worker : Parser!SkipTo(w) \in Nat /\ Parser!SkipTo(w) <= Len(log[w])
      BY <1>0, <1>c DEF Parser!SkipTo
    <2>2. Lines'
      BY <1>0, <1>3, <2>1 DEF Parser!Connect, Parser!training
    <2>3. Flags'
      BY <1>0, <1>3, Zenon DEF Parser!Connect
    <2> QED
      BY <1>0, <1>n, <1>3, <2>2, <2>3 DEF Parser!Connect, Parser!training, Parser!parsed
  <1>4. CASE Parser!Break \/ Parser!SetActive
    <2>1. Flags'
      BY <1>0, <1>4, Zenon DEF Parser!Break, Parser!SetActive
    <2>2. UNCHANGED <<log, pos, step, saved, crashes, lossHistory, checkpointMarkers, recoveryMarkers, seenSteps>>
      BY <1>4 DEF Parser!Break, Parser!SetActive, Parser!training, Parser!parsed
    <2>3. breaks' \in 0..MaxBreaks
      BY <1>0, <1>4, <1>c DEF Parser!Break, Parser!SetActive
    <2> QED
      BY <1>0, <1>n, <2>1, <2>2, <2>3
  <1>5. ASSUME NEW w \in Worker, Parser!Deliver(w) PROVE Lists' /\ Lines' /\ Counts' /\ Flags'
    <2> DEFINE l == log[w][pos[w] + 1]
    <2>1. /\ pos[w] < Len(log[w]) /\ pos' = [pos EXCEPT ![w] = @ + 1]
          /\ Parser!Parsed(l, Parser!Push(checkpointMarkers, MAX_CKPT, l.step))
          /\ UNCHANGED <<log, step, saved, crashes, active, open, breaks>>
      BY <1>5 DEF Parser!Deliver, Parser!Parse, Parser!training
    <2>2. l \in Parser!LogLine
      BY <1>0, <2>1
    <2>3. l.step \in Parser!Steps
      BY <2>2 DEF Parser!LogLine
    <2>4. Lines'
      BY <1>0, <2>1
    <2> HIDE DEF l
    <2>5. Lists'
      <3>1. CASE seenSteps' = seenSteps \cup {l.step} /\ lossHistory' = Parser!Push(lossHistory, MAX_LOSS, l.step) /\ UNCHANGED <<checkpointMarkers, recoveryMarkers>>
        BY <1>0, <1>c, <2>3, <3>1, CappedPush
      <3>2. CASE checkpointMarkers' = Parser!Push(checkpointMarkers, MAX_CKPT, l.step) /\ UNCHANGED <<seenSteps, lossHistory, recoveryMarkers>>
        BY <1>0, <1>c, <2>3, <3>2, CappedPush
      <3>3. CASE recoveryMarkers' = Parser!Push(recoveryMarkers, MAX_RESTORE, l.step) /\ UNCHANGED <<seenSteps, lossHistory, checkpointMarkers>>
        BY <1>0, <1>c, <2>3, <3>3, CappedPush
      <3>4. CASE UNCHANGED <<seenSteps, lossHistory, checkpointMarkers, recoveryMarkers>>
        BY <1>0, <3>4
      <3> QED
        BY <2>1, <3>1, <3>2, <3>3, <3>4 DEF Parser!Parsed, Parser!parsed
    <2> QED
      BY <1>0, <2>1, <2>4, <2>5
  <1>6. CASE UNCHANGED Parser!vars
    BY <1>0, <1>n, <1>6 DEF Parser!vars, Parser!training, Parser!parsed
  <1> HIDE DEF Lists, Lines, Counts, Flags
  <1> QED
    BY <1>n, <1>1, <1>2, <1>3, <1>4, <1>5, <1>6 DEF Parser!Next
-----------------------------------------------------------------------------
(* LogFeed: the markers of the chart. *)

\* The fold of findLoss exists: one that is defined up to a point can be continued by another point.
Folds(n, k, g) ==
  g = [i \in 1..k |-> IF i = 1 THEN lossHistory[1] ELSE Parser!Closer(n, g[i - 1], lossHistory[i])]

\* It exists for every length, or else there would be a least one for which it does not.
LEMMA FoldExists ==
  ASSUME NEW n, NEW k \in Nat
  PROVE  \E g : Folds(n, k, g)
  <1> DEFINE S == {m \in Nat : ~ \E g : Folds(n, m, g)}
  <1>1. SUFFICES ASSUME S # {} PROVE FALSE
    OBVIOUS
  <1>2. PICK m \in S : \A x \in S : m <= x
    BY <1>1, MinExists
  <1>3. m # 0
    <2>1. Folds(n, 0, [i \in 1..0 |-> 0])
      BY DEF Folds
    <2> QED
      BY <2>1
  <1>4. PICK g : Folds(n, m - 1, g)
    <2>1. m - 1 \in Nat /\ m - 1 \notin S
      BY <1>2, <1>3
    <2> QED
      BY <2>1
  <1> DEFINE x == IF m = 1 THEN lossHistory[1] ELSE Parser!Closer(n, g[m - 1], lossHistory[m])
             h == [i \in 1..m |-> IF i = m THEN x ELSE g[i]]
  <1>5. ASSUME NEW i \in 1..m
        PROVE  h[i] = IF i = 1 THEN lossHistory[1] ELSE Parser!Closer(n, h[i - 1], lossHistory[i])
    <2>1. CASE i = m
      BY <2>1
    <2>2. CASE i # m
      <3>1. i \in 1..(m - 1) /\ (i # 1 => i - 1 \in 1..(m - 1) /\ i - 1 # m)
        BY <2>2
      <3>2. g[i] = IF i = 1 THEN lossHistory[1] ELSE Parser!Closer(n, g[i - 1], lossHistory[i])
        BY <1>4, <3>1 DEF Folds
      <3> QED
        BY <2>2, <3>1, <3>2
    <2> QED
      BY <2>1, <2>2
  <1>6. Folds(n, m, h)
    BY <1>5 DEF Folds
  <1> QED
    BY <1>6


\* findLoss is the value of this fold at the end of the list.
LEMMA FindLossIs ==
  ASSUME NEW n, lossHistory \in Seq(Nat)
  PROVE  \E g : Folds(n, Len(lossHistory), g) /\ Parser!findLoss(n) = g[Len(lossHistory)]
  <1>1. DOMAIN lossHistory = 1..Len(lossHistory) /\ Len(lossHistory) \in Nat
    OBVIOUS
  <1>2. PICK g : Folds(n, Len(lossHistory), g)
    BY <1>1, FoldExists
  <1>3. g = [i \in DOMAIN lossHistory |-> IF i = 1 THEN lossHistory[1] ELSE Parser!Closer(n, g[i - 1], lossHistory[i])]
    BY <1>1, <1>2 DEF Folds
  <1> QED
    BY <1>1, <1>3 DEF Folds, Parser!findLoss

\* What it has after some points is one of them, and none of them is closer.
LEMMA FoldIsClosest ==
  ASSUME lossHistory \in Seq(Nat), NEW n, NEW g, Folds(n, Len(lossHistory), g), NEW k \in 1..Len(lossHistory)
  PROVE  /\ \E i \in 1..k : g[k] = lossHistory[i]
         /\ n \in Nat => \A i \in 1..k : Parser!Distance(g[k], n) <= Parser!Distance(lossHistory[i], n)
  <1> DEFINE Good(m) == /\ \E i \in 1..m : g[m] = lossHistory[i]
                        /\ n \in Nat => \A i \in 1..m : Parser!Distance(g[m], n) <= Parser!Distance(lossHistory[i], n)
             S == {m \in 1..Len(lossHistory) : ~Good(m)}
  <1>1. SUFFICES ASSUME S # {} PROVE FALSE
    OBVIOUS
  <1>0. S \subseteq 1..Len(lossHistory) /\ Len(lossHistory) \in Nat /\ \A m \in 1..Len(lossHistory) : m \in S <=> ~Good(m)
    OBVIOUS
  <1> HIDE DEF S
  <1>2. PICK m \in S : \A x \in S : m <= x
    <2>1. S \subseteq Nat
      BY <1>0
    <2> QED
      BY <1>1, <2>1, MinExists
  <1>3. m \in 1..Len(lossHistory) /\ Len(lossHistory) \in Nat
    BY <1>0
  <1>4. g[m] = IF m = 1 THEN lossHistory[1] ELSE Parser!Closer(n, g[m - 1], lossHistory[m])
    BY <1>3 DEF Folds
  <1>5. \A x, z \in Nat : Parser!Distance(x, z) \in Nat
    BY DEF Parser!Distance
  <1>6. CASE m = 1
    <2>1. g[1] = lossHistory[1] /\ lossHistory[1] \in Nat
      BY <1>3, <1>4, <1>6
    <2>2. n \in Nat => Parser!Distance(lossHistory[1], n) \in Nat
      BY <1>5, <2>1
    <2>3. Good(1)
      BY <2>1, <2>2
    <2> QED
      BY <1>0, <1>3, <1>6, <2>3
  <1>7. CASE m # 1
    <2>1. m - 1 \in 1..Len(lossHistory) /\ m - 1 \notin S
      BY <1>2, <1>3, <1>7
    <2>2. Good(m - 1)
      BY <1>0, <2>1
    <2>3. g[m] = Parser!Closer(n, g[m - 1], lossHistory[m])
      BY <1>4, <1>7
    <2>4. \E i \in 1..m : g[m] = lossHistory[i]
      BY <1>3, <2>2, <2>3 DEF Parser!Closer
    <2>5. ASSUME n \in Nat, NEW i \in 1..m PROVE Parser!Distance(g[m], n) <= Parser!Distance(lossHistory[i], n)
      <3>0. \A j \in 1..Len(lossHistory) : lossHistory[j] \in Nat
        OBVIOUS
      <3>1. g[m - 1] \in Nat /\ lossHistory[m] \in Nat /\ lossHistory[i] \in Nat
        <4>1. PICK j \in 1..(m - 1) : g[m - 1] = lossHistory[j]
          BY <2>2
        <4>2. {i, j, m} \subseteq 1..Len(lossHistory)
          BY <1>3, <1>7, <2>5
        <4> QED
          BY <3>0, <4>1, <4>2
      <3>2. i # m => Parser!Distance(g[m - 1], n) <= Parser!Distance(lossHistory[i], n)
        <4>1. i # m => i \in 1..(m - 1)
          BY <1>3, <2>5
        <4> QED
          BY <2>2, <2>5, <4>1
      <3>3. /\ Parser!Distance(g[m], n) <= Parser!Distance(lossHistory[m], n)
            /\ Parser!Distance(g[m], n) <= Parser!Distance(g[m - 1], n)
            /\ Parser!Distance(g[m], n) \in Nat
        <4>1. {Parser!Distance(g[m - 1], n), Parser!Distance(lossHistory[m], n)} \subseteq Nat
          BY <1>5, <2>5, <3>1
        <4>2. g[m] = IF Parser!Distance(lossHistory[m], n) < Parser!Distance(g[m - 1], n) THEN lossHistory[m] ELSE g[m - 1]
          BY <2>3 DEF Parser!Closer
        <4> QED
          BY <4>1, <4>2
      <3>4. /\ Parser!Distance(g[m - 1], n) \in Nat /\ Parser!Distance(lossHistory[i], n) \in Nat
        BY <1>5, <2>5, <3>1
      <3> QED
        BY <3>2, <3>3, <3>4
    <2>6. Good(m)
      BY <2>4, <2>5
    <2> QED
      BY <1>0, <1>3, <2>6
  <1> QED
    BY <1>6, <1>7

\* TrainingLossChart: markers are drawn on the curve, at the closest point.
LEMMA MarkersAreClosest == Parser!LogAssumption /\ Parser!TypeOK => Parser!DrawnAtClosest
  <1> SUFFICES ASSUME Parser!LogAssumption, Parser!TypeOK PROVE Parser!DrawnAtClosest
    OBVIOUS
  <1> DEFINE curve == {lossHistory[i] : i \in DOMAIN lossHistory}
  <1>1. lossHistory \in Seq(Parser!Steps) /\ Parser!Steps \subseteq Nat /\ lossHistory \in Seq(Nat)
    <2>1. lossHistory \in Seq(Parser!Steps)
      BY DEF Parser!TypeOK
    <2>2. Parser!Steps \subseteq Nat
      BY DEF Parser!Steps
    <2> QED
      BY <2>1, <2>2, SeqWider
  <1>2. ASSUME lossHistory # <<>>, NEW n
        PROVE  /\ Parser!findLoss(n) \in curve
               /\ n \in Nat => \A i \in DOMAIN lossHistory : Parser!Distance(Parser!findLoss(n), n) <= Parser!Distance(lossHistory[i], n)
    <2>1. Len(lossHistory) \in 1..Len(lossHistory) /\ DOMAIN lossHistory = 1..Len(lossHistory)
      BY <1>1, <1>2
    <2>2. PICK g : Folds(n, Len(lossHistory), g) /\ Parser!findLoss(n) = g[Len(lossHistory)]
      BY <1>1, FindLossIs
    <2> QED
      BY <1>1, <2>1, <2>2, FoldIsClosest
  <1>3. Parser!Dots \subseteq curve
    <2>1. CASE lossHistory = <<>>
      BY <2>1 DEF Parser!Dots
    <2>2. CASE lossHistory # <<>>
      <3> HIDE DEF curve
      <3> QED
        BY <1>2, <2>2 DEF Parser!Dots
    <2> QED
      BY <2>1, <2>2
  <1> QED
    BY <1>1, <1>2, <1>3 DEF Parser!DrawnAtClosest, Parser!TrainingLossChart
-----------------------------------------------------------------------------
(* LogFeed: the last checkpoint. *)

\* The last element of an interval is a multiple of its length, and no other.
LEMMA NextMultiple ==
  ASSUME NEW c \in Nat \ {0}, NEW a \in Nat, a % c = 0, NEW n \in Nat, a < n, n <= a + c
  PROVE  n % c = 0 <=> n = a + c
  <1>1. PICK q \in Nat : a = c * q
    <2>1. a = c * (a \div c) + (a % c) /\ a \div c \in Nat
      OBVIOUS
    <2> QED
      BY <2>1
  <1>2. n = c * (n \div c) + (n % c) /\ n \div c \in Nat /\ n % c \in 0..(c - 1)
    OBVIOUS
  <1>3. ASSUME n % c = 0 PROVE n = a + c
    <2> DEFINE p == n \div c
    <2>1. n = c * p /\ p \in Nat
      BY <1>2, <1>3
    <2> HIDE DEF p
    <2>2. p > q
      <3> SUFFICES ASSUME p <= q PROVE FALSE
        BY <1>1, <2>1
      <3>1. c * p <= c * q
        BY <1>1, <2>1
      <3> QED
        BY <1>1, <2>1, <3>1
    <2>3. c * p >= c * (q + 1)
      BY <1>1, <2>1, <2>2
    <2>4. c * (q + 1) = a + c
      BY <1>1
    <2> QED
      BY <2>1, <2>3, <2>4
  <1>4. ASSUME n = a + c PROVE n % c = 0
    <2>1. n = c * (q + 1)
      BY <1>1, <1>4
    <2> DEFINE p == n \div c
               r == n % c
    <2>2. n = c * p + r /\ p \in Nat /\ r \in 0..(c - 1)
      BY <1>2
    <2> HIDE DEF p, r
    <2>3. p = q + 1
      <3>1. CASE p < q + 1
        <4>1. c * (p + 1) <= c * (q + 1)
          BY <1>1, <2>2, <3>1
        <4>2. c * (p + 1) = c * p + c
          BY <2>2
        <4> QED
          BY <2>1, <2>2, <4>1, <4>2
      <3>2. CASE p > q + 1
        <4>1. c * p >= c * (q + 2)
          BY <1>1, <2>2, <3>2
        <4>2. c * (q + 2) = c * (q + 1) + c
          BY <1>1
        <4> QED
          BY <2>1, <2>2, <4>1, <4>2
      <3> QED
        BY <1>1, <2>2, <3>1, <3>2
    <2>4. r = 0
      BY <2>1, <2>2, <2>3
    <2> QED
      BY <2>4 DEF r
  <1> QED
    BY <1>3, <1>4

\* As many lines as there are steps between the recoveries are within the tail.
LEMMA TailHolds ==
  ASSUME NEW c \in Nat \ {0}, NEW m \in Nat, NEW k \in 0..m, NEW t \in Nat, c * (m + 1) <= t
  PROVE  k * c \in Nat /\ k * c + c <= t /\ (k + 1) * c = k * c + c
  <1>1. k * c <= m * c
    OBVIOUS
  <1>2. c * (m + 1) = m * c + c
    OBVIOUS
  <1>3. k * c \in Nat /\ m * c \in Nat /\ (k + 1) * c = k * c + c
    OBVIOUS
  <1> QED
    BY <1>1, <1>2, <1>3

\* A step within an interval that does not end it stays within it.
LEMMA StaysWithin ==
  ASSUME NEW s \in Nat, NEW m \in Nat, NEW c \in Nat, m <= s, s < m + c, s + 1 # m + c
  PROVE  m <= s + 1 /\ s + 1 < m + c
  OBVIOUS

\* No checkpoint is saved and none is read.
LEMMA SavedInit == ASSUME Parser!LogAssumption PROVE Parser!Init => Parser!SavedInv
  <1> SUFFICES ASSUME Parser!Init PROVE Parser!SavedInv
    OBVIOUS
  <1>1. Rank0 \in Worker /\ CkptEvery \in Nat \ {0}
    BY DEF Parser!LogAssumption
  <1>2. 0 % CkptEvery = 0
    BY <1>1
  <1>3. \A w \in Worker : Parser!NoneSaved(w)
    BY DEF Parser!Init, Parser!NoneSaved
  <1> QED
    BY <1>1, <1>2, <1>3 DEF Parser!Init, Parser!SavedInv

\* The parts of the invariant that are about rank 0's log.
Behind(j) ==
  /\ j \in DOMAIN log[Rank0] /\ Parser!LastSaved(j)
  /\ Len(log[Rank0]) - j <= step[Rank0] - saved + crashes * CkptEvery
  /\ Parser!TailReaches /\ open => pos[Rank0] < j \/ Parser!latest = saved
Within == saved % CkptEvery = 0 /\ saved <= step[Rank0] /\ step[Rank0] < saved + CkptEvery
Unsaved == saved = 0 /\ checkpointMarkers = <<>> /\ Parser!NoneSaved(Rank0)

\* The invariant is these parts, before and after a step.
LEMMA SavedParts ==
  Parser!SavedInv <=> /\ Within /\ (\A w \in Worker \ {Rank0} : Parser!NoneSaved(w))
                      /\ Unsaved \/ \E j : Behind(j)
  BY DEF Parser!SavedInv, Within, Unsaved, Behind
LEMMA SavedPartsNext ==
  /\ Within' /\ (\A w \in Worker \ {Rank0} : Parser!NoneSaved(w)')
  /\ Unsaved' \/ \E j : Behind(j)'
  => Parser!SavedInv'
  BY DEF Parser!SavedInv, Within, Unsaved, Behind

\* A training step of rank 0 saves exactly at the end of an interval.
LEMMA SavedTrain ==
  ASSUME Parser!LogAssumption, Parser!TypeOK, Parser!SavedInv, Parser!Train(Rank0) PROVE Parser!SavedInv'
  <1> DEFINE n == step[Rank0] + 1
             L == log[Rank0]
             loss == Parser!Line("loss", n)
             ckpt == Parser!Line("ckpt", n)
  <1>1. /\ Rank0 \in Worker /\ CkptEvery \in Nat \ {0} /\ saved \in Nat /\ step[Rank0] \in Nat
        /\ log \in [Worker -> Seq(Parser!LogLine)] /\ L \in Seq(Parser!LogLine) /\ pos[Rank0] \in Nat /\ pos[Rank0] <= Len(L) /\ crashes \in Nat
    BY DEF Parser!LogAssumption, Parser!TypeOK
  <1>2. /\ Within /\ (\A w \in Worker \ {Rank0} : Parser!NoneSaved(w)) /\ (Unsaved \/ \E j : Behind(j))
    BY SavedParts
  <1>3. /\ step'[Rank0] = n /\ \A w \in Worker \ {Rank0} : log'[w] = log[w]
        /\ saved' = IF n % CkptEvery = 0 THEN n ELSE saved
        /\ log'[Rank0] = L \o <<loss>> \o (IF n % CkptEvery = 0 THEN <<ckpt>> ELSE <<>>)
        /\ UNCHANGED <<active, open, pos, checkpointMarkers, crashes>>
    <2>1. step \in [Worker -> 0..MaxStep]
      BY DEF Parser!TypeOK
    <2> QED
      BY <1>1, <2>1 DEF Parser!Train, Parser!parsed
  <1>4. n % CkptEvery = 0 <=> n = saved + CkptEvery
    <2>1. n \in Nat /\ saved < n /\ n <= saved + CkptEvery /\ saved % CkptEvery = 0
      BY <1>1, <1>2 DEF Within
    <2> HIDE DEF n
    <2> QED
      BY <1>1, <2>1, NextMultiple
  <1>5. crashes * CkptEvery \in Nat /\ Len(L) \in Nat
    BY <1>1
  <1>6. \A w \in Worker \ {Rank0} : Parser!NoneSaved(w)'
    BY <1>2, <1>3 DEF Parser!NoneSaved
  <1>7. loss.kind # "ckpt"
    BY DEF Parser!Line
  <1> HIDE DEF loss, ckpt, L, n
  <1>8. n \in Nat /\ n = step[Rank0] + 1 /\ log[Rank0] = L
    BY <1>1 DEF n, L
  <1>9. CASE n = saved + CkptEvery
    <2>1. log'[Rank0] = L \o <<loss>> \o <<ckpt>> /\ saved' = n
      BY <1>3, <1>4, <1>9
    <2>2. Len(log'[Rank0]) = Len(L) + 2 /\ DOMAIN log'[Rank0] = 1..(Len(L) + 2) /\ log'[Rank0][Len(L) + 2] = ckpt
      BY <1>1, <1>8, <2>1
    <2>j. PICK j \in Nat : j = Len(L) + 2
      BY <1>5
    <2>3. j \in DOMAIN log'[Rank0] /\ Parser!LastSaved(j)'
      <3>1. ckpt = Parser!Line("ckpt", saved')
        BY <2>1 DEF ckpt
      <3>2. (j + 1)..Len(log'[Rank0]) = {}
        BY <1>5, <2>2, <2>j
      <3> QED
        BY <1>5, <2>2, <2>j, <3>1, <3>2 DEF Parser!LastSaved, Parser!Line
    <2>4. Behind(j)'
      <3>1. pos'[Rank0] < j
        BY <1>1, <1>3, <1>5, <1>8, <2>j
      <3>2. Len(log'[Rank0]) - j <= step'[Rank0] - saved' + crashes' * CkptEvery
        <4> DEFINE K == crashes * CkptEvery
        <4>1. crashes' * CkptEvery = K /\ K \in Nat
          BY <1>3, <1>5
        <4> HIDE DEF K
        <4>2. Len(log'[Rank0]) - j <= step'[Rank0] - saved' + K
          BY <1>3, <1>5, <1>8, <2>1, <2>2, <2>j, <4>1
        <4> QED
          BY <4>1, <4>2
      <3> QED
        BY <2>3, <3>1, <3>2 DEF Behind
    <2>5. Within'
      BY <1>1, <1>3, <1>4, <1>8, <1>9, <2>1 DEF Within
    <2>6. \E k : Behind(k)'
      BY <2>4
    <2> QED
      BY <1>6, <2>5, <2>6, SavedPartsNext
  <1>10. CASE n # saved + CkptEvery
    <2>1. log'[Rank0] = L \o <<loss>> /\ saved' = saved
      <3>1. log'[Rank0] = L \o <<loss>> \o <<>>
        BY <1>3, <1>4, <1>10
      <3>2. L \o <<loss>> \in Seq(Parser!LogLine \cup {loss})
        BY <1>1, <1>8
      <3> QED
        BY <1>3, <1>4, <1>10, <3>1, <3>2
    <2>2. /\ Len(log'[Rank0]) = Len(L) + 1 /\ log'[Rank0][Len(L) + 1] = loss
          /\ DOMAIN log'[Rank0] = 1..(Len(L) + 1) /\ DOMAIN L = 1..Len(L)
          /\ \A i \in 1..Len(L) : log'[Rank0][i] = L[i]
      BY <1>1, <1>8, <2>1
    <2>3. Within'
      <3>1. saved' % CkptEvery = 0 /\ saved <= step[Rank0] /\ step[Rank0] < saved + CkptEvery
        BY <1>2, <2>1 DEF Within
      <3>2. saved' <= step'[Rank0] /\ step'[Rank0] < saved' + CkptEvery
        <4>1. step'[Rank0] = n /\ saved' = saved
          BY <1>3, <2>1
        <4>2. saved <= n /\ n < saved + CkptEvery
          <5>1. CkptEvery \in Nat /\ step[Rank0] + 1 # saved + CkptEvery
            BY <1>1, <1>8, <1>10
          <5>2. saved <= step[Rank0] + 1 /\ step[Rank0] + 1 < saved + CkptEvery
            BY <1>1, <3>1, <5>1, StaysWithin, Zenon
          <5> QED
            BY <1>8, <5>2, Zenon
        <4> QED
          BY <4>1, <4>2
      <3> QED
        BY <3>1, <3>2 DEF Within
    <2>4. CASE Unsaved
      <3>1. Parser!NoneSaved(Rank0)'
        BY <1>5, <1>7, <1>8, <2>2, <2>4 DEF Unsaved, Parser!NoneSaved
      <3>2. Unsaved'
        BY <1>3, <2>1, <2>4, <3>1 DEF Unsaved
      <3> QED
        BY <1>6, <2>3, <3>2, SavedPartsNext
    <2>5. ASSUME NEW j, Behind(j) PROVE Parser!SavedInv'
      <3>1. j \in 1..Len(L) /\ log'[Rank0][j] = Parser!Line("ckpt", saved')
        BY <1>8, <2>1, <2>2, <2>5 DEF Behind, Parser!LastSaved
      <3>2. ASSUME NEW i \in (j + 1)..(Len(L) + 1) PROVE log'[Rank0][i].kind # "ckpt"
        <4>1. i = Len(L) + 1 \/ (i \in (j + 1)..Len(L) /\ i \in 1..Len(L))
          BY <1>5, <3>1
        <4> QED
          BY <1>7, <1>8, <2>2, <2>5, <4>1 DEF Behind, Parser!LastSaved
      <3>3. Parser!LastSaved(j)'
        BY <2>2, <3>1, <3>2 DEF Parser!LastSaved, Parser!Line
      <3>4. Len(log'[Rank0]) - j <= step'[Rank0] - saved' + crashes' * CkptEvery
        <4> DEFINE K == crashes * CkptEvery
        <4>1. crashes' * CkptEvery = K /\ K \in Nat /\ Len(L) - j <= step[Rank0] - saved + K
          BY <1>3, <1>5, <1>8, <2>5 DEF Behind
        <4> HIDE DEF K
        <4>2. Len(L) + 1 - j <= step[Rank0] + 1 - saved + K
          BY <1>1, <1>5, <3>1, <4>1
        <4>3. Len(log'[Rank0]) = Len(L) + 1 /\ step'[Rank0] = step[Rank0] + 1 /\ saved' = saved
          BY <1>3, <1>8, <2>1, <2>2
        <4>4. j \in Nat /\ Len(L) \in Nat /\ step[Rank0] \in Nat /\ saved \in Nat /\ K \in Nat
          BY <1>1, <1>5, <3>1, <4>1
        <4>6. Len(log'[Rank0]) - j <= step'[Rank0] - saved' + K
          BY <4>2, <4>3, <4>4
        <4> QED
          BY <4>1, <4>6, Zenon
      <3>5. Parser!TailReaches' /\ open' => pos'[Rank0] < j \/ Parser!latest' = saved'
        BY <1>3, <2>1, <2>5 DEF Behind, Parser!TailReaches, Parser!latest
      <3>6. Behind(j)'
        BY <1>5, <2>2, <3>1, <3>3, <3>4, <3>5 DEF Behind
      <3> QED
        BY <1>6, <2>3, <3>6, SavedPartsNext
    <2> QED
      BY <1>2, <2>4, <2>5
  <1> QED
    BY <1>9, <1>10

\* A step that only reads other lines, or ends the connection.
LEMMA SavedKept ==
  ASSUME Parser!LogAssumption, Parser!TypeOK, Parser!SavedInv,
         log'[Rank0] = log[Rank0], step'[Rank0] = step[Rank0], UNCHANGED <<saved, crashes, checkpointMarkers>>,
         \A w \in Worker \ {Rank0} : Parser!NoneSaved(w)',
         open' => /\ open
                  /\ \/ pos'[Rank0] = pos[Rank0]
                     \/ pos'[Rank0] = pos[Rank0] + 1 /\ log[Rank0][pos[Rank0] + 1].kind # "ckpt"
  PROVE  Parser!SavedInv'
  <1>1. Within'
    BY SavedParts DEF Within
  <1>2. ASSUME Unsaved PROVE Unsaved'
    BY <1>2 DEF Unsaved, Parser!NoneSaved
  <1>3. ASSUME NEW j, Behind(j) PROVE Behind(j)'
    <2>1. j \in DOMAIN log'[Rank0] /\ Parser!LastSaved(j)'
      BY <1>3 DEF Behind, Parser!LastSaved, Parser!Line
    <2>2. Len(log'[Rank0]) - j <= step'[Rank0] - saved' + crashes' * CkptEvery
      BY <1>3 DEF Behind
    <2>3. ASSUME Parser!TailReaches', open' PROVE pos'[Rank0] < j \/ Parser!latest' = saved'
      <3>1. Parser!latest' = Parser!latest
        BY DEF Parser!latest
      <3>2. pos[Rank0] < j \/ Parser!latest = saved
        BY <1>3, <2>3 DEF Behind, Parser!TailReaches
      <3>3. CASE pos[Rank0] < j
        <4>1. log[Rank0][j].kind = "ckpt" /\ j \in Nat /\ pos[Rank0] \in Nat
          <5>1. Rank0 \in Worker
            BY DEF Parser!LogAssumption
          <5>2. pos[Rank0] \in Nat /\ log[Rank0] \in Seq(Parser!LogLine)
            BY <5>1 DEF Parser!TypeOK
          <5> QED
            BY <1>3, <5>2 DEF Behind, Parser!LastSaved, Parser!Line
        <4> QED
          BY <2>3, <3>3, <4>1
      <3>4. CASE Parser!latest = saved
        BY <3>1, <3>4
      <3> QED
        BY <3>2, <3>3, <3>4
    <2> QED
      BY <2>1, <2>2, <2>3 DEF Behind
  <1> QED
    BY <1>1, <1>2, <1>3, SavedParts, SavedPartsNext

\* The other workers write no line of a checkpoint.
LEMMA SavedTrainOther ==
  ASSUME Parser!LogAssumption, Parser!TypeOK, Parser!SavedInv, NEW w \in Worker \ {Rank0}, Parser!Train(w)
  PROVE  Parser!SavedInv'
  <1>1. /\ Rank0 \in Worker /\ log \in [Worker -> Seq(Parser!LogLine)] /\ step \in [Worker -> 0..MaxStep]
    BY DEF Parser!LogAssumption, Parser!TypeOK
  <1> DEFINE n == step[w] + 1
             loss == Parser!Line("loss", n)
  <1>2. /\ log' = [log EXCEPT ![w] = @ \o <<loss>> \o <<>>] /\ step' = [step EXCEPT ![w] = n]
        /\ UNCHANGED <<saved, crashes, checkpointMarkers, open, pos>>
    BY DEF Parser!Train, Parser!parsed
  <1>3. loss.kind # "ckpt"
    BY DEF Parser!Line
  <1> HIDE DEF loss, n
  <1>4. /\ log'[Rank0] = log[Rank0] /\ step'[Rank0] = step[Rank0]
        /\ \A v \in Worker \ {Rank0, w} : log'[v] = log[v]
        /\ log'[w] = log[w] \o <<loss>> \o <<>>
    BY <1>1, <1>2
  <1>5. ASSUME NEW v \in Worker \ {Rank0} PROVE Parser!NoneSaved(v)'
    <2>0. Parser!NoneSaved(v)
      BY SavedParts
    <2>1. CASE v # w
      BY <1>4, <2>0, <2>1 DEF Parser!NoneSaved
    <2>2. CASE v = w
      <3> DEFINE L == log[w]
      <3>1. L \in Seq(Parser!LogLine) /\ log'[w] = L \o <<loss>> \o <<>>
        BY <1>1, <1>4
      <3> HIDE DEF L
      <3>2. Len(L) \in Nat /\ DOMAIN L = 1..Len(L) /\ L \in Seq(Parser!LogLine \cup {loss})
        <4>1. L \in Seq(Parser!LogLine \cup {loss})
          BY <3>1, SeqWider
        <4> QED
          BY <3>1, <4>1
      <3>3. L \o <<loss>> \o <<>> = L \o <<loss>>
        BY <3>2
      <3>4. log'[w] = L \o <<loss>>
        BY <3>1, <3>3, Zenon
      <3>5. /\ DOMAIN (L \o <<loss>>) = 1..(Len(L) + 1) /\ (L \o <<loss>>)[Len(L) + 1] = loss
            /\ \A i \in 1..Len(L) : (L \o <<loss>>)[i] = L[i]
        BY <3>2
      <3>6. \A i \in DOMAIN (L \o <<loss>>) : (L \o <<loss>>)[i].kind # "ckpt"
        <4>1. \A i \in 1..Len(L) : L[i].kind # "ckpt"
          BY <2>0, <2>2, <3>2 DEF Parser!NoneSaved, L
        <4>2. \A i \in 1..(Len(L) + 1) : i = Len(L) + 1 \/ i \in 1..Len(L)
          BY <3>2
        <4> QED
          BY <1>3, <3>5, <4>1, <4>2
      <3> QED
        BY <2>2, <3>4, <3>6, Zenon DEF Parser!NoneSaved
    <2> QED
      BY <2>1, <2>2
  <1> QED
    BY <1>2, <1>4, <1>5, SavedKept

\* What a recovery adds to the lines since the last checkpoint is one interval.
LEMMA OneMore ==
  ASSUME NEW c \in Nat \ {0}, NEW k \in Nat, NEW s \in Nat, NEW m \in Nat, s < m + c,
         NEW d \in Int, d <= s - m + k * c, NEW e \in Int, e <= d + 1
  PROVE  e <= m - m + (k + 1) * c
  <1> DEFINE K == k * c
  <1>1. K \in Nat /\ (k + 1) * c = K + c /\ d <= s - m + K
    OBVIOUS
  <1> HIDE DEF K
  <1>2. e <= m - m + (K + c)
    BY <1>1
  <1> QED
    BY <1>1, <1>2

\* A recovery adds a line, and starts the interval again.
LEMMA SavedRecover ==
  ASSUME Parser!LogAssumption, Parser!TypeOK, Parser!SavedInv, Parser!Recover PROVE Parser!SavedInv'
  <1> DEFINE restore == Parser!Line("restore", saved)
  <1>1. /\ Rank0 \in Worker /\ log \in [Worker -> Seq(Parser!LogLine)] /\ step \in [Worker -> 0..MaxStep]
        /\ CkptEvery \in Nat \ {0} /\ saved \in Nat /\ crashes \in Nat /\ step[Rank0] \in Nat
    BY DEF Parser!LogAssumption, Parser!TypeOK
  <1>2. /\ crashes' = crashes + 1 /\ step' = [w \in Worker |-> saved]
        /\ log' = [w \in Worker |-> IF saved > 0 THEN Append(log[w], restore) ELSE log[w]]
        /\ UNCHANGED <<saved, open, pos, checkpointMarkers>>
    BY DEF Parser!Recover, Parser!parsed
  <1>3. restore.kind # "ckpt"
    BY DEF Parser!Line
  <1> HIDE DEF restore
  <1>4. Within /\ (\A w \in Worker \ {Rank0} : Parser!NoneSaved(w)) /\ (Unsaved \/ \E j : Behind(j))
    BY SavedParts
  <1>5. Within'
    <2>1. step'[Rank0] = saved /\ saved' = saved /\ saved % CkptEvery = 0
      BY <1>1, <1>2, <1>4 DEF Within
    <2>2. saved <= saved /\ saved < saved + CkptEvery
      BY <1>1
    <2> QED
      BY <2>1, <2>2, Zenon DEF Within
  <1>6. ASSUME NEW w \in Worker
        PROVE  /\ Len(log[w]) \in Nat /\ DOMAIN log[w] = 1..Len(log[w]) /\ DOMAIN log'[w] = 1..Len(log'[w])
               /\ Len(log'[w]) \in {Len(log[w]), Len(log[w]) + 1}
               /\ \A i \in 1..Len(log[w]) : log'[w][i] = log[w][i]
               /\ \A i \in DOMAIN log'[w] : i \notin 1..Len(log[w]) => log'[w][i].kind # "ckpt"
    <2> DEFINE L == log[w]
    <2>1. L \in Seq(Parser!LogLine) /\ log'[w] = IF saved > 0 THEN Append(L, restore) ELSE L
      BY <1>1, <1>2
    <2> HIDE DEF L
    <2>2. Len(L) \in Nat /\ DOMAIN L = 1..Len(L)
      BY <2>1
    <2>3. /\ Len(Append(L, restore)) = Len(L) + 1 /\ Append(L, restore)[Len(L) + 1] = restore
          /\ DOMAIN Append(L, restore) = 1..(Len(L) + 1)
          /\ \A i \in 1..Len(L) : Append(L, restore)[i] = L[i]
      <3>1. L \in Seq(Parser!LogLine \cup {restore})
        BY <2>1, SeqWider
      <3> QED
        BY <3>1
    <2>4. \A i \in 1..(Len(L) + 1) : i = Len(L) + 1 \/ i \in 1..Len(L)
      BY <2>2
    <2>5. CASE saved > 0
      <3>1. log'[w] = Append(L, restore)
        BY <2>1, <2>5
      <3> QED
        BY <1>3, <2>2, <2>3, <2>4, <3>1 DEF L
    <2>6. CASE ~(saved > 0)
      <3>1. log'[w] = L
        BY <2>1, <2>6
      <3> QED
        BY <2>2, <3>1 DEF L
    <2> QED
      BY <2>5, <2>6
  <1>7. ASSUME NEW w \in Worker, Parser!NoneSaved(w) PROVE Parser!NoneSaved(w)'
    BY <1>6, <1>7 DEF Parser!NoneSaved
  <1>8. ASSUME Unsaved PROVE Unsaved'
    BY <1>1, <1>2, <1>7, <1>8 DEF Unsaved
  <1>9. ASSUME NEW j, Behind(j) PROVE Behind(j)'
    <2>1. /\ j \in 1..Len(log[Rank0]) /\ log[Rank0][j] = Parser!Line("ckpt", saved) /\ Len(log[Rank0]) \in Nat
          /\ \A i \in (j + 1)..Len(log[Rank0]) : log[Rank0][i].kind # "ckpt"
      BY <1>1, <1>6, <1>9 DEF Behind, Parser!LastSaved
    <2>2. j \in DOMAIN log'[Rank0] /\ log'[Rank0][j] = Parser!Line("ckpt", saved')
      <3>1. log'[Rank0][j] = log[Rank0][j] /\ saved' = saved
        BY <1>1, <1>2, <1>6, <2>1
      <3>2. j \in DOMAIN log'[Rank0]
        BY <1>1, <1>6, <2>1
      <3> QED
        BY <2>1, <3>1, <3>2
    <2>3. ASSUME NEW i \in (j + 1)..Len(log'[Rank0]) PROVE log'[Rank0][i].kind # "ckpt"
      <3>1. i \in DOMAIN log'[Rank0] /\ (i \in 1..Len(log[Rank0]) => i \in (j + 1)..Len(log[Rank0]))
        BY <1>1, <1>6, <2>1
      <3>2. CASE i \in 1..Len(log[Rank0])
        BY <1>1, <1>6, <2>1, <3>1, <3>2
      <3>3. CASE i \notin 1..Len(log[Rank0])
        BY <1>1, <1>6, <3>1, <3>3
      <3> QED
        BY <3>2, <3>3
    <2>4. Parser!LastSaved(j)'
      BY <2>2, <2>3 DEF Parser!LastSaved, Parser!Line
    <2>5. Len(log'[Rank0]) - j <= step'[Rank0] - saved' + crashes' * CkptEvery
      <3> DEFINE d == Len(log[Rank0]) - j
                 e == Len(log'[Rank0]) - j
      <3>1. d \in Int /\ e \in Int /\ e <= d + 1
        BY <1>1, <1>6, <2>1
      <3>2. d <= step[Rank0] - saved + crashes * CkptEvery /\ step[Rank0] < saved + CkptEvery
        BY <1>4, <1>9 DEF Behind, Within
      <3> HIDE DEF d, e
      <3>3. e <= saved - saved + (crashes + 1) * CkptEvery
        BY <1>1, <3>1, <3>2, OneMore
      <3>4. step'[Rank0] = saved /\ saved' = saved /\ crashes' = crashes + 1
        BY <1>1, <1>2
      <3> QED
        BY <3>3, <3>4, Zenon DEF e
    <2>6. Parser!TailReaches' /\ open' => pos'[Rank0] < j \/ Parser!latest' = saved'
      BY <1>2, <1>9 DEF Behind, Parser!TailReaches, Parser!latest
    <2> QED
      BY <2>2, <2>4, <2>5, <2>6 DEF Behind
  <1> QED
    BY <1>4, <1>5, <1>7, <1>8, <1>9, SavedPartsNext

\* The tail of a new connection reaches back to the line of the last checkpoint.
LEMMA TailIsBefore ==
  ASSUME NEW c \in Nat \ {0}, NEW m \in Nat, NEW k \in 0..m, NEW t \in Nat, c * (m + 1) <= t,
         NEW s \in Nat, NEW v \in Nat, s < v + c, NEW n \in Nat, NEW j \in 1..n, n - j <= s - v + k * c
  PROVE  n - t < j
  <1> DEFINE K == k * c
  <1>1. K \in Nat /\ K + c <= t /\ n - j <= s - v + K
    BY TailHolds
  <1> HIDE DEF K
  <1> QED
    BY <1>1

\* A new connection starts before the line of the last checkpoint.
LEMMA SavedConnect ==
  ASSUME Parser!LogAssumption, Parser!TypeOK, Parser!SavedInv, Parser!Connect PROVE Parser!SavedInv'
  <1>1. /\ Rank0 \in Worker /\ log \in [Worker -> Seq(Parser!LogLine)] /\ CkptEvery \in Nat \ {0}
        /\ saved \in Nat /\ crashes \in 0..MaxCrashes /\ MaxCrashes \in Nat /\ TailLines \in Nat /\ step[Rank0] \in Nat
    BY DEF Parser!LogAssumption, Parser!TypeOK
  <1>2. pos'[Rank0] = Parser!SkipTo(Rank0) /\ UNCHANGED <<log, step, saved, crashes, checkpointMarkers>>
    BY <1>1 DEF Parser!Connect, Parser!training, Parser!parsed
  <1>3. Within /\ (\A w \in Worker \ {Rank0} : Parser!NoneSaved(w)) /\ (Unsaved \/ \E j : Behind(j))
    BY SavedParts
  <1>4. Within' /\ \A w \in Worker \ {Rank0} : Parser!NoneSaved(w)'
    BY <1>2, <1>3 DEF Within, Parser!NoneSaved
  <1>5. ASSUME Unsaved PROVE Unsaved'
    BY <1>2, <1>5 DEF Unsaved, Parser!NoneSaved
  <1>6. ASSUME NEW j, Behind(j) PROVE Behind(j)'
    <2>1. j \in DOMAIN log'[Rank0] /\ Parser!LastSaved(j)'
      BY <1>2, <1>6 DEF Behind, Parser!LastSaved, Parser!Line
    <2>2. Len(log'[Rank0]) - j <= step'[Rank0] - saved' + crashes' * CkptEvery
      BY <1>2, <1>6 DEF Behind
    <2>3. ASSUME Parser!TailReaches PROVE pos'[Rank0] < j
      <3> DEFINE n == Len(log[Rank0])
      <3>1. n \in Nat /\ j \in 1..n
        BY <1>1, <1>6 DEF Behind
      <3>2. n - j <= step[Rank0] - saved + crashes * CkptEvery /\ step[Rank0] < saved + CkptEvery
        BY <1>3, <1>6 DEF Behind, Within
      <3>3. Parser!SkipTo(Rank0) = IF n > TailLines THEN n - TailLines ELSE 0
        BY DEF Parser!SkipTo
      <3> HIDE DEF n
      <3>4. CkptEvery * (MaxCrashes + 1) <= TailLines
        BY <2>3 DEF Parser!TailReaches
      <3>5. n - TailLines < j
        BY <1>1, <3>1, <3>2, <3>4, TailIsBefore
      <3>6. Parser!SkipTo(Rank0) < j
        BY <1>1, <3>1, <3>3, <3>5
      <3> QED
        BY <1>2, <3>6
    <2>4. Parser!TailReaches' = Parser!TailReaches
      BY DEF Parser!TailReaches
    <2> QED
      BY <2>1, <2>2, <2>3, <2>4 DEF Behind
  <1> QED
    BY <1>3, <1>4, <1>5, <1>6, SavedPartsNext

\* The line of a checkpoint is the last one's, or that one is still to be read.
LEMMA SavedDeliver ==
  ASSUME Parser!LogAssumption, Parser!TypeOK, Parser!SavedInv, NEW w \in Worker, Parser!Deliver(w) PROVE Parser!SavedInv'
  <1> DEFINE l == log[w][pos[w] + 1]
  <1>1. /\ Rank0 \in Worker /\ pos[w] < Len(log[w]) /\ pos' = [pos EXCEPT ![w] = @ + 1] /\ Parser!Parse(l) /\ open
        /\ UNCHANGED <<log, step, saved, crashes, open>>
    BY DEF Parser!Deliver, Parser!training, Parser!LogAssumption
  <1>2. log[w] \in Seq(Parser!LogLine) /\ pos \in [Worker -> Nat] /\ pos[w] \in Nat
    BY DEF Parser!TypeOK
  <1>3. /\ Within /\ (\A v \in Worker \ {Rank0} : Parser!NoneSaved(v)) /\ (Unsaved \/ \E j : Behind(j))
    BY SavedParts
  <1>4. Within' /\ \A v \in Worker \ {Rank0} : Parser!NoneSaved(v)'
    BY <1>1, <1>3 DEF Within, Parser!NoneSaved
  <1>5. pos[w] + 1 \in DOMAIN log[w]
    BY <1>1, <1>2
  <1>6. CASE l.kind # "ckpt"
    <2>1. checkpointMarkers' = checkpointMarkers
      <3> HIDE DEF l
      <3> QED
        BY <1>1, <1>6 DEF Parser!Parse, Parser!Parsed, Parser!parsed
    <2>2. \/ pos'[Rank0] = pos[Rank0]
          \/ pos'[Rank0] = pos[Rank0] + 1 /\ log[Rank0][pos[Rank0] + 1].kind # "ckpt"
      <3>1. CASE w = Rank0
        BY <1>1, <1>2, <1>6, <3>1
      <3>2. CASE w # Rank0
        BY <1>1, <1>2, <3>2
      <3> QED
        BY <3>1, <3>2
    <2> QED
      BY <1>1, <1>4, <2>1, <2>2, SavedKept
  <1>7. CASE l.kind = "ckpt"
    <2>1. w = Rank0
      BY <1>3, <1>5, <1>7 DEF Parser!NoneSaved
    <2>2. PICK j : Behind(j)
      BY <1>3, <1>5, <1>7, <2>1 DEF Unsaved, Parser!NoneSaved
    <2>3. /\ j \in 1..Len(log[w]) /\ log[w][j] = Parser!Line("ckpt", saved) /\ Len(log[w]) \in Nat
          /\ \A i \in (j + 1)..Len(log[w]) : log[w][i].kind # "ckpt"
      BY <1>2, <2>1, <2>2 DEF Behind, Parser!LastSaved
    <2>4. pos[w] + 1 <= j
      <3> SUFFICES ASSUME ~(pos[w] + 1 <= j) PROVE FALSE
        OBVIOUS
      <3>1. pos[w] + 1 \in (j + 1)..Len(log[w])
        BY <1>1, <1>2, <2>3
      <3> QED
        BY <1>7, <2>3, <3>1
    <2>5. pos'[Rank0] = pos[w] + 1
      BY <1>1, <1>2, <2>1
    <2>6. ASSUME pos[w] + 1 = j PROVE Parser!latest' = saved'
      <3>1. l = Parser!Line("ckpt", saved)
        BY <2>3, <2>6
      <3>2. l.step = saved
        BY <3>1 DEF Parser!Line
      <3>3. checkpointMarkers' = Parser!Push(checkpointMarkers, MAX_CKPT, l.step)
        <4> HIDE DEF l
        <4> QED
          BY <1>1, <1>7 DEF Parser!Parse, Parser!Parsed
      <3>4. /\ checkpointMarkers \in Seq(Parser!Steps) /\ Len(checkpointMarkers) <= MAX_CKPT
            /\ MAX_CKPT \in Nat \ {0} /\ l.step \in Parser!Steps
        <4>1. l \in Parser!LogLine
          BY <1>2, <1>5
        <4> HIDE DEF l
        <4> QED
          BY <4>1 DEF Parser!TypeOK, Parser!LogAssumption, Parser!LogLine
      <3> HIDE DEF l
      <3>5. checkpointMarkers' # <<>> /\ checkpointMarkers'[Len(checkpointMarkers')] = l.step
        <4> DEFINE p == Parser!Push(checkpointMarkers, MAX_CKPT, l.step)
        <4>1. p # <<>> /\ p[Len(p)] = l.step
          BY <3>4, LastPush
        <4>2. checkpointMarkers' = p
          BY <3>3
        <4> HIDE DEF p
        <4> QED
          BY <4>1, <4>2
      <3> QED
        BY <1>1, <3>2, <3>5 DEF Parser!latest
    <2>7. pos'[Rank0] < j \/ Parser!latest' = saved'
      BY <1>2, <2>3, <2>4, <2>5, <2>6
    <2>8. j \in DOMAIN log'[Rank0] /\ Parser!LastSaved(j)'
      BY <1>1, <2>2 DEF Behind, Parser!LastSaved, Parser!Line
    <2>9. Len(log'[Rank0]) - j <= step'[Rank0] - saved' + crashes' * CkptEvery
      BY <1>1, <2>2 DEF Behind
    <2>10. Behind(j)'
      BY <2>7, <2>8, <2>9 DEF Behind
    <2> QED
      BY <1>4, <2>10, SavedPartsNext
  <1> QED
    BY <1>6, <1>7

\* Every step keeps what is known of the last checkpoint.
LEMMA SavedNext ==
  ASSUME Parser!LogAssumption, Parser!TypeOK, Parser!SavedInv, [Parser!Next]_(Parser!vars) PROVE Parser!SavedInv'
  <1>1. ASSUME \/ Parser!Break \/ Parser!SetActive \/ UNCHANGED Parser!vars PROVE Parser!SavedInv'
    <2>1. UNCHANGED <<log, step, saved, crashes, checkpointMarkers>> /\ (open' => open /\ pos'[Rank0] = pos[Rank0])
      BY <1>1 DEF Parser!Break, Parser!SetActive, Parser!vars, Parser!training, Parser!parsed
    <2>2. \A v \in Worker \ {Rank0} : Parser!NoneSaved(v)'
      BY <2>1, SavedParts DEF Parser!NoneSaved
    <2> QED
      BY <2>1, <2>2, SavedKept
  <1>2. ASSUME NEW w \in Worker, Parser!Train(w) PROVE Parser!SavedInv'
    BY <1>2, SavedTrain, SavedTrainOther
  <1> QED
    BY <1>1, <1>2, SavedRecover, SavedConnect, SavedDeliver DEF Parser!Next

\* What has been read to its end has been read past the last checkpoint.
LEMMA ReadIsSaved ==
  ASSUME Parser!LogAssumption, Parser!TypeOK, Parser!SavedInv PROVE Parser!CaughtUpIsSaved
  <1> SUFFICES ASSUME Parser!TailReaches, open, pos[Rank0] = Len(log[Rank0]) PROVE Parser!latest = saved
    BY DEF Parser!CaughtUpIsSaved
  <1>1. CASE Unsaved
    BY <1>1 DEF Unsaved, Parser!latest
  <1>2. ASSUME NEW j, Behind(j) PROVE Parser!latest = saved
    <2>1. log[Rank0] \in Seq(Parser!LogLine)
      BY DEF Parser!TypeOK, Parser!LogAssumption
    <2>2. j <= Len(log[Rank0]) /\ j \in Nat /\ Len(log[Rank0]) \in Nat
      BY <1>2, <2>1 DEF Behind
    <2> QED
      BY <1>2, <2>2 DEF Behind
  <1> QED
    BY <1>1, <1>2, SavedParts
-----------------------------------------------------------------------------
(* Visitors *)

LEMMA RaceInit == ASSUME Race!VisitorsAssumption PROVE Race!Init => Race!AnnouncedInv
  BY DEF Race!VisitorsAssumption, Race!Init, Race!AnnouncedInv, Race!Requests, Race!AnnouncedOnce, Race!Gone

\* Who is removed from the table can be announced again.
LEMMA RaceCleaned ==
  ASSUME Race!VisitorsAssumption, NEW table \in [Tab -> 0..Race!Gone], NEW known,
         known \subseteq {t \in Tab : table[t] # Race!Gone}, Race!clean_stale_visitors(table, known)
  PROVE  visitors' \in [Tab -> 0..Race!Gone] /\ announced' \subseteq {t \in Tab : visitors'[t] # Race!Gone}
  <1>1. Race!Gone \in 0..Race!Gone
    BY DEF Race!Gone, Race!VisitorsAssumption
  <1>2. PICK old : visitors' = [t \in Tab |-> IF t \in old THEN Race!Gone ELSE table[t]] /\ announced' = known \ old
    BY DEF Race!clean_stale_visitors
  <1> QED
    BY <1>1, <1>2

LEMMA RaceNext ==
  ASSUME Race!VisitorsAssumption, Race!AnnouncedInv, [Race!Next]_(Race!vars) PROVE Race!AnnouncedInv'
  <1> USE DEF Race!AnnouncedInv, Race!Requests, Race!AnnouncedOnce
  <1>g. StaleAfter \in Nat \ {0} /\ Race!Gone = StaleAfter + 2
    BY DEF Race!Gone, Race!VisitorsAssumption
  <1>1. CASE Race!Tick
    <2>1. \A n \in 0..Race!Gone : Race!Older(n) \in 0..Race!Gone /\ (n # Race!Gone => Race!Older(n) # Race!Gone)
      BY <1>g DEF Race!Older
    <2> QED
      BY <1>1, <2>1 DEF Race!Tick
  <1>2. CASE Race!PollActivity
    BY <1>2, RaceCleaned DEF Race!PollActivity
  <1>3. ASSUME NEW t \in Tab, Race!Open(t) \/ Race!Close(t) PROVE Race!AnnouncedInv'
    BY <1>3 DEF Race!Open, Race!Close, Race!server
  <1>4. ASSUME NEW t \in Tab, Race!Ping(t) PROVE Race!AnnouncedInv'
    BY <1>4 DEF Race!Ping, Race!Request, Race!server
  <1>5. ASSUME NEW r \in flight, Race!Lookup(r) PROVE Race!AnnouncedInv'
    BY <1>5 DEF Race!Lookup, Race!server
  <1>6. ASSUME NEW r \in flight, Race!Register(r) PROVE Race!AnnouncedInv'
    <2> DEFINE new == visitors[r.tab] = Race!Gone
               table == [visitors EXCEPT ![r.tab] = 0]
               known == IF new THEN announced \cup {r.tab} ELSE announced
    <2>1. r.tab \in Tab /\ table \in [Tab -> 0..Race!Gone] /\ 0 # Race!Gone
      BY <1>g
    <2>2. known \subseteq {t \in Tab : table[t] # Race!Gone}
      BY <2>1
    <2>3. flight' = flight \ {r} /\ Race!clean_stale_visitors(table, known)
      BY <1>6 DEF Race!Register, Race!Registered
    <2>4. ~repeated'
      BY <1>6 DEF Race!Register, Race!Registered
    <2> HIDE DEF table, known
    <2> QED
      BY <2>1, <2>2, <2>3, <2>4, RaceCleaned
  <1>7. ASSUME NEW a \in answers, Race!Receive(a) PROVE Race!AnnouncedInv'
    BY <1>7 DEF Race!Receive, Race!server
  <1>8. CASE UNCHANGED Race!vars
    BY <1>8 DEF Race!vars, Race!server
  <1> QED
    BY <1>1, <1>2, <1>3, <1>4, <1>5, <1>6, <1>7, <1>8 DEF Race!Next

LEMMA WatchersInit == ASSUME Watchers!VisitorsAssumption PROVE Watchers!Init => Watchers!KeptInv
  BY DEF Watchers!VisitorsAssumption, Watchers!Init, Watchers!KeptInv, Watchers!Requests, Watchers!Gone

\* A tab heard of lately enough is not removed.
LEMMA WatchersCleaned ==
  ASSUME Watchers!VisitorsAssumption, NEW table \in [Tab -> 0..Watchers!Gone], NEW known,
         Watchers!clean_stale_visitors(table, known)
  PROVE  /\ visitors' \in [Tab -> 0..Watchers!Gone]
         /\ \A t \in Tab : table[t] < StaleAfter => visitors'[t] = table[t]
  <1>1. Watchers!Gone \in 0..Watchers!Gone /\ StaleAfter \in Nat
    BY DEF Watchers!Gone, Watchers!VisitorsAssumption
  <1>2. PICK old \in SUBSET {t \in Tab : table[t] \in StaleAfter..StaleAfter + 1} :
          visitors' = [t \in Tab |-> IF t \in old THEN Watchers!Gone ELSE table[t]]
    BY DEF Watchers!clean_stale_visitors
  <1>3. \A t \in Tab : table[t] < StaleAfter => t \notin old
    BY <1>1, <1>2
  <1> QED
    BY <1>1, <1>2, <1>3

LEMMA WatchersNext ==
  ASSUME Watchers!VisitorsAssumption, MaxLost + 2 <= StaleAfter, Watchers!KeptInv, [Watchers!Next]_(Watchers!vars)
  PROVE  Watchers!KeptInv'
  <1> USE DEF Watchers!KeptInv, Watchers!Requests
  <1>g. StaleAfter \in Nat \ {0} /\ Watchers!Gone = StaleAfter + 2 /\ MaxLost \in Nat /\ lost \in Nat
    BY DEF Watchers!Gone, Watchers!VisitorsAssumption
  <1>k. \A t \in open : Watchers!Answered(t) => visitors[t] < StaleAfter
    BY <1>g
  <1>1. CASE Watchers!Tick
    <2>1. \A n \in 0..Watchers!Gone : Watchers!Older(n) \in 0..Watchers!Gone /\ Watchers!Older(n) <= n + 1
      BY <1>g DEF Watchers!Older
    <2>2. ASSUME NEW t \in open', Watchers!Answered(t)' PROVE visitors'[t] <= lost + 1 /\ Watchers!Pending(t)'
      <3>1. t \in open /\ Watchers!Answered(t) /\ Watchers!Pending(t)' /\ ~Watchers!Pending(t)
        BY <1>1, <2>2 DEF Watchers!Tick, Watchers!Answered, Watchers!Pending
      <3>2. visitors[t] <= lost /\ visitors'[t] = Watchers!Older(visitors[t]) /\ visitors[t] \in 0..Watchers!Gone
        BY <1>1, <3>1 DEF Watchers!Tick
      <3>3. Watchers!Older(visitors[t]) <= visitors[t] + 1 /\ Watchers!Older(visitors[t]) \in 0..Watchers!Gone
        BY <2>1, <3>2
      <3> QED
        BY <1>g, <3>1, <3>2, <3>3
    <2> QED
      BY <1>1, <2>1, <2>2 DEF Watchers!Tick
  <1>2. CASE Watchers!PollActivity
    <2>1. UNCHANGED <<open, due, flight, answers, shown, lost>>
      BY <1>2 DEF Watchers!PollActivity
    <2>2. /\ visitors' \in [Tab -> 0..Watchers!Gone]
          /\ \A t \in Tab : visitors[t] < StaleAfter => visitors'[t] = visitors[t]
      BY <1>2, WatchersCleaned DEF Watchers!PollActivity
    <2>3. \A t : (Watchers!Answered(t)' <=> Watchers!Answered(t)) /\ (Watchers!Pending(t)' <=> Watchers!Pending(t))
      BY <2>1 DEF Watchers!Answered, Watchers!Pending
    <2> QED
      BY <1>k, <2>1, <2>2, <2>3
  <1>3. ASSUME NEW t \in Tab, Watchers!Open(t) PROVE Watchers!KeptInv'
    <2>1. /\ UNCHANGED <<flight, visitors, answers, lost>> /\ open' = open \cup {t} /\ due' = due \cup {t}
          /\ shown' = [shown EXCEPT ![t] = 0] /\ t \notin open
      BY <1>3 DEF Watchers!Open, Watchers!server
    <2>2. ~Watchers!Answered(t)'
      BY <2>1 DEF Watchers!Answered
    <2>3. ASSUME NEW u \in open, Watchers!Answered(u)'
          PROVE  Watchers!Answered(u) /\ (Watchers!Pending(u) => Watchers!Pending(u)')
      BY <2>1, <2>3 DEF Watchers!Answered, Watchers!Pending
    <2> QED
      BY <1>g, <2>1, <2>2, <2>3
  <1>4. ASSUME NEW t \in Tab, Watchers!Close(t) PROVE Watchers!KeptInv'
    <2>1. /\ UNCHANGED <<flight, visitors, shown, lost>> /\ open' = open \ {t} /\ due' = due \ {t}
          /\ answers' = {a \in answers : a.tab # t}
      BY <1>4 DEF Watchers!Close, Watchers!server
    <2>2. ASSUME NEW u \in open', Watchers!Answered(u)'
          PROVE  u \in open /\ Watchers!Answered(u) /\ (Watchers!Pending(u) => Watchers!Pending(u)')
      BY <2>1, <2>2 DEF Watchers!Answered, Watchers!Pending
    <2> QED
      BY <1>g, <2>1, <2>2
  <1>5. ASSUME NEW t \in Tab, Watchers!Ping(t) PROVE Watchers!KeptInv'
    <2>1. /\ UNCHANGED <<open, visitors, answers, shown>> /\ t \in due /\ due' = due \ {t}
          /\ \A u : Watchers!Answered(u)' <=> Watchers!Answered(u)
      BY <1>5 DEF Watchers!Ping, Watchers!server, Watchers!Answered
    <2>2. CASE flight' = flight \cup {Watchers!Request(t, Watchers!FreeNr)} /\ UNCHANGED lost
      <3> DEFINE q == Watchers!Request(t, Watchers!FreeNr)
      <3>q. q.tab = t
        BY DEF Watchers!Request
      <3> HIDE DEF q
      <3>1. \A u : Watchers!Pending(u) => Watchers!Pending(u)'
        BY <2>1, <2>2, <3>q DEF Watchers!Pending, q
      <3>2. Watchers!Requests'
        BY <2>2 DEF Watchers!Request
      <3> QED
        BY <1>g, <2>1, <2>2, <3>1, <3>2
    <2>3. CASE lost < MaxLost /\ lost' = lost + 1 /\ UNCHANGED flight
      BY <1>g, <2>1, <2>3
    <2> QED
      BY <1>5, <2>2, <2>3 DEF Watchers!Ping
  <1>6. ASSUME NEW r \in flight, Watchers!Lookup(r) PROVE Watchers!KeptInv'
    <2> DEFINE q == [r EXCEPT !.lookup = TRUE, !.new = visitors[r.tab] = Watchers!Gone]
    <2>1. flight' = (flight \ {r}) \cup {q} /\ UNCHANGED <<open, due, visitors, answers, shown, lost>>
      BY <1>6 DEF Watchers!Lookup, Watchers!server
    <2>2. q.tab = r.tab /\ "tab" \in DOMAIN q
      OBVIOUS
    <2> HIDE DEF q
    <2>3. \A u : (Watchers!Answered(u)' <=> Watchers!Answered(u)) /\ (Watchers!Pending(u) => Watchers!Pending(u)')
      BY <2>1, <2>2 DEF Watchers!Answered, Watchers!Pending
    <2> QED
      BY <1>g, <2>1, <2>2, <2>3
  <1>7. ASSUME NEW r \in flight, Watchers!Register(r) PROVE Watchers!KeptInv'
    <2> DEFINE table == [visitors EXCEPT ![r.tab] = 0]
    <2>1. r.tab \in Tab /\ table \in [Tab -> 0..Watchers!Gone] /\ table[r.tab] = 0
          /\ \A t \in Tab : t # r.tab => table[t] = visitors[t]
      BY <1>g
    <2>2. \E known : Watchers!clean_stale_visitors(table, known)
      BY <1>7 DEF Watchers!Register, Watchers!Registered
    <2>3. /\ UNCHANGED <<open, due, shown, lost>> /\ flight' = flight \ {r}
          /\ answers' = IF r.tab \in open THEN answers \cup {Watchers!Answer(r.tab)} ELSE answers
      BY <1>7 DEF Watchers!Register, Watchers!Registered
    <2> HIDE DEF table
    <2>4. /\ visitors' \in [Tab -> 0..Watchers!Gone]
          /\ \A t \in Tab : table[t] < StaleAfter => visitors'[t] = table[t]
      BY <2>1, <2>2, WatchersCleaned
    <2>5. Watchers!Answer(r.tab).tab = r.tab
      BY DEF Watchers!Answer
    <2>6. ASSUME NEW t \in open, Watchers!Answered(t)'
          PROVE  visitors'[t] <= (IF Watchers!Pending(t)' THEN lost + 1 ELSE lost)
      <3>1. CASE t = r.tab
        BY <1>g, <2>1, <2>4, <3>1
      <3>2. CASE t # r.tab
        <4>1. Watchers!Answered(t) /\ (Watchers!Pending(t) => Watchers!Pending(t)')
          BY <2>3, <2>5, <2>6, <3>2 DEF Watchers!Answered, Watchers!Pending
        <4> QED
          BY <1>g, <1>k, <2>1, <2>4, <3>2, <4>1
      <3> QED
        BY <3>1, <3>2
    <2> QED
      BY <2>3, <2>4, <2>5, <2>6
  <1>8. ASSUME NEW a \in answers, Watchers!Receive(a) PROVE Watchers!KeptInv'
    <2>1. /\ answers' = answers \ {a} /\ shown' = [shown EXCEPT ![a.tab] = a.total]
          /\ UNCHANGED <<open, due, flight, visitors, lost>>
      BY <1>8 DEF Watchers!Receive, Watchers!server
    <2>2. \A t \in open : Watchers!Answered(t)' => Watchers!Answered(t)
      BY <2>1 DEF Watchers!Answered
    <2>3. \A t : Watchers!Pending(t)' <=> Watchers!Pending(t)
      BY <2>1 DEF Watchers!Pending
    <2> QED
      BY <2>1, <2>2, <2>3
  <1>9. CASE UNCHANGED Watchers!vars
    BY <1>9 DEF Watchers!vars, Watchers!server, Watchers!Answered, Watchers!Pending
  <1> QED
    BY <1>1, <1>2, <1>3, <1>4, <1>5, <1>6, <1>7, <1>8, <1>9 DEF Watchers!Next

\* A tab that shows a total is in the table.
LEMMA WatchersKeep ==
  ASSUME Watchers!VisitorsAssumption, MaxLost + 2 <= StaleAfter, Watchers!KeptInv PROVE Watchers!OpenIsKept
  <1>1. StaleAfter \in Nat /\ Watchers!Gone = StaleAfter + 2 /\ MaxLost \in Nat /\ lost \in 0..MaxLost
    BY DEF Watchers!Gone, Watchers!VisitorsAssumption, Watchers!KeptInv
  <1> QED
    BY <1>1 DEF Watchers!KeptInv, Watchers!OpenIsKept, Watchers!Answered

\* The instance's finite sets and cardinalities are those of FiniteSets.
LEMMA RaceFinite == \A S : Race!IsFiniteSet(S) <=> IsFiniteSet(S)
  BY DEF Race!IsFiniteSet, IsFiniteSet
LEMMA RaceCardinality == \A S : Race!Cardinality(S) = Cardinality(S)
  BY RaceFinite DEF Race!Cardinality, Cardinality

\* The first elements of a list.
LEMMA Capped ==
  ASSUME NEW S, NEW list \in Seq(S), NEW max \in Nat, NEW n \in Nat, n <= max, n <= Len(list)
  PROVE  SubSeq(list, 1, n) \in Seq(S) /\ Len(SubSeq(list, 1, n)) <= max
  OBVIOUS

\* The types of the visitor table.
LEMMA RaceTypeInit == ASSUME Race!VisitorsAssumption PROVE Race!Init => Race!TypeOK
  <1> SUFFICES ASSUME Race!Init PROVE Race!TypeOK
    OBVIOUS
  <1>1. IsFiniteSet(flight) /\ Cardinality(flight) = 0
    BY FS_EmptySet DEF Race!Init
  <1>2. Race!IsFiniteSet(flight) /\ Race!Cardinality(flight) = 0
    BY <1>1, RaceFinite, RaceCardinality
  <1>3. IsFiniteSet(Tab) /\ Cardinality(Tab) \in Nat
    BY RaceFinite, FS_CardinalityType DEF Race!VisitorsAssumption
  <1>4. Race!Cardinality(Tab) \in Nat
    BY <1>3, RaceCardinality
  <1>5. /\ StaleAfter \in Nat /\ MAX_FEED \in Nat /\ MAX_LISTED \in Nat /\ MaxFlight \in Nat
        /\ MaxLost \in Nat /\ MaxMoves \in Nat
    BY DEF Race!VisitorsAssumption
  <1>6. visitors \in [Tab -> 0..Race!Gone] /\ shown \in [Tab -> 0..Race!Cardinality(Tab)]
    BY <1>4, <1>5 DEF Race!Init, Race!Gone
  <1>7. {feed, items} \subseteq Seq(Tab) /\ Len(feed) = 0 /\ Len(items) = 0
    BY DEF Race!Init
  <1>8. Race!Cardinality(flight) <= MaxFlight /\ Len(feed) <= MAX_FEED /\ Len(items) <= MAX_LISTED
    BY <1>2, <1>5, <1>7
  <1>9. due \subseteq open /\ open \subseteq Tab /\ announced \subseteq Tab /\ answers = {} /\ repeated \in BOOLEAN
    BY DEF Race!Init
  <1>10. lost \in 0..MaxLost /\ moves \in 0..MaxMoves
    BY <1>5 DEF Race!Init
  <1> QED
    BY <1>2, <1>6, <1>7, <1>8, <1>9, <1>10 DEF Race!TypeOK

\* The visitors left, with the one that was just heard of.
LEMMA AnswerType ==
  ASSUME Race!VisitorsAssumption, NEW t \in Tab, visitors'[t] # Race!Gone
  PROVE  Race!Answer(t).tab = t /\ Race!Answer(t).total \in 1..Race!Cardinality(Tab)
  <1> DEFINE U == {u \in Tab : visitors'[u] # Race!Gone}
  <1>1. IsFiniteSet(Tab)
    BY RaceFinite DEF Race!VisitorsAssumption
  <1>2. U \subseteq Tab /\ t \in U /\ Race!Answer(t) = [tab |-> t, total |-> Race!Cardinality(U)]
    BY DEF Race!Answer
  <1> HIDE DEF U
  <1>3. IsFiniteSet(U) /\ Cardinality(U) <= Cardinality(Tab)
    BY <1>1, <1>2, FS_Subset
  <1>4. Cardinality(U) \in Nat /\ Cardinality(Tab) \in Nat /\ Cardinality(U) # 0
    BY <1>1, <1>2, <1>3, FS_CardinalityType, FS_EmptySet
  <1>5. Race!Cardinality(U) = Cardinality(U) /\ Race!Cardinality(Tab) = Cardinality(Tab)
    BY RaceCardinality
  <1> QED
    BY <1>2, <1>3, <1>4, <1>5

\* What the removal of stale visitors leaves.
LEMMA CleanedTypes ==
  ASSUME Race!VisitorsAssumption, NEW table \in [Tab -> 0..Race!Gone], NEW known, known \subseteq Tab,
         Race!clean_stale_visitors(table, known)
  PROVE  /\ visitors' \in [Tab -> 0..Race!Gone] /\ announced' \subseteq Tab
         /\ \A t \in Tab : table[t] = 0 => visitors'[t] # Race!Gone
  <1>1. StaleAfter \in Nat \ {0} /\ Race!Gone = StaleAfter + 2
    BY DEF Race!Gone, Race!VisitorsAssumption
  <1>2. PICK old \in SUBSET {t \in Tab : table[t] \in StaleAfter..StaleAfter + 1} :
          visitors' = [t \in Tab |-> IF t \in old THEN Race!Gone ELSE table[t]] /\ announced' = known \ old
    BY DEF Race!clean_stale_visitors
  <1>3. Race!Gone \in 0..Race!Gone /\ 0 # Race!Gone /\ 0 \notin StaleAfter..StaleAfter + 1
    BY <1>1
  <1> QED
    BY <1>2, <1>3

\* Every step keeps them: a request under way is dropped before it is replaced.
LEMMA RaceTypeNext ==
  ASSUME Race!VisitorsAssumption, Race!TypeOK, Race!Requests, [Race!Next]_(Race!vars) PROVE Race!TypeOK'
  <1> USE DEF Race!TypeOK
  <1>g. /\ StaleAfter \in Nat \ {0} /\ Race!Gone = StaleAfter + 2 /\ MAX_FEED \in Nat \ {0} /\ MAX_LISTED \in Nat \ {0}
        /\ MaxFlight \in Nat /\ MaxLost \in Nat /\ MaxMoves \in Nat
    BY DEF Race!Gone, Race!VisitorsAssumption
  <1>c. Race!Cardinality(Tab) \in Nat
    BY RaceFinite, RaceCardinality, FS_CardinalityType DEF Race!VisitorsAssumption
  <1>f. IsFiniteSet(flight) /\ Cardinality(flight) \in Nat /\ Cardinality(flight) <= MaxFlight
    BY RaceFinite, RaceCardinality, FS_CardinalityType
  <1>k. ASSUME IsFiniteSet(flight'), Cardinality(flight') <= MaxFlight
        PROVE  Race!IsFiniteSet(flight)' /\ (Race!Cardinality(flight) <= MaxFlight)'
    BY <1>k, RaceFinite, RaceCardinality DEF Race!IsFiniteSet, Race!Cardinality
  <1>1. CASE Race!Tick
    <2>1. \A n \in 0..Race!Gone : Race!Older(n) \in 0..Race!Gone
      BY <1>g DEF Race!Older
    <2> QED
      BY <1>1, <2>1 DEF Race!Tick
  <1>2. CASE Race!PollActivity
    <2>1. visitors' \in [Tab -> 0..Race!Gone] /\ announced' \subseteq Tab
      BY <1>2, CleanedTypes DEF Race!PollActivity
    <2>2. items' \in Seq(Tab) /\ Len(items') <= MAX_LISTED
      <3> DEFINE n == IF Len(feed) < MAX_LISTED THEN Len(feed) ELSE MAX_LISTED
      <3>1. feed \in Seq(Tab) /\ n \in Nat /\ n <= MAX_LISTED /\ n <= Len(feed)
        BY <1>g
      <3>2. items' = SubSeq(feed, 1, n)
        BY <1>2 DEF Race!PollActivity
      <3> HIDE DEF n
      <3> QED
        BY <1>g, <3>1, <3>2, Capped
    <2> QED
      BY <1>2, <2>1, <2>2 DEF Race!PollActivity
  <1>3. ASSUME NEW t \in Tab, Race!Open(t) PROVE Race!TypeOK'
    <2>1. moves' \in 0..MaxMoves /\ shown' \in [Tab -> 0..Race!Cardinality(Tab)]
      BY <1>3, <1>g, <1>c DEF Race!Open
    <2> QED
      BY <1>3, <2>1 DEF Race!Open, Race!server
  <1>4. ASSUME NEW t \in Tab, Race!Close(t) PROVE Race!TypeOK'
    <2>1. moves' \in 0..MaxMoves
      BY <1>4, <1>g DEF Race!Close
    <2>2. \A a \in answers' : a.tab \in open' /\ a.total \in 1..Race!Cardinality(Tab)
      BY <1>4 DEF Race!Close
    <2> QED
      BY <1>4, <2>1, <2>2 DEF Race!Close, Race!server
  <1>5. ASSUME NEW t \in Tab, Race!Ping(t) PROVE Race!TypeOK'
    <2>1. lost' \in 0..MaxLost
      BY <1>5, <1>g DEF Race!Ping
    <2>2. IsFiniteSet(flight') /\ Cardinality(flight') <= MaxFlight
      <3>1. CASE UNCHANGED flight
        BY <1>f, <3>1
      <3>2. CASE Race!Cardinality(flight) < MaxFlight /\ flight' = flight \cup {Race!Request(t, Race!FreeNr)}
        <4> DEFINE q == Race!Request(t, Race!FreeNr)
        <4> HIDE DEF q
        <4>1. flight' = flight \cup {q} /\ Cardinality(flight) < MaxFlight
          BY <3>2, RaceCardinality DEF q
        <4>2. /\ IsFiniteSet(flight \cup {q})
              /\ Cardinality(flight \cup {q}) = Cardinality(flight) \/ Cardinality(flight \cup {q}) = Cardinality(flight) + 1
          BY <1>f, FS_AddElement
        <4> QED
          BY <1>f, <1>g, <4>1, <4>2
      <3> QED
        BY <1>5, <3>1, <3>2 DEF Race!Ping
    <2> QED
      BY <1>5, <1>k, <2>1, <2>2 DEF Race!Ping, Race!server
  <1>6. ASSUME NEW r \in flight, Race!Lookup(r) PROVE Race!TypeOK'
    <2>1. IsFiniteSet(flight') /\ Cardinality(flight') <= MaxFlight
      <3> DEFINE q == [r EXCEPT !.lookup = TRUE, !.new = visitors[r.tab] = Race!Gone]
      <3>1. flight' = (flight \ {r}) \cup {q}
        BY <1>6 DEF Race!Lookup
      <3> HIDE DEF q
      <3>2. IsFiniteSet(flight \ {r}) /\ Cardinality(flight \ {r}) = Cardinality(flight) - 1
        BY <1>f, <1>6, FS_RemoveElement
      <3>3. /\ IsFiniteSet((flight \ {r}) \cup {q})
            /\ \/ Cardinality((flight \ {r}) \cup {q}) = Cardinality(flight \ {r})
               \/ Cardinality((flight \ {r}) \cup {q}) = Cardinality(flight \ {r}) + 1
        BY <3>2, FS_AddElement
      <3> QED
        BY <1>f, <1>g, <3>1, <3>2, <3>3
    <2> QED
      BY <1>6, <1>k, <2>1 DEF Race!Lookup, Race!server
  <1>7. ASSUME NEW r \in flight, Race!Register(r) PROVE Race!TypeOK'
    <2> DEFINE new == visitors[r.tab] = Race!Gone
               table == [visitors EXCEPT ![r.tab] = 0]
               known == IF new THEN announced \cup {r.tab} ELSE announced
    <2>1. r.tab \in Tab /\ table \in [Tab -> 0..Race!Gone] /\ table[r.tab] = 0 /\ known \subseteq Tab
      BY <1>g DEF Race!Requests
    <2>2. /\ flight' = flight \ {r} /\ Race!clean_stale_visitors(table, known)
          /\ IF new THEN Race!add_activity(r.tab) ELSE UNCHANGED feed
          /\ repeated' = (repeated \/ (new /\ r.tab \in announced))
          /\ answers' = IF r.tab \in open THEN answers \cup {Race!Answer(r.tab)} ELSE answers
          /\ UNCHANGED <<open, due, shown, items, lost, moves>>
      BY <1>7 DEF Race!Register, Race!Registered
    <2>3. visitors' \in [Tab -> 0..Race!Gone] /\ announced' \subseteq Tab /\ visitors'[r.tab] # Race!Gone
      <3> HIDE DEF table, known
      <3> QED
        BY <2>1, <2>2, CleanedTypes
    <2>4. \A a \in answers' : a.tab \in open' /\ a.total \in 1..Race!Cardinality(Tab)
      <3>1. Race!Answer(r.tab).tab = r.tab /\ Race!Answer(r.tab).total \in 1..Race!Cardinality(Tab)
        BY <2>1, <2>3, AnswerType
      <3> QED
        BY <2>2, <3>1
    <2>5. feed' \in Seq(Tab) /\ Len(feed') <= MAX_FEED
      <3>1. CASE ~new
        BY <2>2, <3>1
      <3>2. CASE new
        <4> DEFINE n == IF Len(feed) < MAX_FEED THEN Len(feed) + 1 ELSE MAX_FEED
                   s == <<r.tab>> \o feed
        <4>1. s \in Seq(Tab) /\ Len(s) = Len(feed) + 1 /\ Len(feed) \in Nat /\ Len(feed) <= MAX_FEED
          BY <2>1
        <4>2. feed' = SubSeq(s, 1, n)
          BY <2>2, <3>2 DEF Race!add_activity
        <4> HIDE DEF s
        <4>3. n \in Nat /\ n <= MAX_FEED /\ n <= Len(s)
          BY <1>g, <4>1
        <4> HIDE DEF n
        <4> QED
          BY <1>g, <4>1, <4>2, <4>3, Capped
      <3> QED
        BY <3>1, <3>2
    <2>6. IsFiniteSet(flight') /\ Cardinality(flight') <= MaxFlight
      <3>1. IsFiniteSet(flight \ {r}) /\ Cardinality(flight \ {r}) = Cardinality(flight) - 1
        BY <1>f, <1>7, FS_RemoveElement
      <3> QED
        BY <1>f, <1>g, <2>2, <3>1
    <2>7. repeated' \in BOOLEAN
      BY <2>2
    <2> HIDE DEF table, known, new
    <2> QED
      BY <1>k, <2>2, <2>3, <2>4, <2>5, <2>6, <2>7
  <1>8. ASSUME NEW a \in answers, Race!Receive(a) PROVE Race!TypeOK'
    <2>1. a.tab \in Tab /\ a.total \in 0..Race!Cardinality(Tab)
      BY <1>c
    <2>2. shown' \in [Tab -> 0..Race!Cardinality(Tab)]
      BY <1>8, <2>1 DEF Race!Receive
    <2> QED
      BY <1>8, <2>2 DEF Race!Receive, Race!server
  <1>9. CASE UNCHANGED Race!vars
    BY <1>9 DEF Race!vars, Race!server
  <1> QED
    BY <1>1, <1>2, <1>3, <1>4, <1>5, <1>6, <1>7, <1>8, <1>9 DEF Race!Next
-----------------------------------------------------------------------------
(* StoragePanel: the bucket and the loads. *)

\* The bucket's keys up to the i-th, in order, as a function that can be continued.
Selects(k, g) ==
  g = [i \in 0..k |-> IF i = 0 THEN <<>> ELSE IF Keys[i] \in bucket THEN Append(g[i - 1], Keys[i]) ELSE g[i - 1]]

\* It exists for every length, or else there would be a least one for which it does not.
LEMMA SelectExists ==
  ASSUME NEW k \in Nat
  PROVE  \E g : Selects(k, g)
  <1> DEFINE S == {m \in Nat : ~ \E g : Selects(m, g)}
             Then(g, i) == IF Keys[i] \in bucket THEN Append(g[i - 1], Keys[i]) ELSE g[i - 1]
  <1>1. SUFFICES ASSUME S # {} PROVE FALSE
    OBVIOUS
  <1>2. PICK m \in S : \A x \in S : m <= x
    BY <1>1, MinExists
  <1>3. m # 0
    <2>1. Selects(0, [i \in 0..0 |-> <<>>])
      BY DEF Selects
    <2> QED
      BY <2>1
  <1>4. PICK g : Selects(m - 1, g)
    <2>1. m - 1 \in Nat /\ m - 1 \notin S
      BY <1>2, <1>3
    <2> QED
      BY <2>1
  <1> DEFINE h == [i \in 0..m |-> IF i = m THEN Then(g, m) ELSE g[i]]
  <1>5. ASSUME NEW i \in 0..m
        PROVE  h[i] = IF i = 0 THEN <<>> ELSE Then(h, i)
    <2>1. CASE i = m
      <3>1. m - 1 \in 0..m /\ m - 1 # m
        BY <1>3
      <3> QED
        BY <1>3, <2>1, <3>1
    <2>2. CASE i # m
      <3>1. i \in 0..(m - 1) /\ (i # 0 => i - 1 \in 0..(m - 1) /\ i - 1 # m)
        BY <2>2
      <3>2. g[i] = IF i = 0 THEN <<>> ELSE Then(g, i)
        BY <1>4, <3>1 DEF Selects
      <3> QED
        BY <2>2, <3>1, <3>2
    <2> QED
      BY <2>1, <2>2
  <1>6. Selects(m, h)
    BY <1>5 DEF Selects
  <1> QED
    BY <1>6

\* The listing has keys of the bucket.
LEMMA InBucketIs ==
  ASSUME Keys \in Seq(Storage!Key), bucket \subseteq Storage!Key
  PROVE  Storage!InBucket \in Seq(bucket)
  <1>1. Len(Keys) \in Nat
    OBVIOUS
  <1>2. PICK g : Selects(Len(Keys), g)
    BY <1>1, SelectExists
  <1>3. PICK f : Selects(Len(Keys), f) /\ Storage!InBucket = f[Len(Keys)]
    BY <1>1, <1>2 DEF Selects, Storage!InBucket
  <1> DEFINE S == {m \in 0..Len(Keys) : f[m] \notin Seq(bucket)}
  <1>4. SUFFICES ASSUME S # {} PROVE FALSE
    BY <1>1, <1>3
  <1>5. PICK m \in S : \A x \in S : m <= x
    <2>1. S \subseteq Nat
      OBVIOUS
    <2> QED
      BY <1>4, <2>1, MinExists
  <1>6. m \in 0..Len(Keys) /\ f[m] \notin Seq(bucket)
    OBVIOUS
  <1>7. f[m] = IF m = 0 THEN <<>> ELSE IF Keys[m] \in bucket THEN Append(f[m - 1], Keys[m]) ELSE f[m - 1]
    BY <1>3, <1>6 DEF Selects
  <1>8. m # 0 => f[m - 1] \in Seq(bucket)
    <2>1. m # 0 => m - 1 \in 0..Len(Keys) /\ m - 1 \notin S
      BY <1>1, <1>5, <1>6
    <2> QED
      BY <2>1
  <1> QED
    BY <1>6, <1>7, <1>8

\* A page of it has no more keys than asked for.
LEMMA ListingIs ==
  ASSUME Storage!StorageAssumption, bucket \subseteq Storage!Key
  PROVE  /\ Storage!Listing(MaxKeys) \in Seq(bucket) /\ Len(Storage!Listing(MaxKeys)) <= MaxKeys
         /\ Storage!Listing(MaxKeys) \in Seq(Storage!Key)
         /\ \A i \in DOMAIN Storage!Listing(MaxKeys) : Storage!Listing(MaxKeys)[i] \in bucket
  <1> DEFINE all == Storage!InBucket
             n == IF Len(all) < MaxKeys THEN Len(all) ELSE MaxKeys
  <1>1. all \in Seq(bucket) /\ MaxKeys \in Nat
    BY InBucketIs DEF Storage!StorageAssumption
  <1> HIDE DEF all
  <1>2. n \in 0..Len(all) /\ n <= MaxKeys
    BY <1>1
  <1> HIDE DEF n
  <1>3. SubSeq(all, 1, n) \in Seq(bucket) /\ Len(SubSeq(all, 1, n)) <= MaxKeys
    BY <1>1, <1>2
  <1>4. Storage!Listing(MaxKeys) = SubSeq(all, 1, n)
    BY DEF Storage!Listing, all, n
  <1> HIDE DEF all
  <1>5. Storage!Listing(MaxKeys) \in Seq(bucket)
    BY <1>3, <1>4
  <1> QED
    BY <1>3, <1>4, <1>5, SeqWider

\* The types of the storage panel.
LEMMA StorageInit ==
  ASSUME Storage!StorageAssumption PROVE Storage!Init => Storage!TypeOK
  <1>1. MaxKeys \in Nat /\ MaxFlight \in Nat /\ MaxClicks \in Nat /\ MaxWrites \in Nat
    BY DEF Storage!StorageAssumption
  <1>2. <<>> \in Seq(Storage!Key) /\ Len(<<>>) = 0
    OBVIOUS
  <1> QED
    <2> SUFFICES ASSUME Storage!Init PROVE Storage!TypeOK
      OBVIOUS
    <2>0. truncated \in BOOLEAN
      BY Zenon DEF Storage!Init
    <2>1. bucket \subseteq Storage!Key /\ files \in Seq(Storage!Key) /\ Len(files) <= MaxKeys
      BY <1>1, <1>2 DEF Storage!Init
    <2>2. expandedManifest \in Storage!Key \cup {None} /\ manifestContent \in Storage!Key \cup {None, Error}
      BY DEF Storage!Init
    <2>3. flight \in Seq(Storage!Key) /\ Len(flight) <= MaxFlight /\ clicks \in 0..MaxClicks /\ writes \in 0..MaxWrites
      BY <1>1, <1>2 DEF Storage!Init
    <2> QED
      BY <2>0, <2>1, <2>2, <2>3 DEF Storage!TypeOK

\* One load less under way.
LEMMA LoadsLess ==
  ASSUME NEW S, NEW s \in Seq(S), NEW i \in DOMAIN s
  PROVE  /\ SubSeq(s, 1, i - 1) \o SubSeq(s, i + 1, Len(s)) \in Seq(S)
         /\ Len(SubSeq(s, 1, i - 1) \o SubSeq(s, i + 1, Len(s))) = Len(s) - 1
  <1>1. i \in 1..Len(s) /\ Len(s) \in Nat
    OBVIOUS
  <1> DEFINE before == SubSeq(s, 1, i - 1)
             after == SubSeq(s, i + 1, Len(s))
  <1>2. before \in Seq(S) /\ Len(before) = i - 1
    BY <1>1
  <1>3. after \in Seq(S) /\ Len(after) = Len(s) - i
    BY <1>1
  <1> HIDE DEF before, after
  <1>4. before \o after \in Seq(S) /\ Len(before \o after) = Len(before) + Len(after)
    BY <1>2, <1>3
  <1>5. Len(before \o after) = Len(s) - 1
    BY <1>1, <1>2, <1>3, <1>4
  <1> QED
    BY <1>4, <1>5 DEF before, after

\* Every step keeps them: what is listed is in the bucket.
LEMMA StorageNext ==
  ASSUME Storage!StorageAssumption, Storage!TypeOK, [Storage!Next]_(Storage!vars) PROVE Storage!TypeOK'
  <1> USE DEF Storage!TypeOK
  <1>k. None \notin Storage!Key /\ MaxKeys \in Nat \ {0} /\ MaxFlight \in Nat /\ MaxClicks \in Nat /\ MaxWrites \in Nat
    BY DEF Storage!StorageAssumption
  <1>1. CASE Storage!demo_storage
    <2>1. (Len(Storage!InBucket) > MaxKeys) \in BOOLEAN
      OBVIOUS
    <2>2. files' \in Seq(Storage!Key) /\ Len(files') <= MaxKeys /\ truncated' \in BOOLEAN
      BY <1>1, <2>1, ListingIs DEF Storage!demo_storage, Storage!Showing
    <2> QED
      BY <1>1, <2>2 DEF Storage!demo_storage, Storage!Showing
  <1>2. CASE Storage!StorageFails
    <2>1. files' = <<>> /\ truncated' \in BOOLEAN /\ UNCHANGED <<bucket, expandedManifest, manifestContent, flight, clicks, writes>>
      BY <1>2, Zenon DEF Storage!StorageFails, Storage!Showing
    <2>2. files' \in Seq(Storage!Key) /\ Len(files') <= MaxKeys
      BY <1>k, <2>1
    <2> QED
      BY <2>1, <2>2
  <1>3. ASSUME NEW k \in Storage!Key, Storage!Write(k) PROVE Storage!TypeOK'
    <2>1. writes' \in 0..MaxWrites /\ bucket' \subseteq Storage!Key
      BY <1>k, <1>3 DEF Storage!Write
    <2>2. UNCHANGED <<files, truncated, expandedManifest, manifestContent, flight, clicks>>
      BY <1>3 DEF Storage!Write
    <2> QED
      BY <2>1, <2>2
  <1>4. ASSUME NEW k \in Storage!Key, Storage!Click(k) PROVE Storage!TypeOK'
    <2>1. clicks' \in 0..MaxClicks /\ UNCHANGED <<bucket, files, truncated, manifestContent, writes>>
      BY <1>k, <1>4 DEF Storage!Click
    <2>2. CASE expandedManifest' = None /\ UNCHANGED flight
      BY <2>1, <2>2
    <2>3. CASE Len(flight) < MaxFlight /\ expandedManifest' = k /\ flight' = Append(flight, k)
      <3>1. flight' \in Seq(Storage!Key) /\ Len(flight') = Len(flight) + 1 /\ Len(flight) \in Nat
        BY <1>4, <2>3
      <3>2. Len(flight') <= MaxFlight
        BY <1>k, <2>3, <3>1
      <3> QED
        BY <1>4, <2>1, <2>3, <3>1, <3>2
    <2> QED
      BY <1>4, <2>2, <2>3 DEF Storage!Click
  <1>5. ASSUME NEW i \in DOMAIN flight, Storage!Loaded(i) \/ Storage!NotFound(i) \/ Storage!LoadFails(i)
        PROVE  Storage!TypeOK'
    <2>0. PICK content \in {flight[i], manifestContent, Error} : Storage!Answered(i, content)
      BY <1>5 DEF Storage!Loaded, Storage!NotFound, Storage!LoadFails
    <2>1. flight \in Seq(Storage!Key) /\ flight[i] \in Storage!Key /\ Len(flight) \in Nat
      BY <1>5
    <2>2. flight' \in Seq(Storage!Key) /\ Len(flight') = Len(flight) - 1
      BY <2>0, <2>1, LoadsLess DEF Storage!Answered
    <2>3. Len(flight') <= MaxFlight
      BY <1>k, <2>1, <2>2
    <2>4. manifestContent' \in Storage!Key \cup {None, Error} /\ UNCHANGED <<bucket, files, truncated, expandedManifest, clicks, writes>>
      BY <2>0, <2>1 DEF Storage!Answered
    <2> QED
      BY <2>2, <2>3, <2>4
  <1>6. CASE UNCHANGED Storage!vars
    BY <1>6 DEF Storage!vars
  <1> QED
    BY <1>1, <1>2, <1>3, <1>4, <1>5, <1>6 DEF Storage!Next

\* Nothing is opened or under way.
LEMMA OneLoadInit == OneLoad!Init => OneLoad!OwnInv
  BY DEF OneLoad!Init, OneLoad!OwnInv, OneLoad!Listed

\* While a manifest is loading no other can be opened, and its file stays.
LEMMA OneLoadNext ==
  ASSUME OneLoad!StorageAssumption, OneLoad!OwnInv, [OneLoad!Next]_(OneLoad!vars) PROVE OneLoad!OwnInv'
  <1> USE DEF OneLoad!OwnInv
  <1>1. CASE OneLoad!demo_storage
    <2>1. files' = OneLoad!Listing(MaxKeys) /\ UNCHANGED <<bucket, expandedManifest, manifestContent, flight, clicks, writes>>
      BY <1>1 DEF OneLoad!demo_storage, OneLoad!Showing
    <2>2. OneLoad!Listing(MaxKeys) \in Seq(bucket)
      <3>1. OneLoad!Key = Storage!Key /\ OneLoad!InBucket = Storage!InBucket
        BY DEF OneLoad!Key, Storage!Key, OneLoad!InBucket, Storage!InBucket
      <3>2. OneLoad!InBucket \in Seq(bucket) /\ MaxKeys \in Nat
        BY <3>1, InBucketIs DEF OneLoad!StorageAssumption
      <3> QED
        BY <3>2 DEF OneLoad!Listing
    <2> QED
      BY <2>1, <2>2 DEF OneLoad!Listed
  <1>2. CASE OneLoad!StorageFails
    BY <1>2 DEF OneLoad!StorageFails
  <1>3. ASSUME NEW k \in OneLoad!Key, OneLoad!Write(k) PROVE FALSE
    BY <1>3 DEF OneLoad!Write
  <1>4. ASSUME NEW k \in OneLoad!Key, OneLoad!Click(k) PROVE OneLoad!OwnInv'
    <2>1. k \in bucket /\ UNCHANGED <<bucket, files, manifestContent, writes>>
      BY <1>4 DEF OneLoad!Click
    <2>2. CASE expandedManifest' = None /\ UNCHANGED flight
      BY <2>1, <2>2 DEF OneLoad!Listed
    <2>3. CASE Len(flight) < 1 /\ expandedManifest' = k /\ flight' = Append(flight, k)
      <3>1. flight = <<>>
        BY <2>3
      <3>2. flight' = <<k>>
        BY <2>3, <3>1
      <3> QED
        BY <2>1, <2>3, <3>2 DEF OneLoad!Listed
    <2> QED
      BY <1>4, <2>2, <2>3 DEF OneLoad!Click
  <1>5. ASSUME NEW i \in DOMAIN flight, OneLoad!Loaded(i) \/ OneLoad!NotFound(i) \/ OneLoad!LoadFails(i)
        PROVE  OneLoad!OwnInv'
    <2>1. PICK k \in bucket : flight = <<k>> /\ expandedManifest \in {None, k}
      BY <1>5
    <2>2. i = 1 /\ flight[i] = k /\ Len(flight) = 1
      BY <1>5, <2>1
    <2>3. OneLoad!Answered(i, k)
      BY <1>5, <2>1, <2>2 DEF OneLoad!Loaded, OneLoad!NotFound, OneLoad!LoadFails
    <2>4. flight' = <<>>
      <3>1. SubSeq(flight, 1, 0) = <<>> /\ SubSeq(flight, 2, 1) = <<>>
        BY <2>1
      <3>2. flight' = SubSeq(flight, 1, 0) \o SubSeq(flight, 2, 1)
        BY <2>2, <2>3 DEF OneLoad!Answered
      <3> QED
        BY <3>1, <3>2
    <2> QED
      BY <2>1, <2>3, <2>4 DEF OneLoad!Answered, OneLoad!Listed
  <1>6. CASE UNCHANGED OneLoad!vars
    BY <1>6 DEF OneLoad!vars, OneLoad!Listed
  <1> QED
    BY <1>1, <1>2, <1>3, <1>4, <1>5, <1>6 DEF OneLoad!Next

\* So the manifest that is shown is that of the file that is opened.
LEMMA OneLoadOwn == OneLoad!StorageAssumption /\ OneLoad!OwnInv => OneLoad!OpenedIsOwn
  BY DEF OneLoad!StorageAssumption, OneLoad!OwnInv, OneLoad!OpenedIsOwn, OneLoad!Drawn
-----------------------------------------------------------------------------
(* StoragePanel: the tree. *)

\* A place of the tree, and trees whose files are in lists.
At(tree, r, c, i) == r \in DOMAIN tree /\ c \in DOMAIN tree[r] /\ i \in DOMAIN tree[r][c]
IsTree(tree, S) == \A r \in DOMAIN tree : \A c \in DOMAIN tree[r] : tree[r][c] \in Seq(S)

\* The instance counts the elements of a set as FiniteSets does.
LEMMA StorageCardinality == \A S : Storage!Cardinality(S) = Cardinality(S)
  <1>1. \A S : Storage!IsFiniteSet(S) <=> IsFiniteSet(S)
    BY DEF Storage!IsFiniteSet, IsFiniteSet
  <1> QED
    BY <1>1 DEF Storage!Cardinality, Cardinality

\* The places of a tree are where it has a file.
LEMMA PlacesAre ==
  ASSUME NEW tree
  PROVE  /\ \A r, c, i : At(tree, r, c, i) => <<r, c, i>> \in Storage!Places(tree)
         /\ \A p \in Storage!Places(tree) : \E r, c, i : p = <<r, c, i>> /\ At(tree, r, c, i)
  BY DEF At, Storage!Places

\* Pushing a file adds one place, for that file.
Adds(tree, new, f, n) ==
  /\ ~At(tree, f.run, f.ckpt, n) /\ At(new, f.run, f.ckpt, n) /\ new[f.run][f.ckpt][n] = f
  /\ \A r, c, i : At(new, r, c, i) => At(tree, r, c, i) \/ (r = f.run /\ c = f.ckpt /\ i = n)
  /\ \A r, c, i : At(tree, r, c, i) => At(new, r, c, i) /\ new[r][c][i] = tree[r][c][i]
\* It does: the runs and checkpoints it does not name keep their files.
LEMMA PushIs ==
  ASSUME NEW S, NEW tree, IsTree(tree, S), NEW f \in S
  PROVE  IsTree(Storage!push(tree, f), S) /\ \E n : Adds(tree, Storage!push(tree, f), f, n)
  <1> DEFINE R == f.run
             C == f.ckpt
             ofRun == Storage!get(tree, R)
             list == Storage!get(ofRun, C)
             longer == Append(list, f)
             newRun == Storage!set(ofRun, C, longer)
             new == Storage!push(tree, f)
             n == Len(list) + 1
  <1>1. ofRun = IF R \in DOMAIN tree THEN tree[R] ELSE <<>>
    BY DEF Storage!get
  <1>2. list = IF C \in DOMAIN ofRun THEN ofRun[C] ELSE <<>>
    BY DEF Storage!get
  <1>3. DOMAIN newRun = DOMAIN ofRun \cup {C} /\ newRun[C] = longer /\ \A c \in DOMAIN ofRun \ {C} : newRun[c] = ofRun[c]
    BY DEF Storage!set
  <1>4. DOMAIN new = DOMAIN tree \cup {R} /\ new[R] = newRun /\ \A r \in DOMAIN tree \ {R} : new[r] = tree[r]
    BY DEF Storage!push, Storage!set
  <1> HIDE DEF ofRun, list, newRun, new
  <1>5. DOMAIN <<>> = {}
    OBVIOUS
  <1>6. list \in Seq(S)
    <2>1. C \in DOMAIN ofRun => R \in DOMAIN tree /\ ofRun = tree[R]
      BY <1>1, <1>5
    <2>2. CASE C \in DOMAIN ofRun
      BY <1>2, <2>1, <2>2 DEF IsTree
    <2>3. CASE C \notin DOMAIN ofRun
      BY <1>2, <2>3
    <2> QED
      BY <2>2, <2>3
  <1>7. /\ longer \in Seq(S) /\ DOMAIN longer = DOMAIN list \cup {n} /\ n \notin DOMAIN list /\ longer[n] = f
        /\ \A i \in DOMAIN list : longer[i] = list[i]
    BY <1>6
  <1> HIDE DEF longer, n
  <1>8. \A c, i : At(tree, R, c, i) <=> c \in DOMAIN ofRun /\ i \in DOMAIN ofRun[c]
    BY <1>1, <1>5 DEF At
  <1>9. \A i : At(tree, R, C, i) <=> i \in DOMAIN list
    BY <1>2, <1>5, <1>8
  <1>10. IsTree(new, S)
    <2>1. ASSUME NEW c \in DOMAIN newRun PROVE newRun[c] \in Seq(S)
      BY <1>1, <1>3, <1>5, <1>7 DEF IsTree
    <2> QED
      BY <1>4, <2>1 DEF IsTree
  <1>11. ASSUME NEW r, NEW c, NEW i
         PROVE  /\ At(new, r, c, i) => At(tree, r, c, i) \/ (r = R /\ c = C /\ i = n)
                /\ At(tree, r, c, i) => At(new, r, c, i) /\ new[r][c][i] = tree[r][c][i]
    <2>1. CASE r # R
      BY <1>4, <2>1 DEF At
    <2>2. CASE r = R /\ c # C
      <3>1. At(new, R, c, i) <=> c \in DOMAIN ofRun /\ i \in DOMAIN ofRun[c]
        BY <1>3, <1>4, <2>2 DEF At
      <3>2. c \in DOMAIN ofRun => R \in DOMAIN tree /\ new[R][c] = tree[R][c]
        BY <1>1, <1>3, <1>4, <1>5, <2>2
      <3> QED
        BY <1>8, <2>2, <3>1, <3>2 DEF At
    <2>3. CASE r = R /\ c = C
      <3>1. At(new, R, C, i) <=> i \in DOMAIN longer
        BY <1>3, <1>4 DEF At
      <3>2. new[R][C] = longer
        BY <1>3, <1>4
      <3>3. At(tree, R, C, i) => tree[R][C] = list
        BY <1>1, <1>2, <1>5 DEF At
      <3> QED
        BY <1>7, <1>9, <2>3, <3>1, <3>2, <3>3
    <2> QED
      BY <2>1, <2>2, <2>3
  <1>12. ~At(tree, R, C, n) /\ At(new, R, C, n) /\ new[R][C][n] = f
    BY <1>3, <1>4, <1>7, <1>9 DEF At
  <1>13. Adds(tree, new, f, n)
    BY <1>11, <1>12 DEF Adds
  <1> QED
    BY <1>10, <1>13 DEF new

\* A tree of some files draws each of them; so does the tree with another one.
LEMMA PushDraws ==
  ASSUME NEW S, NEW list \in Seq(S), NEW k \in 1..Len(list), NEW tree,
         IsTree(tree, S), IsFiniteSet(Storage!Places(tree)), Storage!Draws(tree, list, k - 1)
  PROVE  LET new == Storage!push(tree, list[k]) IN
         IsTree(new, S) /\ IsFiniteSet(Storage!Places(new)) /\ Storage!Draws(new, list, k)
  <1> DEFINE f == list[k]
             new == Storage!push(tree, f)
             old == Storage!Places(tree)
  <1>1. f \in S /\ k - 1 \in Nat
    OBVIOUS
  <1> HIDE DEF f
  <1>2. IsTree(new, S)
    BY <1>1, PushIs
  <1>a. PICK n : Adds(tree, new, f, n)
    BY <1>1, PushIs
  <1>3. /\ ~At(tree, f.run, f.ckpt, n) /\ At(new, f.run, f.ckpt, n) /\ new[f.run][f.ckpt][n] = f
        /\ \A r, c, i : At(new, r, c, i) => At(tree, r, c, i) \/ (r = f.run /\ c = f.ckpt /\ i = n)
        /\ \A r, c, i : At(tree, r, c, i) => At(new, r, c, i) /\ new[r][c][i] = tree[r][c][i]
    BY <1>a DEF Adds
  <1> DEFINE q == <<f.run, f.ckpt, n>>
  <1> HIDE DEF new
  <1>4. q \notin old
    <2> SUFFICES ASSUME q \in old PROVE FALSE
      OBVIOUS
    <2>1. PICK r, c, i : q = <<r, c, i>> /\ At(tree, r, c, i)
      BY PlacesAre
    <2>2. r = f.run /\ c = f.ckpt /\ i = n
      BY <2>1
    <2> QED
      BY <1>3, <2>1, <2>2
  <1>5. Storage!Places(new) = old \cup {q}
    <2>1. ASSUME NEW p \in Storage!Places(new) PROVE p \in old \cup {q}
      <3>1. PICK r, c, i : p = <<r, c, i>> /\ At(new, r, c, i)
        BY <2>1, PlacesAre
      <3> QED
        BY <1>3, <3>1, PlacesAre
    <2>2. ASSUME NEW p \in old PROVE p \in Storage!Places(new)
      <3>1. PICK r, c, i : p = <<r, c, i>> /\ At(tree, r, c, i)
        BY <2>2, PlacesAre
      <3> QED
        BY <1>3, <3>1, PlacesAre
    <2>3. q \in Storage!Places(new)
      BY <1>3, PlacesAre
    <2> QED
      BY <2>1, <2>2, <2>3
  <1>6. ASSUME NEW p \in old PROVE Storage!FileAt(new, p) = Storage!FileAt(tree, p)
    <2>1. PICK r, c, i : p = <<r, c, i>> /\ At(tree, r, c, i)
      BY <1>6, PlacesAre
    <2>2. p[1] = r /\ p[2] = c /\ p[3] = i /\ new[r][c][i] = tree[r][c][i]
      BY <1>3, <2>1
    <2> QED
      BY <2>2 DEF Storage!FileAt
  <1>7. Storage!FileAt(new, q) = f /\ q[1] = f.run /\ q[2] = f.ckpt
    BY <1>3 DEF Storage!FileAt
  <1> HIDE DEF q, old
  <1>8. IsFiniteSet(Storage!Places(new)) /\ Storage!Cardinality(Storage!Places(new)) = k
    <2>1. IsFiniteSet(old) /\ Cardinality(old) = k - 1
      BY StorageCardinality DEF Storage!Draws, old
    <2>2. IsFiniteSet(old \cup {q}) /\ Cardinality(old \cup {q}) = k - 1 + 1
      BY <1>4, <2>1, FS_AddElement
    <2>3. k - 1 + 1 = k
      BY <1>1
    <2> QED
      BY <1>5, <2>2, <2>3, StorageCardinality
  <1>9. {Storage!FileAt(new, p) : p \in Storage!Places(new)} = {list[i] : i \in 1..k}
    <2>1. {Storage!FileAt(tree, p) : p \in old} = {list[i] : i \in 1..(k - 1)}
      BY DEF Storage!Draws, old
    <2>2. {Storage!FileAt(new, p) : p \in old \cup {q}} = {Storage!FileAt(tree, p) : p \in old} \cup {f}
      BY <1>6, <1>7
    <2>3. {list[i] : i \in 1..k} = {list[i] : i \in 1..(k - 1)} \cup {f}
      <3>1. 1..k = 1..(k - 1) \cup {k}
        BY <1>1
      <3> QED
        BY <3>1 DEF f
    <2> QED
      BY <1>5, <2>1, <2>2, <2>3
  <1>10. \A p \in Storage!Places(new) : Storage!FileAt(new, p).run = p[1] /\ Storage!FileAt(new, p).ckpt = p[2]
    <2>1. \A p \in old : Storage!FileAt(tree, p).run = p[1] /\ Storage!FileAt(tree, p).ckpt = p[2]
      BY DEF Storage!Draws, old
    <2> QED
      BY <1>5, <1>6, <1>7, <2>1
  <1> QED
    BY <1>2, <1>8, <1>9, <1>10 DEF Storage!Draws, new, f

\* The trees of the first files of a list, as a function that can be continued.
Grows(list, k, g) == g = [i \in 0..k |-> IF i = 0 THEN <<>> ELSE Storage!push(g[i - 1], list[i])]

\* They exist for every length, or else there would be a least one for which they do not.
LEMMA TreesExist ==
  ASSUME NEW list, NEW k \in Nat
  PROVE  \E g : Grows(list, k, g)
  <1> DEFINE S == {m \in Nat : ~ \E g : Grows(list, m, g)}
  <1>1. SUFFICES ASSUME S # {} PROVE FALSE
    OBVIOUS
  <1>2. PICK m \in S : \A x \in S : m <= x
    BY <1>1, MinExists
  <1>3. m # 0
    <2>1. Grows(list, 0, [i \in 0..0 |-> <<>>])
      BY DEF Grows
    <2> QED
      BY <2>1
  <1>4. PICK g : Grows(list, m - 1, g)
    <2>1. m - 1 \in Nat /\ m - 1 \notin S
      BY <1>2, <1>3
    <2> QED
      BY <2>1
  <1> DEFINE h == [i \in 0..m |-> IF i = m THEN Storage!push(g[m - 1], list[m]) ELSE g[i]]
  <1>5. ASSUME NEW i \in 0..m
        PROVE  h[i] = IF i = 0 THEN <<>> ELSE Storage!push(h[i - 1], list[i])
    <2>1. CASE i = m
      <3>1. m - 1 \in 0..m /\ m - 1 # m
        BY <1>3
      <3> QED
        BY <1>3, <2>1, <3>1
    <2>2. CASE i # m
      <3>1. i \in 0..(m - 1) /\ (i # 0 => i - 1 \in 0..(m - 1) /\ i - 1 # m)
        BY <2>2
      <3>2. g[i] = IF i = 0 THEN <<>> ELSE Storage!push(g[i - 1], list[i])
        BY <1>4, <3>1 DEF Grows
      <3> QED
        BY <2>2, <3>1, <3>2
    <2> QED
      BY <2>1, <2>2
  <1>6. Grows(list, m, h)
    BY <1>5 DEF Grows
  <1> QED
    BY <1>6

\* StorageBrowser's buildTree draws every file of a list.
LEMMA TreeDraws ==
  ASSUME NEW S, NEW list \in Seq(S)
  PROVE  Storage!Draws(Storage!buildTree(list), list, Len(list))
  <1>1. Len(list) \in Nat
    OBVIOUS
  <1>2. PICK f : Grows(list, Len(list), f)
    BY <1>1, TreesExist
  <1>3. PICK g : Grows(list, Len(list), g) /\ Storage!buildTree(list) = g[Len(list)]
    BY <1>1, <1>2 DEF Grows, Storage!buildTree
  <1> DEFINE Good(m) == IsTree(g[m], S) /\ IsFiniteSet(Storage!Places(g[m])) /\ Storage!Draws(g[m], list, m)
             Bad == {m \in 0..Len(list) : ~Good(m)}
  <1>4. SUFFICES ASSUME Bad # {} PROVE FALSE
    BY <1>1, <1>3
  <1>0. Bad \subseteq 0..Len(list) /\ \A m \in 0..Len(list) : m \in Bad <=> ~Good(m)
    OBVIOUS
  <1> HIDE DEF Bad
  <1>5. PICK m \in Bad : \A x \in Bad : m <= x
    <2>1. Bad \subseteq Nat
      BY <1>0
    <2> QED
      BY <1>4, <2>1, MinExists
  <1>6. m \in 0..Len(list) /\ ~Good(m)
    BY <1>0
  <1>7. g[m] = IF m = 0 THEN <<>> ELSE Storage!push(g[m - 1], list[m])
    BY <1>3, <1>6 DEF Grows
  <1>8. CASE m = 0
    <2>1. DOMAIN g[0] = {}
      BY <1>7, <1>8
    <2>2. Storage!Places(g[0]) = {} /\ IsTree(g[0], S)
      BY <2>1 DEF Storage!Places, IsTree
    <2>3. Storage!Draws(g[0], list, 0)
      BY <2>2, FS_EmptySet, StorageCardinality DEF Storage!Draws
    <2> QED
      BY <1>6, <1>8, <2>2, <2>3, FS_EmptySet
  <1>9. CASE m # 0
    <2>1. m - 1 \in 0..Len(list) /\ m - 1 \notin Bad /\ m \in 1..Len(list)
      BY <1>1, <1>5, <1>6, <1>9
    <2>2. Good(m - 1)
      BY <1>0, <2>1
    <2> QED
      BY <1>6, <1>7, <1>9, <2>1, <2>2, PushDraws
  <1> QED
    BY <1>8, <1>9
-----------------------------------------------------------------------------
\* The inductive invariants of the services.
ServicesInv ==
  /\ On("events") => Events!FeedInv
  /\ On("parser") => Parser!TypeOK /\ Parser!CurveInv /\ Parser!SavedInv
  /\ On("pane") => Pane!PaneInv
  /\ On("race") => Race!TypeOK /\ Race!AnnouncedInv
  /\ On("watchers") => Watchers!KeptInv
  /\ On("kill") => Kill!TypeOK /\ Kill!KillInv
  /\ On("storage") => Storage!TypeOK
  /\ On("one load") => OneLoad!OwnInv
  /\ On("passes") => Passes!RetentionInv
  /\ On("parts") => Parts!StreamInv
  /\ On("two calls") => TwoCalls!StreamInv
  /\ On("prefixes") => RangeInv

\* A service starts in an initial state of its module.
LEMMA StartOf ==
  ASSUME Init
  PROVE  /\ On("events") => Events!Init
         /\ On("parser") => Parser!Init
         /\ On("pane") => Pane!Init
         /\ On("race") => Race!Init
         /\ On("watchers") => Watchers!Init
         /\ On("kill") => Kill!Init
         /\ On("storage") => Storage!Init
         /\ On("one load") => OneLoad!Init
         /\ On("passes") => Passes!Init
         /\ On("parts") => Parts!Init
         /\ On("two calls") => TwoCalls!Init
         /\ On("prefixes") => Prefixes!Init
  BY DEF Init, On

\* Every step is one of the followed service, or changes nothing.
LEMMA StepKinds ==
  ASSUME [Next]_vars
  PROVE  /\ service' = service
         /\ \/ EventStep \/ LogStep \/ PaneStep \/ VisitStep \/ KillStep \/ StorageStep
            \/ RetentionStep \/ StreamStep \/ RangeStep \/ UNCHANGED vars
  BY DEF Next, vars

\* Every step of a followed service is one of its module.
LEMMA StepOf ==
  ASSUME [Next]_vars
  PROVE  /\ service' = service
         /\ On("events") => [Events!Next]_(Events!vars)
         /\ On("parser") => [Parser!Next]_(Parser!vars)
         /\ On("pane") => [Pane!Next]_(Pane!vars)
         /\ On("race") => [Race!Next]_(Race!vars)
         /\ On("watchers") => [Watchers!Next]_(Watchers!vars)
         /\ On("kill") => [Kill!Next]_(Kill!vars)
         /\ On("storage") => [Storage!Next]_(Storage!vars)
         /\ On("one load") => [OneLoad!Next]_(OneLoad!vars)
         /\ On("passes") => [Passes!Next]_(Passes!vars)
         /\ On("parts") => [Parts!Next]_(Parts!vars)
         /\ On("two calls") => [TwoCalls!Next]_(TwoCalls!vars)
         /\ On("prefixes") => [Prefixes!Next]_(Prefixes!vars)
  <1>0. service' = service
    BY StepKinds
  <1>1. CASE EventStep
    BY <1>0, <1>1 DEF EventStep, On
  <1>2. CASE LogStep
    BY <1>0, <1>2 DEF LogStep, On
  <1>3. CASE PaneStep
    BY <1>0, <1>3 DEF PaneStep, On
  <1>4. CASE VisitStep
    BY <1>0, <1>4 DEF VisitStep, On
  <1>5. CASE KillStep
    BY <1>0, <1>5 DEF KillStep, On
  <1>6. CASE StorageStep
    BY <1>0, <1>6 DEF StorageStep, On
  <1>7. CASE RetentionStep
    BY <1>0, <1>7 DEF RetentionStep, On
  <1>8. CASE StreamStep
    BY <1>0, <1>8 DEF StreamStep, On
  <1>9. CASE RangeStep
    BY <1>0, <1>9 DEF RangeStep, On
  <1>10. CASE UNCHANGED vars
    <2>1. UNCHANGED Events!vars /\ UNCHANGED Parser!vars
      BY <1>10 DEF vars, eventFeed, logFeed, Events!vars, Parser!vars, Parser!training, Parser!parsed
    <2>2. UNCHANGED Pane!vars /\ UNCHANGED Kill!vars
      BY <1>10 DEF vars, logPane, killDemo, Pane!vars, Kill!vars
    <2>3. UNCHANGED Race!vars /\ UNCHANGED Watchers!vars
      BY <1>10 DEF vars, visits, Race!vars, Race!server, Watchers!vars, Watchers!server
    <2>4. UNCHANGED Passes!vars /\ UNCHANGED Prefixes!vars
      BY <1>10 DEF vars, retention, range, Passes!vars, Passes!training, Passes!pass, Prefixes!vars
    <2>5. UNCHANGED Parts!vars /\ UNCHANGED TwoCalls!vars
      BY <1>10 DEF vars, shardStream, Parts!vars, Parts!depths, Parts!stream, Parts!objects,
                   TwoCalls!vars, TwoCalls!depths, TwoCalls!stream, TwoCalls!objects
    <2>6. UNCHANGED Storage!vars /\ UNCHANGED OneLoad!vars
      BY <1>10 DEF vars, storagePanel, Storage!vars, OneLoad!vars
    <2> QED
      BY <1>0, <2>1, <2>2, <2>3, <2>4, <2>5, <2>6
  <1> QED
    BY <1>1, <1>2, <1>3, <1>4, <1>5, <1>6, <1>7, <1>8, <1>9, <1>10, StepKinds

\* Each module establishes its invariant,
LEMMA ServicesInit == Init => ServicesInv
  <1> SUFFICES ASSUME Init PROVE ServicesInv
    OBVIOUS
  <1> USE ServicesAssumption DEF ServicesAssumption
  <1>1. On("events") => Events!FeedInv
    BY StartOf, FeedInit
  <1>2. On("parser") => Parser!TypeOK /\ Parser!CurveInv /\ Parser!SavedInv
    BY StartOf, LogTypeInit, ParserInit, SavedInit
  <1>3. On("pane") => Pane!PaneInv
    BY StartOf, PaneInit
  <1>4. On("race") => Race!TypeOK /\ Race!AnnouncedInv
    BY StartOf, RaceTypeInit, RaceInit
  <1>5. On("watchers") => Watchers!KeptInv
    BY StartOf, WatchersInit
  <1>6. On("kill") => Kill!TypeOK /\ Kill!KillInv
    BY StartOf, KillTypeInit, KillInit
  <1>7. On("passes") => Passes!RetentionInv
    BY StartOf, RetentionInit
  <1>8. On("prefixes") => RangeInv
    BY StartOf, RangeInit
  <1>9. On("parts") => Parts!StreamInv
    BY StartOf, Parts!StreamInit
  <1>10. On("two calls") => TwoCalls!StreamInv
    BY StartOf, TwoCalls!StreamInit
  <1>11. On("storage") => Storage!TypeOK
    BY StartOf, StorageInit
  <1>12. On("one load") => OneLoad!OwnInv
    BY StartOf, OneLoadInit
  <1> QED
    BY <1>1, <1>2, <1>3, <1>4, <1>5, <1>6, <1>7, <1>8, <1>9, <1>10, <1>11, <1>12 DEF ServicesInv

\* and its steps keep it.
LEMMA ServicesNext == ServicesInv /\ [Next]_vars => ServicesInv'
  <1> SUFFICES ASSUME ServicesInv, [Next]_vars PROVE ServicesInv'
    OBVIOUS
  <1> USE ServicesAssumption DEF ServicesAssumption
  <1>0. \A v : On(v)' => On(v)
    BY StepOf DEF On
  <1>1. On("events") => Events!FeedInv'
    BY StepOf, FeedNext DEF ServicesInv
  <1>2. On("parser") => Parser!TypeOK' /\ Parser!CurveInv' /\ Parser!SavedInv'
    BY StepOf, LogTypeNext, ParserNext, SavedNext DEF ServicesInv
  <1>3. On("pane") => Pane!PaneInv'
    BY StepOf, PaneNext DEF ServicesInv
  <1>4. On("race") => Race!TypeOK' /\ Race!AnnouncedInv'
    BY StepOf, RaceTypeNext, RaceNext DEF ServicesInv, Race!AnnouncedInv
  <1>5. On("watchers") => Watchers!KeptInv'
    BY StepOf, WatchersNext DEF ServicesInv
  <1>6. On("kill") => Kill!TypeOK' /\ Kill!KillInv'
    BY StepOf, KillTypeNext, KillNext DEF ServicesInv
  <1>7. On("passes") => Passes!RetentionInv'
    BY StepOf, RetentionNext DEF ServicesInv
  <1>8. On("prefixes") => RangeInv'
    BY StepOf, RangeNext DEF ServicesInv
  <1>9. On("parts") => Parts!StreamInv'
    BY StepOf, Parts!StreamNext DEF ServicesInv
  <1>10. On("two calls") => TwoCalls!StreamInv'
    BY StepOf, TwoCalls!StreamNext DEF ServicesInv
  <1>11. On("storage") => Storage!TypeOK'
    BY StepOf, StorageNext DEF ServicesInv
  <1>12. On("one load") => OneLoad!OwnInv'
    BY StepOf, OneLoadNext DEF ServicesInv
  <1> QED
    BY <1>0, <1>1, <1>2, <1>3, <1>4, <1>5, <1>6, <1>7, <1>8, <1>9, <1>10, <1>11, <1>12 DEF ServicesInv

\* The inductive invariant of the services holds, for every value of their constants.
THEOREM ServicesInvariant == Spec => []ServicesInv
  BY ServicesInit, ServicesNext, PTL DEF Spec

\* The queues, lists, feeds, tables and logs of the services keep their types and their
\* caps: subscriber queues, MAX_EVENTS, the 500 points, 50 checkpoints and 10 recoveries of
\* useLogParser, the 50 entries of the activity feed, the loads under way.
THEOREM ServicesAreTyped == Spec => []TypeOK
  <1>1. ServicesInv => TypeOK
    BY DEF ServicesInv, TypeOK, Events!FeedInv, Pane!PaneInv, Passes!RetentionInv, Parts!StreamInv
  <1> QED
    BY <1>1, ServicesInvariant, PTL

\* _publish_event, event_stream, useEventStream: what reaches a page is of its run, in
\* order and once, and an event before the last one that arrived is there, or the page was
\* not connected, the queue was full, or it was lost with a connection.
THEOREM NoUnexplainedGap == Spec => []GapsAreExplained
  <1>1. ServicesInv => GapsAreExplained
    BY ServicesAssumption, FeedInOrder, FeedGaps DEF ServicesInv, GapsAreExplained, ServicesAssumption
  <1> QED
    BY <1>1, ServicesInvariant, PTL

\* VisitorStats, KillWorkerButton, useLogParser, LogStream: no visit is announced twice, an
\* open tab survives a lost ping, an active run has its workers up, a step is on the curve
\* once, and the pane's button is right at rest, in every order of calls, answers, commits,
\* effects and events.
THEOREM PanelsStayTrue == Spec => []PanelsAreTrue
  <1>1. ServicesInv => PanelsAreTrue
    BY ServicesAssumption, WatchersKeep, PaneShows
    DEF ServicesInv, PanelsAreTrue, ServicesAssumption, Race!AnnouncedInv, Kill!KillInv, Parser!CurveInv
  <1> QED
    BY <1>1, ServicesInvariant, PTL

\* findLoss, useLogParser, buildTree, handleManifestClick: a marker of the chart is at its closest
\* point, for every order of the points; once rank 0's log is read the checkpoint shown as
\* latest is the last one saved, after any number of recoveries and connections within the
\* tail's reach; every listed file is at exactly one place of the tree; and the manifest
\* opened, one load at a time, is that of its file.
THEOREM PanelsDrawWhatTheyRead == Spec => []DrawnAsRead
  <1>1. ASSUME ServicesInv, On("parser")
        PROVE  Parser!DrawnAtClosest /\ Parser!CaughtUpIsSaved /\ Parser!SavedInv
    BY <1>1, ServicesAssumption, MarkersAreClosest, ReadIsSaved DEF ServicesInv, ServicesAssumption
  <1>2. ASSUME ServicesInv, On("storage") PROVE Storage!EveryFileOnce
    <2>1. files \in Seq(Storage!Key)
      BY <1>2 DEF ServicesInv, Storage!TypeOK
    <2> QED
      BY <2>1, TreeDraws DEF Storage!EveryFileOnce
  <1>3. ASSUME ServicesInv, On("one load") PROVE OneLoad!OpenedIsOwn /\ OneLoad!OwnInv
    BY <1>3, ServicesAssumption, OneLoadOwn DEF ServicesInv, ServicesAssumption
  <1>4. ServicesInv => DrawnAsRead
    BY <1>1, <1>2, <1>3 DEF DrawnAsRead
  <1> QED
    BY <1>4, ServicesInvariant, PTL

\* RetentionManager.run_once: a run that every pass found active, or found to be the newest
\* failure, never loses its newest committed checkpoint, nor an upload that is within the
\* grace period, however commits, failures and deletions that fail interleave with passes.
THEOREM LatestIsKept == Spec => []KeepsLatest
  <1>1. ServicesInv => KeepsLatest
    BY DEF ServicesInv, KeepsLatest, Passes!RetentionInv
  <1> QED
    BY <1>1, ServicesInvariant, PTL

\* _delete_metadata runs only for checkpoints whose shards are gone: no step removes the
\* metadata of one while its shards are stored.
THEOREM MetadataGoesLast == Spec => MetadataOutlivesShards
  <1>1. ServicesInv /\ [Next]_vars => [On("passes") => Passes!MetadataOutlivesShards]_vars
    BY ServicesAssumption, StepOf, MetadataStep DEF ServicesInv, ServicesAssumption
  <1> QED
    BY <1>1, ServicesInvariant, PTL DEF Spec, MetadataOutlivesShards

\* write_shard, write_shard_to_s3: no byte is lost or moved between client, channel, buffer
\* and parts, and a client that is told success has its whole stream stored under the
\* checksum it is told, for any number of calls, sizes of chunks, parts and channel, and
\* storage errors and dropped calls wherever they come.
THEOREM WritesStayWhole == Spec => []WritesAreWhole
  <1>1. ServicesInv => WritesAreWhole
    <2>1. Parts!StreamInv => Parts!BufferIsWhole /\ Parts!OnlyTheLastIsShort
      BY DEF Parts!StreamInv
    <2>2. TwoCalls!StreamInv => TwoCalls!KeysAreDigests /\ TwoCalls!DepthAccounts
      BY DEF TwoCalls!StreamInv
    <2>3. TwoCalls!StreamInv => TwoCalls!AnsweredIsStored /\ TwoCalls!NothingLeftBehind
      BY ServicesAssumption, TwoCalls!StreamHolds DEF ServicesAssumption
    <2> QED
      BY <2>1, <2>2, <2>3 DEF ServicesInv, WritesAreWhole
  <1> QED
    BY <1>1, ServicesInvariant, PTL

\* EtcdKVStore.get_prefix returns what InMemoryKVStore.get_prefix returns: the keys that
\* start with the prefix, whatever bytes it ends in and however long prefix and keys are.
THEOREM RangeFindsThePrefix == Spec => []RangeIsPrefix
  <1>1. ServicesInv => RangeIsPrefix
    BY ServicesAssumption, InvRange DEF ServicesInv, RangeIsPrefix, ServicesAssumption
  <1> QED
    BY <1>1, ServicesInvariant, PTL
=============================================================================
