---------------------------- MODULE SequenceLemmas ----------------------------
(***************************************************************************)
(* What removing the first occurrence of an element, appending one and     *)
(* rotating do to the elements of a sequence; and the line that a batch in *)
(* hand and the queue behind it make.                                      *)
(***************************************************************************)
EXTENDS SequencesExt, SequenceTheorems, FiniteSetTheorems, TLAPS

\* A set of indices of a sequence has a least element.  The prefixes of the
\* indices, ordered by strict inclusion, are well founded.
LEMMA LeastIndex ==
  ASSUME NEW n \in Nat, NEW I \in SUBSET (1..n), I # {}
  PROVE  Min(I) \in I /\ \A i \in I : Min(I) =< i
<1> DEFINE T == {1..i : i \in I}
           R == StrictSubsetOrdering(1..n)
<1>1. IsWellFoundedOn(R, FiniteSubsetsOf(1..n))
  BY FS_Interval, FS_StrictSubsetOrderingWellFounded
<1>2. T # {} /\ T \subseteq FiniteSubsetsOf(1..n)
  <2>1. ASSUME NEW i \in I
        PROVE  1..i \in FiniteSubsetsOf(1..n)
    <3>1. IsFiniteSet(1..i)
      BY FS_Interval
    <3>2. 1..i \subseteq 1..n
      BY SMT
    <3> QED BY <3>1, <3>2 DEF FiniteSubsetsOf
  <2> QED BY <2>1
<1>3. \E t \in T : \A u \in T : <<u, t>> \notin R
  <2> HIDE DEF T, R
  <2> QED BY <1>1, <1>2, WFMin
<1>4. PICK x \in I : \A u \in T : <<u, 1..x>> \notin R
  BY <1>3
<1>5. ASSUME NEW i \in I, i < x
      PROVE  FALSE
  <2>1. 1..i \subseteq 1..x /\ 1..i # 1..x
    <3>1. x \in 1..x /\ x \notin 1..i
      BY <1>5
    <3> QED BY <3>1, <1>5
  <2>2. <<1..i, 1..x>> \in R
    BY <2>1 DEF StrictSubsetOrdering
  <2> QED BY <1>4, <2>2
<1>6. \A i \in I : x =< i
  BY <1>5
<1> QED BY <1>6 DEF Min

\* RemoveFirst takes out one occurrence of an element that occurs.
LEMMA RemoveFirstOccurrence ==
  ASSUME NEW S, NEW s \in Seq(S), NEW e, \E i \in 1..Len(s) : s[i] = e
  PROVE  \E n \in 1..Len(s) : s[n] = e /\ RemoveFirst(s, e) = RemoveAt(s, n)
<1> DEFINE I == {i \in 1..Len(s) : s[i] = e}
<1>1. I # {} /\ I \subseteq 1..Len(s) /\ Len(s) \in Nat
  BY LenProperties
<1>2. Min(I) \in I
  <2> HIDE DEF I
  <2> QED BY <1>1, LeastIndex
<1>3. RemoveFirst(s, e) = RemoveAt(s, Min(I))
  BY <1>1 DEF RemoveFirst, SelectInSeq
<1> QED BY <1>2, <1>3

\* Taking out one element shifts the ones after it.
LEMMA RemoveAtProperties ==
  ASSUME NEW S, NEW s \in Seq(S), NEW n \in 1..Len(s)
  PROVE  /\ RemoveAt(s, n) \in Seq(S)
         /\ Len(RemoveAt(s, n)) = Len(s) - 1
         /\ \A i \in 1..(Len(s) - 1) :
              RemoveAt(s, n)[i] = IF i < n THEN s[i] ELSE s[i + 1]
<1> DEFINE l == SubSeq(s, 1, n - 1)
           r == SubSeq(s, n + 1, Len(s))
<1>0. Len(s) \in Nat /\ n \in Nat /\ \A i \in 1..Len(s) : s[i] \in S
  BY ElementOfSeq, LenProperties
<1>1. /\ l \in Seq(S)
      /\ Len(l) = n - 1
      /\ \A i \in 1..(n - 1) : l[i] = s[i]
  <2>1. \A i \in 1..(n - 1) : s[i] \in S
    BY <1>0
  <2> QED BY <1>0, <2>1, SubSeqProperties, Z3
<1>2. /\ r \in Seq(S)
      /\ Len(r) = Len(s) - n
      /\ \A i \in 1..(Len(s) - n) : r[i] = s[n + i]
  <2>1. \A i \in (n + 1)..Len(s) : s[i] \in S
    BY <1>0
  <2>2. /\ r \in Seq(S)
        /\ Len(r) = IF n + 1 <= Len(s) THEN Len(s) - (n + 1) + 1 ELSE 0
        /\ \A i \in 1..(Len(s) - (n + 1) + 1) : r[i] = s[(n + 1) + i - 1]
    BY <1>0, <2>1, SubSeqProperties
  <2> QED BY <1>0, <2>2
<1>3. RemoveAt(s, n) = l \o r
  BY DEF RemoveAt
<1> HIDE DEF l, r
<1>4. /\ l \o r \in Seq(S)
      /\ Len(l \o r) = Len(l) + Len(r)
      /\ \A i \in 1..(Len(l) + Len(r)) :
           (l \o r)[i] = IF i <= Len(l) THEN l[i] ELSE r[i - Len(l)]
  BY <1>1, <1>2, ConcatProperties
<1>5. ASSUME NEW i \in 1..(Len(s) - 1)
      PROVE  (l \o r)[i] = IF i < n THEN s[i] ELSE s[i + 1]
  <2>1. (l \o r)[i] = IF i <= n - 1 THEN l[i] ELSE r[i - (n - 1)]
    BY <1>0, <1>1, <1>2, <1>4
  <2>2. CASE i < n
    BY <1>0, <1>1, <2>1, <2>2
  <2>3. CASE ~(i < n)
    <3>1. r[i - (n - 1)] = s[n + (i - (n - 1))]
      BY <1>0, <1>2, <2>3
    <3> QED BY <1>0, <2>1, <2>3, <3>1
  <2> QED BY <2>2, <2>3
<1> QED BY <1>0, <1>1, <1>2, <1>3, <1>4, <1>5

\* Taking the first occurrence of an element out of a sequence leaves a
\* sequence over the same set.
LEMMA RemoveFirstType ==
  ASSUME NEW S, NEW s \in Seq(S), NEW e
  PROVE  RemoveFirst(s, e) \in Seq(S)
<1>1. CASE \E i \in 1..Len(s) : s[i] = e
  <2>1. PICK n \in 1..Len(s) : RemoveFirst(s, e) = RemoveAt(s, n)
    BY <1>1, RemoveFirstOccurrence
  <2> QED BY <2>1, RemoveAtProperties
<1>2. CASE ~\E i \in 1..Len(s) : s[i] = e
  BY <1>2 DEF RemoveFirst
<1> QED BY <1>1, <1>2

Injective(s) == \A i, j \in DOMAIN s : s[i] = s[j] => i = j

\* Out of a sequence without duplicates, it leaves one without duplicates
\* that has every element but the one taken out.
LEMMA RemoveFirstInjective ==
  ASSUME NEW S, NEW s \in Seq(S), Injective(s), NEW e
  PROVE  /\ Injective(RemoveFirst(s, e))
         /\ Range(RemoveFirst(s, e)) = Range(s) \ {e}
<1> DEFINE r == RemoveFirst(s, e)
<1>1. CASE \E i \in 1..Len(s) : s[i] = e
  <2>1. PICK n \in 1..Len(s) : s[n] = e /\ r = RemoveAt(s, n)
    BY <1>1, RemoveFirstOccurrence
  <2>3. /\ r \in Seq(S)
        /\ Len(r) = Len(s) - 1
        /\ \A i \in 1..(Len(s) - 1) : r[i] = IF i < n THEN s[i] ELSE s[i + 1]
    BY <2>1, RemoveAtProperties
  <2> HIDE DEF r
  <2>4. Len(s) \in Nat /\ DOMAIN s = 1..Len(s) /\ DOMAIN r = 1..(Len(s) - 1)
    BY <2>3, LenProperties
  <2>5. \A i, j \in 1..Len(s) : s[i] = s[j] => i = j
    BY <2>4 DEF Injective
  <2>6. \A i, j \in 1..(Len(s) - 1) : r[i] = r[j] => i = j
    BY <2>1, <2>3, <2>4, <2>5
  <2>7. ASSUME NEW x \in Range(r)
        PROVE  x \in Range(s) \ {e}
    <3>1. PICK i \in 1..(Len(s) - 1) : x = r[i]
      BY <2>4 DEF Range
    <3>2. CASE i < n
      <4>1. i \in 1..Len(s) /\ i # n /\ x = s[i]
        BY <2>1, <2>3, <2>4, <3>1, <3>2
      <4> QED BY <2>1, <2>4, <2>5, <4>1 DEF Range
    <3>3. CASE ~(i < n)
      <4>1. i + 1 \in 1..Len(s) /\ i + 1 # n /\ x = s[i + 1]
        BY <2>1, <2>3, <2>4, <3>1, <3>3
      <4> QED BY <2>1, <2>4, <2>5, <4>1 DEF Range
    <3> QED BY <3>2, <3>3
  <2>8. ASSUME NEW x \in Range(s) \ {e}
        PROVE  x \in Range(r)
    <3>1. PICK i \in 1..Len(s) : x = s[i]
      BY <2>4 DEF Range
    <3>2. i # n
      BY <2>1, <3>1
    <3>3. CASE i < n
      <4>1. i \in 1..(Len(s) - 1) /\ r[i] = x
        BY <2>1, <2>3, <2>4, <3>1, <3>3
      <4> QED BY <2>4, <4>1 DEF Range
    <3>4. CASE i > n
      <4>1. i - 1 \in 1..(Len(s) - 1) /\ r[i - 1] = x
        BY <2>1, <2>3, <2>4, <3>1, <3>4
      <4> QED BY <2>4, <4>1 DEF Range
    <3> QED BY <2>1, <2>4, <3>2, <3>3, <3>4
  <2> QED BY <2>4, <2>6, <2>7, <2>8 DEF Injective, r
<1>2. CASE ~\E i \in 1..Len(s) : s[i] = e
  <2>1. RemoveFirst(s, e) = s
    BY <1>2 DEF RemoveFirst
  <2>2. e \notin Range(s)
    BY <1>2, LenProperties DEF Range
  <2> QED BY <2>1, <2>2
<1> QED BY <1>1, <1>2

\* Appending a new element adds it and keeps duplicates out.
LEMMA AppendKeepsInjective ==
  ASSUME NEW S, NEW s \in Seq(S), NEW e \in S, Injective(s), e \notin Range(s)
  PROVE  /\ Injective(Append(s, e))
         /\ Range(Append(s, e)) = Range(s) \cup {e}
<1>1. /\ Len(s) \in Nat
      /\ DOMAIN s = 1..Len(s)
      /\ DOMAIN Append(s, e) = 1..(Len(s) + 1)
      /\ \A i \in 1..Len(s) : Append(s, e)[i] = s[i]
      /\ Append(s, e)[Len(s) + 1] = e
  BY LenProperties, AppendProperties
<1>2. Range(Append(s, e)) = Range(s) \cup {e}
  <2>1. \A i \in 1..(Len(s) + 1) : i \in 1..Len(s) \/ i = Len(s) + 1
    BY <1>1
  <2>2. 1..Len(s) \subseteq 1..(Len(s) + 1) /\ Len(s) + 1 \in 1..(Len(s) + 1)
    BY <1>1
  <2> QED BY <1>1, <2>1, <2>2 DEF Range
<1>3. Injective(Append(s, e))
  BY <1>1 DEF Injective, Range
<1> QED BY <1>2, <1>3

\* The head of a sequence without duplicates is not in its tail.
LEMMA TailKeepsInjective ==
  ASSUME NEW S, NEW s \in Seq(S), Injective(s), s # <<>>
  PROVE  /\ Tail(s) \in Seq(S)
         /\ Injective(Tail(s))
         /\ Range(Tail(s)) = Range(s) \ {Head(s)}
<1>1. /\ Tail(s) \in Seq(S)
      /\ Len(s) >= 1
      /\ Len(Tail(s)) = Len(s) - 1
      /\ DOMAIN s = 1..Len(s)
      /\ DOMAIN Tail(s) = 1..(Len(s) - 1)
      /\ \A i \in 1..(Len(s) - 1) : Tail(s)[i] = s[i + 1]
      /\ Head(s) = s[1]
  BY HeadTailProperties, EmptySeq, LenProperties
<1>2. Injective(Tail(s))
  <2> SUFFICES ASSUME NEW i \in DOMAIN Tail(s), NEW j \in DOMAIN Tail(s),
                      Tail(s)[i] = Tail(s)[j]
               PROVE  i = j
    BY DEF Injective
  <2>1. i + 1 \in DOMAIN s /\ j + 1 \in DOMAIN s /\ s[i + 1] = s[j + 1]
    BY <1>1
  <2> QED BY <2>1, <1>1 DEF Injective
<1>3. ASSUME NEW e
      PROVE  e \in Range(Tail(s)) <=> e \in Range(s) /\ e # Head(s)
  <2>1. ASSUME NEW i \in 1..(Len(s) - 1), e = Tail(s)[i]
        PROVE  e \in Range(s) /\ e # Head(s)
    <3>1. i + 1 \in DOMAIN s /\ 1 \in DOMAIN s /\ e = s[i + 1] /\ i + 1 # 1
      BY <1>1, <2>1
    <3> QED BY <3>1, <1>1 DEF Injective, Range
  <2>2. ASSUME NEW i \in DOMAIN s, e = s[i], e # Head(s)
        PROVE  e \in Range(Tail(s))
    <3>1. i - 1 \in DOMAIN Tail(s) /\ Tail(s)[i - 1] = e
      BY <1>1, <2>2
    <3> QED BY <3>1 DEF Range
  <2> QED BY <1>1, <2>1, <2>2 DEF Range
<1> QED BY <1>1, <1>2, <1>3

\* Moving the head to the tail keeps the elements, each once.
LEMMA RotateKeepsInjective ==
  ASSUME NEW S, NEW s \in Seq(S), Injective(s), s # <<>>
  PROVE  /\ Append(Tail(s), Head(s)) \in Seq(S)
         /\ Injective(Append(Tail(s), Head(s)))
         /\ Range(Append(Tail(s), Head(s))) = Range(s)
<1>1. /\ Tail(s) \in Seq(S)
      /\ Injective(Tail(s))
      /\ Range(Tail(s)) = Range(s) \ {Head(s)}
  BY TailKeepsInjective
<1>2. Head(s) \in S /\ Head(s) \in Range(s)
  <2>1. 1 \in DOMAIN s /\ Head(s) = s[1] /\ s[1] \in S
    BY HeadTailProperties, EmptySeq, LenProperties, ElementOfSeq
  <2> QED BY <2>1 DEF Range
<1> DEFINE l == Tail(s)
           e == Head(s)
<1>3. /\ l \in Seq(S)
      /\ e \in S
      /\ Injective(l)
      /\ e \notin Range(l)
      /\ Range(s) = Range(l) \cup {e}
  BY <1>1, <1>2
<1> HIDE DEF l, e
<1>4. /\ Append(l, e) \in Seq(S)
      /\ Injective(Append(l, e))
      /\ Range(Append(l, e)) = Range(s)
  BY <1>3, AppendProperties, AppendKeepsInjective
<1> QED BY <1>4 DEF l, e

\* Moving the tail to the head keeps the elements, each once.
LEMMA RotateBackKeepsInjective ==
  ASSUME NEW S, NEW s \in Seq(S), Injective(s), s # <<>>
  PROVE  /\ <<Last(s)>> \o Front(s) \in Seq(S)
         /\ <<Last(s)>> \o Front(s) # <<>>
         /\ Head(<<Last(s)>> \o Front(s)) = Last(s)
         /\ Last(s) \in S
         /\ Injective(<<Last(s)>> \o Front(s))
         /\ Range(<<Last(s)>> \o Front(s)) = Range(s)
<1> DEFINE n == Len(s)
           t == <<Last(s)>> \o Front(s)
<1>1. n \in Nat /\ n >= 1 /\ DOMAIN s = 1..n /\ Last(s) = s[n] /\ s[n] \in S
  BY EmptySeq, LenProperties, ElementOfSeq DEF Last
<1>2. /\ Front(s) \in Seq(S)
      /\ Len(Front(s)) = n - 1
      /\ \A i \in 1..(n - 1) : Front(s)[i] = s[i]
  BY <1>1, SubSeqProperties DEF Front
<1>3. <<Last(s)>> \in Seq(S) /\ Len(<<Last(s)>>) = 1 /\ <<Last(s)>>[1] = s[n]
  BY <1>1
<1>4. /\ t \in Seq(S)
      /\ Len(t) = n
      /\ \A i \in 1..n : t[i] = IF i = 1 THEN s[n] ELSE s[i - 1]
  <2>1. /\ t \in Seq(S)
        /\ Len(t) = 1 + (n - 1)
        /\ \A i \in 1..(1 + (n - 1)) :
             t[i] = IF i <= 1 THEN <<Last(s)>>[i] ELSE Front(s)[i - 1]
    BY <1>2, <1>3, ConcatProperties
  <2> HIDE DEF t
  <2> QED BY <2>1, <1>1, <1>2, <1>3
<1> HIDE DEF t, n
<1>5. DOMAIN t = 1..n /\ t # <<>> /\ Head(t) = Last(s)
  BY <1>1, <1>4, LenProperties, EmptySeq, HeadTailProperties
<1>6. Injective(t)
  <2> SUFFICES ASSUME NEW i \in 1..n, NEW j \in 1..n, t[i] = t[j] PROVE i = j
    BY <1>5 DEF Injective
  <2> DEFINE back(k) == IF k = 1 THEN n ELSE k - 1
  <2>1. back(i) \in DOMAIN s /\ back(j) \in DOMAIN s /\ s[back(i)] = s[back(j)]
    BY <1>1, <1>4
  <2>2. back(i) = back(j)
    BY <2>1 DEF Injective
  <2> QED BY <1>1, <2>2
<1>7. ASSUME NEW e
      PROVE  e \in Range(t) <=> e \in Range(s)
  <2>1. ASSUME NEW i \in 1..n, e = t[i] PROVE e \in Range(s)
    <3> DEFINE k == IF i = 1 THEN n ELSE i - 1
    <3>1. k \in DOMAIN s /\ s[k] = e
      BY <1>1, <1>4, <2>1
    <3> QED BY <3>1 DEF Range
  <2>2. ASSUME NEW i \in 1..n, e = s[i] PROVE e \in Range(t)
    <3>1. CASE i = n
      BY <1>1, <1>4, <1>5, <2>2, <3>1 DEF Range
    <3>2. CASE i # n
      <4>1. i + 1 \in 1..n /\ t[i + 1] = e
        BY <1>1, <1>4, <2>2, <3>2
      <4> QED BY <4>1, <1>5 DEF Range
    <3> QED BY <3>1, <3>2
  <2> QED BY <1>1, <1>5, <2>1, <2>2 DEF Range
<1> QED BY <1>1, <1>4, <1>5, <1>6, <1>7 DEF t

\* What is appended is the last element, and the only new one.
LEMMA AppendIsLast ==
  ASSUME NEW S, NEW s \in Seq(S), NEW e \in S
  PROVE  /\ Append(s, e) \in Seq(S)
         /\ Append(s, e) # <<>>
         /\ Len(Append(s, e)) = Len(s) + 1
         /\ Last(Append(s, e)) = e
         /\ Range(Append(s, e)) = Range(s) \cup {e}
<1>1. /\ Len(s) \in Nat
      /\ DOMAIN s = 1..Len(s)
      /\ Append(s, e) \in Seq(S)
      /\ Append(s, e) # <<>>
      /\ Len(Append(s, e)) = Len(s) + 1
      /\ DOMAIN Append(s, e) = 1..(Len(s) + 1)
      /\ \A i \in 1..Len(s) : Append(s, e)[i] = s[i]
      /\ Append(s, e)[Len(s) + 1] = e
  OBVIOUS
<1>2. Last(Append(s, e)) = e
  BY <1>1 DEF Last
<1>3. Range(Append(s, e)) = Range(s) \cup {e}
  BY <1>1 DEF Range
<1> QED BY <1>1, <1>2, <1>3

\* The last element of a nonempty sequence is one of its elements.
LEMMA LastIsElement ==
  ASSUME NEW S, NEW s \in Seq(S), s # <<>>
  PROVE  Last(s) \in Range(s) /\ Last(s) \in S
<1>1. Len(s) \in 1..Len(s) /\ DOMAIN s = 1..Len(s)
  OBVIOUS
<1> QED BY <1>1 DEF Last, Range

\* Without its first k elements a sequence ends as before.
LEMMA DropKeepsLast ==
  ASSUME NEW S, NEW s \in Seq(S), NEW k \in 0..Len(s)
  PROVE  /\ SubSeq(s, k + 1, Len(s)) \in Seq(S)
         /\ Len(SubSeq(s, k + 1, Len(s))) = Len(s) - k
         /\ Range(SubSeq(s, k + 1, Len(s))) \subseteq Range(s)
         /\ k < Len(s) => /\ SubSeq(s, k + 1, Len(s)) # <<>>
                          /\ Last(SubSeq(s, k + 1, Len(s))) = Last(s)
<1> DEFINE t == SubSeq(s, k + 1, Len(s))
<1>1. /\ Len(s) \in Nat
      /\ DOMAIN s = 1..Len(s)
      /\ \A i \in 1..Len(s) : s[i] \in S
      /\ t \in Seq(S)
      /\ Len(t) = Len(s) - k
      /\ DOMAIN t = 1..(Len(s) - k)
      /\ \A i \in 1..(Len(s) - k) : t[i] = s[k + i]
  OBVIOUS
<1> HIDE DEF t
<1>2. Range(t) \subseteq Range(s)
  <2>1. \A i \in 1..(Len(s) - k) : k + i \in 1..Len(s)
    BY <1>1
  <2> QED BY <1>1, <2>1 DEF Range
<1>3. k < Len(s) => t # <<>> /\ Last(t) = Last(s)
  <2>1. k < Len(s) => Len(s) - k \in 1..(Len(s) - k) /\ k + (Len(s) - k) = Len(s)
    BY <1>1
  <2> QED BY <1>1, <2>1 DEF Last
<1> QED BY <1>1, <1>2, <1>3 DEF t

\* What is not among the later elements is not in what is left without the
\* first k.
LEMMA NotAmongLast ==
  ASSUME NEW S, NEW s \in Seq(S), NEW k \in 0..Len(s), NEW x,
         \A i \in DOMAIN s : i > k => s[i] # x
  PROVE  x \notin Range(SubSeq(s, k + 1, Len(s)))
<1> DEFINE t == SubSeq(s, k + 1, Len(s))
<1>1. /\ Len(s) \in Nat
      /\ DOMAIN s = 1..Len(s)
      /\ DOMAIN t = 1..(Len(s) - k)
      /\ \A i \in 1..(Len(s) - k) : t[i] = s[k + i]
  OBVIOUS
<1> HIDE DEF t
<1>2. \A i \in 1..(Len(s) - k) : k + i \in 1..Len(s) /\ k + i > k
  BY <1>1
<1>3. \A i \in DOMAIN t : t[i] # x
  BY <1>1, <1>2
<1>4. x \notin Range(t)
  BY <1>3 DEF Range
<1> QED BY <1>4 DEF t

\* Handing the head of one sequence to the end of another keeps both in line.
LEMMA HandOverHead ==
  ASSUME NEW S, NEW s \in Seq(S), NEW q \in Seq(S), q # <<>>
  PROVE  Append(s, Head(q)) \o Tail(q) = s \o q
<1>1. /\ Head(q) \in S /\ Head(q) = q[1]
      /\ Tail(q) \in Seq(S)
      /\ Len(Tail(q)) = Len(q) - 1
      /\ \A i \in 1..Len(q) - 1 : Tail(q)[i] = q[i + 1]
  BY HeadTailProperties
<1>2. Len(s) \in Nat /\ Len(q) \in Nat \ {0}
  BY EmptySeq, LenProperties
<1>3. /\ Append(s, Head(q)) \in Seq(S)
      /\ Len(Append(s, Head(q))) = Len(s) + 1
      /\ \A i \in 1..Len(s) : Append(s, Head(q))[i] = s[i]
      /\ Append(s, Head(q))[Len(s) + 1] = Head(q)
  BY <1>1, AppendProperties
<1>4. /\ s \o q \in Seq(S)
      /\ Len(s \o q) = Len(s) + Len(q)
      /\ \A i \in 1..Len(s) + Len(q) :
           (s \o q)[i] = IF i <= Len(s) THEN s[i] ELSE q[i - Len(s)]
  BY ConcatProperties
<1> DEFINE a == Append(s, Head(q))
           t == Tail(q)
<1>5. a \in Seq(S) /\ t \in Seq(S)
  BY <1>1, <1>3
<1> HIDE DEF a, t
<1>6. /\ a \o t \in Seq(S)
      /\ Len(a \o t) = Len(a) + Len(t)
      /\ \A i \in 1..Len(a) + Len(t) :
           (a \o t)[i] = IF i <= Len(a) THEN a[i] ELSE t[i - Len(a)]
  BY <1>5, ConcatProperties
<1>7. Len(a) = Len(s) + 1 /\ Len(t) = Len(q) - 1
  BY <1>1, <1>3 DEF a, t
<1>8. ASSUME NEW i \in 1..Len(s) + Len(q)
      PROVE  (a \o t)[i] = (s \o q)[i]
  <2>1. CASE i <= Len(s)
    <3>1. i \in 1..Len(s) /\ a[i] = s[i]
      BY <1>2, <1>3, <2>1 DEF a
    <3> QED
      BY <1>2, <1>4, <1>6, <1>7, <2>1, <3>1
  <2>2. CASE i = Len(s) + 1
    <3>1. a[i] = q[1]
      BY <1>1, <1>3, <2>2 DEF a
    <3> QED
      BY <1>2, <1>4, <1>6, <1>7, <2>2, <3>1
  <2>3. CASE i > Len(s) + 1
    <3>1. i - Len(a) \in 1..Len(q) - 1 /\ i - Len(a) + 1 = i - Len(s)
      BY <1>2, <1>7, <2>3
    <3>2. t[i - Len(a)] = q[i - Len(s)]
      BY <1>1, <3>1 DEF t
    <3> QED
      BY <1>2, <1>4, <1>6, <1>7, <2>3, <3>2
  <2>4. i <= Len(s) \/ i = Len(s) + 1 \/ i > Len(s) + 1
    BY <1>2
  <2> QED
    BY <2>1, <2>2, <2>3, <2>4
<1>9. a \o t = s \o q
  <2> DEFINE x == a \o t
             y == s \o q
  <2>1. x \in Seq(S) /\ y \in Seq(S) /\ Len(x) = Len(y) /\ Len(x) = Len(s) + Len(q)
    BY <1>2, <1>4, <1>6, <1>7
  <2>2. \A i \in 1..Len(s) + Len(q) : x[i] = y[i]
    BY <1>8
  <2> HIDE DEF x, y
  <2>3. x = y
    BY <2>1, <2>2, SeqEqual
  <2> QED
    BY <2>3 DEF x, y
<1> QED
  BY <1>9 DEF a, t

\* The end of a sequence, followed by another, loses its first.
LEMMA NextInLine ==
  ASSUME NEW S, NEW s \in Seq(S), NEW q \in Seq(S), NEW k \in Nat, k < Len(s)
  PROVE  /\ SubSeq(s, k + 1, Len(s)) \o q # <<>>
         /\ Head(SubSeq(s, k + 1, Len(s)) \o q) = s[k + 1]
         /\ Tail(SubSeq(s, k + 1, Len(s)) \o q) = SubSeq(s, k + 2, Len(s)) \o q
<1> DEFINE rest == SubSeq(s, k + 2, Len(s))
<1>1. Len(s) \in Nat /\ s[k + 1] \in S
  BY LenProperties, ElementOfSeq
<1>2. rest \in Seq(S)
  <2>1. \A i \in k + 2..Len(s) : s[i] \in S
    BY <1>1, ElementOfSeq
  <2> QED
    BY <1>1, <2>1, SubSeqProperties
<1>3. SubSeq(s, k + 1, Len(s)) = <<s[k + 1]>> \o rest
  <2>1. k + 1 \in 1..Len(s) /\ Len(s) \in k + 1..Len(s) /\ k + 1 + 1 = k + 2
    BY <1>1
  <2> QED
    BY <2>1, SubSeqRecursiveFirst
<1> DEFINE t == rest \o q
           e == s[k + 1]
<1>4. SubSeq(s, k + 1, Len(s)) = <<e>> \o rest
  BY <1>3
<1> HIDE DEF rest
<1>6. t \in Seq(S) /\ e \in S
  BY <1>1, <1>2, ConcatProperties
<1> HIDE DEF e
<1>5. SubSeq(s, k + 1, Len(s)) \o q = <<e>> \o t
  <2>1. <<e>> \in Seq(S)
    BY <1>6
  <2>2. (<<e>> \o rest) \o q = <<e>> \o (rest \o q)
    BY <1>2, <2>1, ConcatAssociative
  <2> QED
    BY <1>4, <2>2
<1> HIDE DEF t
<1>7. /\ <<e>> \o t # <<>>
      /\ Head(<<e>> \o t) = e
      /\ Tail(<<e>> \o t) = t
  <2>1. /\ <<e>> \o t \in Seq(S)
        /\ Len(<<e>> \o t) = 1 + Len(t)
        /\ (<<e>> \o t)[1] = e
        /\ \A i \in 1..Len(t) : (<<e>> \o t)[i + 1] = t[i]
    <3>1. <<e>> \in Seq(S) /\ Len(<<e>>) = 1 /\ <<e>>[1] = e /\ Len(t) \in Nat
      BY <1>6, LenProperties
    <3> QED
      BY <1>6, <3>1, ConcatProperties
  <2>2. <<e>> \o t # <<>>
    BY <1>6, <2>1, EmptySeq, LenProperties
  <2>3. /\ Tail(<<e>> \o t) \in Seq(S)
        /\ Len(Tail(<<e>> \o t)) = Len(t)
        /\ \A i \in 1..Len(t) : Tail(<<e>> \o t)[i] = t[i]
    BY <1>6, <2>1, <2>2, HeadTailProperties, LenProperties
  <2>4. Tail(<<e>> \o t) = t
    BY <1>6, <2>3, SeqEqual
  <2>5. Head(<<e>> \o t) = e
    BY <2>1, <2>2
  <2> QED
    BY <2>2, <2>4, <2>5
<1> QED
  BY <1>5, <1>7 DEF t, e, rest

\* What follows a prefix is the rest.
LEMMA DropPrefix ==
  ASSUME NEW S, NEW u \in Seq(S), NEW q \in Seq(S)
  PROVE  SubSeq(u \o q, Len(u) + 1, Len(u \o q)) = q
<1>1. /\ Len(u) \in Nat /\ Len(q) \in Nat
      /\ u \o q \in Seq(S)
      /\ Len(u \o q) = Len(u) + Len(q)
  BY ConcatProperties, LenProperties
<1>2. CASE Len(q) = 0
  <2>1. q = <<>>
    BY <1>2, EmptySeq
  <2> QED
    BY <1>1, <1>2, <2>1, SubSeqEmpty
<1>3. CASE Len(q) # 0
  <2>1. /\ Len(u) + 1 \in Len(u) + 1 .. Len(u) + Len(q)
        /\ Len(u) + Len(q) \in Len(u) + 1 .. Len(u) + Len(q)
    BY <1>1, <1>3
  <2>2. SubSeq(u \o q, Len(u) + 1, Len(u) + Len(q))
          = SubSeq(q, Len(u) + 1 - Len(u), Len(u) + Len(q) - Len(u))
    BY <2>1, SubSeqOfConcat2
  <2>3. Len(u) + 1 - Len(u) = 1 /\ Len(u) + Len(q) - Len(u) = Len(q)
    BY <1>1
  <2> QED
    BY <1>1, <2>2, <2>3, SubSeqFull
<1> QED
  BY <1>2, <1>3

\* Appending to the second of two sequences appends to both.
LEMMA AppendInLine ==
  ASSUME NEW S, NEW u \in Seq(S), NEW q \in Seq(S), NEW e \in S
  PROVE  u \o Append(q, e) = Append(u \o q, e)
<1>1. Append(q, e) = q \o <<e>>
  BY AppendIsConcat
<1>2. u \o q \in Seq(S) /\ <<e>> \in Seq(S)
  BY ConcatProperties
<1>3. Append(u \o q, e) = (u \o q) \o <<e>>
  BY <1>2, AppendIsConcat
<1> QED
  BY <1>1, <1>2, <1>3, ConcatAssociative

===============================================================================
