----------------------------- MODULE ListLemmas -----------------------------
(***************************************************************************)
(* Facts about sequences that list the elements of a set, each of them     *)
(* once: what the cached arrays of the lists are to the store.             *)
(***************************************************************************)
EXTENDS SequencesExt, SequenceTheorems, FiniteSetTheorems, TLAPS

\* s lists the elements of S, each of them once.
Enumerates(s, S) == IsInjective(s) /\ ToSet(s) = S

\* Every sequence SetToSeqs offers for a finite set lists it.
LEMMA SetToSeqsEnumerate ==
    ASSUME NEW S, IsFiniteSet(S), NEW s \in SetToSeqs(S)
    PROVE  s \in Seq(S) /\ Enumerates(s, S)
<1> DEFINE D == 1..Cardinality(S)
<1>1. Cardinality(S) \in Nat
  BY FS_CardinalityType
<1>2. s \in [D -> S] /\ \A i, j \in D : i # j => s[i] # s[j]
  BY DEF SetToSeqs
<1>3. s \in Injection(D, S)
  BY <1>2 DEF Injection, IsInjective
<1>4. IsFiniteSet(D) /\ Cardinality(D) = Cardinality(S)
  BY <1>1, FS_Interval
<1>5. s \in Surjection(D, S)
  BY <1>3, <1>4, FS_Injection
<1>6. ToSet(s) = S
  BY <1>5 DEF Surjection, ToSet
<1>7. s \in Seq(S)
  BY <1>1, <1>2
<1> QED
  BY <1>2, <1>6, <1>7 DEF Enumerates, IsInjective

\* What RemoveAt returns.
LEMMA RemoveAtProperties ==
    ASSUME NEW S, NEW s \in Seq(S), NEW r \in DOMAIN s
    PROVE  /\ RemoveAt(s, r) \in Seq(S)
           /\ Len(RemoveAt(s, r)) = Len(s) - 1
           /\ \A i \in 1..(Len(s) - 1) :
                 RemoveAt(s, r)[i] = IF i < r THEN s[i] ELSE s[i + 1]
<1> DEFINE head == SubSeq(s, 1, r - 1)
           tail == SubSeq(s, r + 1, Len(s))
<1>1. Len(s) \in Nat /\ r \in 1..Len(s) /\ \A i \in 1..Len(s) : s[i] \in S
  BY LenProperties, ElementOfSeq
<1>2. /\ head \in Seq(S) /\ Len(head) = r - 1
      /\ \A i \in 1..(r - 1) : head[i] = s[i]
  BY <1>1, SubSeqProperties
<1>3. /\ tail \in Seq(S) /\ Len(tail) = Len(s) - r
      /\ \A i \in 1..(Len(s) - r) : tail[i] = s[r + i]
  BY <1>1, SubSeqProperties
<1> HIDE DEF head, tail
<1>4. /\ head \o tail \in Seq(S)
      /\ Len(head \o tail) = Len(head) + Len(tail)
      /\ \A i \in 1..(Len(head) + Len(tail)) :
            (head \o tail)[i] = IF i <= Len(head) THEN head[i] ELSE tail[i - Len(head)]
  BY <1>2, <1>3, ConcatProperties
<1>5. Len(head) + Len(tail) = Len(s) - 1
  BY <1>1, <1>2, <1>3
<1>6. ASSUME NEW i \in 1..(Len(s) - 1)
      PROVE  (head \o tail)[i] = IF i < r THEN s[i] ELSE s[i + 1]
  <2>1. (head \o tail)[i] = IF i <= r - 1 THEN head[i] ELSE tail[i - (r - 1)]
    BY <1>2, <1>4, <1>5
  <2>2. CASE i < r
    BY <1>1, <1>2, <2>1, <2>2
  <2>3. CASE ~(i < r)
    <3>1. i - (r - 1) \in 1..(Len(s) - r) /\ r + (i - (r - 1)) = i + 1
      BY <1>1, <2>3
    <3>2. tail[i - (r - 1)] = s[r + (i - (r - 1))]
      BY <1>3, <3>1
    <3> QED
      BY <1>1, <2>1, <2>3, <3>1, <3>2
  <2> QED
    BY <2>2, <2>3
<1> QED
  BY <1>4, <1>5, <1>6 DEF RemoveAt, head, tail

\* Removing a row removes its element from the set.
LEMMA EnumeratesRemoveAt ==
    ASSUME NEW T, NEW s \in Seq(T), NEW S, Enumerates(s, S), NEW r \in DOMAIN s
    PROVE  Enumerates(RemoveAt(s, r), S \ {s[r]})
<1> DEFINE n == Len(s)
           t == RemoveAt(s, r)
           from(i) == IF i < r THEN i ELSE i + 1
<1>1. n \in Nat /\ DOMAIN s = 1..n /\ r \in 1..n
  BY LenProperties
<1>2. /\ DOMAIN t = 1..(n - 1)
      /\ \A i \in 1..(n - 1) : t[i] = s[from(i)]
  BY <1>1, RemoveAtProperties, LenProperties
<1>3. \A i \in 1..(n - 1) : from(i) \in 1..n /\ from(i) # r
  BY <1>1
<1>4. \A i, j \in 1..(n - 1) : from(i) = from(j) => i = j
  BY <1>1
<1>5. \A k \in 1..n : k # r => \E i \in 1..(n - 1) : from(i) = k
  <2> SUFFICES ASSUME NEW k \in 1..n, k # r
               PROVE  \E i \in 1..(n - 1) : from(i) = k
    OBVIOUS
  <2>1. CASE k < r
    BY <1>1, <2>1
  <2>2. CASE k > r
    <3>1. k - 1 \in 1..(n - 1) /\ from(k - 1) = k
      BY <1>1, <2>2
    <3> QED
      BY <3>1
  <2> QED
    BY <1>1, <2>1, <2>2
<1>6. \A j, k \in 1..n : s[j] = s[k] => j = k
  BY <1>1 DEF Enumerates, IsInjective
<1> HIDE DEF t, from, n
<1>7. IsInjective(t)
  BY <1>2, <1>3, <1>4, <1>6 DEF IsInjective
<1>8. \A i \in 1..(n - 1) : t[i] \in S \ {s[r]}
  <2>1. \A k \in 1..n : s[k] \in S
    BY <1>1 DEF Enumerates, ToSet
  <2> QED
    BY <1>1, <1>2, <1>3, <1>6, <2>1
<1>9. \A x \in S \ {s[r]} : \E i \in 1..(n - 1) : t[i] = x
  <2> SUFFICES ASSUME NEW x \in S, x # s[r]
               PROVE  \E i \in 1..(n - 1) : t[i] = x
    OBVIOUS
  <2>1. PICK k \in 1..n : s[k] = x
    BY <1>1 DEF Enumerates, ToSet
  <2>2. PICK i \in 1..(n - 1) : from(i) = k
    BY <1>5, <2>1
  <2> QED
    BY <1>2, <2>1, <2>2
<1>10. ToSet(t) = S \ {s[r]}
  BY <1>2, <1>8, <1>9 DEF ToSet
<1> QED
  BY <1>7, <1>10 DEF Enumerates, t

\* Appending an element that is not listed yet adds it to the set.
LEMMA EnumeratesAppend ==
    ASSUME NEW T, NEW s \in Seq(T), NEW S, Enumerates(s, S), NEW x \in T, x \notin S
    PROVE  Enumerates(Append(s, x), S \cup {x})
<1> DEFINE n == Len(s)
           t == Append(s, x)
<1>1. /\ n \in Nat /\ DOMAIN s = 1..n
      /\ DOMAIN t = 1..(n + 1)
      /\ t[n + 1] = x
      /\ \A i \in 1..n : t[i] = s[i]
  BY LenProperties, AppendProperties
<1>2. \A k \in 1..n : s[k] \in S
  BY <1>1 DEF Enumerates, ToSet
<1>3. \A j, k \in 1..n : s[j] = s[k] => j = k
  BY <1>1 DEF Enumerates, IsInjective
<1>4. \A y \in S : \E k \in 1..n : s[k] = y
  BY <1>1 DEF Enumerates, ToSet
<1>5. \A i \in 1..(n + 1) : i = n + 1 \/ i \in 1..n
  BY <1>1
<1>6. \A i \in 1..n : i \in 1..(n + 1)
  BY <1>1
<1>7. n + 1 \in 1..(n + 1)
  BY <1>1
<1> HIDE DEF n, t
<1>8. IsInjective(t)
  BY <1>1, <1>2, <1>3, <1>5 DEF IsInjective
<1>9. \A y : y \in S \cup {x} <=> \E i \in 1..(n + 1) : t[i] = y
  BY <1>1, <1>2, <1>4, <1>5, <1>6, <1>7
<1>10. ToSet(t) = S \cup {x}
  BY <1>1, <1>9 DEF ToSet
<1> QED
  BY <1>8, <1>10 DEF Enumerates, t

\* Replacing a row's element by one that is not listed replaces it in the set.
LEMMA EnumeratesReplace ==
    ASSUME NEW T, NEW s \in Seq(T), NEW S, Enumerates(s, S), NEW r \in DOMAIN s,
           NEW x \in T, x \notin S
    PROVE  /\ [s EXCEPT ![r] = x] \in Seq(T)
           /\ Enumerates([s EXCEPT ![r] = x], (S \ {s[r]}) \cup {x})
<1> DEFINE t == [s EXCEPT ![r] = x]
<1>1. t \in Seq(T)
  BY ExceptSeq
<1>2. /\ DOMAIN t = DOMAIN s
      /\ t[r] = x
      /\ \A i \in DOMAIN s : i # r => t[i] = s[i]
  OBVIOUS
<1>3. \A i, j \in DOMAIN s : s[i] = s[j] => i = j
  BY DEF Enumerates, IsInjective
<1>4. \A y : y \in S <=> \E i \in DOMAIN s : s[i] = y
  BY DEF Enumerates, ToSet
<1> HIDE DEF t
<1>5. IsInjective(t)
  BY <1>2, <1>3, <1>4 DEF IsInjective
<1>6. \A y : y \in (S \ {s[r]}) \cup {x} <=> \E i \in DOMAIN t : t[i] = y
  BY <1>2, <1>3, <1>4
<1>7. ToSet(t) = (S \ {s[r]}) \cup {x}
  BY <1>6 DEF ToSet
<1> QED
  BY <1>1, <1>5, <1>7 DEF Enumerates, t
=============================================================================
