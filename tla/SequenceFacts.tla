---------------------------- MODULE SequenceFacts ----------------------------
(***************************************************************************)
(* What the proofs need to know of sequences beyond the standard theorems: *)
(* the least of some numbers, and a sequence without one of its elements.  *)
(***************************************************************************)
EXTENDS SequencesExt, SequenceTheorems, WellFoundedInduction, TLAPS

(* A set of numbers that has one has a least one.                          *)
LEMMA LeastOfNat ==
    ASSUME NEW S, S \subseteq Nat, S # {}
    PROVE  \E i \in S : \A j \in S : i <= j
<1>1. PICK i \in S : \A j \in S : ~(<<j, i>> \in OpToRel(<, Nat))
  BY NatLessThanWellFounded, WFMin
<1>2. \A j \in S : i <= j
  <2> TAKE j \in S
  <2>1. i \in Nat /\ j \in Nat
    OBVIOUS
  <2>2. SUFFICES ASSUME j < i PROVE FALSE
    BY <2>1
  <2>3. <<j, i>> \in Nat \X Nat /\ <<j, i>>[1] < <<j, i>>[2]
    BY <2>1, <2>2
  <2>4. <<j, i>> \in OpToRel(<, Nat)
    BY <2>3 DEF OpToRel
  <2> QED  BY <1>1, <2>4
<1> QED  BY <1>2

(* A sequence without the element at one place.                            *)
LEMMA RemovedFits ==
    ASSUME NEW S, NEW s \in Seq(S), NEW k \in 1..Len(s)
    PROVE  /\ RemoveAt(s, k) \in Seq(S) /\ Len(RemoveAt(s, k)) = Len(s) - 1
           /\ \A j \in 1..Len(s) - 1 : RemoveAt(s, k)[j] = IF j < k THEN s[j] ELSE s[j + 1]
<1> DEFINE r == RemoveAt(s, k)
           a == SubSeq(s, 1, k - 1)
           b == SubSeq(s, k + 1, Len(s))
<1>1. /\ a \in Seq(S) /\ Len(a) = k - 1 /\ \A j \in 1..(k - 1) : a[j] = s[j]
      /\ b \in Seq(S) /\ Len(b) = Len(s) - k /\ \A j \in 1..(Len(s) - k) : b[j] = s[j + k]
  OBVIOUS
<1>2. r = a \o b
  BY DEF RemoveAt
<1> HIDE DEF a, b, r
<1>3. /\ r \in Seq(S) /\ Len(r) = Len(a) + Len(b)
      /\ \A j \in 1..(Len(a) + Len(b)) : r[j] = IF j <= Len(a) THEN a[j] ELSE b[j - Len(a)]
  BY <1>1, <1>2, ConcatProperties
<1>4. Len(a) = k - 1 /\ Len(b) = Len(s) - k /\ k \in 1..Len(s) /\ Len(s) \in Nat
  BY <1>1
<1>5. r \in Seq(S) /\ Len(r) = Len(s) - 1
  BY <1>3, <1>4
<1>6. ASSUME NEW j \in 1..(Len(s) - 1) PROVE r[j] = IF j < k THEN s[j] ELSE s[j + 1]
  <2>1. CASE j < k
    <3>1. j \in 1..(k - 1) /\ j <= Len(a) /\ j \in 1..(Len(a) + Len(b))
      BY <1>4, <2>1
    <3> QED BY <1>1, <1>3, <2>1, <3>1
  <2>2. CASE ~(j < k)
    <3>1. j - Len(a) = j + 1 - k /\ j + 1 - k \in 1..(Len(s) - k) /\ ~(j <= Len(a)) /\ j \in 1..(Len(a) + Len(b))
      BY <1>4, <2>2
    <3>2. b[j + 1 - k] = s[j + 1 - k + k] /\ j + 1 - k + k = j + 1
      BY <1>1, <1>4, <3>1
    <3> QED BY <1>3, <2>2, <3>1, <3>2
  <2> QED BY <2>1, <2>2
<1> QED BY <1>5, <1>6 DEF r

(* RemoveFirst removes at the first place, if there is one.                *)
LEMMA FirstPlace ==
    ASSUME NEW S, NEW s \in Seq(S), NEW e, \E i \in 1..Len(s) : s[i] = e
    PROVE  \E k \in 1..Len(s) : s[k] = e /\ RemoveFirst(s, e) = RemoveAt(s, k)
<1> DEFINE places == {i \in 1..Len(s) : s[i] = e}
           k == Min(places)
<1>1. places # {} /\ places \subseteq Nat
  BY LenProperties
<1>2. \E i \in places : \A j \in places : i <= j
  BY <1>1, LeastOfNat
<1>3. k \in places
  BY <1>2, Zenon DEF Min
<1>4. RemoveFirst(s, e) = RemoveAt(s, k)
  BY <1>1 DEF RemoveFirst, SelectInSeq
<1> HIDE DEF k
<1> QED BY <1>3, <1>4

(* What is left when an element is removed from a sequence that has it     *)
(* once at most: the others, in their order.                               *)
LEMMA RemovedFirst ==
    ASSUME NEW S, NEW s \in Seq(S), IsInjective(s), NEW e
    PROVE  \E k \in Nat \ {0} :
              /\ k \in 1..Len(s) => s[k] = e
              /\ RemoveFirst(s, e) \in Seq(S)
              /\ Len(RemoveFirst(s, e)) = IF k \in 1..Len(s) THEN Len(s) - 1 ELSE Len(s)
              /\ \A j \in 1..Len(RemoveFirst(s, e)) :
                    /\ RemoveFirst(s, e)[j] = s[IF j < k THEN j ELSE j + 1]
                    /\ RemoveFirst(s, e)[j] # e
<1> DEFINE r == RemoveFirst(s, e)
           Left(k) == /\ k \in 1..Len(s) => s[k] = e
                      /\ r \in Seq(S)
                      /\ Len(r) = IF k \in 1..Len(s) THEN Len(s) - 1 ELSE Len(s)
                      /\ \A j \in 1..Len(r) : r[j] = s[IF j < k THEN j ELSE j + 1] /\ r[j] # e
<1> SUFFICES \E k \in Nat \ {0} : Left(k)
  OBVIOUS
<1>1. Len(s) \in Nat /\ DOMAIN s = 1..Len(s) /\ \A i, j \in 1..Len(s) : s[i] = s[j] => i = j
  BY LenProperties DEF IsInjective
<1>2. CASE \E i \in 1..Len(s) : s[i] = e
  <2>1. PICK k \in 1..Len(s) : s[k] = e /\ r = RemoveAt(s, k)
    BY <1>2, FirstPlace
  <2>2. r \in Seq(S) /\ Len(r) = Len(s) - 1 /\ \A j \in 1..Len(s) - 1 : r[j] = IF j < k THEN s[j] ELSE s[j + 1]
    BY <2>1, RemovedFits
  <2> HIDE DEF r
  <2>3. ASSUME NEW j \in 1..Len(r) PROVE r[j] = s[IF j < k THEN j ELSE j + 1] /\ r[j] # e
    <3> DEFINE i == IF j < k THEN j ELSE j + 1
    <3>1. j \in 1..Len(s) - 1 BY <2>2
    <3>2. i \in 1..Len(s) /\ i # k BY <1>1, <2>1, <3>1
    <3>3. r[j] = s[i] BY <2>2, <3>1
    <3>4. s[i] # s[k] BY <1>1, <2>1, <3>2
    <3> QED BY <2>1, <3>3, <3>4
  <2>4. k \in Nat \ {0} /\ Left(k) BY <1>1, <2>1, <2>2, <2>3
  <2> QED BY <2>4
<1>3. CASE ~\E i \in 1..Len(s) : s[i] = e
  <2>1. r = s BY <1>3 DEF RemoveFirst
  <2> DEFINE k == Len(s) + 1
  <2>2. \A j \in 1..Len(s) : s[j] = s[IF j < k THEN j ELSE j + 1] /\ s[j] # e
    BY <1>1, <1>3
  <2>3. k \in Nat \ {0} /\ k \notin 1..Len(s) BY <1>1
  <2>4. Len(r) = Len(s) /\ r \in Seq(S) BY <2>1
  <2>5. \A j \in 1..Len(r) : r[j] = s[IF j < k THEN j ELSE j + 1] /\ r[j] # e
    BY <2>1, <2>2
  <2> HIDE DEF r, k
  <2> QED BY <2>3, <2>4, <2>5
<1> QED BY <1>2, <1>3

(* So the rest is without repetition, has the other elements, and the      *)
(* element may be appended to it.                                          *)
LEMMA RemovedElement ==
    ASSUME NEW S, NEW s \in Seq(S), IsInjective(s), NEW e
    PROVE  /\ RemoveFirst(s, e) \in Seq(S) /\ IsInjective(RemoveFirst(s, e))
           /\ ToSet(RemoveFirst(s, e)) = ToSet(s) \ {e}
           /\ e \in S => /\ Append(RemoveFirst(s, e), e) \in Seq(S)
                         /\ IsInjective(Append(RemoveFirst(s, e), e))
                         /\ ToSet(Append(RemoveFirst(s, e), e)) = ToSet(s) \cup {e}
<1> DEFINE r == RemoveFirst(s, e)
           a == Append(r, e)
           n == Len(r)
<1>1. Len(s) \in Nat /\ DOMAIN s = 1..Len(s) /\ \A i, j \in 1..Len(s) : s[i] = s[j] => i = j
  BY LenProperties DEF IsInjective
<1>2. PICK k \in Nat \ {0} :
              /\ k \in 1..Len(s) => s[k] = e
              /\ r \in Seq(S) /\ n = IF k \in 1..Len(s) THEN Len(s) - 1 ELSE Len(s)
              /\ \A j \in 1..n : r[j] = s[IF j < k THEN j ELSE j + 1] /\ r[j] # e
  BY RemovedFirst
<1> HIDE DEF r
<1>0. k \in Nat \ {0} /\ Len(s) \in Nat /\ n = IF k \in 1..Len(s) THEN Len(s) - 1 ELSE Len(s)
  BY <1>1, <1>2
<1>3. n \in Nat /\ DOMAIN r = 1..n
  BY <1>2, LenProperties
<1>n. n \in Nat /\ k \in Nat /\ Len(s) \in Nat /\ (k <= Len(s) => n = Len(s) - 1) /\ (k > Len(s) => n = Len(s))
  BY <1>0, <1>3
<1> HIDE DEF n
<1>4. ASSUME NEW i \in 1..n, NEW j \in 1..n, r[i] = r[j] PROVE i = j
  <2> DEFINE x == IF i < k THEN i ELSE i + 1
             y == IF j < k THEN j ELSE j + 1
  <2>1. x \in 1..Len(s) /\ y \in 1..Len(s) BY <1>n
  <2>2. s[x] = s[y] BY <1>2, <1>4
  <2>3. x = y BY <1>1, <2>1, <2>2
  <2> QED BY <1>2, <2>3
<1>5. ASSUME NEW x \in ToSet(s), x # e PROVE \E j \in 1..n : r[j] = x
  <2>1. PICK i \in 1..Len(s) : s[i] = x BY <1>1, <1>5 DEF ToSet
  <2>2. i # k BY <1>2, <1>5, <2>1
  <2> DEFINE j == IF i < k THEN i ELSE i - 1
  <2>3. j \in 1..n /\ i = IF j < k THEN j ELSE j + 1 BY <1>n, <2>2
  <2> QED BY <1>2, <2>1, <2>3
<1>6. ASSUME NEW j \in 1..n PROVE r[j] \in ToSet(s) \ {e}
  <2> DEFINE i == IF j < k THEN j ELSE j + 1
  <2>1. i \in 1..Len(s) BY <1>n
  <2> QED BY <1>1, <1>2, <2>1 DEF ToSet
<1>7. r \in Seq(S) /\ IsInjective(r) /\ ToSet(r) = ToSet(s) \ {e}
  <2>1. IsInjective(r) BY <1>3, <1>4 DEF IsInjective
  <2>2. ToSet(r) = ToSet(s) \ {e} BY <1>3, <1>5, <1>6 DEF ToSet
  <2> QED BY <1>2, <2>1, <2>2
<1>8. ASSUME e \in S PROVE a \in Seq(S) /\ IsInjective(a) /\ ToSet(a) = ToSet(s) \cup {e}
  <2>1. a \in Seq(S) /\ Len(a) = n + 1 /\ a[n + 1] = e /\ \A j \in 1..n : a[j] = r[j]
    BY <1>2, <1>8, <1>3, AppendProperties DEF n
  <2> HIDE DEF a
  <2>2. DOMAIN a = 1..n + 1 BY <1>3, <2>1, LenProperties
  <2>3. \A j \in 1..n : a[j] # e BY <1>2, <2>1
  <2>4. IsInjective(a)
    <3> SUFFICES ASSUME NEW i \in 1..n + 1, NEW j \in 1..n + 1, a[i] = a[j] PROVE i = j
      BY <2>2 DEF IsInjective
    <3>1. CASE i = n + 1 \/ j = n + 1 BY <1>3, <2>1, <2>3, <3>1
    <3>2. CASE i \in 1..n /\ j \in 1..n BY <1>4, <2>1, <3>2
    <3> QED BY <1>3, <3>1, <3>2
  <2>5. ToSet(a) = {a[j] : j \in 1..n + 1} /\ ToSet(r) = {r[j] : j \in 1..n}
    BY <1>3, <2>2 DEF ToSet
  <2>6. ToSet(a) = ToSet(r) \cup {e}
    <3>1. ASSUME NEW x \in ToSet(a) PROVE x \in ToSet(r) \cup {e}
      <4>1. PICK j \in 1..n + 1 : a[j] = x BY <2>5
      <4>2. CASE j = n + 1 BY <2>1, <4>1, <4>2
      <4>3. CASE j \in 1..n BY <2>1, <2>5, <4>1, <4>3
      <4> QED BY <1>3, <4>2, <4>3
    <3>2. ASSUME NEW x \in ToSet(r) PROVE x \in ToSet(a)
      <4>1. PICK j \in 1..n : r[j] = x BY <2>5
      <4>2. j \in 1..n + 1 /\ a[j] = x BY <1>3, <2>1, <4>1
      <4> QED BY <2>5, <4>2
    <3>3. e \in ToSet(a)
      <4>1. n + 1 \in 1..n + 1 BY <1>3
      <4> QED BY <2>1, <2>5, <4>1
    <3> QED BY <3>1, <3>2, <3>3
  <2>7. ToSet(a) = ToSet(s) \cup {e}
    BY <1>7, <2>6 
  <2> QED BY <2>1, <2>4, <2>7
<1> QED BY <1>7, <1>8 DEF r
=============================================================================
