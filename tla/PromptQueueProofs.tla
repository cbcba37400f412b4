-------------------------- MODULE PromptQueueProofs --------------------------
(***************************************************************************)
(* Proofs about PromptQueue for any number of prompts, texts, wakes and    *)
(* commands: the running turn is the front of the queue, a stop holds, one *)
(* turn runs at a time, every prompt stays answerable, a send-now spares   *)
(* what the model has not seen, and what a user says is kept.              *)
(***************************************************************************)
EXTENDS PromptQueue, TLAPS, FiniteSetTheorems, SequenceTheorems, WellFoundedInduction

-----------------------------------------------------------------------------
(* What the edits of a queue leave in it.                                  *)

IdsIn(q) == {e.id : e \in Elements(q)}
Distinct(q) == \A j, k \in 1..Len(q) : q[j].id = q[k].id => j = k

\* A set of numbers that is not empty has a least one.
LEMMA LeastOf ==
    ASSUME NEW S \in SUBSET Nat, S # {}
    PROVE  \E n \in S : \A m \in S : n <= m
<1> DEFINE R == OpToRel(<, Nat)
<1>1. IsWellFoundedOn(R, Nat)
  BY NatLessThanWellFounded
<1>2. \A m, n \in Nat : m < n => <<m, n>> \in R
  BY DEF OpToRel
<1> HIDE DEF R
<1>3. PICK n \in S : \A m \in S : ~(<<m, n>> \in R)
  BY <1>1, WFMin
<1>4. ASSUME NEW m \in S PROVE n <= m
  <2>1. m \in Nat /\ n \in Nat
    OBVIOUS
  <2>2. ~(m < n)
    BY <1>2, <1>3, <2>1
  <2> QED  BY <2>1, <2>2
<1> QED  BY <1>4

\* The entries of a sequence.
LEMMA ElementsOf ==
    ASSUME NEW T, NEW q \in Seq(T)
    PROVE  /\ Elements(q) \subseteq T
           /\ q = <<>> <=> Elements(q) = {}
           /\ q # <<>> => Head(q) = q[1] /\ Head(q) \in Elements(q) /\ Len(q) >= 1
<1>1. Len(q) \in Nat /\ \A k \in 1..Len(q) : q[k] \in T
  OBVIOUS
<1>2. Elements(q) \subseteq T
  BY <1>1 DEF Elements
<1>3. q = <<>> => Elements(q) = {}
  BY DEF Elements
<1>4. q # <<>> => Head(q) = q[1] /\ Len(q) >= 1
  BY <1>1
<1>5. q # <<>> => Head(q) \in Elements(q)
  BY <1>1, <1>4 DEF Elements
<1> QED  BY <1>2, <1>3, <1>4, <1>5

\* Only picks the places of q that hold an entry of S, in their order.
LEMMA OnlyPlaces ==
    ASSUME NEW T, NEW q \in Seq(T), NEW S
    PROVE  /\ Only(q, S) \in Seq(T)
           /\ \E h \in [1..Len(Only(q, S)) -> 1..Len(q)] :
                /\ \A j \in 1..Len(Only(q, S)) : Only(q, S)[j] = q[h[j]] /\ q[h[j]] \in S
                /\ \A i, j \in 1..Len(Only(q, S)) : i < j => h[i] < h[j]
                /\ \A k \in 1..Len(q) : q[k] \in S => \E j \in 1..Len(Only(q, S)) : h[j] = k
<1> DEFINE K == {k \in 1..Len(q) : q[k] \in S}
           Low(k) == {i \in K : i <= k}
           n == Cardinality(K)
           h == [j \in 1..n |-> CHOOSE k \in K : Cardinality(Low(k)) = j]
           r == [k \in K |-> Cardinality(Low(k))]
<1>0. Len(q) \in Nat /\ \A k \in 1..Len(q) : q[k] \in T
  OBVIOUS
<1>1. IsFiniteSet(K) /\ n \in Nat
  <2>1. IsFiniteSet(1..Len(q)) /\ K \in SUBSET (1..Len(q))
    BY <1>0, FS_Interval
  <2> QED  BY <2>1, FS_Subset, FS_CardinalityType
<1>2. K \subseteq 1..Len(q) /\ \A k \in K : k \in Nat
  BY <1>0
<1>3. Only(q, S) = [j \in 1..n |-> q[CHOOSE k \in K : Cardinality(Low(k)) = j]]
  BY DEF Only
<1>4. \A k \in 1..Len(q) : k \in K <=> q[k] \in S
  OBVIOUS
<1> HIDE DEF K
<1>5. \A k \in K : IsFiniteSet(Low(k)) /\ Cardinality(Low(k)) \in 1..n
  <2> SUFFICES ASSUME NEW k \in K
               PROVE  IsFiniteSet(Low(k)) /\ Cardinality(Low(k)) \in 1..n
    OBVIOUS
  <2>1. Low(k) \in SUBSET K /\ k \in Low(k)
    BY <1>2
  <2> HIDE DEF Low
  <2>2. IsFiniteSet(Low(k)) /\ Cardinality(Low(k)) <= n /\ Cardinality(Low(k)) \in Nat
    BY <1>1, <2>1, FS_Subset, FS_CardinalityType
  <2>3. Cardinality(Low(k)) # 0
    BY <2>1, <2>2, FS_EmptySet
  <2> QED  BY <1>1, <2>2, <2>3
<1>6. \A i, k \in K : i < k => Cardinality(Low(i)) < Cardinality(Low(k))
  <2> SUFFICES ASSUME NEW i \in K, NEW k \in K, i < k
               PROVE  Cardinality(Low(i)) < Cardinality(Low(k))
    OBVIOUS
  <2>0. i \in Nat /\ k \in Nat
    BY <1>2
  <2>1. Low(i) \in SUBSET Low(k) /\ k \in Low(k) /\ k \notin Low(i)
    <3>1. \A x \in K : x \in Nat /\ (x <= i => x <= k)
      BY <1>2, <2>0
    <3>2. k \in Low(k) /\ k \notin Low(i)
      BY <2>0
    <3> QED  BY <3>1, <3>2
  <2> HIDE DEF Low
  <2>2. Cardinality(Low(i)) <= Cardinality(Low(k)) /\ Cardinality(Low(i)) # Cardinality(Low(k))
    BY <1>5, <2>1, FS_Subset
  <2> QED  BY <1>1, <1>5, <2>2
<1> HIDE DEF Low
<1>7. \A i, k \in K : Cardinality(Low(i)) = Cardinality(Low(k)) => i = k
  BY <1>1, <1>2, <1>5, <1>6
<1>8. \A j \in 1..n : \E k \in K : Cardinality(Low(k)) = j
  <2>1. r \in [K -> 1..n]
    BY <1>5
  <2>2. \A i, k \in K : r[i] = r[k] => i = k
    BY <1>7
  <2>3. r \in Injection(K, 1..n)
    BY <2>1, <2>2 DEF Injection, IsInjective
  <2>4. IsFiniteSet(1..n) /\ Cardinality(1..n) = n
    BY <1>1, FS_Interval
  <2>5. r \in Surjection(K, 1..n)
    <3> HIDE DEF r
    <3> QED  BY <2>3, <2>4, FS_Injection
  <2>6. \A j \in 1..n : \E k \in K : r[k] = j
    BY <2>5 DEF Surjection
  <2> QED  BY <2>6
<1>9. \A j \in 1..n : h[j] \in K /\ Cardinality(Low(h[j])) = j
  BY <1>8
<1>10. \A j \in 1..n : Only(q, S)[j] = q[h[j]]
  BY <1>3
<1>11. Only(q, S) \in Seq(T) /\ Len(Only(q, S)) = n
  <2>1. \A j \in 1..n : q[h[j]] \in T
    BY <1>0, <1>2, <1>9
  <2>2. Only(q, S) \in [1..n -> T]
    BY <1>3, <1>10, <2>1
  <2> HIDE DEF n
  <2> QED  BY <1>1, <2>2
<1> HIDE DEF h, r
<1>12. \A i, j \in 1..n : i < j => h[i] < h[j]
  <2> SUFFICES ASSUME NEW i \in 1..n, NEW j \in 1..n, i < j, ~(h[i] < h[j])
               PROVE  FALSE
    OBVIOUS
  <2>1. h[i] \in K /\ h[j] \in K /\ Cardinality(Low(h[i])) = i /\ Cardinality(Low(h[j])) = j
    BY <1>9
  <2>2. h[j] < h[i] \/ h[j] = h[i]
    <3>1. h[i] \in Nat /\ h[j] \in Nat
      BY <1>2, <2>1
    <3> QED  BY <3>1
  <2>3. j < i \/ j = i
    BY <1>6, <2>1, <2>2
  <2> QED  BY <1>1, <2>3
<1>13. \A k \in K : \E j \in 1..n : h[j] = k
  BY <1>5, <1>7, <1>9
<1>14. h \in [1..n -> 1..Len(q)]
  BY <1>2, <1>9 DEF h
<1>15. \A j \in 1..n : q[h[j]] \in S
  BY <1>2, <1>4, <1>9
<1>16. \A k \in 1..Len(q) : q[k] \in S => \E j \in 1..n : h[j] = k
  BY <1>4, <1>13
<1> HIDE DEF n
<1> QED  BY <1>10, <1>11, <1>12, <1>14, <1>15, <1>16

\* The rows that Only leaves: those in S, each once, and the front if it is one.
LEMMA OnlyRows ==
    ASSUME NEW q \in Seq(Items), NEW S
    PROVE  /\ Only(q, S) \in Seq(Items)
           /\ Elements(Only(q, S)) = Elements(q) \cap S
           /\ Distinct(q) => Distinct(Only(q, S))
           /\ q # <<>> /\ Head(q) \in S
                => Only(q, S) # <<>> /\ Head(Only(q, S)) = Head(q)
<1> DEFINE o == Only(q, S)
<1>1. PICK h \in [1..Len(o) -> 1..Len(q)] :
        /\ \A j \in 1..Len(o) : o[j] = q[h[j]] /\ q[h[j]] \in S
        /\ \A i, j \in 1..Len(o) : i < j => h[i] < h[j]
        /\ \A k \in 1..Len(q) : q[k] \in S => \E j \in 1..Len(o) : h[j] = k
  BY OnlyPlaces
<1>2. o \in Seq(Items)
  BY OnlyPlaces
<1> HIDE DEF o
<1>3. Len(o) \in Nat /\ Len(q) \in Nat /\ \A j \in 1..Len(o) : h[j] \in 1..Len(q)
  BY <1>2
<1>4. Elements(o) = Elements(q) \cap S
  <2>1. \A j \in 1..Len(o) : o[j] \in Elements(q) \cap S
    BY <1>1, <1>3 DEF Elements
  <2>2. \A k \in 1..Len(q) : q[k] \in S => q[k] \in Elements(o)
    <3> SUFFICES ASSUME NEW k \in 1..Len(q), q[k] \in S PROVE q[k] \in Elements(o)
      OBVIOUS
    <3>1. PICK j \in 1..Len(o) : h[j] = k
      BY <1>1
    <3>2. o[j] = q[k]
      BY <1>1, <3>1
    <3> QED  BY <3>2 DEF Elements
  <2> QED  BY <2>1, <2>2 DEF Elements
<1>5. Distinct(q) => Distinct(o)
  <2> SUFFICES ASSUME Distinct(q), NEW i \in 1..Len(o), NEW j \in 1..Len(o), o[i].id = o[j].id
               PROVE  i = j
    BY DEF Distinct
  <2>1. h[i] = h[j]
    BY <1>1, <1>3 DEF Distinct
  <2>2. h[i] \in Int /\ h[j] \in Int
    BY <1>3
  <2> QED  BY <1>1, <1>3, <2>1, <2>2
<1>6. ASSUME q # <<>>, Head(q) \in S  PROVE o # <<>> /\ Head(o) = Head(q)
  <2>1. Len(q) >= 1 /\ Head(q) = q[1]
    BY <1>6, ElementsOf
  <2>2. PICK j \in 1..Len(o) : h[j] = 1
    BY <1>1, <1>3, <1>6, <2>1
  <2>3. j = 1
    <3> SUFFICES ASSUME j # 1 PROVE FALSE
      OBVIOUS
    <3>1. 1 \in 1..Len(o) /\ 1 < j
      BY <1>3
    <3>2. h[1] < 1 /\ h[1] \in 1..Len(q)
      BY <1>1, <1>3, <2>2, <3>1
    <3> QED  BY <3>2
  <2>4. o # <<>> /\ o[1] = q[1]
    BY <1>1, <2>2, <2>3
  <2> QED  BY <1>2, <2>1, <2>4, ElementsOf
<1> QED  BY <1>2, <1>4, <1>5, <1>6 DEF o

\* Two queues put together.
LEMMA ConcatRows ==
    ASSUME NEW a \in Seq(Items), NEW b \in Seq(Items)
    PROVE  /\ a \o b \in Seq(Items)
           /\ Elements(a \o b) = Elements(a) \cup Elements(b)
           /\ Distinct(a \o b) <=> Distinct(a) /\ Distinct(b) /\ IdsIn(a) \cap IdsIn(b) = {}
           /\ a # <<>> => a \o b # <<>> /\ Head(a \o b) = Head(a)
<1> DEFINE c == a \o b
           m == Len(a)
           n == Len(b)
<1>1. /\ c \in Seq(Items) /\ Len(c) = m + n
      /\ \A i \in 1..m : c[i] = a[i]
      /\ \A i \in 1..n : c[m + i] = b[i]
  <2>1. \A i \in 1..Len(c) : c[i] = IF i <= m THEN a[i] ELSE b[i - m]
    BY ConcatProperties
  <2>2. c \in Seq(Items) /\ Len(c) = m + n
    BY ConcatProperties
  <2> QED  BY <2>1, <2>2
<1>2. m \in Nat /\ n \in Nat
  OBVIOUS
<1> HIDE DEF c, m, n
<1>3. \A i \in 1..(m + n) : i \in 1..m \/ \E j \in 1..n : i = m + j
  <2> SUFFICES ASSUME NEW i \in 1..(m + n), i \notin 1..m PROVE \E j \in 1..n : i = m + j
    OBVIOUS
  <2>1. i - m \in 1..n /\ i = m + (i - m)
    BY <1>2
  <2> QED  BY <2>1
<1>3a. /\ \A i \in 1..m : i \in 1..(m + n)
       /\ \A i \in 1..n : m + i \in 1..(m + n) /\ m + i > m
  BY <1>2
<1>4. Elements(c) = Elements(a) \cup Elements(b)
  <2>1. Elements(c) = {c[i] : i \in 1..(m + n)} /\ Elements(a) = {a[i] : i \in 1..m}
          /\ Elements(b) = {b[i] : i \in 1..n}
    BY <1>1 DEF Elements, m, n
  <2> QED  BY <1>1, <1>3, <1>3a, <2>1
<1>5. IdsIn(a) = {a[i].id : i \in 1..m} /\ IdsIn(b) = {b[i].id : i \in 1..n}
  BY DEF IdsIn, Elements, m, n
<1>6. /\ Distinct(a) <=> \A i, j \in 1..m : a[i].id = a[j].id => i = j
      /\ Distinct(b) <=> \A i, j \in 1..n : b[i].id = b[j].id => i = j
      /\ Distinct(c) <=> \A i, j \in 1..(m + n) : c[i].id = c[j].id => i = j
  BY <1>1 DEF Distinct, m, n
<1>7. Distinct(c) => Distinct(a) /\ Distinct(b) /\ IdsIn(a) \cap IdsIn(b) = {}
  <2> SUFFICES ASSUME Distinct(c)
               PROVE  Distinct(a) /\ Distinct(b) /\ IdsIn(a) \cap IdsIn(b) = {}
    OBVIOUS
  <2>1. Distinct(a)
    BY <1>1, <1>3a, <1>6
  <2>2. Distinct(b)
    <3> SUFFICES ASSUME NEW i \in 1..n, NEW j \in 1..n, b[i].id = b[j].id PROVE i = j
      BY <1>6
    <3>1. m + i = m + j
      BY <1>1, <1>3a, <1>6
    <3> QED  BY <1>2, <3>1
  <2>3. IdsIn(a) \cap IdsIn(b) = {}
    <3> SUFFICES ASSUME NEW i \in 1..m, NEW j \in 1..n, a[i].id = b[j].id PROVE FALSE
      BY <1>5
    <3>1. i = m + j
      BY <1>1, <1>3a, <1>6
    <3> QED  BY <1>2, <3>1
  <2> QED  BY <2>1, <2>2, <2>3
<1>8. Distinct(a) /\ Distinct(b) /\ IdsIn(a) \cap IdsIn(b) = {} => Distinct(c)
  <2> SUFFICES ASSUME Distinct(a), Distinct(b), IdsIn(a) \cap IdsIn(b) = {},
                      NEW i \in 1..(m + n), NEW j \in 1..(m + n), c[i].id = c[j].id
               PROVE  i = j
    BY <1>6
  <2>0. \A k \in 1..m, l \in 1..n : a[k].id # b[l].id
    BY <1>5
  <2>1. CASE i \in 1..m /\ j \in 1..m
    BY <1>1, <1>6, <2>1
  <2>2. CASE i \in 1..m /\ j \notin 1..m
    <3>1. PICK l \in 1..n : j = m + l
      BY <1>3, <2>2
    <3> QED  BY <1>1, <2>0, <2>2, <3>1
  <2>3. CASE i \notin 1..m /\ j \in 1..m
    <3>1. PICK l \in 1..n : i = m + l
      BY <1>3, <2>3
    <3> QED  BY <1>1, <2>0, <2>3, <3>1
  <2>4. CASE i \notin 1..m /\ j \notin 1..m
    <3>1. PICK k \in 1..n, l \in 1..n : i = m + k /\ j = m + l
      BY <1>3, <2>4
    <3>2. b[k].id = b[l].id
      BY <1>1, <3>1
    <3> QED  BY <1>6, <3>1, <3>2
  <2> QED  BY <2>1, <2>2, <2>3, <2>4
<1>9. a # <<>> => c # <<>> /\ Head(c) = Head(a)
  <2> SUFFICES ASSUME a # <<>> PROVE c # <<>> /\ Head(c) = Head(a)
    OBVIOUS
  <2>1. m >= 1 /\ Head(a) = a[1]
    BY ElementsOf DEF m
  <2>2. c # <<>>
    BY <1>1, <1>2, <2>1
  <2>3. Head(c) = c[1]
    BY <1>1, <2>2, ElementsOf
  <2> QED  BY <1>1, <1>2, <2>1, <2>2, <2>3
<1> QED  BY <1>1, <1>4, <1>7, <1>8, <1>9 DEF c

\* A queue of one row.
LEMMA OneRow ==
    ASSUME NEW e \in Items
    PROVE  <<e>> \in Seq(Items) /\ Elements(<<e>>) = {e} /\ Distinct(<<e>>) /\ IdsIn(<<e>>) = {e.id}
BY DEF Elements, Distinct, IdsIn

\* A queue cut behind its k-th row.
LEMMA SplitRows ==
    ASSUME NEW q \in Seq(Items), NEW k \in 0..Len(q)
    PROVE  /\ SubSeq(q, 1, k) \in Seq(Items) /\ SubSeq(q, k + 1, Len(q)) \in Seq(Items)
           /\ q = SubSeq(q, 1, k) \o SubSeq(q, k + 1, Len(q))
           /\ k = 0 => SubSeq(q, 1, k) = <<>>
           /\ k >= 1 => SubSeq(q, 1, k) # <<>> /\ q # <<>> /\ Head(SubSeq(q, 1, k)) = Head(q)
           /\ Elements(SubSeq(q, 1, k)) = {q[i] : i \in 1..k}
           /\ Elements(SubSeq(q, k + 1, Len(q))) = {q[i] : i \in (k + 1)..Len(q)}
<1> DEFINE n == Len(q)
           m == k + 1
           a == SubSeq(q, 1, k)
           b == SubSeq(q, m, n)
<1>1. k \in Int /\ m \in Int /\ n \in Int /\ 0 <= k /\ k <= n /\ m = k + 1 /\ n \in Nat /\ k \in Nat
  OBVIOUS
<1>2. \A i \in 1..n : q[i] \in Items
  OBVIOUS
<1>3. (\A i \in 1..k : q[i] \in Items) /\ (\A i \in m..n : q[i] \in Items)
  BY <1>1, <1>2
<1>4. a \o b = SubSeq(q, 1, n)
  <2>1. 1 \in 1..(n + 1) /\ k \in (1 - 1)..n /\ n \in k..n
    BY <1>1
  <2> QED  BY <2>1, ConcatAdjacentSubSeq
<1>5. q = a \o b
  BY <1>4, SubSeqFull
<1> HIDE DEF m, n
<1>6. /\ a \in Seq(Items) /\ Len(a) = IF 1 <= k THEN k - 1 + 1 ELSE 0
      /\ \A i \in 1..k - 1 + 1 : a[i] = q[1 + i - 1]
  BY <1>1, <1>3, SubSeqProperties
<1>7. /\ b \in Seq(Items) /\ Len(b) = IF m <= n THEN n - m + 1 ELSE 0
      /\ \A i \in 1..n - m + 1 : b[i] = q[m + i - 1]
  BY <1>1, <1>3, SubSeqProperties
<1> HIDE DEF a, b
<1>8. Len(a) = k /\ \A i \in 1..k : a[i] = q[i]
  BY <1>1, <1>6
<1>9. Elements(a) = {q[i] : i \in 1..k}
  BY <1>8 DEF Elements
<1>10. Elements(b) = {q[i] : i \in m..n}
  <2>1. Len(b) = n - k
    BY <1>1, <1>7
  <2>2. \A i \in 1..n - k : b[i] = q[k + i] /\ k + i \in m..n
    BY <1>1, <1>7
  <2>3. \A j \in m..n : j - k \in 1..n - k /\ q[j] = b[j - k]
    <3> SUFFICES ASSUME NEW j \in m..n PROVE j - k \in 1..n - k /\ q[j] = b[j - k]
      OBVIOUS
    <3>1. j - k \in 1..n - k /\ k + (j - k) = j
      BY <1>1
    <3> QED  BY <2>2, <3>1
  <2> QED  BY <2>1, <2>2, <2>3 DEF Elements
<1>11. k = 0 => a = <<>>
  BY <1>6, <1>8
<1>12. ASSUME k >= 1 PROVE a # <<>> /\ q # <<>> /\ Head(a) = Head(q)
  <2>1. a # <<>>
    BY <1>8, <1>12
  <2> QED  BY <1>5, <1>6, <1>7, <2>1, ConcatRows
<1> QED  BY <1>5, <1>6, <1>7, <1>9, <1>10, <1>11, <1>12 DEF a, b, m, n

\* A queue is its front and the rest.
LEMMA TailRows ==
    ASSUME NEW q \in Seq(Items), q # <<>>
    PROVE  /\ Tail(q) \in Seq(Items) /\ SubSeq(q, 2, Len(q)) = Tail(q)
           /\ Head(q) \in Items /\ q = <<Head(q)>> \o Tail(q)
           /\ Elements(q) = {Head(q)} \cup Elements(Tail(q))
           /\ Distinct(q) => Distinct(Tail(q)) /\ Head(q).id \notin IdsIn(Tail(q))
<1>1. /\ Tail(q) \in Seq(Items) /\ SubSeq(q, 2, Len(q)) = Tail(q)
      /\ Head(q) \in Items
  BY HeadTailProperties, TailIsSubSeq
<1>2. q = <<Head(q)>> \o Tail(q)
  <2>1. 1 \in 0..Len(q)
    BY ElementsOf
  <2>2. q = SubSeq(q, 1, 1) \o SubSeq(q, 1 + 1, Len(q))
    BY <2>1, SplitRows
  <2>3. SubSeq(q, 1, 1) = <<Head(q)>>
    <3>1. q[1] \in Items /\ Head(q) = q[1]
      BY <2>1, ElementsOf
    <3>2. \A i \in 1..1 : q[i] \in Items
      BY <3>1
    <3>3. /\ SubSeq(q, 1, 1) \in Seq(Items)
          /\ Len(SubSeq(q, 1, 1)) = 1
          /\ SubSeq(q, 1, 1)[1] = q[1]
      <4>1. /\ SubSeq(q, 1, 1) \in Seq(Items)
            /\ Len(SubSeq(q, 1, 1)) = IF 1 <= 1 THEN 1 - 1 + 1 ELSE 0
            /\ \A i \in 1..1 - 1 + 1 : SubSeq(q, 1, 1)[i] = q[1 + i - 1]
        BY <3>2, SubSeqProperties
      <4> QED  BY <4>1
    <3>4. <<Head(q)>> \in Seq(Items) /\ Len(<<Head(q)>>) = 1 /\ <<Head(q)>>[1] = q[1]
      BY <3>1
    <3> DEFINE u == SubSeq(q, 1, 1)
               v == <<Head(q)>>
    <3>5. /\ u \in Seq(Items) /\ v \in Seq(Items) /\ Len(u) = 1 /\ Len(v) = 1
          /\ u[1] = v[1]
      BY <3>3, <3>4
    <3> HIDE DEF u, v
    <3>6. u = v
      <4>1. \A i \in 1..Len(u) : u[i] = v[i]
        BY <3>5
      <4> QED  BY <3>5, <4>1, SeqEqual
    <3> QED  BY <3>6 DEF u, v
  <2> QED  BY <1>1, <2>2, <2>3
<1>3. <<Head(q)>> \in Seq(Items) /\ Elements(<<Head(q)>>) = {Head(q)}
        /\ IdsIn(<<Head(q)>>) = {Head(q).id}
  BY <1>1, OneRow
<1> DEFINE a == <<Head(q)>>
           b == Tail(q)
<1>4. a \in Seq(Items) /\ b \in Seq(Items) /\ q = a \o b
        /\ Elements(a) = {Head(q)} /\ IdsIn(a) = {Head(q).id}
  BY <1>1, <1>2, <1>3
<1> HIDE DEF a, b
<1>5. /\ Elements(q) = {Head(q)} \cup Elements(b)
      /\ Distinct(q) => Distinct(b) /\ Head(q).id \notin IdsIn(b)
  BY <1>4, ConcatRows
<1> QED  BY <1>1, <1>2, <1>5 DEF b

\* A row put between two pieces of a queue.
LEMMA MiddleRow ==
    ASSUME NEW a \in Seq(Items), NEW e \in Items, NEW b \in Seq(Items)
    PROVE  /\ a \o <<e>> \o b \in Seq(Items)
           /\ Elements(a \o <<e>> \o b) = Elements(a) \cup {e} \cup Elements(b)
           /\ a \o <<e>> \o b # <<>>
           /\ a # <<>> => Head(a \o <<e>> \o b) = Head(a)
           /\ Distinct(a \o <<e>> \o b) <=>
                /\ Distinct(a) /\ Distinct(b) /\ IdsIn(a) \cap IdsIn(b) = {}
                /\ e.id \notin IdsIn(a) \cup IdsIn(b)
<1> DEFINE s == <<e>>
           c == a \o s
           d == c \o b
<1>1. s \in Seq(Items) /\ Elements(s) = {e} /\ Distinct(s) /\ IdsIn(s) = {e.id} /\ s # <<>>
  BY OneRow
<1> HIDE DEF s
<1>2. /\ c \in Seq(Items) /\ Elements(c) = Elements(a) \cup {e}
      /\ Distinct(c) <=> Distinct(a) /\ e.id \notin IdsIn(a)
      /\ a # <<>> => c # <<>> /\ Head(c) = Head(a)
  BY <1>1, ConcatRows
<1> HIDE DEF c
<1>3. c # <<>> /\ IdsIn(c) = IdsIn(a) \cup {e.id}
  BY <1>2, ElementsOf DEF IdsIn
<1>4. /\ d \in Seq(Items) /\ Elements(d) = Elements(c) \cup Elements(b)
      /\ Distinct(d) <=> Distinct(c) /\ Distinct(b) /\ IdsIn(c) \cap IdsIn(b) = {}
      /\ d # <<>> /\ Head(d) = Head(c)
  BY <1>2, <1>3, ConcatRows
<1> HIDE DEF d
<1>5. /\ Elements(d) = Elements(a) \cup {e} \cup Elements(b)
      /\ a # <<>> => Head(d) = Head(a)
      /\ Distinct(d) <=>
           /\ Distinct(a) /\ Distinct(b) /\ IdsIn(a) \cap IdsIn(b) = {}
           /\ e.id \notin IdsIn(a) \cup IdsIn(b)
  BY <1>2, <1>3, <1>4
<1> QED  BY <1>4, <1>5 DEF d, c, s

\* A row taken out of a queue.
LEMMA WithoutRow ==
    ASSUME NEW q \in Seq(Items), NEW k \in 1..Len(q), Distinct(q)
    PROVE  /\ Without(q, k) \in Seq(Items) /\ Distinct(Without(q, k))
           /\ Elements(Without(q, k)) = Elements(q) \ {q[k]}
           /\ q[k] \in Items /\ q[k] \in Elements(q)
           /\ q[k].id \notin IdsIn(Without(q, k))
           /\ q[k] # Head(q) => Without(q, k) # <<>> /\ Head(Without(q, k)) = Head(q)
<1> DEFINE a == SubSeq(q, 1, k - 1)
           b == SubSeq(q, k + 1, Len(q))
           w == Without(q, k)
           one == <<q[k]>>
<1>0. k \in Nat /\ Len(q) \in Nat /\ k >= 1 /\ k <= Len(q) /\ k - 1 \in 0..Len(q) /\ k \in 0..Len(q)
        /\ (k - 1) + 1 = k
  OBVIOUS
<1>1. q[k] \in Items /\ q[k] \in Elements(q)
  BY DEF Elements
<1>2. w = a \o b
  BY DEF Without
<1>3. /\ a \in Seq(Items) /\ b \in Seq(Items)
      /\ Elements(a) = {q[i] : i \in 1..(k - 1)}
      /\ Elements(b) = {q[i] : i \in (k + 1)..Len(q)}
      /\ k - 1 >= 1 => a # <<>> /\ Head(a) = Head(q)
  <2>1. /\ a \in Seq(Items) /\ Elements(a) = {q[i] : i \in 1..(k - 1)}
        /\ k - 1 >= 1 => a # <<>> /\ Head(a) = Head(q)
    BY <1>0, SplitRows
  <2>2. b \in Seq(Items) /\ Elements(b) = {q[i] : i \in (k + 1)..Len(q)}
    BY <1>0, SplitRows
  <2> QED  BY <2>1, <2>2
<1> HIDE DEF a, b, w
<1>4. /\ w \in Seq(Items) /\ Elements(w) = Elements(a) \cup Elements(b)
      /\ Distinct(w) <=> Distinct(a) /\ Distinct(b) /\ IdsIn(a) \cap IdsIn(b) = {}
      /\ a # <<>> => w # <<>> /\ Head(w) = Head(a)
  BY <1>2, <1>3, ConcatRows
<1>5. \A i, j \in 1..Len(q) : q[i].id = q[j].id => i = j
  BY DEF Distinct
<1>6. Elements(w) = Elements(q) \ {q[k]}
  <2>1. \A i \in 1..Len(q) : i \in 1..(k - 1) \/ i = k \/ i \in (k + 1)..Len(q)
    BY <1>0
  <2>2. /\ \A i \in 1..(k - 1) : i \in 1..Len(q) /\ i # k
        /\ \A i \in (k + 1)..Len(q) : i \in 1..Len(q) /\ i # k
    BY <1>0
  <2>3. \A i \in 1..Len(q) : q[i] = q[k] => i = k
    BY <1>5
  <2>4. Elements(w) \subseteq Elements(q) \ {q[k]}
    BY <1>3, <1>4, <2>2, <2>3 DEF Elements
  <2>5. Elements(q) \ {q[k]} \subseteq Elements(w)
    BY <1>3, <1>4, <2>1 DEF Elements
  <2> QED  BY <2>4, <2>5
<1>7. q[k].id \notin IdsIn(w)
  <2> SUFFICES ASSUME NEW e \in Elements(w), e.id = q[k].id PROVE FALSE
    BY DEF IdsIn
  <2>1. PICK i \in 1..Len(q) : e = q[i] /\ q[i] # q[k]
    BY <1>6 DEF Elements
  <2> QED  BY <1>5, <2>1
<1>8. Distinct(w)
  <2>1. q = SubSeq(q, 1, k) \o b /\ SubSeq(q, 1, k) \in Seq(Items)
          /\ Elements(SubSeq(q, 1, k)) = {q[i] : i \in 1..k}
    BY <1>0, SplitRows DEF b
  <2>2. q = a \o SubSeq(q, k, Len(q)) /\ SubSeq(q, k, Len(q)) \in Seq(Items)
    <3>1. /\ q = SubSeq(q, 1, k - 1) \o SubSeq(q, (k - 1) + 1, Len(q))
          /\ SubSeq(q, (k - 1) + 1, Len(q)) \in Seq(Items)
      BY <1>0, SplitRows
    <3> QED  BY <1>0, <3>1 DEF a
  <2>3. Distinct(b) /\ IdsIn(SubSeq(q, 1, k)) \cap IdsIn(b) = {}
    <3> DEFINE c == SubSeq(q, 1, k)
    <3>1. Distinct(c \o b) /\ c \in Seq(Items)
      BY <2>1
    <3> HIDE DEF c
    <3>2. Distinct(b) /\ IdsIn(c) \cap IdsIn(b) = {}
      BY <1>3, <3>1, ConcatRows
    <3> QED  BY <3>2 DEF c
  <2>4. Distinct(a)
    <3> DEFINE c == SubSeq(q, k, Len(q))
    <3>1. Distinct(a \o c) /\ c \in Seq(Items)
      BY <2>2
    <3> HIDE DEF c
    <3> QED  BY <1>3, <3>1, ConcatRows
  <2>5. IdsIn(a) \subseteq IdsIn(SubSeq(q, 1, k))
    <3>1. Elements(a) \subseteq Elements(SubSeq(q, 1, k))
      BY <1>0, <1>3, <2>1
    <3> QED  BY <3>1 DEF IdsIn
  <2> QED  BY <1>4, <2>3, <2>4, <2>5
<1>9. ASSUME q[k] # Head(q) PROVE w # <<>> /\ Head(w) = Head(q)
  <2>1. q # <<>> /\ Head(q) = q[1]
    BY <1>0, ElementsOf
  <2>2. k - 1 >= 1
    BY <1>0, <1>9, <2>1
  <2> QED  BY <1>3, <1>4, <2>2
<1> QED  BY <1>1, <1>4, <1>6, <1>7, <1>8, <1>9 DEF w

\* A row put at the end.
LEMMA AppendRow ==
    ASSUME NEW q \in Seq(Items), NEW e \in Items
    PROVE  /\ Append(q, e) \in Seq(Items) /\ Append(q, e) # <<>>
           /\ Elements(Append(q, e)) = Elements(q) \cup {e}
           /\ Distinct(q) /\ e.id \notin IdsIn(q) => Distinct(Append(q, e))
           /\ q # <<>> => Head(Append(q, e)) = Head(q)
<1> DEFINE s == <<e>>
<1>1. Append(q, e) = q \o s /\ Append(q, e) # <<>>
  BY AppendIsConcat, AppendProperties
<1>2. s \in Seq(Items) /\ Elements(s) = {e} /\ Distinct(s) /\ IdsIn(s) = {e.id}
  BY OneRow
<1> HIDE DEF s
<1> QED  BY <1>1, <1>2, ConcatRows

\* A row that was sent now.
SentNow(e) == [e EXCEPT !.now = TRUE]

\* send_now_insert_index finds a place, and never ahead of the running front.
LEMMA InsertNowRow ==
    ASSUME NEW q \in Seq(Items), NEW e \in Items
    PROVE  /\ InsertNow(q, e) \in Seq(Items) /\ InsertNow(q, e) # <<>>
           /\ SentNow(e) \in Items /\ SentNow(e).id = e.id
           /\ SentNow(e).kind = e.kind /\ SentNow(e).msgs = e.msgs
           /\ Elements(InsertNow(q, e)) = Elements(q) \cup {SentNow(e)}
           /\ Distinct(q) /\ e.id \notin IdsIn(q) => Distinct(InsertNow(q, e))
           /\ q # <<>> /\ Head(q).id = running_task => Head(InsertNow(q, e)) = Head(q)
<1> DEFINE first == IF q # <<>> /\ Head(q).id = running_task THEN 1 ELSE 0
           Fits(n) == /\ \A k \in (first + 1)..n : q[k].now
                      /\ n < Len(q) => ~q[n + 1].now
           S == {n \in first..Len(q) : n < Len(q) => ~q[n + 1].now}
           at == CHOOSE n \in first..Len(q) : Fits(n)
           x == SentNow(e)
           a == SubSeq(q, 1, at)
           b == SubSeq(q, at + 1, Len(q))
           r == InsertNow(q, e)
<1>1. first \in Nat /\ Len(q) \in Nat /\ first <= Len(q) /\ first \in {0, 1}
  BY ElementsOf
<1>2. x \in Items /\ x.id = e.id /\ x.kind = e.kind /\ x.msgs = e.msgs
  BY DEF Items, SentNow
<1>3. r = a \o <<x>> \o b
  BY Zenon DEF InsertNow, SentNow
<1>4. q # <<>> /\ Head(q).id = running_task => first = 1
  OBVIOUS
<1> HIDE DEF first
<1>5. \E n \in first..Len(q) : Fits(n)
  <2>1. S \in SUBSET Nat /\ Len(q) \in S
    BY <1>1
  <2>2. PICK n \in S : \A m \in S : n <= m
    BY <2>1, LeastOf
  <2>3. n \in first..Len(q) /\ (n < Len(q) => ~q[n + 1].now) /\ n \in Nat
    BY <1>1, <2>2
  <2>4. ASSUME NEW k \in (first + 1)..n PROVE q[k].now
    <3>1. k - 1 \in first..Len(q) /\ (k - 1) + 1 = k /\ k - 1 < Len(q) /\ ~(n <= k - 1)
      BY <1>1, <2>3
    <3>2. k - 1 \notin S
      BY <2>2, <3>1
    <3> QED  BY <3>1, <3>2
  <2> QED  BY <2>3, <2>4
<1>6. at \in first..Len(q)
  BY <1>5
<1> HIDE DEF at
<1>7. at \in 0..Len(q) /\ (first = 1 => at >= 1)
  BY <1>1, <1>6
<1>8. /\ a \in Seq(Items) /\ b \in Seq(Items) /\ q = a \o b
      /\ at >= 1 => a # <<>> /\ Head(a) = Head(q)
  BY <1>7, SplitRows
<1> HIDE DEF a, b, x, r
<1>9. /\ Elements(q) = Elements(a) \cup Elements(b)
      /\ Distinct(q) => Distinct(a) /\ Distinct(b) /\ IdsIn(a) \cap IdsIn(b) = {}
  BY <1>8, ConcatRows
<1>10. IdsIn(q) = IdsIn(a) \cup IdsIn(b)
  BY <1>9 DEF IdsIn
<1>11. /\ r \in Seq(Items) /\ r # <<>>
       /\ Elements(r) = Elements(a) \cup {x} \cup Elements(b)
       /\ a # <<>> => Head(r) = Head(a)
       /\ Distinct(r) <=>
            /\ Distinct(a) /\ Distinct(b) /\ IdsIn(a) \cap IdsIn(b) = {}
            /\ x.id \notin IdsIn(a) \cup IdsIn(b)
  BY <1>2, <1>3, <1>8, MiddleRow
<1>12. Elements(r) = Elements(q) \cup {x}
  BY <1>9, <1>11
<1>13. Distinct(q) /\ e.id \notin IdsIn(q) => Distinct(r)
  BY <1>2, <1>9, <1>10, <1>11
<1>14. q # <<>> /\ Head(q).id = running_task => Head(r) = Head(q)
  BY <1>4, <1>7, <1>8, <1>11
<1> QED  BY <1>2, <1>11, <1>12, <1>13, <1>14 DEF r, x

\* The row of a text that becomes a turn of its own.
Fallback(m) == [Item(m, "fallback") EXCEPT !.now = TRUE]

\* Texts enter the queue ahead of it, but never ahead of the running front.
LEMMA FallbackRows ==
    ASSUME NEW q \in Seq(Items), NEW texts \in Seq(Ids)
    PROVE  /\ InsertFallbacks(q, texts) \in Seq(Items)
           /\ Elements(InsertFallbacks(q, texts)) = Elements(q) \cup {Fallback(m) : m \in Elements(texts)}
           /\ \A m \in Ids : Fallback(m) \in Items /\ Fallback(m).id = m
                               /\ Fallback(m).kind = "fallback" /\ Fallback(m).msgs = {m}
           /\ /\ Distinct(q) /\ IdsIn(q) \cap Elements(texts) = {}
              /\ \A j, k \in 1..Len(texts) : texts[j] = texts[k] => j = k
              => Distinct(InsertFallbacks(q, texts))
           /\ q # <<>> => InsertFallbacks(q, texts) # <<>>
           /\ q # <<>> /\ Head(q).id = running_task
                => Head(InsertFallbacks(q, texts)) = Head(q)
<1> DEFINE s == [k \in 1..Len(texts) |-> Fallback(texts[k])]
           r == InsertFallbacks(q, texts)
           Once == \A j, k \in 1..Len(texts) : texts[j] = texts[k] => j = k
<1>1. \A m \in Ids : Fallback(m) \in Items /\ Fallback(m).id = m
                       /\ Fallback(m).kind = "fallback" /\ Fallback(m).msgs = {m}
  BY DEF Fallback, Item, Items
<1>2. Len(texts) \in Nat /\ \A k \in 1..Len(texts) : texts[k] \in Ids
  OBVIOUS
<1>3. s \in Seq(Items) /\ Len(s) = Len(texts) /\ \A k \in 1..Len(texts) : s[k] = Fallback(texts[k])
  <2>1. s \in [1..Len(texts) -> Items]
    BY <1>1, <1>2
  <2> QED  BY <1>2, <2>1
<1>4. r = IF q # <<>> /\ Head(q).id = running_task THEN <<Head(q)>> \o s \o Tail(q) ELSE s \o q
  BY DEF InsertFallbacks, Fallback
<1> HIDE DEF s, r
<1>5. Elements(s) = {Fallback(m) : m \in Elements(texts)}
  BY <1>3 DEF Elements
<1>6. IdsIn(s) = Elements(texts)
  <2>1. Elements(texts) \subseteq Ids
    BY <1>2 DEF Elements
  <2> QED  BY <1>1, <1>5, <2>1 DEF IdsIn
<1>7. Once => Distinct(s)
  BY <1>1, <1>2, <1>3 DEF Distinct
<1>8. CASE q # <<>> /\ Head(q).id = running_task
  <2> DEFINE h == <<Head(q)>>
             t == Tail(q)
             hs == h \o s
  <2>1. /\ t \in Seq(Items) /\ Elements(q) = {Head(q)} \cup Elements(t) /\ Head(q) \in Items
        /\ Distinct(q) => Distinct(t) /\ Head(q).id \notin IdsIn(t)
    BY <1>8, TailRows
  <2>2. h \in Seq(Items) /\ Elements(h) = {Head(q)} /\ Distinct(h) /\ IdsIn(h) = {Head(q).id} /\ h # <<>>
          /\ Head(h) = Head(q)
    BY <2>1, OneRow
  <2>3. r = hs \o t
    BY <1>4, <1>8
  <2> HIDE DEF h, t
  <2>4. /\ hs \in Seq(Items) /\ Elements(hs) = Elements(h) \cup Elements(s)
        /\ Distinct(hs) <=> Distinct(h) /\ Distinct(s) /\ IdsIn(h) \cap IdsIn(s) = {}
        /\ hs # <<>> /\ Head(hs) = Head(h)
    BY <1>3, <2>2, ConcatRows
  <2> HIDE DEF hs
  <2>5. /\ r \in Seq(Items) /\ Elements(r) = Elements(hs) \cup Elements(t)
        /\ Distinct(r) <=> Distinct(hs) /\ Distinct(t) /\ IdsIn(hs) \cap IdsIn(t) = {}
        /\ r # <<>> /\ Head(r) = Head(hs)
    BY <2>1, <2>3, <2>4, ConcatRows
  <2>6. /\ IdsIn(hs) = IdsIn(h) \cup IdsIn(s)
        /\ IdsIn(q) = {Head(q).id} \cup IdsIn(t)
    BY <2>1, <2>4 DEF IdsIn
  <2>7. Distinct(q) /\ IdsIn(q) \cap Elements(texts) = {} /\ Once => Distinct(r)
    BY <1>6, <1>7, <2>1, <2>2, <2>4, <2>5, <2>6
  <2>8. Elements(r) = Elements(q) \cup Elements(s)
    BY <2>1, <2>2, <2>4, <2>5
  <2> QED  BY <1>1, <1>5, <2>2, <2>4, <2>5, <2>7, <2>8 DEF r
<1>9. CASE ~(q # <<>> /\ Head(q).id = running_task)
  <2>1. r = s \o q
    BY <1>4, <1>9
  <2>2. /\ r \in Seq(Items) /\ Elements(r) = Elements(s) \cup Elements(q)
        /\ Distinct(r) <=> Distinct(s) /\ Distinct(q) /\ IdsIn(s) \cap IdsIn(q) = {}
    BY <1>3, <2>1, ConcatRows
  <2>3. q # <<>> => r # <<>>
    BY <2>2, ElementsOf
  <2>4. Distinct(q) /\ IdsIn(q) \cap Elements(texts) = {} /\ Once => Distinct(r)
    BY <1>6, <1>7, <2>2
  <2> QED  BY <1>1, <1>5, <1>9, <2>2, <2>3, <2>4 DEF r
<1> QED  BY <1>8, <1>9

\* The first n rows become one: the front, with the messages of them all.
LEMMA MergedRows ==
    ASSUME NEW q \in Seq(Items), NEW n \in 1..Len(q), NEW f \in Items,
           f.id = Head(q).id, Distinct(q)
    PROVE  LET r == <<f>> \o SubSeq(q, n + 1, Len(q))
           IN  /\ r \in Seq(Items) /\ r # <<>> /\ Head(r) = f /\ Distinct(r)
               /\ Elements(r) = {f} \cup Elements(SubSeq(q, n + 1, Len(q)))
               /\ Elements(q) = {q[k] : k \in 1..n} \cup Elements(SubSeq(q, n + 1, Len(q)))
               /\ \A k \in 1..n : q[k].id \notin IdsIn(SubSeq(q, n + 1, Len(q)))
<1> DEFINE a == SubSeq(q, 1, n)
           b == SubSeq(q, n + 1, Len(q))
           s == <<f>>
           r == s \o b
<1>1. /\ a \in Seq(Items) /\ b \in Seq(Items) /\ q = a \o b /\ a # <<>> /\ Head(a) = Head(q)
      /\ Elements(a) = {q[k] : k \in 1..n}
  <2>1. n \in 0..Len(q) /\ n >= 1
    OBVIOUS
  <2> QED  BY <2>1, SplitRows
<1>2. s \in Seq(Items) /\ Elements(s) = {f} /\ Distinct(s) /\ IdsIn(s) = {f.id} /\ s # <<>> /\ Head(s) = f
  BY OneRow
<1> HIDE DEF a, b, s
<1>3. /\ Elements(q) = Elements(a) \cup Elements(b)
      /\ Distinct(b) /\ IdsIn(a) \cap IdsIn(b) = {}
  BY <1>1, ConcatRows
<1>4. \A k \in 1..n : q[k].id \in IdsIn(a)
  BY <1>1 DEF IdsIn
<1>5. f.id \in IdsIn(a)
  BY <1>1, ElementsOf DEF IdsIn
<1>6. /\ r \in Seq(Items) /\ Elements(r) = Elements(s) \cup Elements(b)
      /\ Distinct(r) <=> Distinct(s) /\ Distinct(b) /\ IdsIn(s) \cap IdsIn(b) = {}
      /\ r # <<>> /\ Head(r) = Head(s)
  BY <1>1, <1>2, ConcatRows
<1> HIDE DEF r
<1>7. Distinct(r)
  BY <1>2, <1>3, <1>5, <1>6
<1>8. \A k \in 1..n : q[k].id \notin IdsIn(b)
  BY <1>3, <1>4
<1> QED  BY <1>1, <1>2, <1>3, <1>6, <1>7, <1>8 DEF a, b, s, r
-----------------------------------------------------------------------------
(* The inductive invariant.                                                *)

\* What the kind of a row says about its id.
KindOk(e) ==
    /\ e.id \in e.msgs
    /\ e.kind = "user" => e.id \in Prompts
    /\ e.kind = "fallback" => e.id \in Prompts \cup Texts
    /\ e.kind = "wake" => e.id \in Wakes
    /\ e.kind = "child" => e.id \in Children
    /\ e.kind = "drain" => e.id \in Drains

\* The id was sent: no client and no task will bring it again.
Known(i) ==
    /\ i \in Prompts => answer[i] # "unsent"
    /\ i \in Texts => i \in said
    /\ i \in Wakes \cup Children => i \in raised

\* The turn's completion is on its way to handle_completion; a cancel has taken
\* the turn's row and not yet aborted it.
Finished(t) == t \in Elements(completions) \/ (actor.at = "complete" /\ actor.id = t)
Stopped(t) == actor.at = "teardown" /\ actor.id = t

Actors == [at : {"select", "start", "promote", "drain", "complete", "flush", "send_now", "cancel", "teardown"},
           id : Ids \cup {None}, how : {"none", "stop", "rewind", "plain", "kill", "send_now", "rewound"},
           held : Seq(Items), then : {"select", "drain"}]
Turns == [phase : {"none", "fresh", "recorded", "live", "ending"}, msgs : SUBSET Ids, taken : Seq(Ids)]

Types ==
    /\ pending \in Seq(Items)
    /\ running_task \in Ids \cup {None} /\ current_prompt_id \in Ids \cup {None}
    /\ front_message_committed \in BOOLEAN /\ rewindable \in BOOLEAN
    /\ suppressed \in BOOLEAN /\ goal \in BOOLEAN /\ overlapped \in BOOLEAN
    /\ notifications \subseteq Wakes /\ interjections \in Seq(Ids) /\ completions \in Seq(Ids)
    /\ turn \in [Ids -> Turns] /\ actor \in Actors
    /\ mcp \in {"waits", "checked", "done"}
    /\ answer \in [Prompts -> {"unsent", "waiting", "answered"}]
    /\ said \subseteq Prompts \cup Texts /\ raised \subseteq Wakes \cup Children /\ cancels \in 0..MaxCancels

\* Where the running turn is in the queue, by the place of the loop.
Fronts ==
    /\ running_task # None => FrontIsTheRunningTurn
    /\ actor.at \in {"select", "drain", "complete"} /\ pending # <<>> => running_task # None
    /\ actor.at = "send_now" \/ (actor.at = "cancel" /\ actor.how = "send_now")
         => running_task # None /\ front_message_committed
    /\ actor.at = "teardown" /\ ~overlapped => running_task = None
    /\ actor.at = "cancel" => actor.id = None

\* A report of notifications is queued into an empty queue and promoted next.
Reports ==
    \A e \in Elements(pending) : e.kind = "drain" =>
        /\ e = Head(pending)
        /\ running_task = None => actor.at \in {"start", "promote"}

\* What a stop keeps out: the wakes of terminal tasks and the reports.
Barred(e) == e.kind \in {"wake", "drain"}

\* The barrier of a stop holds, except between arming it and the sweep.
Barrier ==
    suppressed /\ ~(actor.at = "cancel" /\ StopGesture(actor.how))
        => \A e \in Elements(pending) : ~Barred(e)

\* A message is in one place, and was sent.
Places ==
    /\ Distinct(pending)
    /\ \A j, k \in 1..Len(interjections) : interjections[j] = interjections[k] => j = k
    /\ IdsIn(pending) \cap Elements(interjections) = {}
    /\ \A e \in Elements(pending) : KindOk(e)
    /\ Elements(interjections) \subseteq Prompts \cup Texts
    /\ \A i \in IdsIn(pending) \cup Elements(interjections) : Known(i)

\* A turn is the running one or the one a cancel tears down, carries the
\* messages of its row, and does not come back once it has finished.
Turning ==
    /\ \A t \in Ids : Alive(t) =>
         /\ t = running_task \/ Stopped(t)
         /\ t \in turn[t].msgs
         /\ t = running_task => turn[t].msgs = Head(pending).msgs
    /\ \A t \in Ids : turn[t].phase # "live" => turn[t].taken = <<>>
    /\ \A t \in Ids : turn[t].phase \in {"recorded", "live"} => turn[t].msgs \subseteq settled
    /\ \A t \in Ids : Finished(t) => ~Alive(t) /\ t \in settled
    /\ \A t \in Ids : Finished(t) \/ Stopped(t) =>
         /\ t \in IdsIn(pending) => t = running_task
         /\ t \notin Elements(interjections)
         /\ Known(t)

\* Who waits has a row, in the queue or in the hands of a cancel.
Answers ==
    /\ \A p \in Prompts : answer[p] = "waiting" <=>
         \E e \in Elements(pending) \cup Elements(actor.held) : e.id = p /\ e.kind = "user"
    /\ Distinct(actor.held) /\ IdsIn(pending) \cap IdsIn(actor.held) = {}
    /\ \A e \in Elements(actor.held) : KindOk(e)
    /\ actor.at # "teardown" => actor.held = <<>>
    /\ \A p \in said \cap Prompts : answer[p] = "answered"

\* A committed front is in the conversation.
Commits ==
    ~overlapped =>
        /\ lost = {}
        /\ running_task # None /\ front_message_committed => Head(pending).msgs \subseteq settled
        /\ actor.at = "teardown" /\ actor.how = "send_now"
             => \A e \in Elements(actor.held) : e.msgs \subseteq settled

\* What was said is somewhere.
Kept ==
    \A m \in said :
        \/ m \in settled \cup lost \cup dropped \cup Elements(interjections) \cup IdsIn(pending)
        \/ \E e \in Elements(actor.held) : m \in e.msgs
        \/ \E t \in Ids : m \in Elements(turn[t].taken)

IInv ==
    /\ Types /\ Fronts /\ Reports /\ Barrier /\ Places
    /\ Turning /\ Answers /\ Commits /\ Kept

-----------------------------------------------------------------------------
(* Steps that leave the queue alone.                                       *)

\* None is the id of nothing.
LEMMA NoneIsNoId ==
    None \notin Ids
BY PromptAssumption DEF Ids

\* The row of the running turn.
LEMMA RunningRow ==
    ASSUME Types, Fronts, running_task # None
    PROVE  /\ pending # <<>> /\ Head(pending).id = running_task
           /\ Head(pending) \in Elements(pending) /\ running_task \in IdsIn(pending)
BY ElementsOf DEF Types, Fronts, FrontIsTheRunningTurn, IdsIn

\* The goal, the rewind window, the pin, the held notifications and the MCP
\* task matter to no part of the invariant but the types.
LEMMA FlagsKeep ==
    ASSUME IInv, Types',
           UNCHANGED <<pending, running_task, front_message_committed, suppressed, interjections,
                       completions, turn, actor, answer, inputs, ghosts>>
    PROVE  IInv'
<1> USE DEF IInv, inputs, ghosts
<1>1. Fronts'   BY DEF Fronts, FrontIsTheRunningTurn
<1>2. Reports'  BY DEF Reports
<1>3. Barrier'  BY DEF Barrier, Barred
<1>4. Places'   BY DEF Places, Known
<1>5. Turning'  BY DEF Turning, Alive, Finished, Stopped, Known
<1>6. Answers'  BY DEF Answers
<1>7. Commits'  BY DEF Commits
<1>8. Kept'     BY DEF Kept
<1> QED  BY <1>1, <1>2, <1>3, <1>4, <1>5, <1>6, <1>7, <1>8

\* The window closes at the turn's first output.
LEMMA RewindWindowKeeps ==
    ASSUME IInv, NEW t \in Ids, close_rewind_window(t)
    PROVE  IInv'
<1>1. Types'
  BY DEF IInv, close_rewind_window, Types, inputs, ghosts
<1> QED  BY <1>1, FlagsKeep DEF close_rewind_window

\* A goal becomes active, or is over, before the turn's message or after it.
LEMMA GoalKeeps ==
    ASSUME IInv, NEW t \in Ids, SetGoal(t)
    PROVE  IInv'
<1>1. Types'
  BY DEF IInv, SetGoal, Types, queueVars, inputs, ghosts
<1> QED  BY <1>1, FlagsKeep DEF SetGoal, queueVars

\* The MCP task's first look at the queue.
LEMMA McpChecksKeeps ==
    ASSUME IInv, McpChecks
    PROVE  IInv'
<1>1. Types'
  BY DEF IInv, McpChecks, Types, queueVars, inputs, ghosts
<1> QED  BY <1>1, FlagsKeep DEF McpChecks, queueVars

\* A step of something else.
LEMMA StutterKeeps ==
    ASSUME IInv, UNCHANGED vars
    PROVE  IInv'
<1>1. Types'
  BY DEF IInv, vars, Types, queueVars, inputs, ghosts
<1> QED  BY <1>1, FlagsKeep DEF vars, queueVars

\* What a turn does between two looks at the queue.
LEMMA RecordKeeps ==
    ASSUME IInv, NEW t \in Ids, Record(t)
    PROVE  IInv'
<1> USE DEF IInv
<1>1. /\ turn[t].phase = "fresh"
      /\ settled' = settled \cup turn[t].msgs
      /\ UNCHANGED <<queueVars, interjections, goal, completions, actor, mcp, answer, inputs, lost, dropped, overlapped>>
  BY DEF Record
<1>2. /\ turn' \in [Ids -> Turns]
      /\ \A u \in Ids : turn'[u].msgs = turn[u].msgs /\ turn'[u].taken = turn[u].taken
      /\ \A u \in Ids \ {t} : turn'[u] = turn[u]
      /\ turn'[t].phase = "recorded"
  BY DEF Record, Types, Turns
<1>3. \A u \in Ids : Alive(u)' <=> Alive(u)
  BY <1>1, <1>2 DEF Alive
<1> USE DEF queueVars, inputs
<1>4. Types'    BY <1>1, <1>2 DEF Types
<1>5. Fronts'   BY <1>1 DEF Fronts, FrontIsTheRunningTurn
<1>6. Reports'  BY <1>1 DEF Reports
<1>7. Barrier'  BY <1>1 DEF Barrier, Barred
<1>8. Places'   BY <1>1 DEF Places, Known
<1>9. Turning'  BY <1>1, <1>2, <1>3 DEF Turning, Finished, Stopped, Known
<1>10. Answers' BY <1>1 DEF Answers
<1>11. Commits' BY <1>1 DEF Commits
<1>12. Kept'    BY <1>1, <1>2 DEF Kept
<1> QED  BY <1>4, <1>5, <1>6, <1>7, <1>8, <1>9, <1>10, <1>11, <1>12

\* mark_front_message_committed marks the turn's own row, or a front that is
\* not running, unless a turn was promoted beside a teardown.
LEMMA CommitKeeps ==
    ASSUME IInv, NEW t \in Ids, mark_front_message_committed(t)
    PROVE  IInv'
<1> USE DEF IInv
<1>1. /\ turn[t].phase = "recorded" /\ front_message_committed' = TRUE
      /\ UNCHANGED <<pending, running_task, current_prompt_id, rewindable, suppressed, notifications,
                     interjections, goal, completions, actor, mcp, answer, inputs, ghosts>>
  BY DEF mark_front_message_committed
<1>2. /\ turn' \in [Ids -> Turns]
      /\ \A u \in Ids : turn'[u].msgs = turn[u].msgs /\ turn'[u].taken = turn[u].taken
      /\ \A u \in Ids \ {t} : turn'[u] = turn[u]
      /\ turn'[t].phase = "live"
  BY DEF mark_front_message_committed, Types, Turns
<1>3. \A u \in Ids : Alive(u)' <=> Alive(u)
  BY <1>1, <1>2 DEF Alive
<1> USE DEF inputs, ghosts
<1>4. Types'    BY <1>1, <1>2 DEF Types
<1>5. Fronts'   BY <1>1 DEF Fronts, FrontIsTheRunningTurn
<1>6. Reports'  BY <1>1 DEF Reports
<1>7. Barrier'  BY <1>1 DEF Barrier, Barred
<1>8. Places'   BY <1>1 DEF Places, Known
<1>9. Turning'  BY <1>1, <1>2, <1>3 DEF Turning, Finished, Stopped, Known
<1>10. Answers' BY <1>1 DEF Answers
<1>11. Commits'
  <2> SUFFICES ASSUME ~overlapped, running_task # None PROVE Head(pending).msgs \subseteq settled
    BY <1>1 DEF Commits
  <2>1. Alive(t) /\ turn[t].msgs \subseteq settled
    BY <1>1 DEF Alive, Turning
  <2>2. t = running_task
    BY <2>1 DEF Turning, Stopped, Fronts
  <2> QED  BY <2>1, <2>2 DEF Turning
<1>12. Kept'    BY <1>1, <1>2 DEF Kept
<1> QED  BY <1>4, <1>5, <1>6, <1>7, <1>8, <1>9, <1>10, <1>11, <1>12

\* What leaves the buffer is in the hands of the turn ...
LEMMA TakeKeeps ==
    ASSUME IInv, NEW t \in Ids, TakeInterjections(t)
    PROVE  IInv'
<1> USE DEF IInv
<1>1. /\ turn[t].phase = "live" /\ turn[t].taken = <<>> /\ interjections' = <<>>
      /\ UNCHANGED <<queueVars, goal, completions, actor, mcp, answer, inputs, ghosts>>
  BY DEF TakeInterjections
<1>2. /\ turn' \in [Ids -> Turns]
      /\ \A u \in Ids : turn'[u].msgs = turn[u].msgs /\ turn'[u].phase = turn[u].phase
      /\ \A u \in Ids \ {t} : turn'[u] = turn[u]
      /\ turn'[t].taken = interjections
  BY DEF TakeInterjections, Types, Turns
<1>3. \A u \in Ids : Alive(u)' <=> Alive(u)
  BY <1>1, <1>2 DEF Alive
<1>4. Elements(<<>>) = {}
  BY DEF Elements
<1> USE DEF queueVars, inputs, ghosts
<1>5. Types'    BY <1>1, <1>2 DEF Types
<1>6. Fronts'   BY <1>1 DEF Fronts, FrontIsTheRunningTurn
<1>7. Reports'  BY <1>1 DEF Reports
<1>8. Barrier'  BY <1>1 DEF Barrier, Barred
<1>9. Places'   BY <1>1, <1>4 DEF Places, Known
<1>10. Turning' BY <1>1, <1>2, <1>3, <1>4 DEF Turning, Finished, Stopped, Known
<1>11. Answers' BY <1>1 DEF Answers
<1>12. Commits' BY <1>1 DEF Commits
<1>13. Kept'
  <2> SUFFICES ASSUME NEW m \in said
               PROVE  \/ m \in settled \cup lost \cup dropped \cup Elements(interjections') \cup IdsIn(pending)
                      \/ \E e \in Elements(actor.held) : m \in e.msgs
                      \/ \E u \in Ids : m \in Elements(turn'[u].taken)
    BY <1>1 DEF Kept
  <2>1. CASE m \in Elements(interjections)
    BY <1>2, <2>1
  <2>2. CASE \E u \in Ids : m \in Elements(turn[u].taken)
    BY <1>1, <1>2, <1>4, <2>2
  <2> QED  BY <2>1, <2>2 DEF Kept
<1> QED  BY <1>5, <1>6, <1>7, <1>8, <1>9, <1>10, <1>11, <1>12, <1>13

\* ... until the model is shown it.
LEMMA InjectKeeps ==
    ASSUME IInv, NEW t \in Ids, Inject(t)
    PROVE  IInv'
<1> USE DEF IInv
<1>1. /\ turn[t].phase = "live" /\ settled' = settled \cup Elements(turn[t].taken)
      /\ UNCHANGED <<queueVars, interjections, goal, completions, actor, mcp, answer, inputs, lost, dropped, overlapped>>
  BY DEF Inject
<1>2. /\ turn' \in [Ids -> Turns]
      /\ \A u \in Ids : turn'[u].msgs = turn[u].msgs /\ turn'[u].phase = turn[u].phase
      /\ \A u \in Ids \ {t} : turn'[u] = turn[u]
      /\ turn'[t].taken = <<>>
  <2>1. <<>> \in Seq(Ids)
    OBVIOUS
  <2> QED  BY <2>1 DEF Inject, Types, Turns
<1>3. \A u \in Ids : Alive(u)' <=> Alive(u)
  BY <1>1, <1>2 DEF Alive
<1> USE DEF queueVars, inputs
<1>4. Types'    BY <1>1, <1>2 DEF Types
<1>5. Fronts'   BY <1>1 DEF Fronts, FrontIsTheRunningTurn
<1>6. Reports'  BY <1>1 DEF Reports
<1>7. Barrier'  BY <1>1 DEF Barrier, Barred
<1>8. Places'   BY <1>1 DEF Places, Known
<1>9. Turning'  BY <1>1, <1>2, <1>3 DEF Turning, Finished, Stopped, Known
<1>10. Answers' BY <1>1 DEF Answers
<1>11. Commits' BY <1>1 DEF Commits
<1>12. Kept'
  <2> SUFFICES ASSUME NEW m \in said
               PROVE  \/ m \in settled' \cup lost \cup dropped \cup Elements(interjections) \cup IdsIn(pending)
                      \/ \E e \in Elements(actor.held) : m \in e.msgs
                      \/ \E u \in Ids : m \in Elements(turn'[u].taken)
    BY <1>1 DEF Kept
  <2>1. CASE m \in Elements(turn[t].taken)
    BY <1>1, <2>1
  <2>2. CASE \E u \in Ids \ {t} : m \in Elements(turn[u].taken)
    BY <1>2, <2>2
  <2> QED  BY <1>1, <2>1, <2>2 DEF Kept
<1> QED  BY <1>4, <1>5, <1>6, <1>7, <1>8, <1>9, <1>10, <1>11, <1>12

\* A turn is past its last look at the buffer.
LEMMA EndKeeps ==
    ASSUME IInv, NEW t \in Ids, TurnEnds(t)
    PROVE  IInv'
<1> USE DEF IInv
<1>1. /\ turn[t].phase \in {"fresh", "live"} /\ turn[t].taken = <<>>
      /\ current_prompt_id' \in {None, current_prompt_id}
      /\ UNCHANGED <<pending, running_task, front_message_committed, rewindable, suppressed, notifications,
                     interjections, goal, completions, actor, mcp, answer, inputs, ghosts>>
  BY DEF TurnEnds, PinAfter
<1>2. /\ turn' \in [Ids -> Turns]
      /\ \A u \in Ids : turn'[u].msgs = turn[u].msgs /\ turn'[u].taken = turn[u].taken
      /\ \A u \in Ids \ {t} : turn'[u] = turn[u]
      /\ turn'[t].phase = "ending"
  BY DEF TurnEnds, Types, Turns
<1>3. \A u \in Ids : Alive(u)' <=> Alive(u)
  BY <1>1, <1>2 DEF Alive
<1> USE DEF inputs, ghosts
<1>4. Types'    BY <1>1, <1>2 DEF Types
<1>5. Fronts'   BY <1>1 DEF Fronts, FrontIsTheRunningTurn
<1>6. Reports'  BY <1>1 DEF Reports
<1>7. Barrier'  BY <1>1 DEF Barrier, Barred
<1>8. Places'   BY <1>1 DEF Places, Known
<1>9. Turning'  BY <1>1, <1>2, <1>3 DEF Turning, Finished, Stopped, Known
<1>10. Answers' BY <1>1 DEF Answers
<1>11. Commits' BY <1>1 DEF Commits
<1>12. Kept'    BY <1>1, <1>2 DEF Kept
<1> QED  BY <1>4, <1>5, <1>6, <1>7, <1>8, <1>9, <1>10, <1>11, <1>12

\* A turn that has sent its completion is over, and its id does not come back.
LEMMA CompletionKeeps ==
    ASSUME IInv, NEW t \in Ids, SendCompletion(t)
    PROVE  IInv'
<1> USE DEF IInv
<1>1. /\ turn[t].phase = "ending" /\ settled' = settled \cup turn[t].msgs
      /\ turn' = [turn EXCEPT ![t] = NoTurn]
      /\ completions' = Append(completions, t)
      /\ UNCHANGED <<queueVars, interjections, goal, actor, mcp, answer, inputs, lost, dropped, overlapped>>
  BY DEF SendCompletion
<1>2. /\ turn' \in [Ids -> Turns]
      /\ \A u \in Ids \ {t} : turn'[u] = turn[u]
      /\ turn'[t].phase = "none" /\ turn'[t].taken = <<>> /\ turn[t].taken = <<>>
  BY <1>1 DEF Types, Turns, NoTurn, Turning
<1>3. /\ \A u \in Ids : Alive(u)' <=> Alive(u) /\ u # t
      /\ Alive(t)
  BY <1>1, <1>2 DEF Alive
<1>4. completions' \in Seq(Ids) /\ Elements(completions') = Elements(completions) \cup {t}
  <2>1. completions \in Seq(Ids)
    BY DEF Types
  <2>2. /\ completions' \in Seq(Ids) /\ Len(completions') = Len(completions) + 1
        /\ \A i \in 1..Len(completions) : completions'[i] = completions[i]
        /\ completions'[Len(completions) + 1] = t
    BY <1>1, <2>1, AppendProperties
  <2> QED  BY <2>1, <2>2 DEF Elements
<1> USE DEF queueVars, inputs
<1>5. Types'    BY <1>1, <1>2, <1>4 DEF Types
<1>6. Fronts'   BY <1>1 DEF Fronts, FrontIsTheRunningTurn
<1>7. Reports'  BY <1>1 DEF Reports
<1>8. Barrier'  BY <1>1 DEF Barrier, Barred
<1>9. Places'   BY <1>1 DEF Places, Known
<1>10. Turning'
  <2>1. t \in turn[t].msgs /\ (t = running_task \/ Stopped(t))
    BY <1>3 DEF Turning
  <2>2. t = running_task => t \in IdsIn(pending)
    BY NoneIsNoId, RunningRow
  <2>3. /\ t \in IdsIn(pending) => t = running_task
        /\ t \notin Elements(interjections)
        /\ Known(t)
    BY <2>1, <2>2 DEF Turning, Places
  <2>4. \A u \in Ids : Finished(u)' <=> Finished(u) \/ u = t
    BY <1>1, <1>4 DEF Finished
  <2>5. \A u \in Ids : (Stopped(u)' <=> Stopped(u)) /\ (Known(u)' <=> Known(u))
    BY <1>1 DEF Stopped, Known
  <2> QED  BY <1>1, <1>2, <1>3, <2>1, <2>3, <2>4, <2>5 DEF Turning
<1>11. Answers' BY <1>1 DEF Answers
<1>12. Commits' BY <1>1 DEF Commits
<1>13. Kept'    BY <1>1, <1>2 DEF Kept
<1> QED  BY <1>5, <1>6, <1>7, <1>8, <1>9, <1>10, <1>11, <1>12, <1>13

-----------------------------------------------------------------------------
\* The first look of maybe_start_running_task.
LEMMA StartChecksKeeps ==
    ASSUME IInv, StartChecks
    PROVE  IInv'
<1> USE DEF IInv, inputs, ghosts, queueVars
<1>1. /\ actor.at = "start"
      /\ UNCHANGED <<queueVars, interjections, goal, completions, turn, mcp, answer, inputs, ghosts>>
  BY DEF StartChecks
<1>2. /\ actor' \in Actors /\ actor'.held = <<>>
      /\ actor'.at \in {"promote", "select", "drain"}
      /\ actor'.at # "promote" => ~CanPromote
  BY DEF StartChecks, At, Types, Actors, Answers
<1>3. Types'    BY <1>1, <1>2 DEF Types
<1>4. Fronts'   BY <1>1, <1>2 DEF Fronts, FrontIsTheRunningTurn, CanPromote
<1>5. Reports'
  <2> SUFFICES ASSUME NEW e \in Elements(pending), e.kind = "drain", running_task = None,
                      actor'.at # "promote"
               PROVE  FALSE
    BY <1>1, <1>2 DEF Reports
  <2>1. pending = <<>>
    BY <1>2 DEF CanPromote
  <2> QED  BY <2>1, ElementsOf DEF Types
<1>6. Barrier'  BY <1>1, <1>2 DEF Barrier, Barred
<1>7. Places'   BY <1>1 DEF Places, Known
<1>8. Turning'  BY <1>1, <1>2 DEF Turning, Alive, Finished, Stopped, Known
<1>9. Answers'  BY <1>1, <1>2 DEF Answers
<1>10. Commits' BY <1>1, <1>2 DEF Commits
<1>11. Kept'    BY <1>1, <1>2 DEF Kept, Answers
<1> QED  BY <1>3, <1>4, <1>5, <1>6, <1>7, <1>8, <1>9, <1>10, <1>11

-----------------------------------------------------------------------------
(* Completions and cancels.                                                *)

\* The entries of a sequence but the first.
LEMMA TailEntries ==
    ASSUME NEW T, NEW q \in Seq(T), q # <<>>
    PROVE  /\ Tail(q) \in Seq(T) /\ Head(q) \in T
           /\ Elements(q) = {Head(q)} \cup Elements(Tail(q))
<1>1. /\ Tail(q) \in Seq(T) /\ Head(q) \in T /\ Len(Tail(q)) = Len(q) - 1
      /\ \A i \in 1..Len(Tail(q)) : Tail(q)[i] = q[i + 1]
  BY HeadTailProperties
<1>2. Len(q) \in Nat /\ Len(q) >= 1 /\ Head(q) = q[1]
  BY ElementsOf
<1>3. \A i \in 1..Len(q) : i = 1 \/ (i - 1 \in 1..Len(Tail(q)) /\ (i - 1) + 1 = i)
  BY <1>1, <1>2
<1>4. \A i \in 1..Len(Tail(q)) : i + 1 \in 1..Len(q)
  BY <1>1, <1>2
<1>5. \A i \in 1..Len(q) : q[i] = Head(q) \/ q[i] \in Elements(Tail(q))
  BY <1>1, <1>2, <1>3 DEF Elements
<1>6. \A e \in Elements(Tail(q)) : e \in Elements(q)
  BY <1>1, <1>4 DEF Elements
<1>7. Head(q) \in Elements(q)
  BY <1>2, ElementsOf
<1> QED  BY <1>1, <1>5, <1>6, <1>7 DEF Elements

\* Whom respond_to.send reaches.
LEMMA Responds ==
    ASSUME Types, NEW items, Respond(items)
    PROVE  /\ answer' \in [Prompts -> {"unsent", "waiting", "answered"}]
           /\ \A p \in Prompts :
                answer'[p] = IF \E e \in Elements(items) : e.id = p /\ e.kind = "user"
                             THEN "answered" ELSE answer[p]
BY DEF Types, Respond, Elements

\* AgentTask::abort.
LEMMA Aborts ==
    ASSUME Types, Turning, NEW t \in Ids \cup {None}, turn' = Aborted(t)
    PROVE  /\ turn' \in [Ids -> Turns]
           /\ \A u \in Ids : u # t => turn'[u] = turn[u]
           /\ \A u \in Ids : Alive(u)' <=> Alive(u) /\ u # t
           /\ \A u \in Ids : turn'[u] = turn[u] \/ turn'[u] = NoTurn
           /\ \A u \in Ids : Elements(turn[u].taken) \subseteq Elements(turn'[u].taken) \cup Dropped(t)
<1>1. turn \in [Ids -> Turns] /\ NoTurn \in Turns
  <2>1. <<>> \in Seq(Ids)
    OBVIOUS
  <2> QED  BY <2>1 DEF Types, Turns, NoTurn
<1>2. CASE t # None /\ Alive(t)
  <2>1. turn' = [turn EXCEPT ![t] = NoTurn] /\ t \in Ids
    BY <1>2 DEF Aborted
  <2>2. turn' \in [Ids -> Turns] /\ turn'[t] = NoTurn /\ \A u \in Ids : u # t => turn'[u] = turn[u]
    BY <1>1, <2>1
  <2>3. Dropped(t) = Elements(turn[t].taken)
    BY <1>2 DEF Dropped
  <2>4. ~Alive(t)'
    BY <2>2 DEF Alive, NoTurn
  <2>5. \A u \in Ids : u # t => (Alive(u)' <=> Alive(u))
    BY <2>2 DEF Alive
  <2> QED  BY <2>1, <2>2, <2>3, <2>4, <2>5
<1>3. CASE ~(t # None /\ Alive(t))
  <2>1. turn' = turn
    BY <1>3 DEF Aborted
  <2> QED  BY <1>1, <1>3, <2>1, NoneIsNoId DEF Alive
<1> QED  BY <1>2, <1>3

\* The front that a cancel takes, and what it leaves.
LEMMA RestRows ==
    ASSUME NEW q \in Seq(Items), Distinct(q)
    PROVE  LET rest == SubSeq(q, 2, Len(q)) IN
           /\ rest \in Seq(Items) /\ Distinct(rest)
           /\ FrontOnly(q) \in Seq(Items) /\ Distinct(FrontOnly(q))
           /\ Elements(FrontOnly(q)) = IF q = <<>> THEN {} ELSE {Head(q)}
           /\ Elements(q) = Elements(FrontOnly(q)) \cup Elements(rest)
           /\ IdsIn(FrontOnly(q)) \cap IdsIn(rest) = {}
           /\ q # <<>> => rest = Tail(q)
<1>1. CASE q = <<>>
  <2>1. SubSeq(q, 2, Len(q)) = <<>>
    <3>1. 2 \in Int /\ Len(q) \in Int /\ Len(q) < 2
      BY <1>1
    <3> QED  BY <3>1, SubSeqEmpty
  <2> QED  BY <1>1, <2>1 DEF FrontOnly, Elements, Distinct, IdsIn
<1>2. CASE q # <<>>
  <2> DEFINE f == FrontOnly(q)
             r == SubSeq(q, 2, Len(q))
  <2>1. /\ r \in Seq(Items) /\ r = Tail(q) /\ Head(q) \in Items
        /\ Elements(q) = {Head(q)} \cup Elements(r)
        /\ Distinct(r) /\ Head(q).id \notin IdsIn(r)
    BY <1>2, TailRows
  <2>2. f = <<Head(q)>>
    BY <1>2 DEF FrontOnly
  <2>3. f \in Seq(Items) /\ Elements(f) = {Head(q)} /\ Distinct(f) /\ IdsIn(f) = {Head(q).id}
    BY <2>1, <2>2, OneRow
  <2> HIDE DEF f, r
  <2>4. IdsIn(f) \cap IdsIn(r) = {}
    BY <2>1, <2>3
  <2> QED  BY <1>2, <2>1, <2>3, <2>4 DEF f, r
<1> QED  BY <1>1, <1>2

\* Rows and interjections have ids.
LEMMA QueuedIds ==
    ASSUME Types
    PROVE  IdsIn(pending) \cup Elements(interjections) \subseteq Ids
<1>1. Elements(pending) \subseteq Items /\ Elements(interjections) \subseteq Ids
  BY ElementsOf DEF Types
<1>2. \A e \in Items : e.id \in Ids
  BY DEF Items
<1> QED  BY <1>1, <1>2 DEF IdsIn

\* The loop takes a completion from the channel.
LEMMA RecvKeeps ==
    ASSUME IInv, RecvCompletion
    PROVE  IInv'
<1> USE DEF IInv
<1>1. /\ actor.at = "select" /\ completions # <<>> /\ completions' = Tail(completions)
      /\ current_prompt_id' \in {None, current_prompt_id}
      /\ UNCHANGED <<pending, running_task, front_message_committed, rewindable, suppressed, notifications,
                     interjections, goal, turn, mcp, answer, inputs, ghosts>>
  BY DEF RecvCompletion, PinAfter, AtSelect
<1>2. /\ completions' \in Seq(Ids) /\ Head(completions) \in Ids
      /\ Elements(completions) = {Head(completions)} \cup Elements(completions')
  BY <1>1, TailEntries DEF Types
<1>3. /\ actor'.at = "complete" /\ actor'.id = Head(completions) /\ actor'.held = <<>>
      /\ actor' \in Actors
  <2>1. <<>> \in Seq(Items)
    OBVIOUS
  <2> QED  BY <1>2, <2>1 DEF RecvCompletion, At, Actors
<1> USE DEF inputs, ghosts
<1>4. Types'    BY <1>1, <1>2, <1>3 DEF Types
<1>5. Fronts'   BY <1>1, <1>3 DEF Fronts, FrontIsTheRunningTurn
<1>6. Reports'
  <2>1. Elements(pending) # {} => running_task # None
    BY <1>1, ElementsOf DEF Fronts, Types
  <2> QED  BY <1>1, <2>1 DEF Reports
<1>7. Barrier'  BY <1>1, <1>3 DEF Barrier, Barred
<1>8. Places'   BY <1>1 DEF Places, Known
<1>9. Turning'
  <2>1. \A u \in Ids : /\ (Finished(u)' => Finished(u)) /\ ~Stopped(u)'
                       /\ ~Stopped(u) /\ (Known(u)' <=> Known(u)) /\ (Alive(u)' <=> Alive(u))
    BY <1>1, <1>2, <1>3 DEF Finished, Stopped, Known, Alive
  <2> QED  BY <1>1, <2>1 DEF Turning
<1>10. Answers' BY <1>1, <1>3 DEF Answers
<1>11. Commits' BY <1>1, <1>3 DEF Commits
<1>12. Kept'    BY <1>1, <1>3 DEF Kept, Answers
<1> QED  BY <1>4, <1>5, <1>6, <1>7, <1>8, <1>9, <1>10, <1>11, <1>12

\* A completion pops the row of its own turn, and no other.
LEMMA HandleCompletionKeeps ==
    ASSUME IInv, handle_completion
    PROVE  IInv'
<1> USE DEF IInv
<1>1. /\ actor.at = "complete"
      /\ UNCHANGED <<current_prompt_id, front_message_committed, rewindable, suppressed, notifications,
                     interjections, goal, completions, turn, mcp, inputs, ghosts>>
  BY DEF handle_completion
<1>2. /\ actor'.at = "flush" /\ actor'.held = <<>> /\ actor' \in Actors
  <2>1. <<>> \in Seq(Items)
    OBVIOUS
  <2> QED  BY <2>1 DEF handle_completion, At, Actors
<1>3. \A u \in Ids : /\ (Finished(u)' => Finished(u)) /\ ~Stopped(u)' /\ ~Stopped(u)
                     /\ (Alive(u)' <=> Alive(u))
  BY <1>1, <1>2 DEF Finished, Stopped, Alive
<1> USE DEF inputs, ghosts
<1>4. CASE pending # <<>> /\ Head(pending).id = actor.id
  <2>1. /\ pending' = Tail(pending) /\ Respond(<<Head(pending)>>) /\ running_task' = None
    BY <1>4 DEF handle_completion
  <2>2. running_task = actor.id /\ running_task # None /\ running_task \in Ids
    BY <1>1, <1>4 DEF Fronts, FrontIsTheRunningTurn, Types
  <2>3. /\ pending' \in Seq(Items) /\ Head(pending) \in Items
        /\ Elements(pending) = {Head(pending)} \cup Elements(pending')
        /\ Distinct(pending') /\ Head(pending).id \notin IdsIn(pending')
    BY <1>4, <2>1, TailRows DEF Types, Places
  <2>4. Elements(pending') \subseteq Elements(pending) /\ IdsIn(pending') \subseteq IdsIn(pending)
          /\ IdsIn(pending) = IdsIn(pending') \cup {Head(pending).id}
    BY <2>3 DEF IdsIn
  <2>5. /\ answer' \in [Prompts -> {"unsent", "waiting", "answered"}]
        /\ \A p \in Prompts : answer'[p] = IF Head(pending).id = p /\ Head(pending).kind = "user"
                                           THEN "answered" ELSE answer[p]
    BY <2>1, <2>3, Responds, OneRow
  <2>6. Finished(running_task) /\ ~Alive(running_task) /\ running_task \in settled
    BY <1>1, <2>2 DEF Finished, Turning
  <2>7. \A u \in Ids : Known(u) => Known(u)'
    BY <1>1, <2>5 DEF Known
  <2>8. \A e \in Elements(pending') : e # Head(pending) /\ e.id # Head(pending).id /\ e.id \in IdsIn(pending')
    BY <2>3 DEF IdsIn
  <2>9. Types'    BY <1>1, <1>2, <2>1, <2>3, <2>5 DEF Types
  <2>10. Fronts'  BY <1>2, <2>1 DEF Fronts
  <2>11. Reports' BY <2>4, <2>8 DEF Reports
  <2>12. Barrier' BY <1>1, <1>2, <2>4 DEF Barrier, Barred
  <2>13. Places'
    <3>1. \A i \in IdsIn(pending') \cup Elements(interjections) : i \in Ids
      BY <2>4, QueuedIds
    <3> QED  BY <1>1, <2>3, <2>4, <2>7, <3>1 DEF Places, KindOk
  <2>14. Turning'
    <3>1. \A u \in Ids : ~Alive(u)
      BY <1>3, <2>6 DEF Turning
    <3> QED  BY <1>1, <1>3, <2>1, <2>2, <2>4, <2>7, <3>1, <1>4, <2>3 DEF Turning
  <2>15. Answers'
    <3>1. Elements(actor.held) = {} /\ Elements(actor'.held) = {}
      BY <1>1, <1>2 DEF Answers, Elements
    <3>2. \A p \in Prompts : answer'[p] = "waiting" <=>
            \E e \in Elements(pending') : e.id = p /\ e.kind = "user"
      BY <2>3, <2>5, <2>8, <3>1 DEF Answers
    <3>3. \A p \in said \cap Prompts : answer'[p] = "answered"
      BY <2>5 DEF Answers
    <3> QED  BY <1>1, <1>2, <3>1, <3>2, <3>3 DEF Answers, Distinct, IdsIn
  <2>16. Commits' BY <1>1, <1>2, <2>1 DEF Commits
  <2>17. Kept'
    <3>1. Elements(actor.held) = {}
      BY <1>1 DEF Answers, Elements
    <3> QED  BY <1>1, <1>4, <2>2, <2>4, <2>6, <3>1 DEF Kept
  <2> QED  BY <2>9, <2>10, <2>11, <2>12, <2>13, <2>14, <2>15, <2>16, <2>17
<1>5. CASE ~(pending # <<>> /\ Head(pending).id = actor.id)
  <2>1. /\ UNCHANGED <<pending, answer>> /\ running_task' = running_task
    BY <1>5 DEF handle_completion, Fronts, FrontIsTheRunningTurn
  <2>2. Types'    BY <1>1, <1>2, <2>1 DEF Types
  <2>3. Fronts'   BY <1>1, <1>2, <2>1 DEF Fronts, FrontIsTheRunningTurn
  <2>4. Reports'
    <3>1. Elements(pending) # {} => running_task # None
      BY <1>1, ElementsOf DEF Fronts, Types
    <3> QED  BY <2>1, <3>1 DEF Reports
  <2>5. Barrier'  BY <1>1, <1>2, <2>1 DEF Barrier, Barred
  <2>6. Places'   BY <1>1, <2>1 DEF Places, Known
  <2>7. Turning'
    <3>1. \A u \in Ids : Known(u)' <=> Known(u)
      BY <1>1, <2>1 DEF Known
    <3> QED  BY <1>1, <1>3, <2>1, <3>1 DEF Turning
  <2>8. Answers'  BY <1>1, <1>2, <2>1 DEF Answers
  <2>9. Commits'  BY <1>1, <1>2, <2>1 DEF Commits
  <2>10. Kept'    BY <1>1, <1>2, <2>1 DEF Kept, Answers
  <2> QED  BY <2>2, <2>3, <2>4, <2>5, <2>6, <2>7, <2>8, <2>9, <2>10
<1> QED  BY <1>4, <1>5

\* Actor records.
LEMMA Resting ==
    /\ \A w \in {"select", "flush", "send_now", "drain"} :
         At(w) \in Actors /\ At(w).at = w /\ At(w).held = <<>> /\ At(w).id = None
    /\ \A th \in {"select", "drain"} :
         /\ Starting(th) \in Actors /\ Starting(th).at = "start"
         /\ Starting(th).held = <<>> /\ Starting(th).id = None
    /\ \A h \in {"stop", "rewind", "plain", "kill", "send_now"} :
         LET a == [At("cancel") EXCEPT !.how = h]
         IN  a \in Actors /\ a.at = "cancel" /\ a.how = h /\ a.held = <<>> /\ a.id = None
<1>1. <<>> \in Seq(Items)
  OBVIOUS
<1> QED  BY <1>1 DEF At, Starting, Actors

\* A cancel drops what was said to the turn, and with subagents aborts it.
LEMMA CancelKeeps ==
    ASSUME IInv, NEW how \in {"stop", "rewind", "plain", "kill"}, NEW subagents \in BOOLEAN,
           Cancel(how, subagents)
    PROVE  IInv'
<1> USE DEF IInv
<1>1. /\ actor.at = "select" /\ cancels < MaxCancels /\ cancels' = cancels + 1 /\ interjections' = <<>>
      /\ suppressed' = (suppressed \/ StopGesture(how))
      /\ UNCHANGED <<pending, running_task, current_prompt_id, front_message_committed, rewindable,
                     notifications, goal, completions, mcp, answer, said, raised, lost, dropped, overlapped>>
  BY DEF Cancel, TakesInput, TakesCommand, AtSelect
<1>2. actor' \in Actors /\ actor'.at = "cancel" /\ actor'.how = how /\ actor'.held = <<>> /\ actor'.id = None
  BY Resting DEF Cancel
<1>3. /\ turn' \in [Ids -> Turns]
      /\ \A u \in Ids : Alive(u)' => Alive(u) /\ turn'[u] = turn[u]
      /\ \A u \in Ids : turn'[u] = turn[u] \/ turn'[u] = NoTurn
      /\ settled \subseteq settled' /\ Elements(interjections) \subseteq settled'
      /\ \A u \in Ids : Elements(turn[u].taken) \subseteq Elements(turn'[u].taken) \cup settled'
  <2>1. CASE subagents
    <3>1. /\ turn' = Aborted(running_task) /\ running_task \in Ids \cup {None}
          /\ settled' = settled \cup Elements(interjections) \cup Dropped(running_task)
      BY <2>1 DEF Cancel, Types
    <3> QED  BY <3>1, Aborts
  <2>2. CASE ~subagents
    <3>1. turn' = turn /\ settled' = settled \cup Elements(interjections)
      BY <2>2 DEF Cancel
    <3>2. \A u \in Ids : Alive(u)' <=> Alive(u)
      BY <3>1 DEF Alive
    <3> QED  BY <3>1, <3>2 DEF Types
  <2> QED  BY <2>1, <2>2
<1>4. Elements(interjections') = {} /\ Len(interjections') = 0
  BY <1>1 DEF Elements
<1>5. \A u \in Ids : /\ (Finished(u)' <=> Finished(u)) /\ ~Stopped(u)' /\ ~Stopped(u)
                     /\ (Known(u)' <=> Known(u))
  BY <1>1, <1>2 DEF Finished, Stopped, Known
<1>6. Types'
  <2>1. interjections' \in Seq(Ids) /\ cancels' \in 0..MaxCancels
    BY <1>1, PromptAssumption DEF Types
  <2>2. suppressed' \in BOOLEAN
    BY <1>1 DEF Types, StopGesture
  <2> QED  BY <1>1, <1>2, <1>3, <2>1, <2>2 DEF Types
<1>7. Fronts'   BY <1>1, <1>2 DEF Fronts, FrontIsTheRunningTurn
<1>8. Reports'
  <2>1. Elements(pending) # {} => running_task # None
    BY <1>1, ElementsOf DEF Fronts, Types
  <2> QED  BY <1>1, <2>1 DEF Reports
<1>9. Barrier'  BY <1>1, <1>2 DEF Barrier, Barred
<1>10. Places'
  <2>1. \A i \in IdsIn(pending) : Known(i)'
    BY <1>5, QueuedIds DEF Places
  <2> QED  BY <1>1, <1>4, <2>1 DEF Places, KindOk
<1>11. Turning'
  <2>1. \A u \in Ids : turn'[u].phase # "live" => turn'[u].taken = <<>>
    BY <1>3 DEF Turning, NoTurn
  <2>2. \A u \in Ids : turn'[u].phase \in {"recorded", "live"} => turn'[u].msgs \subseteq settled'
    BY <1>3 DEF Turning, NoTurn
  <2>3. \A u \in Ids : Alive(u)' => /\ u = running_task /\ u \in turn'[u].msgs
                                    /\ turn'[u].msgs = Head(pending).msgs
    BY <1>3, <1>5 DEF Turning
  <2> QED  BY <1>1, <1>3, <1>4, <1>5, <2>1, <2>2, <2>3 DEF Turning
<1>12. Answers'
  <2>1. actor.held = <<>>
    BY <1>1 DEF Answers
  <2> QED  BY <1>1, <1>2, <2>1 DEF Answers
<1>13. Commits'
  <2> QED  BY <1>1, <1>2, <1>3 DEF Commits
<1>14. Kept'
  <2>1. actor.held = <<>>
    BY <1>1 DEF Answers
  <2> QED  BY <1>1, <1>2, <1>3, <2>1 DEF Kept
<1> QED  BY <1>6, <1>7, <1>8, <1>9, <1>10, <1>11, <1>12, <1>13, <1>14

\* cancel_running_task under the lock, in all its forms: rows go into the hands
\* of the cancel, the front at least, and of the others only wakes are lost.
LEMMA FrontTaken ==
    ASSUME IInv, actor.at = "cancel", Types', Barrier',
           actor'.at = "teardown", running_task' = None,
           Distinct(pending'), Distinct(actor'.held), IdsIn(pending') \cap IdsIn(actor'.held) = {},
           Elements(pending') \cup Elements(actor'.held) \subseteq Elements(pending),
           pending # <<>> => Head(pending) \in Elements(actor'.held),
           \A e \in Elements(pending) : e \in Elements(pending') \cup Elements(actor'.held) \/ e.kind = "wake",
           actor'.how = "send_now" => actor.how = "send_now" /\ \A e \in Elements(actor'.held) : e = Head(pending),
           \/ turn' = turn /\ actor'.id = running_task /\ settled' = settled
           \/ turn' = Aborted(running_task) /\ actor'.id = None /\ settled' = settled \cup Dropped(running_task),
           UNCHANGED <<interjections, completions, answer, inputs, lost, dropped, overlapped>>
    PROVE  IInv'
<1> USE DEF IInv
<1>1. /\ running_task \in Ids \cup {None}
      /\ turn' \in [Ids -> Turns]
      /\ \A u \in Ids : Alive(u)' => Alive(u) /\ turn'[u] = turn[u] /\ u = running_task /\ actor'.id = running_task
      /\ \A u \in Ids : turn'[u] = turn[u] \/ turn'[u] = NoTurn
      /\ settled \subseteq settled'
      /\ \A u \in Ids : Elements(turn[u].taken) \subseteq Elements(turn'[u].taken) \cup settled'
  <2>1. running_task \in Ids \cup {None} /\ \A u \in Ids : Alive(u) => u = running_task
    BY DEF Types, Turning, Stopped
  <2>2. CASE turn' = turn /\ actor'.id = running_task /\ settled' = settled
    <3>1. \A u \in Ids : Alive(u)' <=> Alive(u)
      BY <2>2 DEF Alive
    <3> QED  BY <2>1, <2>2, <3>1 DEF Types
  <2>3. CASE turn' = Aborted(running_task) /\ settled' = settled \cup Dropped(running_task)
    BY <2>1, <2>3, Aborts
  <2> QED  BY <2>2, <2>3
<1>2. IdsIn(pending') \subseteq IdsIn(pending) /\ IdsIn(pending) \subseteq Ids
  BY QueuedIds DEF IdsIn
<1>3. \A e \in Elements(pending) : e.id \in IdsIn(pending)
  BY DEF IdsIn
<1>4. \A e \in Elements(pending') : e # Head(pending) /\ e.id # running_task /\ e.id # Head(pending).id
  <2>1. pending # <<>> => Head(pending).id \in IdsIn(actor'.held)
    BY DEF IdsIn
  <2>2. Elements(pending') # {} => pending # <<>>
    BY ElementsOf DEF Types
  <2>3. \A e \in Elements(pending') : e.id \in IdsIn(pending')
    BY DEF IdsIn
  <2>4. running_task # None => Head(pending).id = running_task
    BY RunningRow
  <2>5. \A e \in Elements(pending') : e.id # None
    BY <1>2, <2>3, NoneIsNoId
  <2> QED  BY <2>1, <2>2, <2>3, <2>4, <2>5
<1>5. \A u \in Ids : /\ (Finished(u)' <=> Finished(u)) /\ ~Stopped(u)
                     /\ (Stopped(u)' => u = running_task) /\ (Known(u)' <=> Known(u))
  BY NoneIsNoId DEF Finished, Stopped, Known, inputs
<1>6. Fronts'   BY DEF Fronts
<1>7. Reports'  BY <1>4 DEF Reports
<1>8. Places'
  <2>1. \A i \in IdsIn(pending') \cup Elements(interjections') : Known(i)'
    BY <1>2, <1>5, QueuedIds DEF Places
  <2> QED  BY <1>2, <2>1 DEF Places, KindOk
<1>9. Turning'
  <2>1. \A u \in Ids : turn'[u].phase # "live" => turn'[u].taken = <<>>
    BY <1>1 DEF Turning, NoTurn
  <2>2. \A u \in Ids : turn'[u].phase \in {"recorded", "live"} => turn'[u].msgs \subseteq settled'
    BY <1>1 DEF Turning, NoTurn
  <2>3. \A u \in Ids : Alive(u)' => Stopped(u)' /\ u \in turn'[u].msgs
    BY <1>1 DEF Turning, Stopped
  <2>4. \A u \in Ids : Finished(u)' => ~Alive(u)' /\ u \in settled'
    BY <1>1, <1>5 DEF Turning
  <2>5. running_task # None => running_task \notin Elements(interjections) /\ Known(running_task)
    BY RunningRow DEF Places
  <2>6. \A u \in Ids : Finished(u)' \/ Stopped(u)' =>
          u \notin IdsIn(pending') /\ u \notin Elements(interjections) /\ Known(u)'
    <3>1. SUFFICES ASSUME NEW u \in Ids, Finished(u) \/ u = running_task
                   PROVE  u \notin IdsIn(pending') /\ u \notin Elements(interjections) /\ Known(u)
      BY <1>5
    <3>2. u # None
      BY NoneIsNoId
    <3>3. u \in IdsIn(pending') => u # running_task
      BY <1>4 DEF IdsIn
    <3> QED  BY <1>2, <2>5, <3>1, <3>2, <3>3 DEF Turning
  <2>7. \A u \in Ids : u # running_task'
    BY NoneIsNoId
  <2> QED  BY <2>1, <2>2, <2>3, <2>4, <2>6, <2>7 DEF Turning
<1>10. Answers'
  <2>1. Elements(actor.held) = {}
    BY DEF Answers, Elements
  <2>2. \A p \in Prompts : (\E e \in Elements(pending) : e.id = p /\ e.kind = "user")
          <=> \E e \in Elements(pending') \cup Elements(actor'.held) : e.id = p /\ e.kind = "user"
    OBVIOUS
  <2>3. \A e \in Elements(actor'.held) : KindOk(e)'
    BY DEF Places, KindOk
  <2> QED  BY <2>1, <2>2, <2>3 DEF Answers, inputs
<1>11. Commits'
  <2>1. actor.how = "send_now" => running_task # None /\ front_message_committed
    BY DEF Fronts
  <2> QED  BY <1>1, <2>1 DEF Commits
<1>12. Kept'
  <2>1. Elements(actor.held) = {}
    BY DEF Answers, Elements
  <2>2. \A m \in said : m \in IdsIn(pending) =>
          m \in IdsIn(pending') \/ \E e \in Elements(actor'.held) : m \in e.msgs
    <3>1. SUFFICES ASSUME NEW e \in Elements(pending), e.id \in said
                   PROVE  e.id \in IdsIn(pending') \/ \E h \in Elements(actor'.held) : e.id \in h.msgs
      BY DEF IdsIn
    <3>2. e.id \in e.msgs /\ (e.kind = "wake" => e.id \in Wakes)
      BY DEF Places, KindOk
    <3>3. e.kind # "wake"
      BY <3>1, <3>2, PromptAssumption DEF Types
    <3> QED  BY <3>2, <3>3 DEF IdsIn
  <2> QED  BY <1>1, <2>1, <2>2 DEF Kept, inputs
<1> QED  BY <1>6, <1>7, <1>8, <1>9, <1>10, <1>11, <1>12

\* A rewind takes the user's row back and aborts the turn at once.
LEMMA CancelRewindsKeeps ==
    ASSUME IInv, CancelRewinds
    PROVE  IInv'
<1>1. /\ actor.at = "cancel" /\ pending # <<>> /\ turn' = Aborted(running_task)
      /\ settled' = settled \cup Dropped(running_task) /\ running_task' = None /\ rewindable' = FALSE
      /\ suppressed' = FALSE /\ pending' = Tail(pending)
      /\ UNCHANGED <<current_prompt_id, front_message_committed, notifications, interjections, goal,
                     completions, mcp, answer, inputs, lost, dropped, overlapped>>
  BY DEF CancelRewinds
<1>2. /\ Tail(pending) \in Seq(Items) /\ Head(pending) \in Items
      /\ Elements(pending) = {Head(pending)} \cup Elements(pending')
      /\ Distinct(pending') /\ Head(pending).id \notin IdsIn(pending')
  BY <1>1, TailRows DEF IInv, Types, Places
<1>3. /\ <<Head(pending)>> \in Seq(Items) /\ Elements(<<Head(pending)>>) = {Head(pending)}
      /\ Distinct(<<Head(pending)>>) /\ IdsIn(<<Head(pending)>>) = {Head(pending).id}
  BY <1>2, OneRow
<1>4. actor \in Actors /\ actor.id = None
  BY <1>1 DEF IInv, Types, Fronts
<1>5. /\ actor' \in Actors /\ actor'.at = "teardown" /\ actor'.how = "rewound"
      /\ actor'.id = None /\ actor'.held = <<Head(pending)>>
  BY <1>3, <1>4 DEF CancelRewinds, Actors
<1>6. turn' \in [Ids -> Turns]
  <2>1. running_task \in Ids \cup {None}
    BY DEF IInv, Types
  <2> QED  BY <1>1, <2>1, Aborts DEF IInv
<1>7. Types'
  BY <1>1, <1>2, <1>5, <1>6 DEF IInv, Types, inputs
<1>8. Barrier'
  BY <1>1 DEF Barrier
<1>9. Elements(pending') \cup Elements(actor'.held) \subseteq Elements(pending)
  BY <1>2, <1>3, <1>5
<1>10. pending # <<>> => Head(pending) \in Elements(actor'.held)
  BY <1>3, <1>5
<1>11. \A e \in Elements(pending) : e \in Elements(pending') \cup Elements(actor'.held) \/ e.kind = "wake"
  BY <1>2, <1>3, <1>5
<1>12. Distinct(actor'.held) /\ IdsIn(pending') \cap IdsIn(actor'.held) = {}
  BY <1>2, <1>3, <1>5
<1>13. actor'.how # "send_now"
  BY <1>5
<1> QED  BY <1>1, <1>2, <1>5, <1>7, <1>8, <1>9, <1>10, <1>11, <1>12, <1>13, FrontTaken

\* A teardown takes every row.
LEMMA CancelTearsDownKeeps ==
    ASSUME IInv, CancelTearsDown
    PROVE  IInv'
<1>1. /\ actor.at = "cancel" /\ actor.how = "kill" /\ running_task' = None /\ pending' = <<>>
      /\ notifications' = {}
      /\ UNCHANGED <<current_prompt_id, front_message_committed, rewindable, suppressed, interjections, goal,
                     completions, turn, mcp, answer, inputs, ghosts>>
  BY DEF CancelTearsDown
<1>2. actor \in Actors /\ pending \in Seq(Items) /\ running_task \in Ids \cup {None} /\ Distinct(pending)
  BY DEF IInv, Types, Places
<1>3. /\ actor' \in Actors /\ actor'.at = "teardown" /\ actor'.how = "kill"
      /\ actor'.id = running_task /\ actor'.held = pending
  BY <1>1, <1>2 DEF CancelTearsDown, Actors
<1>4. Elements(pending') = {} /\ IdsIn(pending') = {} /\ Distinct(pending') /\ pending' \in Seq(Items)
  BY <1>1 DEF Elements, IdsIn, Distinct
<1>5. Types'
  BY <1>1, <1>3, <1>4 DEF IInv, Types, inputs, ghosts
<1>6. Barrier'
  BY <1>4 DEF Barrier
<1>7. pending # <<>> => Head(pending) \in Elements(actor'.held)
  BY <1>2, <1>3, ElementsOf
<1>8. /\ Elements(pending') \cup Elements(actor'.held) \subseteq Elements(pending)
      /\ Distinct(actor'.held) /\ IdsIn(pending') \cap IdsIn(actor'.held) = {}
      /\ \A e \in Elements(pending) : e \in Elements(pending') \cup Elements(actor'.held) \/ e.kind = "wake"
  BY <1>2, <1>3, <1>4
<1>9. actor'.how # "send_now"
  BY <1>3
<1> QED  BY <1>1, <1>3, <1>4, <1>5, <1>6, <1>7, <1>8, <1>9, FrontTaken DEF ghosts

\* Any other cancel takes the front, and a stop the wakes behind it.
LEMMA CancelTakesFrontKeeps ==
    ASSUME IInv, CancelTakesFront
    PROVE  IInv'
<1> DEFINE rest == SubSeq(pending, 2, Len(pending))
           wakes == {i \in Elements(rest) : StopGesture(actor.how) /\ i.kind = "wake"}
           keep == Elements(rest) \ wakes
<1>1. /\ actor.at = "cancel" /\ running_task' = None
      /\ pending' = Only(rest, keep) /\ notifications' = notifications \cup {i.id : i \in wakes}
      /\ UNCHANGED <<current_prompt_id, front_message_committed, rewindable, suppressed, interjections, goal,
                     completions, turn, mcp, answer, inputs, ghosts>>
  BY DEF CancelTakesFront
<1>2. actor \in Actors /\ pending \in Seq(Items) /\ running_task \in Ids \cup {None} /\ Distinct(pending)
  BY DEF IInv, Types, Places
<1>3. /\ rest \in Seq(Items) /\ Distinct(rest)
      /\ FrontOnly(pending) \in Seq(Items) /\ Distinct(FrontOnly(pending))
      /\ Elements(FrontOnly(pending)) = IF pending = <<>> THEN {} ELSE {Head(pending)}
      /\ Elements(pending) = Elements(FrontOnly(pending)) \cup Elements(rest)
      /\ IdsIn(FrontOnly(pending)) \cap IdsIn(rest) = {}
  BY <1>2, RestRows
<1>4. wakes \subseteq Elements(rest) /\ \A e \in wakes : e.kind = "wake" /\ StopGesture(actor.how)
  OBVIOUS
<1>5. \A e \in Elements(rest) : StopGesture(actor.how) /\ e.kind = "wake" => e \in wakes
  OBVIOUS
<1> HIDE DEF rest, wakes
<1>6. /\ pending' \in Seq(Items) /\ Elements(pending') = Elements(rest) \ wakes /\ Distinct(pending')
  <2>1. /\ Only(rest, keep) \in Seq(Items)
        /\ Elements(Only(rest, keep)) = Elements(rest) \cap keep /\ Distinct(Only(rest, keep))
    BY <1>3, OnlyRows
  <2> QED  BY <1>1, <2>1
<1> HIDE DEF keep
<1>7. /\ actor' \in Actors /\ actor'.at = "teardown" /\ actor'.how = actor.how
      /\ actor'.id = running_task /\ actor'.held = FrontOnly(pending)
  BY <1>2, <1>3 DEF CancelTakesFront, Actors
<1>8. \A e \in Elements(pending) : KindOk(e)
  BY DEF IInv, Places
<1>9. Types'
  <2>1. {i.id : i \in wakes} \subseteq Wakes
    BY <1>3, <1>4, <1>8 DEF KindOk
  <2> QED  BY <1>1, <1>6, <1>7, <2>1 DEF IInv, Types, inputs, ghosts
<1>10. /\ Elements(pending') \cup Elements(actor'.held) \subseteq Elements(pending)
       /\ \A e \in Elements(pending) : e \in Elements(pending') \cup Elements(actor'.held) \/ e.kind = "wake"
       /\ pending # <<>> => Head(pending) \in Elements(actor'.held)
       /\ \A e \in Elements(actor'.held) : e = Head(pending)
       /\ Distinct(actor'.held)
  BY <1>3, <1>4, <1>6, <1>7
<1>11. IdsIn(pending') \cap IdsIn(actor'.held) = {}
  BY <1>3, <1>6, <1>7 DEF IdsIn
<1>12. Barrier'
  <2>1. SUFFICES ASSUME suppressed, NEW e \in Elements(pending')
                 PROVE  e.kind # "wake" /\ e.kind # "drain"
    BY <1>1 DEF Barrier, Barred
  <2>2. CASE StopGesture(actor.how)
    <3>1. e.kind # "wake"
      BY <1>5, <1>6, <2>2
    <3>2. pending # <<>>
      BY <1>2, <1>10, ElementsOf
    <3>3. e # Head(pending)
      BY <1>10, <1>11, <3>2 DEF IdsIn
    <3>4. e.kind = "drain" => e = Head(pending)
      BY <1>10 DEF IInv, Reports
    <3> QED  BY <3>1, <3>3, <3>4
  <2>3. CASE ~StopGesture(actor.how)
    BY <1>10, <2>1, <2>3 DEF IInv, Barrier, Barred
  <2> QED  BY <2>2, <2>3
<1>13. actor'.how = "send_now" => actor.how = "send_now" /\ \A e \in Elements(actor'.held) : e = Head(pending)
  BY <1>7, <1>10
<1> QED  BY <1>1, <1>6, <1>7, <1>9, <1>10, <1>11, <1>12, <1>13, FrontTaken DEF ghosts

\* The turn of the row is aborted only now, and who waits for it is answered.
LEMMA CancelRespondsKeeps ==
    ASSUME IInv, CancelResponds
    PROVE  IInv'
<1> USE DEF IInv
<1> DEFINE msgs == UNION {actor.held[k].msgs : k \in 1..Len(actor.held)}
<1>1. /\ actor.at = "teardown" /\ turn' = Aborted(actor.id) /\ current_prompt_id' = None
      /\ Respond(actor.held)
      /\ UNCHANGED <<pending, running_task, front_message_committed, rewindable, notifications, interjections,
                     completions, mcp, inputs, overlapped>>
  BY DEF CancelResponds
<1>2. /\ settled \subseteq settled' /\ dropped \subseteq dropped'
      /\ Dropped(actor.id) \subseteq settled' \cup dropped'
      /\ actor.how = "send_now" => lost' = lost \cup (msgs \ settled) /\ suppressed' = FALSE /\ goal' = goal
      /\ actor.how # "send_now" => /\ lost' = lost /\ msgs \subseteq settled'
                                   /\ suppressed' = suppressed /\ goal' = FALSE
  BY DEF CancelResponds
<1>3. \A e \in Elements(actor.held) : e.msgs \subseteq msgs
  BY DEF Elements
<1>4. (\A e \in Elements(actor.held) : e.msgs \subseteq settled) => msgs \subseteq settled
  BY DEF Elements
<1> HIDE DEF msgs
<1>5. actor' \in Actors /\ actor'.at = "start" /\ actor'.held = <<>>
  BY Resting DEF CancelResponds
<1>6. /\ turn' \in [Ids -> Turns]
      /\ \A u \in Ids : u # actor.id => turn'[u] = turn[u]
      /\ \A u \in Ids : Alive(u)' <=> Alive(u) /\ u # actor.id
      /\ \A u \in Ids : turn'[u] = turn[u] \/ turn'[u] = NoTurn
      /\ \A u \in Ids : Elements(turn[u].taken) \subseteq Elements(turn'[u].taken) \cup Dropped(actor.id)
  <2>1. actor.id \in Ids \cup {None}
    BY DEF Types, Actors
  <2> QED  BY <1>1, <2>1, Aborts
<1>7. /\ answer' \in [Prompts -> {"unsent", "waiting", "answered"}]
      /\ \A p \in Prompts : answer'[p] = IF \E e \in Elements(actor.held) : e.id = p /\ e.kind = "user"
                                         THEN "answered" ELSE answer[p]
  BY <1>1, Responds
<1>8. \A u \in Ids : /\ (Finished(u)' <=> Finished(u)) /\ ~Stopped(u)'
                     /\ (Stopped(u) => u = actor.id) /\ (Known(u) => Known(u)')
  BY <1>1, <1>5, <1>7 DEF Finished, Stopped, Known, inputs
<1> USE DEF inputs
<1>9. Types'    BY <1>1, <1>2, <1>5, <1>6, <1>7 DEF Types
<1>10. Fronts'  BY <1>1, <1>5 DEF Fronts, FrontIsTheRunningTurn
<1>11. Reports' BY <1>1, <1>5 DEF Reports
<1>12. Barrier' BY <1>1, <1>2 DEF Barrier, Barred
<1>13. Places'
  <2>1. \A i \in IdsIn(pending) \cup Elements(interjections) : Known(i)'
    BY <1>8, QueuedIds DEF Places
  <2> QED  BY <1>1, <2>1 DEF Places, KindOk
<1>14. Turning'
  <2>1. \A u \in Ids : turn'[u].phase # "live" => turn'[u].taken = <<>>
    BY <1>6 DEF Turning, NoTurn
  <2>2. \A u \in Ids : turn'[u].phase \in {"recorded", "live"} => turn'[u].msgs \subseteq settled'
    BY <1>2, <1>6 DEF Turning, NoTurn
  <2>3. \A u \in Ids : Alive(u)' => /\ u = running_task /\ u \in turn'[u].msgs
                                    /\ turn'[u].msgs = Head(pending).msgs
    BY <1>6, <1>8 DEF Turning
  <2> QED  BY <1>1, <1>2, <1>6, <1>8, <2>1, <2>2, <2>3 DEF Turning
<1>15. Answers'
  <2>1. Elements(actor'.held) = {} /\ IdsIn(actor'.held) = {} /\ Distinct(actor'.held)
    BY <1>5 DEF Elements, IdsIn, Distinct
  <2>2. \A e \in Elements(pending), f \in Elements(actor.held) : e.id # f.id
    BY DEF Answers, IdsIn
  <2>3. \A p \in Prompts : answer'[p] = "waiting" <=>
          \E e \in Elements(pending) : e.id = p /\ e.kind = "user"
    BY <1>7, <2>2 DEF Answers
  <2>4. \A p \in said \cap Prompts : answer'[p] = "answered"
    BY <1>7 DEF Answers
  <2> QED  BY <1>1, <1>5, <2>1, <2>3, <2>4 DEF Answers
<1>16. Commits'
  <2>1. SUFFICES ASSUME ~overlapped
                 PROVE  running_task = None /\ lost' = {}
    BY <1>1, <1>5 DEF Commits
  <2>2. running_task = None
    BY <1>1, <2>1 DEF Fronts
  <2> QED  BY <1>1, <1>2, <1>4, <2>1, <2>2 DEF Commits
<1>17. Kept'
  <2>1. \A e \in Elements(actor.held) : e.msgs \subseteq settled' \cup lost'
    BY <1>2, <1>3
  <2>2. lost \subseteq lost'
    BY <1>2
  <2> QED  BY <1>1, <1>2, <1>6, <2>1, <2>2 DEF Kept
<1> QED  BY <1>9, <1>10, <1>11, <1>12, <1>13, <1>14, <1>15, <1>16, <1>17

-----------------------------------------------------------------------------
(* Starting a turn.                                                        *)

\* The rows that merge into the front.
LEMMA MergedAway ==
    ASSUME NEW q \in Seq(Items), NEW n \in 1..Len(q)
    PROVE  Elements(SubSeq(q, 2, n)) = {q[k] : k \in 2..n}
<1> DEFINE s == SubSeq(q, 2, n)
<1>1. n \in Int /\ 2 \in Int /\ n >= 1 /\ \A i \in 2..n : q[i] \in Items
  OBVIOUS
<1>2. /\ Len(s) = IF 2 <= n THEN n - 2 + 1 ELSE 0
      /\ \A i \in 1..n - 2 + 1 : s[i] = q[2 + i - 1]
  BY <1>1, SubSeqProperties
<1> HIDE DEF s
<1>3. Len(s) = n - 1
  BY <1>1, <1>2
<1>4. \A i \in 1..n - 1 : s[i] = q[i + 1] /\ i + 1 \in 2..n
  BY <1>1, <1>2
<1>5. \A j \in 2..n : j - 1 \in 1..n - 1 /\ q[j] = s[j - 1]
  <2> SUFFICES ASSUME NEW j \in 2..n PROVE j - 1 \in 1..n - 1 /\ q[j] = s[j - 1]
    OBVIOUS
  <2>1. j - 1 \in 1..n - 1 /\ (j - 1) + 1 = j
    BY <1>1
  <2> QED  BY <1>4, <2>1
<1>6. Elements(s) = {q[k] : k \in 2..n}
  <2>1. \A e \in Elements(s) : e \in {q[k] : k \in 2..n}
    BY <1>3, <1>4 DEF Elements
  <2>2. \A k \in 2..n : q[k] \in Elements(s)
    BY <1>3, <1>5 DEF Elements
  <2> QED  BY <2>1, <2>2
<1> QED  BY <1>6 DEF s

\* The front with the messages of those rows.
Combined(e, M) == [e EXCEPT !.msgs = M]

\* It is the row of the same prompt.
LEMMA CombinedRow ==
    ASSUME NEW e \in Items, NEW M \in SUBSET Ids
    PROVE  /\ Combined(e, M) \in Items /\ Combined(e, M).id = e.id
           /\ Combined(e, M).kind = e.kind /\ Combined(e, M).msgs = M
BY DEF Combined, Items

\* maybe_start_running_task promotes the front, from the loop or from the MCP
\* task beside it.
LEMMA PromoteKeeps ==
    ASSUME IInv, CanPromote, NEW n \in CombinePrefix(pending), Promote(n),
           actor' \in Actors, actor'.held = actor.held,
           actor' = actor \/ (actor.at = "promote" /\ actor'.at \in {"select", "drain"}),
           mcp' \in {"waits", "checked", "done"},
           overlapped' \in BOOLEAN, overlapped => overlapped', actor'.at = "teardown" => overlapped',
           UNCHANGED <<notifications, interjections, goal, completions, inputs, settled, lost, dropped>>
    PROVE  IInv'
<1> USE DEF IInv
<1> DEFINE M == UNION {pending[k].msgs : k \in 1..n}
           f == Combined(Head(pending), M)
           rest == SubSeq(pending, n + 1, Len(pending))
           gone == SubSeq(pending, 2, n)
<1>1. running_task = None /\ pending # <<>> /\ pending \in Seq(Items) /\ Distinct(pending) /\ n \in 1..Len(pending)
  BY DEF CanPromote, CombinePrefix, Types, Places
<1>2. /\ Head(pending) = pending[1] /\ Head(pending) \in Elements(pending) /\ Head(pending) \in Items
      /\ 1 \in 1..n /\ \A k \in 1..n : pending[k] \in Items /\ pending[k] \in Elements(pending)
  <2>1. Head(pending) = pending[1] /\ Head(pending) \in Elements(pending) /\ Elements(pending) \subseteq Items
    BY <1>1, ElementsOf
  <2>2. \A k \in 1..n : k \in 1..Len(pending)
    BY <1>1
  <2>3. \A k \in 1..n : pending[k] \in Elements(pending)
    BY <2>2 DEF Elements
  <2>4. 1 \in 1..n
    BY <1>1
  <2> QED  BY <2>1, <2>3, <2>4
<1>3. M \in SUBSET Ids /\ Head(pending).msgs \subseteq M
  BY <1>2 DEF Items
<1>4. /\ pending' = <<f>> \o rest /\ Respond(gone)
      /\ suppressed' = (suppressed /\ Synthetic(f))
      /\ current_prompt_id' = f.id /\ rewindable' = TRUE /\ front_message_committed' = FALSE
      /\ running_task' = f.id
      /\ turn' = [turn EXCEPT ![f.id] = [phase |-> "fresh", msgs |-> f.msgs, taken |-> <<>>]]
  BY Zenon DEF Promote, Combined
<1> HIDE DEF M
<1>5. f \in Items /\ f.id = Head(pending).id /\ f.kind = Head(pending).kind /\ f.msgs = M
  BY <1>2, <1>3, CombinedRow
<1> HIDE DEF f
<1>6. /\ pending' \in Seq(Items) /\ pending' # <<>> /\ Head(pending') = f /\ Distinct(pending')
      /\ Elements(pending') = {f} \cup Elements(rest)
      /\ Elements(pending) = {pending[k] : k \in 1..n} \cup Elements(rest)
      /\ \A k \in 1..n : pending[k].id \notin IdsIn(rest)
  BY <1>1, <1>4, <1>5, MergedRows
<1>7. Elements(gone) = {pending[k] : k \in 2..n}
  BY <1>1, MergedAway
<1> HIDE DEF rest, gone
<1>8. \A e \in Elements(rest) : e \in Elements(pending) /\ e # Head(pending) /\ e.id # Head(pending).id
  BY <1>2, <1>6 DEF IdsIn
<1>9. \A e \in Elements(gone) : /\ e \in Elements(pending) /\ e.kind = "user"
                                /\ e.id # Head(pending).id /\ e.id \notin IdsIn(rest)
  <2>1. SUFFICES ASSUME NEW k \in 2..n
                 PROVE  /\ pending[k] \in Elements(pending) /\ pending[k].kind = "user"
                        /\ pending[k].id # Head(pending).id /\ pending[k].id \notin IdsIn(rest)
    BY <1>7
  <2>2. k \in 1..n /\ n # 1 /\ k \in 1..Len(pending) /\ 1 \in 1..Len(pending) /\ k # 1
    BY <1>1
  <2>3. pending[k].kind = "user"
    BY <2>2 DEF CombinePrefix
  <2>4. pending[k].id # Head(pending).id
    BY <1>1, <1>2, <2>2 DEF Distinct
  <2> QED  BY <1>2, <1>6, <2>2, <2>3, <2>4
<1>10. \A e \in Elements(pending) : e = Head(pending) \/ e \in Elements(gone) \/ e \in Elements(rest)
  <2>1. \A k \in 1..n : k = 1 \/ k \in 2..n
    BY <1>1
  <2> QED  BY <1>2, <1>6, <1>7, <2>1
<1>11. /\ IdsIn(pending') = {f.id} \cup IdsIn(rest)
       /\ IdsIn(pending') \subseteq IdsIn(pending) /\ f.id \in IdsIn(pending) /\ f.id \in Ids
  <2>1. IdsIn(pending') = {f.id} \cup IdsIn(rest)
    BY <1>6 DEF IdsIn
  <2>2. f.id \in IdsIn(pending) /\ IdsIn(rest) \subseteq IdsIn(pending)
    BY <1>2, <1>5, <1>8 DEF IdsIn
  <2>3. f.id \in Ids
    BY <1>5 DEF Items
  <2> QED  BY <2>1, <2>2, <2>3
<1>12. /\ answer' \in [Prompts -> {"unsent", "waiting", "answered"}]
       /\ \A p \in Prompts : answer'[p] = IF \E e \in Elements(gone) : e.id = p /\ e.kind = "user"
                                          THEN "answered" ELSE answer[p]
  BY <1>4, Responds
<1>13. \A u \in Ids : /\ (Finished(u)' => Finished(u)) /\ (Stopped(u)' => Stopped(u))
                      /\ (Stopped(u) => Stopped(u)') /\ (Known(u) => Known(u)')
  BY <1>12 DEF Finished, Stopped, Known, inputs
<1>14. \A u \in Ids : Finished(u) \/ Stopped(u) => u \notin IdsIn(pending)
  BY <1>1, NoneIsNoId DEF Turning
<1>15. \A u \in Ids : Alive(u) => Stopped(u) /\ u # f.id
  BY <1>1, <1>11, <1>14, NoneIsNoId DEF Turning
<1>16. turn[f.id].taken = <<>>
  BY <1>11, <1>15 DEF Turning, Alive
<1>17. /\ turn' \in [Ids -> Turns]
       /\ \A u \in Ids : u # f.id => turn'[u] = turn[u]
       /\ turn'[f.id] = [phase |-> "fresh", msgs |-> f.msgs, taken |-> <<>>]
  <2>1. [phase |-> "fresh", msgs |-> f.msgs, taken |-> <<>>] \in Turns
    <3>1. f.msgs \in SUBSET Ids /\ <<>> \in Seq(Ids)
      BY <1>3, <1>5
    <3> QED  BY <3>1 DEF Turns
  <2>2. turn \in [Ids -> Turns]
    BY DEF Types
  <2> QED  BY <1>4, <1>11, <2>1, <2>2
<1>18. /\ turn'[f.id].phase = "fresh" /\ turn'[f.id].msgs = f.msgs /\ turn'[f.id].taken = <<>>
       /\ \A u \in Ids : u # f.id => (Alive(u)' <=> Alive(u))
  BY <1>17 DEF Alive
<1> USE DEF inputs
<1>19. Types'
  <2>1. suppressed' \in BOOLEAN
    BY <1>4 DEF Types
  <2> QED  BY <1>4, <1>6, <1>11, <1>12, <1>17, <2>1 DEF Types
<1>20. Fronts'
  <2>1. FrontIsTheRunningTurn' /\ running_task' # None
    BY <1>4, <1>6, <1>11, NoneIsNoId DEF FrontIsTheRunningTurn
  <2>2. ~(actor'.at = "send_now" \/ (actor'.at = "cancel" /\ actor'.how = "send_now"))
    BY <1>1 DEF Fronts
  <2>3. actor'.at = "cancel" => actor'.id = None
    BY DEF Fronts
  <2> QED  BY <2>1, <2>2, <2>3 DEF Fronts
<1>21. Reports'
  <2>1. running_task' # None
    BY <1>4, <1>11, NoneIsNoId
  <2> QED  BY <1>6, <1>8, <2>1 DEF Reports
<1>22. Barrier'
  <2>1. SUFFICES ASSUME suppressed', ~(actor'.at = "cancel" /\ StopGesture(actor'.how)),
                        NEW e \in Elements(pending')
                 PROVE  ~Barred(e)
    BY DEF Barrier, Barred
  <2>2. \A h \in Elements(pending) : ~Barred(h)
    BY <1>4, <2>1 DEF Barrier
  <2>3. e.kind = Head(pending).kind \/ e \in Elements(pending)
    BY <1>5, <1>6, <1>8
  <2> QED  BY <1>2, <2>2, <2>3 DEF Barred
<1>23. Places'
  <2>1. \A i \in IdsIn(pending') \cup Elements(interjections) : Known(i)'
    BY <1>11, <1>13, QueuedIds DEF Places
  <2>2. KindOk(f)
    BY <1>2, <1>3, <1>5 DEF Places, KindOk
  <2>3. \A e \in Elements(pending') : KindOk(e)'
    BY <1>6, <1>8, <2>2 DEF Places, KindOk
  <2> QED  BY <1>6, <1>11, <2>1, <2>3 DEF Places
<1>24. Turning'
  <2>1. \A u \in Ids : turn'[u].phase # "live" => turn'[u].taken = <<>>
    BY <1>17, <1>18 DEF Turning
  <2>2. \A u \in Ids : turn'[u].phase \in {"recorded", "live"} => turn'[u].msgs \subseteq settled'
    BY <1>17, <1>18 DEF Turning
  <2>3. f.id \in f.msgs
    BY <1>2, <1>3, <1>5 DEF Places, KindOk
  <2>4. \A u \in Ids : Alive(u)' => /\ u = running_task' \/ Stopped(u)'
                                    /\ u \in turn'[u].msgs
                                    /\ u = running_task' => turn'[u].msgs = Head(pending').msgs
    BY <1>4, <1>6, <1>13, <1>15, <1>17, <1>18, <2>3 DEF Turning
  <2>5. \A u \in Ids : Finished(u)' => ~Alive(u)' /\ u \in settled'
    BY <1>11, <1>13, <1>14, <1>18 DEF Turning
  <2>6. \A u \in Ids : Finished(u)' \/ Stopped(u)' =>
          u \notin IdsIn(pending') /\ u \notin Elements(interjections') /\ Known(u)'
    BY <1>11, <1>13, <1>14 DEF Turning
  <2> QED  BY <2>1, <2>2, <2>4, <2>5, <2>6 DEF Turning
<1>25. Answers'
  <2>1. \A e \in Elements(gone), h \in Elements(actor.held) : e.id # h.id
    BY <1>9 DEF Answers, IdsIn
  <2>2. \A e \in Elements(gone), h \in Elements(pending') : e.id # h.id
    BY <1>5, <1>6, <1>9 DEF IdsIn
  <2>3. \A p \in Prompts : (\E e \in Elements(pending) : e.id = p /\ e.kind = "user")
          <=> \/ \E e \in Elements(pending') : e.id = p /\ e.kind = "user"
              \/ \E e \in Elements(gone) : e.id = p /\ e.kind = "user"
    BY <1>2, <1>5, <1>6, <1>8, <1>9, <1>10
  <2>4. \A p \in Prompts : answer'[p] = "waiting" <=>
          \E e \in Elements(pending') \cup Elements(actor'.held) : e.id = p /\ e.kind = "user"
    BY <1>12, <2>1, <2>2, <2>3 DEF Answers
  <2>5. \A p \in said \cap Prompts : answer'[p] = "answered"
    BY <1>12 DEF Answers
  <2>6. actor'.at # "teardown" => actor'.held = <<>>
    BY DEF Answers
  <2> QED  BY <1>11, <2>4, <2>5, <2>6 DEF Answers, KindOk
<1>26. Commits' BY <1>4 DEF Commits
<1>27. Kept'
  <2>1. \A m \in said : m \in IdsIn(pending) => m \in IdsIn(pending')
    <3>1. SUFFICES ASSUME NEW e \in Elements(pending), e.id \in said
                   PROVE  e.id \in IdsIn(pending')
      BY DEF IdsIn
    <3>2. e \notin Elements(gone)
      <4>1. SUFFICES ASSUME e \in Elements(gone) PROVE FALSE
        OBVIOUS
      <4>2. e.kind = "user" /\ e.id \in Prompts
        BY <1>9, <4>1 DEF Places, KindOk
      <4>3. answer[e.id] = "waiting" /\ answer[e.id] = "answered"
        BY <3>1, <4>2 DEF Answers
      <4> QED  BY <4>3
    <3>3. e.id = f.id \/ e \in Elements(rest)
      BY <1>5, <1>10, <3>2
    <3> QED  BY <1>11, <3>3 DEF IdsIn
  <2>2. \A u \in Ids : Elements(turn[u].taken) \subseteq Elements(turn'[u].taken)
    BY <1>16, <1>17, <1>18
  <2> QED  BY <2>1, <2>2 DEF Kept
<1> QED  BY <1>19, <1>20, <1>21, <1>22, <1>23, <1>24, <1>25, <1>26, <1>27

\* The loop promotes, or finds that the MCP task was first.
LEMMA StartPromotesKeeps ==
    ASSUME IInv, StartPromotes
    PROVE  IInv'
<1>1. /\ actor.at = "promote" /\ actor' = At(actor.then)
      /\ UNCHANGED <<notifications, interjections, goal, completions, mcp, inputs, ghosts>>
  BY DEF StartPromotes
<1>2. /\ actor' \in Actors /\ actor'.at \in {"select", "drain"} /\ actor'.held = <<>>
      /\ actor.held = <<>> /\ (actor'.at = "select" \/ actor'.at = "drain")
  <2>1. actor.then \in {"select", "drain"} /\ actor.held = <<>>
    BY <1>1 DEF IInv, Types, Actors, Answers
  <2> QED  BY <1>1, <2>1, Resting
<1>3. CASE CanPromote
  <2>1. PICK n \in CombinePrefix(pending) : Promote(n)
    BY <1>3 DEF StartPromotes
  <2>2. mcp' \in {"waits", "checked", "done"} /\ overlapped' \in BOOLEAN /\ (overlapped => overlapped')
    BY <1>1 DEF IInv, Types, ghosts
  <2>3. actor'.held = actor.held /\ (actor'.at = "teardown" => overlapped')
    BY <1>2
  <2> QED  BY <1>1, <1>2, <1>3, <2>1, <2>2, <2>3, PromoteKeeps DEF ghosts
<1>4. CASE ~CanPromote
  <2> USE DEF IInv
  <2>1. UNCHANGED <<pending, running_task, current_prompt_id, front_message_committed, rewindable,
                    suppressed, turn, answer>>
    BY <1>4 DEF StartPromotes
  <2>2. running_task # None \/ pending = <<>>
    BY <1>4 DEF CanPromote
  <2>3. \A u \in Ids : /\ (Finished(u)' <=> Finished(u)) /\ ~Stopped(u)' /\ ~Stopped(u)
                       /\ (Known(u)' <=> Known(u)) /\ (Alive(u)' <=> Alive(u))
    BY <1>1, <1>2, <2>1 DEF Finished, Stopped, Known, Alive, inputs
  <2> USE DEF inputs, ghosts
  <2>4. Types'    BY <1>1, <1>2, <2>1 DEF Types
  <2>5. Fronts'   BY <1>1, <1>2, <2>1, <2>2 DEF Fronts, FrontIsTheRunningTurn
  <2>6. Reports'
    <3>1. Elements(pending) # {} => running_task # None
      BY <2>2, ElementsOf DEF Types
    <3> QED  BY <2>1, <3>1 DEF Reports
  <2>7. Barrier'  BY <1>1, <1>2, <2>1 DEF Barrier, Barred
  <2>8. Places'
    <3>1. \A i \in IdsIn(pending) \cup Elements(interjections) : Known(i)'
      BY <2>3, QueuedIds DEF Places
    <3> QED  BY <1>1, <2>1, <3>1 DEF Places, KindOk
  <2>9. Turning'  BY <1>1, <2>1, <2>3 DEF Turning
  <2>10. Answers' BY <1>1, <1>2, <2>1 DEF Answers
  <2>11. Commits' BY <1>1, <1>2, <2>1 DEF Commits
  <2>12. Kept'    BY <1>1, <1>2, <2>1 DEF Kept
  <2> QED  BY <2>4, <2>5, <2>6, <2>7, <2>8, <2>9, <2>10, <2>11, <2>12
<1> QED  BY <1>3, <1>4

\* The MCP task promotes, or finds a turn running.
LEMMA McpPromotesKeeps ==
    ASSUME IInv, McpPromotes
    PROVE  IInv'
<1>1. /\ mcp' = "done"
      /\ UNCHANGED <<notifications, interjections, goal, completions, actor, inputs, settled, lost, dropped>>
  BY DEF McpPromotes
<1>2. CASE CanPromote
  <2>1. PICK n \in CombinePrefix(pending) : Promote(n)
    BY <1>2 DEF McpPromotes
  <2>2. overlapped' = (overlapped \/ actor.at = "teardown")
    BY <1>2 DEF McpPromotes
  <2>3. /\ mcp' \in {"waits", "checked", "done"} /\ overlapped' \in BOOLEAN /\ (overlapped => overlapped')
        /\ actor' \in Actors /\ actor'.held = actor.held /\ (actor'.at = "teardown" => overlapped')
    BY <1>1, <2>2 DEF IInv, Types
  <2> QED  BY <1>1, <1>2, <2>1, <2>3, PromoteKeeps
<1>3. CASE ~CanPromote
  <2>1. UNCHANGED <<pending, running_task, current_prompt_id, front_message_committed, rewindable,
                    suppressed, turn, answer, overlapped>>
    BY <1>3 DEF McpPromotes
  <2>2. Types'
    BY <1>1, <2>1 DEF IInv, Types, inputs
  <2> QED  BY <1>1, <2>1, <2>2, FlagsKeep DEF ghosts
<1> QED  BY <1>2, <1>3

-----------------------------------------------------------------------------
(* Edits of the queue.                                                     *)

\* An edit leaves the turns alone if the running front stays where it is and no
\* id comes in that a turn on its way out already has.
LEMMA EditKeeps ==
    ASSUME IInv, Types', Fronts', Reports', Barrier', Places', Answers', Kept',
           UNCHANGED <<running_task, front_message_committed, completions, turn, ghosts>>,
           running_task # None => Head(pending') = Head(pending),
           actor' = actor \/ (actor.at \notin {"complete", "teardown"} /\ actor'.at \notin {"complete", "teardown"}),
           \A i \in Ids : Known(i) => Known(i)',
           \A i \in IdsIn(pending') : \/ i \in IdsIn(pending) \cup Elements(interjections)
                                      \/ ~Known(i)
                                      \/ actor.at = "drain" /\ i \notin settled,
           \A i \in Elements(interjections') : \/ i \in Elements(interjections)
                                               \/ ~Known(i)
                                               \/ i \in IdsIn(pending) /\ i # running_task
    PROVE  IInv'
<1> USE DEF IInv, ghosts
<1>1. \A u \in Ids : /\ (Finished(u)' <=> Finished(u)) /\ (Stopped(u)' <=> Stopped(u))
                     /\ (Alive(u)' <=> Alive(u))
  BY DEF Finished, Stopped, Alive
<1>2. Turning'
  <2>1. \A u \in Ids : Alive(u)' =>
          /\ u = running_task' \/ Stopped(u)'
          /\ u \in turn'[u].msgs
          /\ u = running_task' => turn'[u].msgs = Head(pending').msgs
    BY <1>1, NoneIsNoId DEF Turning
  <2>2. \A u \in Ids : Finished(u) \/ Stopped(u) =>
          /\ u \in IdsIn(pending') => u = running_task
          /\ u \notin Elements(interjections')
          /\ Known(u)'
    <3>1. SUFFICES ASSUME NEW u \in Ids, Finished(u) \/ Stopped(u)
                   PROVE  /\ u \in IdsIn(pending') => u = running_task
                          /\ u \notin Elements(interjections')
                          /\ Known(u)'
      OBVIOUS
    <3>2. /\ u \in IdsIn(pending) => u = running_task
          /\ u \notin Elements(interjections) /\ Known(u)
      BY <3>1 DEF Turning
    <3>3. ~(actor.at = "drain" /\ u \notin settled)
      BY <3>1 DEF Turning, Stopped
    <3> QED  BY <3>2, <3>3
  <2> QED  BY <1>1, <2>1, <2>2 DEF Turning
<1>3. Commits'  BY DEF Commits
<1> QED  BY <1>2, <1>3

\* Rows that leave the queue or change places: user rows are answered, wakes and
\* reports may go, and what was said stays.
LEMMA TrimKeeps ==
    ASSUME IInv, Types', Distinct(pending'), Elements(pending') \subseteq Elements(pending),
           running_task # None => pending' # <<>> /\ Head(pending') = Head(pending),
           actor.at \notin {"start", "promote"} \/ running_task # None,
           \A p \in Prompts : answer'[p] =
               IF \E e \in Elements(pending) \ Elements(pending') : e.id = p /\ e.kind = "user"
               THEN "answered" ELSE answer[p],
           \A e \in Elements(pending) \ Elements(pending') : e.kind # "fallback",
           UNCHANGED <<running_task, front_message_committed, suppressed, interjections, completions, turn,
                       actor, inputs, ghosts>>
    PROVE  IInv'
<1> USE DEF IInv
<1>1. IdsIn(pending') \subseteq IdsIn(pending)
  BY DEF IdsIn
<1>2. \A i \in Ids : Known(i) => Known(i)'
  BY DEF Known, inputs
<1>3. \A e, h \in Elements(pending) : e.id = h.id => e = h
  BY DEF Places, Distinct, Elements
<1>4. pending' # <<>> => pending # <<>>
  BY ElementsOf DEF Types
<1>5. Fronts'
  BY <1>4 DEF Fronts, FrontIsTheRunningTurn, ghosts
<1>6. Reports'
  BY DEF Reports
<1>7. Barrier'
  BY DEF Barrier, Barred
<1>8. Places'
  <2>1. \A i \in IdsIn(pending') \cup Elements(interjections) : Known(i)'
    BY <1>1, <1>2, QueuedIds DEF Places
  <2> QED  BY <1>1, <2>1 DEF Places, KindOk
<1>9. Answers'
  <2>1. \A e \in Elements(pending), h \in Elements(actor.held) : e.id # h.id
    BY DEF Answers, IdsIn
  <2>2. \A p \in Prompts : answer'[p] = "waiting" <=>
          \E e \in Elements(pending') \cup Elements(actor.held) : e.id = p /\ e.kind = "user"
    <3>1. SUFFICES ASSUME NEW p \in Prompts
                   PROVE  answer'[p] = "waiting" <=>
                            \E e \in Elements(pending') \cup Elements(actor.held) : e.id = p /\ e.kind = "user"
      OBVIOUS
    <3>2. CASE \E e \in Elements(pending) \ Elements(pending') : e.id = p /\ e.kind = "user"
      <4>1. PICK e \in Elements(pending) \ Elements(pending') : e.id = p /\ e.kind = "user"
        BY <3>2
      <4>2. ~\E h \in Elements(pending') \cup Elements(actor.held) : h.id = p
        BY <1>3, <2>1, <4>1
      <4> QED  BY <3>2, <4>2
    <3>3. CASE ~\E e \in Elements(pending) \ Elements(pending') : e.id = p /\ e.kind = "user"
      BY <3>3 DEF Answers
    <3> QED  BY <3>2, <3>3
  <2>3. \A p \in said \cap Prompts : answer'[p] = "answered"
    BY DEF Answers
  <2> QED  BY <1>1, <2>2, <2>3 DEF Answers, KindOk, inputs
<1>10. Kept'
  <2>1. \A m \in said : m \in IdsIn(pending) => m \in IdsIn(pending')
    <3>1. SUFFICES ASSUME NEW e \in Elements(pending), e.id \in said, e \notin Elements(pending')
                   PROVE  FALSE
      BY DEF IdsIn
    <3>2. KindOk(e) /\ e \in Items /\ e.kind # "fallback"
      BY <3>1, ElementsOf DEF Places, Types
    <3>3. e.kind \in {"user", "wake", "child", "drain"}
      BY <3>2 DEF Items
    <3>4. e.kind # "user"
      BY <3>1, <3>2 DEF KindOk, Answers
    <3>5. e.id \in Wakes \cup Children \cup Drains
      BY <3>2, <3>3, <3>4 DEF KindOk
    <3> QED  BY <3>1, <3>5, PromptAssumption DEF Types
  <2> QED  BY <2>1 DEF Kept, inputs, ghosts
<1> QED  BY <1>1, <1>2, <1>5, <1>6, <1>7, <1>8, <1>9, <1>10, EditKeeps

\* A command finds the loop waiting, and a queue that is not empty running.
LEMMA AtCommand ==
    ASSUME IInv, TakesCommand
    PROVE  /\ actor.at = "select" /\ actor.held = <<>> /\ Elements(actor.held) = {}
           /\ pending \in Seq(Items) /\ Distinct(pending) /\ Elements(pending) \subseteq Items
           /\ pending # <<>> => /\ running_task # None /\ Head(pending).id = running_task
                                /\ Head(pending) \in Elements(pending)
<1>1. actor.at = "select"
  BY DEF TakesCommand, AtSelect
<1>2. actor.held = <<>> /\ Elements(actor.held) = {}
  BY <1>1 DEF IInv, Answers, Elements
<1>3. pending \in Seq(Items) /\ Distinct(pending) /\ Elements(pending) \subseteq Items
  BY ElementsOf DEF IInv, Types, Places
<1>4. pending # <<>> => running_task # None /\ Head(pending).id = running_task /\ Head(pending) \in Elements(pending)
  BY <1>1, RunningRow DEF IInv, Fronts
<1> QED  BY <1>1, <1>2, <1>3, <1>4

\* A row is removed, and its client told.
LEMMA RemoveKeeps ==
    ASSUME IInv, NEW p \in Prompts, handle_remove_queued_prompt(p)
    PROVE  IInv'
<1>1. /\ TakesCommand /\ p # running_task
      /\ UNCHANGED <<running_task, current_prompt_id, front_message_committed, rewindable, suppressed,
                     notifications, interjections, goal, completions, turn, actor, mcp, inputs, ghosts>>
  BY DEF handle_remove_queued_prompt
<1>2. PICK k \in Queued(p) : /\ pending[k].kind = "user" /\ pending' = Without(pending, k)
                             /\ Respond(<<pending[k]>>)
  BY DEF handle_remove_queued_prompt
<1>3. k \in 1..Len(pending) /\ pending[k].id = p
  BY DEF Queued
<1>4. /\ actor.at = "select" /\ pending \in Seq(Items) /\ Distinct(pending)
      /\ pending # <<>> => running_task # None /\ Head(pending).id = running_task
  BY <1>1, AtCommand
<1>5. /\ pending' \in Seq(Items) /\ Distinct(pending')
      /\ Elements(pending') = Elements(pending) \ {pending[k]}
      /\ pending[k] \in Items /\ pending[k] \in Elements(pending)
      /\ pending[k] # Head(pending) => pending' # <<>> /\ Head(pending') = Head(pending)
  BY <1>2, <1>3, <1>4, WithoutRow
<1>6. pending # <<>>
  BY <1>3, <1>4
<1>7. pending' # <<>> /\ Head(pending') = Head(pending)
  BY <1>1, <1>3, <1>4, <1>5, <1>6
<1>8. /\ answer' \in [Prompts -> {"unsent", "waiting", "answered"}]
      /\ \A x \in Prompts : answer'[x] = IF pending[k].id = x /\ pending[k].kind = "user"
                                         THEN "answered" ELSE answer[x]
  BY <1>2, <1>5, Responds, OneRow DEF IInv
<1>9. Types'
  BY <1>1, <1>5, <1>8 DEF IInv, Types, inputs, ghosts
<1>10. \A e \in Elements(pending) \ Elements(pending') : e = pending[k]
  BY <1>5
<1>11. \A e \in Elements(pending) \ Elements(pending') : e.kind # "fallback"
  BY <1>2, <1>10
<1>12. \A x \in Prompts : answer'[x] =
         IF \E e \in Elements(pending) \ Elements(pending') : e.id = x /\ e.kind = "user"
         THEN "answered" ELSE answer[x]
  BY <1>5, <1>8
<1>13. Elements(pending') \subseteq Elements(pending)
  BY <1>5
<1> QED  BY <1>1, <1>4, <1>5, <1>7, <1>9, <1>11, <1>12, <1>13, TrimKeeps

\* The rows change places behind those that may not move.
LEMMA ReorderKeeps ==
    ASSUME IInv, NEW p \in Prompts, handle_reorder_queue(p)
    PROVE  IInv'
<1> DEFINE rows == {i \in Elements(pending) : i.kind = "user" /\ i.id # running_task}
           named == {i \in rows : i.id = p}
           a == Only(pending, Elements(pending) \ rows)
           b == Only(pending, named)
           c == Only(pending, rows \ named)
<1>1. /\ TakesCommand /\ pending' = a \o b \o c
      /\ UNCHANGED <<running_task, current_prompt_id, front_message_committed, rewindable, suppressed,
                     notifications, interjections, goal, completions, turn, actor, mcp, answer, inputs, ghosts>>
  BY DEF handle_reorder_queue
<1>2. /\ actor.at = "select" /\ pending \in Seq(Items) /\ Distinct(pending)
      /\ pending # <<>> => /\ running_task # None /\ Head(pending).id = running_task
                           /\ Head(pending) \in Elements(pending)
  BY <1>1, AtCommand
<1>3. rows \subseteq Elements(pending) /\ named \subseteq rows
  OBVIOUS
<1>4. pending # <<>> => Head(pending) \in Elements(pending) \ rows
  BY <1>2
<1> HIDE DEF rows, named
<1>5. /\ a \in Seq(Items) /\ Elements(a) = Elements(pending) \ rows /\ Distinct(a)
      /\ pending # <<>> => a # <<>> /\ Head(a) = Head(pending)
  BY <1>2, <1>4, OnlyRows
<1>6. b \in Seq(Items) /\ Elements(b) = named /\ Distinct(b)
  BY <1>2, <1>3, OnlyRows
<1>7. c \in Seq(Items) /\ Elements(c) = rows \ named /\ Distinct(c)
  BY <1>2, <1>3, OnlyRows
<1> HIDE DEF a, b, c
<1>8. \A e, h \in Elements(pending) : e.id = h.id => e = h
  BY <1>2 DEF Distinct, Elements
<1>9. IdsIn(a) \cap IdsIn(b) = {} /\ IdsIn(a) \cap IdsIn(c) = {} /\ IdsIn(b) \cap IdsIn(c) = {}
  BY <1>3, <1>5, <1>6, <1>7, <1>8 DEF IdsIn
<1>10. /\ a \o b \in Seq(Items) /\ Elements(a \o b) = Elements(a) \cup Elements(b) /\ Distinct(a \o b)
       /\ a # <<>> => a \o b # <<>> /\ Head(a \o b) = Head(a)
  BY <1>5, <1>6, <1>9, ConcatRows
<1>11. IdsIn(a \o b) \cap IdsIn(c) = {}
  BY <1>9, <1>10 DEF IdsIn
<1>12. /\ pending' \in Seq(Items) /\ Elements(pending') = Elements(a \o b) \cup Elements(c) /\ Distinct(pending')
       /\ a \o b # <<>> => pending' # <<>> /\ Head(pending') = Head(a \o b)
  BY <1>1, <1>7, <1>10, <1>11, ConcatRows
<1>13. Elements(pending') = Elements(pending)
  BY <1>3, <1>5, <1>6, <1>7, <1>10, <1>12
<1>14. running_task # None => pending' # <<>> /\ Head(pending') = Head(pending)
  <2>1. running_task # None => pending # <<>>
    BY RunningRow DEF IInv
  <2> QED  BY <1>5, <1>10, <1>12, <2>1
<1>15. Types'
  BY <1>1, <1>12 DEF IInv, Types, inputs, ghosts
<1> QED  BY <1>1, <1>2, <1>12, <1>13, <1>14, <1>15, TrimKeeps

\* A client's rows are cleared.
LEMMA ClearKeeps ==
    ASSUME IInv, NEW owned \in SUBSET Prompts, handle_clear_queue(owned)
    PROVE  IInv'
<1> DEFINE gone == {i \in Elements(pending) : i.kind = "user" /\ i.id # running_task /\ i.id \in owned}
           keep == Elements(pending) \ gone
<1>1. /\ TakesCommand /\ pending' = Only(pending, keep) /\ Respond(Only(pending, gone))
      /\ UNCHANGED <<running_task, current_prompt_id, front_message_committed, rewindable, suppressed,
                     notifications, interjections, goal, completions, turn, actor, mcp, inputs, ghosts>>
  BY DEF handle_clear_queue
<1>2. /\ actor.at = "select" /\ pending \in Seq(Items) /\ Distinct(pending)
      /\ pending # <<>> => /\ running_task # None /\ Head(pending).id = running_task
                           /\ Head(pending) \in Elements(pending)
  BY <1>1, AtCommand
<1>3. gone \subseteq Elements(pending) /\ \A e \in gone : e.kind = "user" /\ e.id # running_task
  OBVIOUS
<1> HIDE DEF gone
<1>4. /\ pending' \in Seq(Items) /\ Elements(pending') = Elements(pending) \ gone /\ Distinct(pending')
      /\ pending # <<>> => pending' # <<>> /\ Head(pending') = Head(pending)
  <2>1. pending # <<>> => Head(pending) \in keep
    BY <1>2, <1>3
  <2> HIDE DEF keep
  <2>2. /\ pending' \in Seq(Items) /\ Elements(pending') = Elements(pending) \cap keep /\ Distinct(pending')
        /\ pending # <<>> => pending' # <<>> /\ Head(pending') = Head(pending)
    BY <1>1, <1>2, <2>1, OnlyRows
  <2> QED  BY <2>2 DEF keep
<1> HIDE DEF keep
<1>5. Elements(Only(pending, gone)) = gone
  <2>1. Elements(Only(pending, gone)) = Elements(pending) \cap gone
    BY <1>2, OnlyRows
  <2> QED  BY <1>3, <2>1
<1>6. /\ answer' \in [Prompts -> {"unsent", "waiting", "answered"}]
      /\ \A x \in Prompts : answer'[x] = IF \E e \in gone : e.id = x /\ e.kind = "user"
                                         THEN "answered" ELSE answer[x]
  BY <1>1, <1>5, Responds DEF IInv
<1>7. Types'
  BY <1>1, <1>4, <1>6 DEF IInv, Types, inputs, ghosts
<1>8. Elements(pending) \ Elements(pending') = gone /\ Elements(pending') \subseteq Elements(pending)
  BY <1>3, <1>4
<1>9. running_task # None => pending' # <<>> /\ Head(pending') = Head(pending)
  BY <1>4, RunningRow DEF IInv
<1>10. \A e \in Elements(pending) \ Elements(pending') : e.kind # "fallback"
  BY <1>3, <1>8
<1>11. \A x \in Prompts : answer'[x] =
         IF \E e \in Elements(pending) \ Elements(pending') : e.id = x /\ e.kind = "user"
         THEN "answered" ELSE answer[x]
  BY <1>6, <1>8
<1> QED  BY <1>1, <1>2, <1>4, <1>7, <1>8, <1>9, <1>10, <1>11, TrimKeeps

\* What a sweep leaves: the running front, and what is not swept.
LEMMA SweepRows ==
    ASSUME IInv, NEW drop \in SUBSET Elements(pending)
    PROVE  LET q == Sweep(pending, drop) IN
           /\ q \in Seq(Items) /\ Distinct(q)
           /\ Elements(q) = {i \in Elements(pending) : i.id = running_task \/ i \notin drop}
           /\ running_task # None => q # <<>> /\ Head(q) = Head(pending)
<1> DEFINE S == {i \in Elements(pending) : i.id = running_task \/ i \notin drop}
<1>1. Sweep(pending, drop) = Only(pending, S)
  BY Zenon DEF Sweep
<1>2. S \subseteq Elements(pending)
  OBVIOUS
<1>3. running_task # None => pending # <<>> /\ Head(pending) \in S
  BY RunningRow DEF IInv
<1>4. pending \in Seq(Items) /\ Distinct(pending)
  BY DEF IInv, Types, Places
<1> HIDE DEF S
<1>5. /\ Only(pending, S) \in Seq(Items) /\ Distinct(Only(pending, S)) /\ Elements(Only(pending, S)) = S
      /\ running_task # None => Only(pending, S) # <<>> /\ Head(Only(pending, S)) = Head(pending)
  BY <1>2, <1>3, <1>4, OnlyRows
<1> QED  BY <1>1, <1>5 DEF S

\* A task's or a subagent's wake is swept once a tool result has reported the task.
LEMMA ConsumeKeeps ==
    ASSUME IInv, NEW t \in Ids, NEW w \in Wakes \cup Children, Consume(t, w)
    PROVE  IInv'
<1> DEFINE drop == {i \in Elements(pending) : i.id = w}
<1>1. /\ turn[t].phase = "live" /\ pending' = Sweep(pending, drop) /\ notifications' = notifications \ {w}
      /\ UNCHANGED <<running_task, current_prompt_id, front_message_committed, rewindable, suppressed,
                     interjections, goal, completions, turn, actor, mcp, answer, inputs, ghosts>>
  BY DEF Consume
<1>2. drop \subseteq Elements(pending) /\ \A e \in drop : e.id = w
  OBVIOUS
<1> HIDE DEF drop
<1>3. /\ pending' \in Seq(Items) /\ Distinct(pending')
      /\ Elements(pending') = {i \in Elements(pending) : i.id = running_task \/ i \notin drop}
      /\ running_task # None => pending' # <<>> /\ Head(pending') = Head(pending)
  BY <1>1, <1>2, SweepRows
<1>4. actor.at \notin {"start", "promote"} \/ running_task # None
  <2>1. t = running_task \/ Stopped(t)
    BY <1>1 DEF IInv, Turning, Alive
  <2> QED  BY <2>1, NoneIsNoId DEF Stopped
<1>5. \A e \in Elements(pending) \ Elements(pending') : e.kind # "fallback" /\ e.kind # "user"
  <2>1. SUFFICES ASSUME NEW e \in Elements(pending), e.id = w PROVE e.kind # "fallback" /\ e.kind # "user"
    BY <1>2, <1>3
  <2>2. KindOk(e)
    BY DEF IInv, Places
  <2> QED  BY <2>1, <2>2, PromptAssumption DEF KindOk
<1>6. Types'
  BY <1>1, <1>3 DEF IInv, Types, inputs, ghosts
<1>7. Elements(pending') \subseteq Elements(pending)
  BY <1>3
<1>8. \A x \in Prompts : answer'[x] =
         IF \E e \in Elements(pending) \ Elements(pending') : e.id = x /\ e.kind = "user"
         THEN "answered" ELSE answer[x]
  BY <1>1, <1>5
<1> QED  BY <1>1, <1>3, <1>4, <1>5, <1>6, <1>7, <1>8, TrimKeeps

-----------------------------------------------------------------------------
(* New work.                                                               *)

\* One more interjection in the buffer.
LEMMA AppendText ==
    ASSUME NEW s \in Seq(Ids), NEW i \in Ids, i \notin Elements(s),
           \A j, k \in 1..Len(s) : s[j] = s[k] => j = k
    PROVE  LET r == Append(s, i) IN
           /\ r \in Seq(Ids) /\ Elements(r) = Elements(s) \cup {i}
           /\ \A j, k \in 1..Len(r) : r[j] = r[k] => j = k
<1> DEFINE r == Append(s, i)
           n == Len(s)
<1>1. r \in Seq(Ids) /\ n \in Nat /\ Len(r) = n + 1 /\ r[n + 1] = i /\ \A k \in 1..n : r[k] = s[k]
  OBVIOUS
<1> HIDE DEF r
<1>2. \A k \in 1..Len(r) : k = n + 1 \/ k \in 1..n
  BY <1>1
<1>3. \A k \in 1..n : k \in 1..Len(r) /\ s[k] # i
  BY <1>1 DEF Elements
<1>4. n + 1 \in 1..Len(r)
  BY <1>1
<1>5. Elements(r) = Elements(s) \cup {i}
  <2>1. \A e \in Elements(r) : e \in Elements(s) \cup {i}
    BY <1>1, <1>2 DEF Elements
  <2>2. \A k \in 1..n : s[k] \in Elements(r)
    BY <1>1, <1>3 DEF Elements
  <2>3. i \in Elements(r)
    BY <1>1, <1>4 DEF Elements
  <2>4. \A e \in Elements(s) : e \in Elements(r)
    BY <2>2 DEF Elements
  <2> QED  BY <2>1, <2>3, <2>4
<1>6. \A j, k \in 1..Len(r) : r[j] = r[k] => j = k
  BY <1>1, <1>2, <1>3
<1> QED  BY <1>1, <1>5, <1>6 DEF r

\* A row of its own for a message that was not sent before.
LEMMA ItemRow ==
    ASSUME NEW i \in Ids, NEW k \in {"user", "fallback", "wake", "child", "drain"}
    PROVE  /\ Item(i, k) \in Items /\ Item(i, k).id = i /\ Item(i, k).kind = k /\ Item(i, k).msgs = {i}
BY DEF Item, Items

\* A send-now cancels the running turn only when its message is committed.
LEMMA SendNowCommitted ==
    ASSUME IInv, send_now_cancels_running_turn
    PROVE  running_task # None /\ front_message_committed
BY DEF IInv, Fronts, send_now_cancels_running_turn, front_awaiting_commit

\* A prompt joins the queue, and queued wakes give way to it.
LEMMA PromptKeeps ==
    ASSUME IInv, NEW p \in Prompts, NEW now \in BOOLEAN, Prompt(p, now)
    PROVE  IInv'
<1> USE DEF IInv
<1> DEFINE armed == \E k \in 1..Len(pending) : Announces(pending[k]) /\ pending[k].id # running_task
           drop == {i \in Elements(pending) : Synthetic(i)}
           q == IF armed THEN Sweep(pending, drop) ELSE pending
           merges == now /\ running_task # None /\ goal /\ p \notin Bash
           cancels_turn == now /\ send_now_cancels_running_turn
<1>1. /\ TakesCommand /\ answer[p] = "unsent" /\ suppressed' = FALSE
      /\ actor' = IF cancels_turn THEN At("send_now") ELSE Starting("select")
      /\ UNCHANGED <<running_task, current_prompt_id, front_message_committed, rewindable, notifications, goal,
                     completions, turn, mcp, raised, cancels, ghosts>>
  BY DEF Prompt, TakesInput
<1>2. merges => MergeIntoGoal(Item(p, "user")) /\ pending' = q
  BY DEF Prompt
<1>3. ~merges => /\ answer' = [answer EXCEPT ![p] = "waiting"]
                 /\ pending' = IF now THEN InsertNow(q, Item(p, "user")) ELSE Append(q, Item(p, "user"))
                 /\ UNCHANGED <<interjections, said>>
  BY DEF Prompt
<1>4. /\ actor.at = "select" /\ actor.held = <<>> /\ Elements(actor.held) = {}
      /\ pending \in Seq(Items) /\ Distinct(pending)
      /\ pending # <<>> => running_task # None /\ Head(pending).id = running_task
  BY <1>1, AtCommand
<1>5. /\ q \in Seq(Items) /\ Distinct(q) /\ Elements(q) \subseteq Elements(pending)
      /\ running_task # None => q # <<>> /\ Head(q) = Head(pending)
      /\ \A e \in Elements(pending) : e \in Elements(q) \/ Synthetic(e)
  <2>1. CASE armed
    <3>1. drop \subseteq Elements(pending) /\ \A e \in drop : Synthetic(e)
      OBVIOUS
    <3>2. q = Sweep(pending, drop)
      BY <2>1
    <3> HIDE DEF drop, q
    <3> QED  BY <3>1, <3>2, SweepRows
  <2>2. CASE ~armed
    <3>1. q = pending
      BY <2>2
    <3> HIDE DEF q
    <3> QED  BY <1>4, <3>1, RunningRow
  <2> QED  BY <2>1, <2>2
<1> HIDE DEF q
<1>6. /\ actor' \in Actors /\ actor'.held = <<>>
      /\ actor'.at = "start" \/ (actor'.at = "send_now" /\ running_task # None /\ front_message_committed)
  BY <1>1, Resting, SendNowCommitted
<1>7. /\ p \in Ids /\ p \notin IdsIn(pending) /\ p \notin Elements(interjections) /\ p \notin said /\ ~Known(p)
  <2>1. ~Known(p)
    BY <1>1 DEF Known
  <2> QED  BY <1>1, <2>1 DEF Places, Answers, Ids
<1>8. /\ Item(p, "user") \in Items /\ Item(p, "user").id = p
      /\ Item(p, "user").kind = "user" /\ Item(p, "user").msgs = {p}
  BY <1>7, ItemRow
<1>9. IdsIn(q) \subseteq IdsIn(pending) /\ p \notin IdsIn(q)
  BY <1>5, <1>7 DEF IdsIn
<1>10. \A e \in Elements(q) : e.kind = "drain" => e = Head(q) /\ running_task # None
  <2>1. Elements(q) # {} => pending # <<>>
    BY <1>4, <1>5, ElementsOf
  <2> QED  BY <1>4, <1>5, <2>1 DEF Reports
<1>11. \A e \in Elements(q) : KindOk(e)
  BY <1>5 DEF Places
<1>12. \A m \in said : m \in IdsIn(pending) => m \in IdsIn(q)
  <2>1. SUFFICES ASSUME NEW e \in Elements(pending), e.id \in said
                 PROVE  e \in Elements(q)
    BY DEF IdsIn
  <2>2. ~Synthetic(e)
    BY <2>1, PromptAssumption DEF Places, KindOk, Types, Synthetic
  <2> QED  BY <1>5, <2>2
<1>13. \A e \in Elements(pending) : e.kind = "user" => e \in Elements(q)
  BY <1>5 DEF Synthetic
<1>14. Barrier'
  BY <1>1 DEF Barrier
<1> HIDE DEF merges, cancels_turn
<1>15. CASE merges
  <2>1. /\ pending' = q /\ interjections' = Append(interjections, p) /\ said' = said \cup {p}
        /\ Respond(<<Item(p, "user")>>)
    BY <1>2, <1>8, <1>15 DEF MergeIntoGoal
  <2>2. /\ interjections' \in Seq(Ids) /\ Elements(interjections') = Elements(interjections) \cup {p}
        /\ \A j, k \in 1..Len(interjections') : interjections'[j] = interjections'[k] => j = k
    <3>1. interjections \in Seq(Ids) /\ \A j, k \in 1..Len(interjections) : interjections[j] = interjections[k] => j = k
      BY DEF Types, Places
    <3> QED  BY <1>7, <2>1, <3>1, AppendText
  <2>3. /\ answer' \in [Prompts -> {"unsent", "waiting", "answered"}]
        /\ \A x \in Prompts : answer'[x] = IF x = p THEN "answered" ELSE answer[x]
    BY <1>8, <2>1, Responds, OneRow
  <2>4. Types'
    BY <1>1, <1>5, <1>6, <2>1, <2>2, <2>3 DEF Types, ghosts
  <2>5. Fronts'
    <3>1. running_task # None => q # <<>> /\ Head(q).id = running_task
      BY <1>5, RunningRow
    <3> QED  BY <1>1, <1>6, <2>1, <3>1 DEF Fronts, FrontIsTheRunningTurn
  <2>6. Reports'
    BY <1>1, <1>10, <2>1 DEF Reports
  <2>7. \A i \in Ids : (Known(i) => Known(i)') /\ Known(p)'
    BY <1>1, <2>1, <2>3, PromptAssumption DEF Known
  <2>8. Places'
    <3>1. \A i \in IdsIn(pending') \cup Elements(interjections') : Known(i)'
      BY <1>7, <1>9, <2>1, <2>2, <2>7, QueuedIds DEF Places
    <3>2. IdsIn(pending') \cap Elements(interjections') = {}
      BY <1>9, <2>1, <2>2 DEF Places
    <3>3. Elements(interjections') \subseteq Prompts \cup Texts
      BY <2>2 DEF Places
    <3> QED  BY <1>5, <1>11, <2>1, <2>2, <3>1, <3>2, <3>3 DEF Places, KindOk
  <2>9. Answers'
    <3>1. \A x \in Prompts : answer'[x] = "waiting" <=>
            \E e \in Elements(pending') \cup Elements(actor'.held) : e.id = x /\ e.kind = "user"
      <4>1. \A e \in Elements(q) : e.id # p
        BY <1>9 DEF IdsIn
      <4> QED  BY <1>1, <1>4, <1>5, <1>6, <1>13, <2>1, <2>3, <4>1 DEF Answers
    <3>2. \A x \in said' \cap Prompts : answer'[x] = "answered"
      BY <2>1, <2>3 DEF Answers
    <3>3. Distinct(actor'.held) /\ IdsIn(actor'.held) = {} /\ Elements(actor'.held) = {}
      BY <1>6 DEF Distinct, IdsIn, Elements
    <3> QED  BY <1>6, <3>1, <3>2, <3>3 DEF Answers
  <2>10. Kept'
    BY <1>1, <1>4, <1>12, <2>1, <2>2 DEF Kept, ghosts
  <2>11. running_task # None => Head(pending') = Head(pending)
    BY <1>5, <2>1
  <2>12. \A i \in IdsIn(pending') : i \in IdsIn(pending) \cup Elements(interjections)
    BY <1>9, <2>1
  <2>13. \A i \in Elements(interjections') : i \in Elements(interjections) \/ ~Known(i)
    BY <1>7, <2>2
  <2> QED  BY <1>1, <1>4, <1>6, <1>14, <2>4, <2>5, <2>6, <2>7, <2>8, <2>9, <2>10, <2>11, <2>12, <2>13, EditKeeps
<1>16. CASE ~merges
  <2>1. /\ answer' = [answer EXCEPT ![p] = "waiting"] /\ UNCHANGED <<interjections, said>>
    BY <1>3, <1>16
  <2>2. PICK x \in Items :
          /\ x.id = p /\ x.kind = "user" /\ x.msgs = {p}
          /\ pending' \in Seq(Items) /\ pending' # <<>> /\ Distinct(pending')
          /\ Elements(pending') = Elements(q) \cup {x}
          /\ running_task # None => Head(pending') = Head(q)
    <3>1. running_task # None => q # <<>> /\ Head(q).id = running_task
      BY <1>5, RunningRow
    <3>2. CASE now
      <4>1. pending' = InsertNow(q, Item(p, "user"))
        BY <1>3, <1>16, <3>2
      <4>2. /\ pending' \in Seq(Items) /\ pending' # <<>>
            /\ SentNow(Item(p, "user")) \in Items /\ SentNow(Item(p, "user")).id = p
            /\ SentNow(Item(p, "user")).kind = "user" /\ SentNow(Item(p, "user")).msgs = {p}
            /\ Elements(pending') = Elements(q) \cup {SentNow(Item(p, "user"))}
            /\ Distinct(pending')
            /\ q # <<>> /\ Head(q).id = running_task => Head(pending') = Head(q)
        BY <1>5, <1>8, <1>9, <4>1, InsertNowRow
      <4> QED  BY <3>1, <4>2
    <3>3. CASE ~now
      <4>1. pending' = Append(q, Item(p, "user"))
        BY <1>3, <1>16, <3>3
      <4>2. /\ pending' \in Seq(Items) /\ pending' # <<>>
            /\ Elements(pending') = Elements(q) \cup {Item(p, "user")}
            /\ Distinct(pending')
            /\ q # <<>> => Head(pending') = Head(q)
        BY <1>5, <1>8, <1>9, <4>1, AppendRow
      <4> QED  BY <1>8, <3>1, <4>2
    <3> QED  BY <3>2, <3>3
  <2>3. IdsIn(pending') = IdsIn(q) \cup {p}
    BY <2>2 DEF IdsIn
  <2>4. /\ answer' \in [Prompts -> {"unsent", "waiting", "answered"}]
        /\ \A y \in Prompts : answer'[y] = IF y = p THEN "waiting" ELSE answer[y]
    BY <2>1 DEF Types
  <2>5. Types'
    BY <1>1, <1>6, <2>1, <2>2, <2>4 DEF Types, ghosts
  <2>6. Fronts'
    <3>1. running_task # None => pending' # <<>> /\ Head(pending').id = running_task
      BY <1>5, <2>2, RunningRow
    <3> QED  BY <1>1, <1>6, <3>1 DEF Fronts, FrontIsTheRunningTurn
  <2>7. Reports'
    BY <1>1, <1>10, <2>2 DEF Reports
  <2>8. \A i \in Ids : (Known(i) => Known(i)') /\ Known(p)'
    BY <1>1, <2>1, <2>4, PromptAssumption DEF Known
  <2>9. Places'
    <3>1. \A i \in IdsIn(pending') \cup Elements(interjections') : Known(i)'
      BY <1>7, <1>9, <2>1, <2>3, <2>8, QueuedIds DEF Places
    <3>2. IdsIn(pending') \cap Elements(interjections') = {}
      BY <1>7, <1>9, <2>1, <2>3 DEF Places
    <3>3. \A e \in Elements(pending') : KindOk(e)'
      BY <1>11, <2>2 DEF KindOk
    <3> QED  BY <2>1, <2>2, <3>1, <3>2, <3>3 DEF Places
  <2>10. Answers'
    <3>1. \A y \in Prompts : answer'[y] = "waiting" <=>
            \E e \in Elements(pending') \cup Elements(actor'.held) : e.id = y /\ e.kind = "user"
      <4>1. \A e \in Elements(q) : e.id # p
        BY <1>9 DEF IdsIn
      <4> QED  BY <1>1, <1>4, <1>5, <1>6, <1>13, <2>2, <2>4, <4>1 DEF Answers
    <3>2. \A y \in said' \cap Prompts : answer'[y] = "answered"
      BY <1>7, <2>1, <2>4 DEF Answers
    <3>3. Distinct(actor'.held) /\ IdsIn(actor'.held) = {} /\ Elements(actor'.held) = {}
      BY <1>6 DEF Distinct, IdsIn, Elements
    <3> QED  BY <1>6, <3>1, <3>2, <3>3 DEF Answers
  <2>11. Kept'
    BY <1>1, <1>4, <1>12, <2>1, <2>3 DEF Kept, ghosts
  <2>12. running_task # None => Head(pending') = Head(pending)
    BY <1>5, <2>2
  <2>13. \A i \in IdsIn(pending') : i \in IdsIn(pending) \cup Elements(interjections) \/ ~Known(i)
    BY <1>7, <1>9, <2>3
  <2>14. \A i \in Elements(interjections') : i \in Elements(interjections)
    BY <2>1
  <2> QED  BY <1>1, <1>4, <1>6, <1>14, <2>5, <2>6, <2>7, <2>8, <2>9, <2>10, <2>11, <2>12, <2>13, <2>14, EditKeeps
<1> QED  BY <1>15, <1>16

\* A queued row is sent now: it moves ahead, or into the goal's turn.
LEMMA InterjectQueuedKeeps ==
    ASSUME IInv, NEW p \in Prompts, handle_interject_queued_prompt(p)
    PROVE  IInv'
<1> USE DEF IInv
<1> DEFINE merges == running_task # None /\ goal /\ p \notin Bash
<1>1. /\ TakesCommand /\ p # running_task
      /\ UNCHANGED <<running_task, current_prompt_id, front_message_committed, rewindable, suppressed,
                     notifications, goal, completions, turn, mcp, raised, cancels, ghosts>>
  BY DEF handle_interject_queued_prompt
<1>2. PICK k \in Queued(p) :
        /\ pending[k].kind = "user"
        /\ merges => MergeIntoGoal(pending[k]) /\ pending' = Without(pending, k) /\ actor' = Starting("select")
        /\ ~merges => /\ pending' = InsertNow(Without(pending, k), pending[k])
                      /\ actor' = IF send_now_cancels_running_turn THEN At("send_now") ELSE Starting("select")
                      /\ UNCHANGED <<interjections, said, answer>>
  BY DEF handle_interject_queued_prompt
<1> DEFINE row == pending[k]
           w == Without(pending, k)
<1>3. k \in 1..Len(pending) /\ row.id = p /\ row.kind = "user"
  BY <1>2 DEF Queued
<1>4. /\ actor.at = "select" /\ actor.held = <<>> /\ Elements(actor.held) = {}
      /\ pending \in Seq(Items) /\ Distinct(pending)
      /\ pending # <<>> => running_task # None /\ Head(pending).id = running_task
  BY <1>1, AtCommand
<1>5. pending # <<>> /\ running_task # None /\ Head(pending).id = running_task /\ row # Head(pending)
  BY <1>1, <1>3, <1>4
<1>6. /\ w \in Seq(Items) /\ Distinct(w) /\ Elements(w) = Elements(pending) \ {row}
      /\ row \in Items /\ row \in Elements(pending) /\ row.id \notin IdsIn(w)
      /\ w # <<>> /\ Head(w) = Head(pending)
  BY <1>3, <1>4, <1>5, WithoutRow
<1>7. p \in Ids /\ p \in IdsIn(pending) /\ KindOk(row) /\ p \notin Elements(interjections)
  <2>1. p \in IdsIn(pending)
    BY <1>3, <1>6 DEF IdsIn
  <2> QED  BY <1>6, <2>1 DEF Places, Ids
<1> HIDE DEF w
<1>8. /\ actor' \in Actors /\ actor'.held = <<>>
      /\ actor'.at = "start" \/ (actor'.at = "send_now" /\ running_task # None /\ front_message_committed)
  BY <1>2, Resting, SendNowCommitted
<1>9. IdsIn(w) \subseteq IdsIn(pending) /\ IdsIn(pending) = IdsIn(w) \cup {p} /\ p \notin IdsIn(w)
  BY <1>3, <1>6 DEF IdsIn
<1>10. Distinct(actor'.held) /\ IdsIn(actor'.held) = {} /\ Elements(actor'.held) = {}
  BY <1>8 DEF Distinct, IdsIn, Elements
<1> HIDE DEF merges
<1>11. CASE merges
  <2>1. /\ pending' = w /\ interjections' = Append(interjections, p) /\ said' = said \cup {p}
        /\ Respond(<<row>>)
    BY <1>2, <1>3, <1>11 DEF MergeIntoGoal, w
  <2>2. /\ interjections' \in Seq(Ids) /\ Elements(interjections') = Elements(interjections) \cup {p}
        /\ \A i, j \in 1..Len(interjections') : interjections'[i] = interjections'[j] => i = j
    <3>1. interjections \in Seq(Ids) /\ \A i, j \in 1..Len(interjections) : interjections[i] = interjections[j] => i = j
      BY DEF Types, Places
    <3> QED  BY <1>7, <2>1, <3>1, AppendText
  <2>3. /\ answer' \in [Prompts -> {"unsent", "waiting", "answered"}]
        /\ \A x \in Prompts : answer'[x] = IF x = p THEN "answered" ELSE answer[x]
    <3>1. /\ answer' \in [Prompts -> {"unsent", "waiting", "answered"}]
          /\ \A x \in Prompts : answer'[x] = IF row.id = x /\ row.kind = "user" THEN "answered" ELSE answer[x]
      BY <1>6, <2>1, Responds, OneRow
    <3> QED  BY <1>3, <3>1
  <2>4. Types'
    BY <1>1, <1>6, <1>8, <2>1, <2>2, <2>3 DEF Types, ghosts
  <2>5. Fronts'
    BY <1>1, <1>5, <1>6, <1>8, <2>1 DEF Fronts, FrontIsTheRunningTurn
  <2>6. Reports'
    BY <1>1, <1>5, <1>6, <2>1 DEF Reports
  <2>7. Barrier'
    BY <1>1, <1>4, <1>6, <2>1 DEF Barrier, Barred
  <2>8. \A i \in Ids : Known(i) => Known(i)'
    BY <1>1, <2>1, <2>3 DEF Known
  <2>9. Places'
    <3>1. \A i \in IdsIn(pending') \cup Elements(interjections') : Known(i)'
      BY <1>7, <1>9, <2>1, <2>2, <2>8, QueuedIds DEF Places
    <3>2. IdsIn(pending') \cap Elements(interjections') = {}
      BY <1>9, <2>1, <2>2 DEF Places
    <3>3. Elements(interjections') \subseteq Prompts \cup Texts
      BY <2>2 DEF Places
    <3> QED  BY <1>6, <2>1, <2>2, <3>1, <3>2, <3>3 DEF Places, KindOk
  <2>10. Answers'
    <3>1. \A e \in Elements(w) : e.id # p
      BY <1>9 DEF IdsIn
    <3>2. \A x \in Prompts : answer'[x] = "waiting" <=>
            \E e \in Elements(pending') \cup Elements(actor'.held) : e.id = x /\ e.kind = "user"
      <4>1. SUFFICES ASSUME NEW x \in Prompts
                     PROVE  answer'[x] = "waiting" <=> \E e \in Elements(w) : e.id = x /\ e.kind = "user"
        BY <1>10, <2>1
      <4>2. answer[x] = "waiting" <=> \E e \in Elements(pending) : e.id = x /\ e.kind = "user"
        BY <1>4 DEF Answers
      <4>3. x # p => \A e \in Elements(pending) : e.id = x => e \in Elements(w)
        BY <1>3, <1>6
      <4>4. Elements(w) \subseteq Elements(pending)
        BY <1>6
      <4> QED  BY <2>3, <3>1, <4>2, <4>3, <4>4
    <3>3. \A x \in said' \cap Prompts : answer'[x] = "answered"
      BY <2>1, <2>3 DEF Answers
    <3> QED  BY <1>8, <1>10, <3>2, <3>3 DEF Answers
  <2>11. Kept'
    BY <1>1, <1>4, <1>9, <2>1, <2>2 DEF Kept, ghosts
  <2>12. Head(pending') = Head(pending) /\ \A i \in IdsIn(pending') : i \in IdsIn(pending) \cup Elements(interjections)
    BY <1>6, <1>9, <2>1
  <2>13. \A i \in Elements(interjections') : \/ i \in Elements(interjections)
                                             \/ i \in IdsIn(pending) /\ i # running_task
    BY <1>1, <1>7, <2>2
  <2> QED  BY <1>1, <1>4, <1>8, <2>4, <2>5, <2>6, <2>7, <2>8, <2>9, <2>10, <2>11, <2>12, <2>13, EditKeeps
<1>12. CASE ~merges
  <2>1. pending' = InsertNow(w, row) /\ UNCHANGED <<interjections, said, answer>>
    BY <1>2, <1>12 DEF w
  <2>2. PICK x \in Items :
          /\ x.id = p /\ x.kind = "user" /\ x.msgs = row.msgs
          /\ pending' \in Seq(Items) /\ pending' # <<>> /\ Distinct(pending')
          /\ Elements(pending') = Elements(w) \cup {x}
          /\ Head(pending') = Head(w)
    <3>1. /\ pending' \in Seq(Items) /\ pending' # <<>>
          /\ SentNow(row) \in Items /\ SentNow(row).id = row.id
          /\ SentNow(row).kind = row.kind /\ SentNow(row).msgs = row.msgs
          /\ Elements(pending') = Elements(w) \cup {SentNow(row)}
          /\ Distinct(pending')
          /\ w # <<>> /\ Head(w).id = running_task => Head(pending') = Head(w)
      BY <1>6, <2>1, InsertNowRow
    <3> QED  BY <1>3, <1>5, <1>6, <3>1
  <2>3. IdsIn(pending') = IdsIn(pending)
    <3>1. IdsIn(pending') = IdsIn(w) \cup {p}
      BY <2>2 DEF IdsIn
    <3> QED  BY <1>9, <3>1
  <2>4. Types'
    BY <1>1, <1>8, <2>1, <2>2 DEF Types, ghosts
  <2>5. Fronts'
    BY <1>1, <1>5, <1>6, <1>8, <2>2 DEF Fronts, FrontIsTheRunningTurn
  <2>6. Reports'
    BY <1>1, <1>5, <1>6, <2>2 DEF Reports
  <2>7. Barrier'
    BY <1>1, <1>4, <1>6, <2>2 DEF Barrier, Barred
  <2>8. \A i \in Ids : Known(i) <=> Known(i)'
    BY <1>1, <2>1 DEF Known
  <2>9. Places'
    <3>1. \A i \in IdsIn(pending') \cup Elements(interjections') : Known(i)'
      BY <2>1, <2>3, <2>8, QueuedIds DEF Places
    <3>2. KindOk(x)
      BY <1>3, <1>7, <2>2 DEF KindOk
    <3>3. \A e \in Elements(pending') : KindOk(e)'
      BY <1>6, <2>2, <3>2 DEF Places, KindOk
    <3> QED  BY <2>1, <2>2, <2>3, <3>1, <3>3 DEF Places
  <2>10. Answers'
    <3>1. \A y \in Prompts : answer'[y] = "waiting" <=>
            \E e \in Elements(pending') \cup Elements(actor'.held) : e.id = y /\ e.kind = "user"
      BY <1>3, <1>4, <1>6, <1>10, <2>1, <2>2 DEF Answers
    <3> QED  BY <1>8, <1>10, <2>1, <3>1 DEF Answers
  <2>11. Kept'
    BY <1>1, <1>4, <2>1, <2>3 DEF Kept, ghosts
  <2>12. Head(pending') = Head(pending)
    BY <1>6, <2>2
  <2>13. /\ \A i \in IdsIn(pending') : i \in IdsIn(pending) \cup Elements(interjections)
         /\ \A i \in Elements(interjections') : i \in Elements(interjections)
    BY <2>1, <2>3
  <2> QED  BY <1>1, <1>4, <1>8, <2>4, <2>5, <2>6, <2>7, <2>8, <2>9, <2>10, <2>11, <2>12, <2>13, EditKeeps
<1> QED  BY <1>11, <1>12

\* Interjections become turns of their own, ahead of the queue but not of the
\* running front: those of the buffer, or one that comes with no turn pinned.
LEMMA FallbackKeeps ==
    ASSUME IInv, NEW texts \in Seq(Ids), pending' = InsertFallbacks(pending, texts),
           \A j, k \in 1..Len(texts) : texts[j] = texts[k] => j = k,
           IdsIn(pending) \cap Elements(texts) = {}, Elements(texts) \subseteq Prompts \cup Texts,
           interjections' \in Seq(Ids), interjections' = interjections \/ interjections' = <<>>,
           Elements(interjections) \ Elements(texts) = Elements(interjections'),
           Elements(texts) \cap Elements(interjections') = {},
           said \subseteq said', said' \subseteq said \cup (Elements(texts) \cap Texts),
           \A i \in Elements(texts) : i \in Elements(interjections) \/ (i \in Texts /\ i \notin said /\ i \in said'),
           actor' \in Actors, actor'.held = <<>>, actor.held = <<>>,
           actor.at \in {"select", "flush", "send_now"},
           actor'.at = "start" \/ (actor'.at = "cancel" /\ actor'.how = "send_now" /\ actor'.id = None
                                    /\ running_task # None /\ front_message_committed),
           UNCHANGED <<running_task, current_prompt_id, front_message_committed, rewindable, suppressed,
                       notifications, completions, turn, mcp, answer, raised, cancels, ghosts>>,
           goal' \in BOOLEAN
    PROVE  IInv'
<1> USE DEF IInv
<1>1. pending \in Seq(Items) /\ Distinct(pending)
  BY DEF Types, Places
<1>2. /\ pending' \in Seq(Items) /\ Distinct(pending')
      /\ Elements(pending') = Elements(pending) \cup {Fallback(m) : m \in Elements(texts)}
      /\ \A m \in Ids : /\ Fallback(m) \in Items /\ Fallback(m).id = m
                        /\ Fallback(m).kind = "fallback" /\ Fallback(m).msgs = {m}
      /\ pending # <<>> => pending' # <<>>
      /\ pending # <<>> /\ Head(pending).id = running_task => Head(pending') = Head(pending)
  <2>1. /\ InsertFallbacks(pending, texts) \in Seq(Items)
        /\ Distinct(pending) /\ IdsIn(pending) \cap Elements(texts) = {}
             /\ (\A j, k \in 1..Len(texts) : texts[j] = texts[k] => j = k)
             => Distinct(InsertFallbacks(pending, texts))
    BY <1>1, FallbackRows
  <2>2. /\ Elements(pending') = Elements(pending) \cup {Fallback(m) : m \in Elements(texts)}
        /\ \A m \in Ids : /\ Fallback(m) \in Items /\ Fallback(m).id = m
                          /\ Fallback(m).kind = "fallback" /\ Fallback(m).msgs = {m}
    BY <1>1, FallbackRows
  <2>3. /\ pending # <<>> => pending' # <<>>
        /\ pending # <<>> /\ Head(pending).id = running_task => Head(pending') = Head(pending)
    BY <1>1, FallbackRows
  <2> QED  BY <1>1, <2>1, <2>2, <2>3
<1>3. Elements(texts) \subseteq Ids
  BY ElementsOf
<1>4. \A e \in Elements(pending') : \/ e \in Elements(pending)
                                    \/ /\ e.id \in Elements(texts) /\ e.kind = "fallback" /\ e.msgs = {e.id}
  BY <1>2, <1>3
<1>5. Elements(pending) \subseteq Elements(pending') /\ \A m \in Elements(texts) : m \in IdsIn(pending')
  BY <1>2, <1>3 DEF IdsIn
<1>6. IdsIn(pending') = IdsIn(pending) \cup Elements(texts)
  BY <1>4, <1>5 DEF IdsIn
<1>7. running_task # None => /\ pending' # <<>> /\ Head(pending') = Head(pending)
                             /\ Head(pending).id = running_task
  BY <1>2, RunningRow
<1>8. Types'
  <2>1. said' \subseteq Prompts \cup Texts
    BY DEF Types
  <2> QED  BY <1>2, <2>1 DEF Types, ghosts
<1>9. Fronts'
  BY <1>7 DEF Fronts, FrontIsTheRunningTurn
<1>10. Reports'
  <2>1. SUFFICES ASSUME NEW e \in Elements(pending'), e.kind = "drain"
                 PROVE  e = Head(pending') /\ (running_task = None => actor'.at = "start")
    BY DEF Reports
  <2>2. e \in Elements(pending)
    BY <1>4, <2>1
  <2>3. e = Head(pending) /\ (running_task = None => actor.at \in {"start", "promote"})
    BY <2>1, <2>2 DEF Reports
  <2> QED  BY <1>7, <2>3
<1>11. Barrier'
  BY <1>4 DEF Barrier, Barred
<1>12. /\ \A i \in Ids : Known(i) => Known(i)'
       /\ \A i \in Elements(texts) : Known(i)'
       /\ \A i \in Elements(texts) : i \in Elements(interjections) \/ ~Known(i)
  BY PromptAssumption DEF Known, Places
<1>13. Places'
  <2>1. \A i \in IdsIn(pending') \cup Elements(interjections') : Known(i)'
    BY <1>6, <1>12, QueuedIds DEF Places
  <2>2. IdsIn(pending') \cap Elements(interjections') = {}
    BY <1>6 DEF Places
  <2>3. \A e \in Elements(pending') : KindOk(e)'
    BY <1>4 DEF Places, KindOk
  <2>4. Elements(interjections') \subseteq Prompts \cup Texts
    BY DEF Places
  <2>5. \A j, k \in 1..Len(interjections') : interjections'[j] = interjections'[k] => j = k
    BY DEF Places
  <2> QED  BY <1>2, <2>1, <2>2, <2>3, <2>4, <2>5 DEF Places
<1>14. Elements(actor.held) = {} /\ Elements(actor'.held) = {} /\ IdsIn(actor'.held) = {} /\ Distinct(actor'.held)
  BY DEF Elements, IdsIn, Distinct
<1>15. Answers'
  <2>1. \A x \in Prompts : answer'[x] = "waiting" <=>
          \E e \in Elements(pending') \cup Elements(actor'.held) : e.id = x /\ e.kind = "user"
    BY <1>4, <1>5, <1>14 DEF Answers
  <2>2. \A x \in said' \cap Prompts : x \in said
    BY PromptAssumption DEF Places, Answers, Types
  <2> QED  BY <1>14, <2>1, <2>2 DEF Answers
<1>16. Kept'
  BY <1>6, <1>14 DEF Kept, ghosts
<1>17. /\ running_task # None => Head(pending') = Head(pending)
       /\ \A i \in IdsIn(pending') : i \in IdsIn(pending) \cup Elements(interjections) \/ ~Known(i)
       /\ \A i \in Elements(interjections') : i \in Elements(interjections)
  BY <1>6, <1>7, <1>12
<1>18. actor'.at \notin {"complete", "teardown"}
  OBVIOUS
<1> QED  BY <1>8, <1>9, <1>10, <1>11, <1>12, <1>13, <1>15, <1>16, <1>17, <1>18, EditKeeps

\* Interjections that came too late for the turn get turns of their own.
LEMMA FlushKeeps ==
    ASSUME IInv, flush_stranded_interjections
    PROVE  IInv'
<1>1. /\ actor.at = "flush" /\ pending' = InsertFallbacks(pending, interjections) /\ interjections' = <<>>
      /\ actor' = Starting("drain")
      /\ goal' \in {goal, FALSE}
      /\ UNCHANGED <<running_task, current_prompt_id, front_message_committed, rewindable, suppressed,
                     notifications, completions, turn, mcp, answer, inputs, ghosts>>
  BY DEF flush_stranded_interjections
<1>2. actor' \in Actors /\ actor'.held = <<>> /\ actor'.at = "start" /\ actor.held = <<>>
  BY <1>1, Resting DEF IInv, Answers
<1>3. /\ interjections \in Seq(Ids) /\ interjections' \in Seq(Ids) /\ Elements(interjections') = {}
      /\ \A j, k \in 1..Len(interjections) : interjections[j] = interjections[k] => j = k
      /\ IdsIn(pending) \cap Elements(interjections) = {} /\ Elements(interjections) \subseteq Prompts \cup Texts
  <2>1. Elements(interjections') = {}
    BY <1>1 DEF Elements
  <2> QED  BY <1>1, <2>1 DEF IInv, Types, Places
<1>4. /\ Elements(interjections) \ Elements(interjections) = Elements(interjections')
      /\ Elements(interjections) \cap Elements(interjections') = {}
      /\ said \subseteq said' /\ said' \subseteq said \cup (Elements(interjections) \cap Texts)
  BY <1>1, <1>3 DEF inputs
<1>5. goal' \in BOOLEAN
  BY <1>1 DEF IInv, Types
<1> QED  BY <1>1, <1>2, <1>3, <1>4, <1>5, FallbackKeeps DEF inputs

\* So do those a send-now finds in the buffer.
LEMMA SendNowCancelKeeps ==
    ASSUME IInv, cancel_turn_for_send_now
    PROVE  IInv'
<1>1. /\ actor.at = "send_now" /\ pending' = InsertFallbacks(pending, interjections) /\ interjections' = <<>>
      /\ actor' = [At("cancel") EXCEPT !.how = "send_now"]
      /\ UNCHANGED <<running_task, current_prompt_id, front_message_committed, rewindable, suppressed,
                     notifications, goal, completions, turn, mcp, answer, inputs, ghosts>>
  BY Zenon DEF cancel_turn_for_send_now
<1>2. /\ actor' \in Actors /\ actor'.held = <<>> /\ actor'.at = "cancel" /\ actor'.how = "send_now"
      /\ actor'.id = None
  BY <1>1, Resting
<1>3. actor.held = <<>> /\ running_task # None /\ front_message_committed
  BY <1>1 DEF IInv, Answers, Fronts
<1>4. /\ interjections \in Seq(Ids) /\ interjections' \in Seq(Ids) /\ Elements(interjections') = {}
      /\ \A j, k \in 1..Len(interjections) : interjections[j] = interjections[k] => j = k
      /\ IdsIn(pending) \cap Elements(interjections) = {} /\ Elements(interjections) \subseteq Prompts \cup Texts
  <2>1. Elements(interjections') = {}
    BY <1>1 DEF Elements
  <2> QED  BY <1>1, <2>1 DEF IInv, Types, Places
<1>5. /\ Elements(interjections) \ Elements(interjections) = Elements(interjections')
      /\ Elements(interjections) \cap Elements(interjections') = {}
      /\ said \subseteq said' /\ said' \subseteq said \cup (Elements(interjections) \cap Texts)
  BY <1>1, <1>4 DEF inputs
<1>6. /\ pending' = InsertFallbacks(pending, interjections) /\ interjections' = <<>>
      /\ UNCHANGED <<running_task, current_prompt_id, front_message_committed, rewindable, suppressed,
                     notifications, goal, completions, turn, mcp, answer, raised, cancels, ghosts>>
  BY <1>1 DEF inputs
<1>7. actor.at \in {"select", "flush", "send_now"} /\ goal' \in BOOLEAN
  BY <1>1 DEF IInv, Types
<1> QED  BY <1>2, <1>3, <1>4, <1>5, <1>6, <1>7, FallbackKeeps

\* A text goes into the buffer or, with no turn pinned, into the queue.
LEMMA InterjectKeeps ==
    ASSUME IInv, NEW m \in Texts, Interject(m)
    PROVE  IInv'
<1>1. /\ TakesCommand /\ m \notin said /\ said' = said \cup {m}
      /\ UNCHANGED <<running_task, current_prompt_id, front_message_committed, rewindable, suppressed,
                     notifications, goal, completions, turn, mcp, answer, raised, cancels, ghosts>>
  BY DEF Interject, TakesInput
<1>2. actor.at = "select" /\ actor.held = <<>> /\ Elements(actor.held) = {}
  BY <1>1, AtCommand
<1>3. m \in Ids /\ m \notin IdsIn(pending) /\ m \notin Elements(interjections) /\ ~Known(m)
  <2>1. ~Known(m)
    BY <1>1 DEF Known
  <2> QED  BY <2>1 DEF IInv, Places, Ids
<1>4. /\ interjections \in Seq(Ids)
      /\ \A j, k \in 1..Len(interjections) : interjections[j] = interjections[k] => j = k
  BY DEF IInv, Types, Places
<1>5. CASE current_prompt_id # None
  <2> USE DEF IInv
  <2>1. interjections' = Append(interjections, m) /\ UNCHANGED <<pending, actor>>
    BY <1>5 DEF Interject
  <2>2. /\ interjections' \in Seq(Ids) /\ Elements(interjections') = Elements(interjections) \cup {m}
        /\ \A j, k \in 1..Len(interjections') : interjections'[j] = interjections'[k] => j = k
    BY <1>3, <1>4, <2>1, AppendText
  <2>3. Types'    BY <1>1, <2>1, <2>2 DEF Types, ghosts
  <2>4. Fronts'   BY <1>1, <2>1 DEF Fronts, FrontIsTheRunningTurn, ghosts
  <2>5. Reports'  BY <1>1, <2>1 DEF Reports
  <2>6. Barrier'  BY <1>1, <2>1 DEF Barrier, Barred
  <2>7. \A i \in Ids : (Known(i) => Known(i)') /\ Known(m)'
    BY <1>1, PromptAssumption DEF Known
  <2>8. Places'
    <3>1. \A i \in IdsIn(pending') \cup Elements(interjections') : Known(i)'
      BY <1>3, <2>1, <2>2, <2>7, QueuedIds DEF Places
    <3>2. /\ IdsIn(pending') \cap Elements(interjections') = {}
          /\ Elements(interjections') \subseteq Prompts \cup Texts
      BY <1>3, <2>1, <2>2 DEF Places
    <3> QED  BY <2>1, <2>2, <3>1, <3>2 DEF Places, KindOk
  <2>9. Answers'
    <3>1. \A x \in said' \cap Prompts : x \in said
      BY <1>1, PromptAssumption
    <3> QED  BY <1>1, <2>1, <3>1 DEF Answers, KindOk
  <2>10. Kept'    BY <1>1, <2>1, <2>2 DEF Kept, ghosts
  <2>11. /\ \A i \in IdsIn(pending') : i \in IdsIn(pending) \cup Elements(interjections)
         /\ \A i \in Elements(interjections') : i \in Elements(interjections) \/ ~Known(i)
    BY <1>3, <2>1, <2>2
  <2>12. Head(pending') = Head(pending)
    BY <2>1
  <2> QED  BY <1>1, <2>1, <2>3, <2>4, <2>5, <2>6, <2>7, <2>8, <2>9, <2>10, <2>11, <2>12, EditKeeps
<1>6. CASE current_prompt_id = None
  <2> DEFINE texts == <<m>>
  <2>1. /\ pending' = InsertFallbacks(pending, texts) /\ interjections' = interjections
        /\ actor' = Starting("select")
    BY <1>6 DEF Interject
  <2>2. /\ texts \in Seq(Ids) /\ Elements(texts) = {m}
        /\ \A j, k \in 1..Len(texts) : texts[j] = texts[k] => j = k
    BY <1>3 DEF Elements
  <2> HIDE DEF texts
  <2>3. actor' \in Actors /\ actor'.held = <<>> /\ actor'.at = "start"
    BY <2>1, Resting
  <2>4. /\ IdsIn(pending) \cap Elements(texts) = {} /\ Elements(texts) \subseteq Prompts \cup Texts
        /\ Elements(interjections) \ Elements(texts) = Elements(interjections')
        /\ Elements(texts) \cap Elements(interjections') = {}
        /\ said \subseteq said' /\ said' \subseteq said \cup (Elements(texts) \cap Texts)
        /\ \A i \in Elements(texts) : i \in Elements(interjections) \/ (i \in Texts /\ i \notin said /\ i \in said')
    BY <1>1, <1>3, <2>1, <2>2
  <2>5. goal' \in BOOLEAN
    BY <1>1 DEF IInv, Types
  <2> QED  BY <1>1, <1>2, <1>4, <2>1, <2>2, <2>3, <2>4, <2>5, FallbackKeeps
<1> QED  BY <1>5, <1>6

\* A row at the back of the queue or in an empty one, of a task or a subagent
\* that completed or of the notifications to report. A subagent's comes in
\* whether or not the barrier is up.
LEMMA RowKeeps ==
    ASSUME IInv, NEW x \in Items, KindOk(x), x.kind \in {"wake", "child", "drain"},
           pending' \in Seq(Items), pending' # <<>>, Distinct(pending'),
           Elements(pending') = Elements(pending) \cup {x},
           running_task # None => Head(pending') = Head(pending),
           x.kind = "drain" => pending = <<>> /\ x = Head(pending') /\ actor.at = "drain" /\ x.id \notin settled,
           x.kind # "drain" => ~Known(x.id),
           x.kind = "child" \/ ~suppressed, actor.at \in {"select", "drain"}, actor' = Starting("select"),
           notifications' \subseteq Wakes, raised' \subseteq Wakes \cup Children, raised \subseteq raised',
           x.id \in Wakes \cup Children => x.id \in raised',
           UNCHANGED <<running_task, current_prompt_id, front_message_committed, rewindable, suppressed,
                       interjections, goal, completions, turn, mcp, answer, said, cancels, ghosts>>
    PROVE  IInv'
<1> USE DEF IInv
<1>1. actor' \in Actors /\ actor'.held = <<>> /\ actor'.at = "start" /\ actor.held = <<>>
  BY Resting DEF Answers
<1>2. x.id \in Wakes \cup Children \cup Drains /\ x.id \notin Prompts \cup Texts /\ x.id \in x.msgs
  BY PromptAssumption DEF KindOk
<1>3. IdsIn(pending') = IdsIn(pending) \cup {x.id}
  BY DEF IdsIn
<1>4. Types'    BY <1>1 DEF Types, ghosts
<1>5. Fronts'
  <2>1. running_task # None => Head(pending').id = running_task
    BY RunningRow
  <2> QED  BY <1>1, <2>1 DEF Fronts, FrontIsTheRunningTurn
<1>6. Reports'
  <2>1. SUFFICES ASSUME NEW e \in Elements(pending'), e.kind = "drain"
                 PROVE  e = Head(pending')
    BY <1>1 DEF Reports
  <2>2. CASE e = x
    BY <2>1, <2>2
  <2>3. CASE e # x
    <3>1. e \in Elements(pending) /\ e = Head(pending) /\ running_task # None
      BY <2>1, <2>3 DEF Reports
    <3> QED  BY <3>1
  <2> QED  BY <2>2, <2>3
<1>7. Barrier'
  <2>1. ~suppressed \/ ~Barred(x)
    BY DEF Barred
  <2> QED  BY <1>1, <2>1 DEF Barrier, Barred
<1>8. /\ \A i \in Ids : Known(i) => Known(i)'
      /\ Known(x.id)'
  BY <1>2 DEF Known
<1>9. Places'
  <2>1. \A i \in IdsIn(pending') \cup Elements(interjections') : Known(i)'
    BY <1>3, <1>8, QueuedIds DEF Places
  <2>2. IdsIn(pending') \cap Elements(interjections') = {}
    BY <1>2, <1>3 DEF Places
  <2>3. \A e \in Elements(pending') : KindOk(e)'
    BY DEF Places, KindOk
  <2> QED  BY <2>1, <2>2, <2>3 DEF Places
<1>10. Elements(actor.held) = {} /\ Elements(actor'.held) = {} /\ IdsIn(actor'.held) = {} /\ Distinct(actor'.held)
  BY <1>1 DEF Elements, IdsIn, Distinct
<1>11. Answers'
  <2>1. \A y \in Prompts : answer'[y] = "waiting" <=>
          \E e \in Elements(pending') \cup Elements(actor'.held) : e.id = y /\ e.kind = "user"
    BY <1>10 DEF Answers
  <2> QED  BY <1>1, <1>10, <2>1 DEF Answers
<1>12. Kept'    BY <1>3, <1>10 DEF Kept, ghosts
<1>13. /\ \A i \in IdsIn(pending') : \/ i \in IdsIn(pending) \cup Elements(interjections)
                                     \/ ~Known(i)
                                     \/ actor.at = "drain" /\ i \notin settled
       /\ \A i \in Elements(interjections') : i \in Elements(interjections)
  BY <1>3
<1> QED  BY <1>1, <1>4, <1>5, <1>6, <1>7, <1>8, <1>9, <1>11, <1>12, <1>13, EditKeeps

\* A step of the loop or a note of a task that touches no row.
LEMMA NoteKeeps ==
    ASSUME IInv, Types', Fronts', raised \subseteq raised', actor'.held = <<>>, actor.held = <<>>,
           actor.at \in {"select", "drain"}, actor'.at \in {"select", "drain"},
           UNCHANGED <<pending, running_task, front_message_committed, suppressed,
                       interjections, completions, turn, answer, said, ghosts>>
    PROVE  IInv'
<1> USE DEF IInv
<1>1. Reports'
  <2>1. Elements(pending) # {} => running_task # None
    BY ElementsOf DEF Fronts, Types
  <2> QED  BY <2>1 DEF Reports
<1>2. Barrier'  BY DEF Barrier, Barred
<1>3. \A i \in Ids : Known(i) => Known(i)'
  BY DEF Known
<1>4. Places'
  <2>1. \A i \in IdsIn(pending') \cup Elements(interjections') : Known(i)'
    BY <1>3, QueuedIds DEF Places
  <2> QED  BY <2>1 DEF Places, KindOk
<1>5. Answers'  BY DEF Answers, KindOk
<1>6. Kept'     BY DEF Kept, ghosts
<1>7. /\ \A i \in IdsIn(pending') : i \in IdsIn(pending) \cup Elements(interjections)
      /\ \A i \in Elements(interjections') : i \in Elements(interjections)
      /\ Head(pending') = Head(pending)
  OBVIOUS
<1>8. actor.at \notin {"complete", "teardown"} /\ actor'.at \notin {"complete", "teardown"}
  OBVIOUS
<1> QED  BY <1>1, <1>2, <1>3, <1>4, <1>5, <1>6, <1>7, <1>8, EditKeeps

\* The completion of a task is queued, or held back: after a stop, or when its
\* sender has gone.
LEMMA WakeKeeps ==
    ASSUME IInv, NEW w \in Wakes, admit_task_completion_wake(w)
    PROVE  IInv'
<1>1. /\ TakesCommand /\ w \notin raised /\ raised' = raised \cup {w}
      /\ UNCHANGED <<running_task, current_prompt_id, front_message_committed, rewindable, suppressed,
                     interjections, goal, completions, turn, mcp, answer, said, cancels, ghosts>>
  BY DEF admit_task_completion_wake, TakesInput
<1>2. /\ actor.at = "select" /\ actor.held = <<>> /\ pending \in Seq(Items) /\ Distinct(pending)
  BY <1>1, AtCommand
<1>3. raised \subseteq raised' /\ raised' \subseteq Wakes \cup Children
  BY <1>1 DEF IInv, Types
<1>4. CASE notifications' = notifications \cup {w} /\ UNCHANGED <<pending, actor>>
  <2>1. notifications' = notifications \cup {w} /\ UNCHANGED <<pending, actor>>
    BY <1>4
  <2>2. Types'
    BY <1>1, <1>3, <2>1 DEF IInv, Types, ghosts
  <2>3. Fronts'
    BY <1>1, <2>1 DEF IInv, Fronts, FrontIsTheRunningTurn, ghosts
  <2>4. actor'.held = <<>> /\ actor'.at = "select"
    BY <1>2, <2>1
  <2> QED  BY <1>1, <1>2, <1>3, <2>1, <2>2, <2>3, <2>4, NoteKeeps
<1>5. CASE /\ ~suppressed /\ pending' = Append(pending, Item(w, "wake"))
           /\ actor' = Starting("select") /\ UNCHANGED notifications
  <2> DEFINE x == Item(w, "wake")
  <2>1. pending' = Append(pending, x) /\ actor' = Starting("select") /\ notifications' = notifications
    BY <1>5
  <2>2. x \in Items /\ x.id = w /\ x.kind = "wake" /\ x.msgs = {w}
    BY ItemRow DEF Ids
  <2> HIDE DEF x
  <2>3. KindOk(x) /\ ~Known(w)
    BY <1>1, <2>2 DEF KindOk, Known
  <2>4. w \notin IdsIn(pending)
    BY <2>3 DEF IInv, Places
  <2>5. /\ pending' \in Seq(Items) /\ pending' # <<>> /\ Elements(pending') = Elements(pending) \cup {x}
        /\ Distinct(pending') /\ (pending # <<>> => Head(pending') = Head(pending))
    BY <1>2, <2>1, <2>2, <2>4, AppendRow
  <2>6. running_task # None => Head(pending') = Head(pending)
    BY <2>5, RunningRow DEF IInv
  <2>7. notifications' \subseteq Wakes
    BY <2>1 DEF IInv, Types
  <2>8. /\ x.kind \in {"wake", "child", "drain"} /\ (x.kind = "child" \/ ~suppressed) /\ actor.at \in {"select", "drain"}
        /\ x.kind = "drain" => pending = <<>> /\ x = Head(pending') /\ actor.at = "drain" /\ x.id \notin settled
        /\ x.kind # "drain" => ~Known(x.id)
        /\ x.id \in Wakes \cup Children => x.id \in raised'
    BY <1>1, <1>2, <1>5, <2>2, <2>3
  <2> QED  BY <1>1, <1>3, <1>5, <2>1, <2>2, <2>3, <2>5, <2>6, <2>7, <2>8, RowKeeps
<1> QED  BY <1>4, <1>5 DEF admit_task_completion_wake

\* A subagent's completion is queued, also after a stop.
LEMMA SubagentKeeps ==
    ASSUME IInv, NEW c \in Children, SubagentCompleted(c)
    PROVE  IInv'
<1> DEFINE x == Item(c, "child")
<1>1. /\ TakesCommand /\ c \notin raised /\ raised' = raised \cup {c}
      /\ pending' = Append(pending, x) /\ actor' = Starting("select")
      /\ UNCHANGED <<running_task, current_prompt_id, front_message_committed, rewindable, suppressed,
                     notifications, interjections, goal, completions, turn, mcp, answer, said, cancels, ghosts>>
  BY DEF SubagentCompleted, TakesInput
<1>2. /\ actor.at = "select" /\ actor.held = <<>> /\ pending \in Seq(Items) /\ Distinct(pending)
  BY <1>1, AtCommand
<1>3. /\ raised \subseteq raised' /\ raised' \subseteq Wakes \cup Children
      /\ notifications' \subseteq Wakes
  BY <1>1 DEF IInv, Types
<1>4. x \in Items /\ x.id = c /\ x.kind = "child" /\ x.msgs = {c}
  BY ItemRow DEF Ids
<1> HIDE DEF x
<1>5. KindOk(x) /\ ~Known(c)
  BY <1>1, <1>4 DEF KindOk, Known
<1>6. c \notin IdsIn(pending)
  BY <1>5 DEF IInv, Places
<1>7. /\ pending' \in Seq(Items) /\ pending' # <<>> /\ Elements(pending') = Elements(pending) \cup {x}
      /\ Distinct(pending') /\ (pending # <<>> => Head(pending') = Head(pending))
  BY <1>1, <1>2, <1>4, <1>6, AppendRow
<1>8. running_task # None => Head(pending') = Head(pending)
  BY <1>7, RunningRow DEF IInv
<1>9. /\ x.kind \in {"wake", "child", "drain"} /\ (x.kind = "child" \/ ~suppressed) /\ actor.at \in {"select", "drain"}
      /\ x.kind = "drain" => pending = <<>> /\ x = Head(pending') /\ actor.at = "drain" /\ x.id \notin settled
      /\ x.kind # "drain" => ~Known(x.id)
      /\ x.id \in Wakes \cup Children => x.id \in raised'
  BY <1>1, <1>2, <1>4, <1>5
<1> QED  BY <1>1, <1>3, <1>4, <1>5, <1>7, <1>8, <1>9, RowKeeps

\* A task's completion that is not to wake the session is held, and the loop
\* looks whether it can be reported.
LEMMA InjectNotificationKeeps ==
    ASSUME IInv, NEW w \in Wakes, InjectNotification(w)
    PROVE  IInv'
<1>1. /\ TakesCommand /\ raised' = raised \cup {w} /\ notifications' = notifications \cup {w}
      /\ actor' = At("drain")
      /\ UNCHANGED <<pending, running_task, current_prompt_id, front_message_committed, rewindable, suppressed,
                     interjections, goal, completions, turn, mcp, answer, said, cancels, ghosts>>
  BY DEF InjectNotification, TakesInput
<1>2. actor.at = "select" /\ actor.held = <<>>
  BY <1>1, AtCommand
<1>3. actor' \in Actors /\ actor'.held = <<>> /\ actor'.at = "drain"
  BY <1>1, Resting
<1>4. Types'
  BY <1>1, <1>3 DEF IInv, Types, ghosts
<1>5. Fronts'
  BY <1>1, <1>2, <1>3 DEF IInv, Fronts, FrontIsTheRunningTurn, ghosts
<1> QED  BY <1>1, <1>2, <1>3, <1>4, <1>5, NoteKeeps

\* A user's turn may show the model what is held before it starts.
LEMMA ConsumeDeferredKeeps ==
    ASSUME IInv, NEW t \in Ids, consume_deferred_completions(t)
    PROVE  IInv'
<1>1. Types'
  BY DEF IInv, consume_deferred_completions, Types, inputs, ghosts
<1> QED  BY <1>1, FlagsKeep DEF consume_deferred_completions

\* What was held back is reported, or dropped.
LEMMA DrainKeeps ==
    ASSUME IInv, maybe_drain_notifications
    PROVE  IInv'
<1>1. /\ actor.at = "drain"
      /\ UNCHANGED <<running_task, current_prompt_id, front_message_committed, rewindable, suppressed,
                     interjections, goal, completions, turn, mcp, answer, inputs, ghosts>>
      /\ notifications' \in {notifications, {}}
  BY DEF maybe_drain_notifications
<1>2. actor.held = <<>> /\ notifications' \subseteq Wakes
  BY <1>1 DEF IInv, Answers, Types
<1>3. CASE actor' = At("select") /\ UNCHANGED pending
  <2>1. actor' \in Actors /\ actor'.held = <<>> /\ actor'.at = "select"
    BY <1>3, Resting
  <2>2. Types'
    BY <1>1, <1>2, <1>3, <2>1 DEF IInv, Types, inputs, ghosts
  <2>3. Fronts'
    BY <1>1, <1>3, <2>1 DEF IInv, Fronts, FrontIsTheRunningTurn
  <2> QED  BY <1>1, <1>2, <1>3, <2>1, <2>2, <2>3, NoteKeeps DEF inputs
<1>4. CASE ~(actor' = At("select") /\ UNCHANGED pending)
  <2>1. /\ running_task = None /\ pending = <<>> /\ ~suppressed /\ actor' = Starting("select")
        /\ \E d \in Drains \ settled : pending' = <<Item(d, "drain")>>
    BY <1>4 DEF maybe_drain_notifications
  <2>2. PICK d \in Drains \ settled : pending' = <<Item(d, "drain")>>
    BY <2>1
  <2> DEFINE x == Item(d, "drain")
  <2>3. x \in Items /\ x.id = d /\ x.kind = "drain" /\ x.msgs = {d}
    BY ItemRow DEF Ids
  <2>4. pending' = <<x>>
    BY <2>2
  <2> HIDE DEF x
  <2>5. KindOk(x) /\ x.id \notin Wakes \cup Children
    BY <2>3, PromptAssumption DEF KindOk
  <2>6. Elements(pending) = {}
    BY <2>1 DEF Elements
  <2>7. /\ pending' \in Seq(Items) /\ pending' # <<>> /\ Elements(pending') = Elements(pending) \cup {x}
        /\ Distinct(pending') /\ Head(pending') = x
    BY <2>3, <2>4, <2>6, OneRow
  <2>8. /\ x.kind \in {"wake", "child", "drain"} /\ (x.kind = "child" \/ ~suppressed) /\ actor.at \in {"select", "drain"}
        /\ x.kind = "drain" => pending = <<>> /\ x = Head(pending') /\ actor.at = "drain" /\ x.id \notin settled
        /\ x.kind # "drain" => ~Known(x.id)
        /\ x.id \in Wakes \cup Children => x.id \in raised'
    BY <1>1, <2>1, <2>3, <2>5, <2>7
  <2>9. raised' \subseteq Wakes \cup Children /\ raised \subseteq raised'
    BY <1>1 DEF inputs, IInv, Types
  <2> QED  BY <1>1, <1>2, <2>1, <2>3, <2>5, <2>7, <2>8, <2>9, RowKeeps DEF inputs
<1> QED  BY <1>3, <1>4

\* A set of equals counts one, or none.
LEMMA AtMostOne ==
    ASSUME NEW S, \A a, b \in S : a = b
    PROVE  /\ S = {} => Cardinality(S) = 0
           /\ S # {} => Cardinality(S) = 1
<1>1. S = {} => Cardinality(S) = 0
  BY FS_EmptySet
<1>2. ASSUME S # {} PROVE Cardinality(S) = 1
  <2>1. PICK a \in S : TRUE
    BY <1>2
  <2>2. S = {a}
    BY <2>1
  <2> QED  BY <2>2, FS_Singleton
<1> QED  BY <1>1, <1>2

-----------------------------------------------------------------------------
(* The theorems.                                                           *)

\* The invariant holds of a session that has just started ...
LEMMA InitHolds ==
    ASSUME Init
    PROVE  IInv
<1>1. /\ <<>> \in Seq(Items) /\ <<>> \in Seq(Ids) /\ Elements(<<>>) = {} /\ IdsIn(<<>>) = {}
      /\ Distinct(<<>>) /\ Len(<<>>) = 0
  BY DEF Elements, IdsIn, Distinct
<1>2. /\ pending = <<>> /\ running_task = None /\ current_prompt_id = None
      /\ front_message_committed = FALSE /\ rewindable = FALSE /\ suppressed = FALSE
      /\ notifications = {} /\ interjections = <<>> /\ goal = FALSE /\ completions = <<>>
      /\ mcp = "waits" /\ said = {} /\ raised = {} /\ cancels = 0 /\ lost = {} /\ dropped = {} /\ overlapped = FALSE
      /\ answer = [p \in Prompts |-> "unsent"]
  BY DEF Init
<1>3. actor \in Actors /\ actor.at = "select" /\ actor.held = <<>>
  BY Resting DEF Init
<1>4. /\ turn \in [Ids -> Turns]
      /\ \A t \in Ids : turn[t].phase = "none" /\ turn[t].taken = <<>> /\ ~Alive(t)
  <2>1. NoTurn \in Turns
    BY <1>1 DEF NoTurn, Turns
  <2> QED  BY <2>1 DEF Init, NoTurn, Alive
<1>5. Types
  <2>1. answer \in [Prompts -> {"unsent", "waiting", "answered"}]
    BY <1>2
  <2>2. cancels \in 0..MaxCancels
    BY <1>2, PromptAssumption
  <2> QED  BY <1>1, <1>2, <1>3, <1>4, <2>1, <2>2 DEF Types
<1>6. Fronts    BY <1>2, <1>3 DEF Fronts
<1>7. Reports   BY <1>1, <1>2 DEF Reports
<1>8. Barrier   BY <1>2 DEF Barrier
<1>9. Places    BY <1>1, <1>2 DEF Places
<1>10. Turning
  <2>1. \A t \in Ids : ~Finished(t) /\ ~Stopped(t)
    BY <1>1, <1>2, <1>3 DEF Finished, Stopped
  <2> QED  BY <1>4, <2>1 DEF Turning
<1>11. Answers  BY <1>1, <1>2, <1>3 DEF Answers
<1>12. Commits  BY <1>2, <1>3 DEF Commits
<1>13. Kept     BY <1>2 DEF Kept
<1> QED  BY <1>5, <1>6, <1>7, <1>8, <1>9, <1>10, <1>11, <1>12, <1>13 DEF IInv

\* ... and every step keeps it.
LEMMA StepHolds ==
    ASSUME IInv, [Next]_vars
    PROVE  IInv'
<1>1. CASE Loop
  BY <1>1, RecvKeeps, HandleCompletionKeeps, FlushKeeps, StartChecksKeeps, StartPromotesKeeps, DrainKeeps,
     SendNowCancelKeeps, CancelRewindsKeeps, CancelTearsDownKeeps, CancelTakesFrontKeeps, CancelRespondsKeeps
  DEF Loop
<1>2. CASE Command
  BY <1>2, PromptKeeps, InterjectQueuedKeeps, RemoveKeeps, ReorderKeeps, ClearKeeps, InterjectKeeps, WakeKeeps,
     SubagentKeeps, InjectNotificationKeeps, CancelKeeps DEF Command
<1>3. CASE \E t \in Ids : Turn(t)
  BY <1>3, ConsumeDeferredKeeps, RecordKeeps, CommitKeeps, RewindWindowKeeps, TakeKeeps, InjectKeeps, GoalKeeps, ConsumeKeeps, EndKeeps,
     CompletionKeeps DEF Turn
<1>4. CASE McpChecks
  BY <1>4, McpChecksKeeps
<1>5. CASE McpPromotes
  BY <1>5, McpPromotesKeeps
<1>6. CASE UNCHANGED vars
  BY <1>6, StutterKeeps
<1> QED  BY <1>1, <1>2, <1>3, <1>4, <1>5, <1>6 DEF Next

\* The inductive invariant holds throughout, from Init and by every step.
LEMMA QueueInvariant ==
    Spec => []IInv
<1>1. Init => IInv
  BY InitHolds
<1>2. IInv /\ [Next]_vars => IInv'
  BY StepHolds
<1> QED  BY <1>1, <1>2, PTL DEF Spec

\* The state of the session actor keeps its types, and no message is queued
\* twice: a send-now moves its row (handle_interject_queued_prompt), a merged
\* prompt leaves the queue for the buffer, and a flush takes the buffer with it.
THEOREM QueueTypes ==
    Spec => []TypeOK
<1>1. IInv => TypeOK
  <2>1. SUFFICES ASSUME IInv PROVE TypeOK
    OBVIOUS
  <2>2. \A j, k \in 1..Len(pending) : pending[j].id = pending[k].id => j = k
    BY <2>1 DEF IInv, Places, Distinct
  <2>3. actor.at \in {"select", "start", "promote", "drain", "complete", "flush", "send_now", "cancel", "teardown"}
    BY <2>1 DEF IInv, Types, Actors
  <2> QED  BY <2>1, <2>2, <2>3 DEF IInv, Types, TypeOK, Turns
<1> QED  BY <1>1, QueueInvariant, PTL

\* The running turn's row is the front of the queue through every edit, sweep,
\* cancel and completion, and the loop never waits with a queue that does not
\* run, so a cancel that takes index 0 takes the turn it means
\* (cancel_running_task).
THEOREM TheFrontRuns ==
    Spec => []RunningIsFront
<1>1. IInv => RunningIsFront
  BY DEF IInv, Fronts, RunningIsFront, AtSelect
<1> QED  BY <1>1, QueueInvariant, PTL

\* A prompt whose RPC waits has exactly one row, in the queue or in the hands of
\* a cancel, and an answered one has none: nobody is answered twice and nobody
\* is forgotten (respond_removed_prompt, sweep_pending_inputs, handle_completion).
THEOREM EveryPromptIsAnswerable ==
    Spec => []NoPromptLost
<1>1. IInv => NoPromptLost
  <2>1. SUFFICES ASSUME IInv, NEW p \in Prompts
                 PROVE  LET rows == {k \in Queued(p) : pending[k].kind = "user"}
                            held == {k \in 1..Len(actor.held) : actor.held[k].id = p /\ actor.held[k].kind = "user"}
                        IN  Cardinality(rows) + Cardinality(held) = IF answer[p] = "waiting" THEN 1 ELSE 0
    BY DEF NoPromptLost
  <2> DEFINE rows == {k \in Queued(p) : pending[k].kind = "user"}
             held == {k \in 1..Len(actor.held) : actor.held[k].id = p /\ actor.held[k].kind = "user"}
  <2>2. /\ answer[p] = "waiting" <=> rows # {} \/ held # {}
    BY <2>1 DEF IInv, Answers, Elements, Queued
  <2>3. \A j, k \in rows : j = k
    BY <2>1 DEF IInv, Places, Distinct, Queued
  <2>4. \A j, k \in held : j = k
    BY <2>1 DEF IInv, Answers, Distinct
  <2>5. rows = {} \/ held = {}
    <3>1. \A e \in Elements(pending), h \in Elements(actor.held) : e.id # h.id
      BY <2>1 DEF IInv, Answers, IdsIn
    <3>2. \A j \in rows, k \in held : pending[j] \in Elements(pending) /\ actor.held[k] \in Elements(actor.held)
                                      /\ pending[j].id = actor.held[k].id
      BY DEF Elements, Queued
    <3> QED  BY <3>1, <3>2
  <2> HIDE DEF rows, held
  <2>6. /\ rows = {} => Cardinality(rows) = 0
        /\ rows # {} => Cardinality(rows) = 1
    BY <2>3, AtMostOne
  <2>7. /\ held = {} => Cardinality(held) = 0
        /\ held # {} => Cardinality(held) = 1
    BY <2>4, AtMostOne
  <2> QED  BY <2>2, <2>5, <2>6, <2>7 DEF rows, held
<1> QED  BY <1>1, QueueInvariant, PTL

\* Two turns never run at once, unless the MCP task promoted one while a cancel
\* was between taking the old one and aborting it: a completion that comes after
\* its turn was cancelled frees nobody else's slot (handle_completion).
THEOREM TurnsAreSingle ==
    Spec => []OneTurn
<1>1. IInv => OneTurn
  <2>1. SUFFICES ASSUME IInv, ~overlapped PROVE Cardinality({t \in Ids : Alive(t)}) <= 1
    BY DEF OneTurn
  <2> DEFINE alive == {t \in Ids : Alive(t)}
  <2>2. \A t, u \in alive : t = u
    BY <2>1, NoneIsNoId DEF IInv, Turning, Fronts, Stopped
  <2> HIDE DEF alive
  <2>3. Cardinality(alive) = 0 \/ Cardinality(alive) = 1
    BY <2>2, AtMostOne
  <2> QED  BY <2>3 DEF alive
<1> QED  BY <1>1, QueueInvariant, PTL

\* A send-now cancels no turn whose message the model has not been shown, under
\* the same proviso (send_now_cancels_running_turn, mark_front_message_committed).
THEOREM SendNowSparesTheUnseen ==
    Spec => []SendNowSpares
<1>1. IInv => SendNowSpares
  BY DEF IInv, Commits, SendNowSpares
<1> QED  BY <1>1, QueueInvariant, PTL

\* What a user says to a running turn is in the buffer, in the queue, in a turn's
\* or a cancel's hands, or accounted for, whichever of a completion, a send-now
\* or the end of the turn comes first (flush_stranded_interjections,
\* cancel_turn_for_send_now). Of a send-now it is claimed for the buffer and the
\* queue only: the text its turn had already taken is the exception the property
\* names (dropped), and the code does lose it.
THEOREM InterjectionsAreKept ==
    Spec => []InterjectionKept
<1>1. IInv => InterjectionKept
  <2>1. SUFFICES ASSUME IInv, NEW m \in said
                 PROVE  \/ m \in settled \cup lost \cup dropped
                        \/ \E k \in 1..Len(interjections) : interjections[k] = m
                        \/ Queued(m) # {}
                        \/ \E k \in 1..Len(actor.held) : m \in actor.held[k].msgs
                        \/ \E t \in Ids : \E k \in 1..Len(turn[t].taken) : turn[t].taken[k] = m
    BY DEF InterjectionKept
  <2>2. CASE m \in settled \cup lost \cup dropped \cup Elements(interjections) \cup IdsIn(pending)
    BY <2>2 DEF Elements, IdsIn, Queued
  <2>3. CASE \E e \in Elements(actor.held) : m \in e.msgs
    BY <2>3 DEF Elements
  <2>4. CASE \E t \in Ids : m \in Elements(turn[t].taken)
    BY <2>4 DEF Elements
  <2> QED  BY <2>1, <2>2, <2>3, <2>4 DEF IInv, Kept
<1> QED  BY <1>1, QueueInvariant, PTL

\* After a stop no wake of a terminal task and no report of notifications is
\* queued or runs until the user is back, although subagents' completions still
\* come in and run: the barrier is armed before the first await, and held notifications drain only
\* once it is lifted (cancel_running_task, maybe_drain_notifications).
THEOREM StopsHold ==
    Spec => []StopHolds
<1>1. IInv => StopHolds
  BY DEF IInv, Barrier, Barred, StopHolds, Elements
<1> QED  BY <1>1, QueueInvariant, PTL
=============================================================================
