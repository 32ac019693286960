--------------------------- MODULE SequenceLemmas ---------------------------
(***************************************************************************)
(* Facts about sequences and numbers that several proofs rest on: what     *)
(* removing from, inserting into and appending to a sequence without       *)
(* repetitions does; that every nonempty set of numbers has a least one,   *)
(* and with it induction and recursion, upwards and downwards, in terms of *)
(* sets; what is left of a sequence by retain; what joining sequences to   *)
(* one gives; and that to count what comes before is to sort.              *)
(***************************************************************************)
EXTENDS Integers, Sequences, SequencesExt, FiniteSets, SequenceTheorems,
        FiniteSetTheorems, WellFoundedInduction, Retain, TLAPS

\* The element at position i of a concatenation.
LEMMA ConcatAt ==
    ASSUME NEW T, NEW a \in Seq(T), NEW b \in Seq(T)
    PROVE  /\ a \o b \in Seq(T)
           /\ Len(a \o b) = Len(a) + Len(b)
           /\ \A i \in 1 .. Len(a) : (a \o b)[i] = a[i]
           /\ \A i \in 1 .. Len(a) + Len(b) : i > Len(a) => (a \o b)[i] = b[i - Len(a)]
<1>1. Len(a) \in Nat /\ Len(b) \in Nat
  OBVIOUS
<1> QED
  BY <1>1, ConcatProperties

\* Removing position k shifts what was to its right by one.
LEMMA RemoveAtProperties ==
    ASSUME NEW T, NEW s \in Seq(T), NEW k \in DOMAIN s
    PROVE  /\ RemoveAt(s, k) \in Seq(T)
           /\ Len(RemoveAt(s, k)) = Len(s) - 1
           /\ \A j \in 1 .. Len(s) - 1 :
                RemoveAt(s, k)[j] = IF j < k THEN s[j] ELSE s[j + 1]
<1> DEFINE left == SubSeq(s, 1, k - 1)
           right == SubSeq(s, k + 1, Len(s))
<1>1. k \in 1 .. Len(s) /\ Len(s) \in Nat
  OBVIOUS
<1>2. /\ left \in Seq(T)
      /\ Len(left) = k - 1
      /\ \A j \in 1 .. k - 1 : left[j] = s[j]
  BY <1>1
<1>3. /\ right \in Seq(T)
      /\ Len(right) = Len(s) - k
      /\ \A j \in k .. Len(s) - 1 : right[j - (k - 1)] = s[j + 1]
  BY <1>1
<1>4. RemoveAt(s, k) = left \o right
  BY DEF RemoveAt
<1> HIDE DEF left, right
<1>5. /\ left \o right \in Seq(T)
      /\ Len(left \o right) = Len(s) - 1
      /\ \A i \in 1 .. k - 1 : (left \o right)[i] = left[i]
      /\ \A i \in 1 .. Len(s) - 1 : i > k - 1 => (left \o right)[i] = right[i - (k - 1)]
  BY <1>1, <1>2, <1>3, ConcatAt
<1>6. ASSUME NEW j \in 1 .. Len(s) - 1
      PROVE  (left \o right)[j] = IF j < k THEN s[j] ELSE s[j + 1]
  <2>1. CASE j < k
    BY <2>1, <1>1, <1>2, <1>5
  <2>2. CASE j >= k
    <3>1. j \in k .. Len(s) - 1 /\ j > k - 1 /\ ~(j < k)
      BY <2>2, <1>1
    <3>2. (left \o right)[j] = right[j - (k - 1)]
      BY <3>1, <1>5
    <3>3. right[j - (k - 1)] = s[j + 1]
      BY <3>1, <1>3
    <3> QED
      BY <3>1, <3>2, <3>3
  <2>3. j < k \/ j >= k
    BY <1>1
  <2> QED
    BY <2>1, <2>2, <2>3, Zenon
<1> QED
  BY <1>4, <1>5, <1>6

\* Inserting at position j shifts what was from there on by one.
LEMMA InsertAtProperties ==
    ASSUME NEW T, NEW s \in Seq(T), NEW e \in T, NEW j, j \in 1 .. Len(s) + 1
    PROVE  /\ InsertAt(s, j, e) \in Seq(T)
           /\ Len(InsertAt(s, j, e)) = Len(s) + 1
           /\ \A m \in 1 .. j - 1 : InsertAt(s, j, e)[m] = s[m]
           /\ InsertAt(s, j, e)[j] = e
           /\ \A m \in j + 1 .. Len(s) + 1 : InsertAt(s, j, e)[m] = s[m - 1]
<1> DEFINE left == SubSeq(s, 1, j - 1)
           middle == <<e>>
           front == left \o middle
           right == SubSeq(s, j, Len(s))
<1>1. j \in 1 .. Len(s) + 1 /\ Len(s) \in Nat
  OBVIOUS
<1>2. /\ left \in Seq(T)
      /\ Len(left) = j - 1
      /\ \A m \in 1 .. j - 1 : left[m] = s[m]
  BY <1>1
<1>3. /\ right \in Seq(T)
      /\ Len(right) = Len(s) - j + 1
      /\ \A m \in j + 1 .. Len(s) + 1 : right[m - j] = s[m - 1]
  BY <1>1
<1>4. middle \in Seq(T) /\ Len(middle) = 1 /\ middle[1] = e
  OBVIOUS
<1>5. InsertAt(s, j, e) = front \o right
  BY DEF InsertAt
<1> HIDE DEF left, middle, right
<1>6. /\ front \in Seq(T)
      /\ Len(front) = j
      /\ \A i \in 1 .. j - 1 : front[i] = left[i]
      /\ \A i \in 1 .. j : i > j - 1 => front[i] = middle[i - (j - 1)]
  <2>1. /\ front \in Seq(T)
        /\ Len(front) = Len(left) + Len(middle)
        /\ \A i \in 1 .. Len(left) : front[i] = left[i]
        /\ \A i \in 1 .. Len(left) + Len(middle) :
                i > Len(left) => front[i] = middle[i - Len(left)]
    BY <1>2, <1>4, ConcatAt, Zenon
  <2> HIDE DEF front
  <2>2. Len(left) + Len(middle) = j
    BY <1>1, <1>2, <1>4
  <2> QED
    BY <2>1, <2>2, <1>2
<1>7. front[j] = e
  <2>1. front[j] = middle[j - (j - 1)]
    BY <1>1, <1>6
  <2>2. j - (j - 1) = 1
    BY <1>1
  <2> QED
    BY <2>1, <2>2, <1>4
<1> HIDE DEF front
<1>8. /\ front \o right \in Seq(T)
      /\ Len(front \o right) = Len(s) + 1
      /\ \A i \in 1 .. j : (front \o right)[i] = front[i]
      /\ \A i \in 1 .. Len(s) + 1 : i > j => (front \o right)[i] = right[i - j]
  BY <1>1, <1>3, <1>6, ConcatAt
<1>9. \A m \in 1 .. j - 1 : (front \o right)[m] = s[m]
  BY <1>1, <1>2, <1>6, <1>8
<1>10. (front \o right)[j] = e
  BY <1>1, <1>7, <1>8
<1>11. ASSUME NEW m \in j + 1 .. Len(s) + 1 PROVE (front \o right)[m] = s[m - 1]
  <2>1. m \in 1 .. Len(s) + 1 /\ m > j
    BY <1>1
  <2>2. (front \o right)[m] = right[m - j]
    BY <2>1, <1>8
  <2> QED
    BY <2>2, <1>3
<1> QED
  BY <1>5, <1>8, <1>9, <1>10, <1>11

\* A sequence without repetitions loses exactly the removed element.
LEMMA RemoveAtSet ==
    ASSUME NEW T, NEW s \in Seq(T), NEW k \in DOMAIN s,
           \A a, b \in DOMAIN s : s[a] = s[b] => a = b
    PROVE  /\ ToSet(RemoveAt(s, k)) = ToSet(s) \ {s[k]}
           /\ \A a, b \in DOMAIN RemoveAt(s, k) :
                RemoveAt(s, k)[a] = RemoveAt(s, k)[b] => a = b
<1> DEFINE r == RemoveAt(s, k)
<1>1. /\ r \in Seq(T) /\ Len(r) = Len(s) - 1
      /\ \A j \in 1 .. Len(s) - 1 : r[j] = IF j < k THEN s[j] ELSE s[j + 1]
  BY RemoveAtProperties
<1>2. k \in 1 .. Len(s) /\ DOMAIN s = 1 .. Len(s) /\ DOMAIN r = 1 .. Len(s) - 1 /\ Len(s) \in Nat
  BY <1>1
<1> HIDE DEF r
<1>3. ASSUME NEW j \in DOMAIN r
      PROVE  \E m \in DOMAIN s : m # k /\ r[j] = s[m] /\ m = IF j < k THEN j ELSE j + 1
  <2>1. CASE j < k
    BY <2>1, <1>1, <1>2
  <2>2. CASE ~(j < k)
    BY <2>2, <1>1, <1>2
  <2> QED
    BY <2>1, <2>2
<1>4. \A a, b \in DOMAIN r : r[a] = r[b] => a = b
  <2> SUFFICES ASSUME NEW a \in DOMAIN r, NEW b \in DOMAIN r, r[a] = r[b] PROVE a = b
    OBVIOUS
  <2>1. PICK m \in DOMAIN s : m # k /\ r[a] = s[m] /\ m = IF a < k THEN a ELSE a + 1
    BY <1>3
  <2>2. PICK n \in DOMAIN s : n # k /\ r[b] = s[n] /\ n = IF b < k THEN b ELSE b + 1
    BY <1>3
  <2>3. m = n
    BY <2>1, <2>2
  <2> QED
    BY <2>1, <2>2, <2>3, <1>2
<1>5. ToSet(r) \subseteq ToSet(s) \ {s[k]}
  BY <1>3 DEF ToSet
<1>6. ASSUME NEW x \in ToSet(s) \ {s[k]} PROVE x \in ToSet(r)
  <2>1. PICK a \in DOMAIN s : x = s[a] /\ a # k
    BY DEF ToSet
  <2>2. CASE a < k
    <3>1. a \in DOMAIN r /\ r[a] = s[a]
      BY <2>2, <1>1, <1>2
    <3> QED
      BY <2>1, <3>1 DEF ToSet
  <2>3. CASE a > k
    <3>1. a - 1 \in DOMAIN r /\ ~(a - 1 < k) /\ (a - 1) + 1 = a
      BY <2>3, <1>2
    <3>2. r[a - 1] = s[(a - 1) + 1]
      BY <3>1, <1>1, <1>2
    <3> QED
      BY <2>1, <3>1, <3>2 DEF ToSet
  <2> QED
    BY <2>1, <2>2, <2>3, <1>2
<1> QED
  BY <1>4, <1>5, <1>6 DEF r

\* A new element at the end.
LEMMA AppendSet ==
    ASSUME NEW T, NEW s \in Seq(T), NEW e \in T, e \notin ToSet(s),
           \A a, b \in DOMAIN s : s[a] = s[b] => a = b
    PROVE  /\ Append(s, e) \in Seq(T)
           /\ ToSet(Append(s, e)) = ToSet(s) \cup {e}
           /\ \A a, b \in DOMAIN Append(s, e) :
                Append(s, e)[a] = Append(s, e)[b] => a = b
<1> DEFINE r == Append(s, e)
<1>1. /\ r \in Seq(T) /\ Len(s) \in Nat /\ DOMAIN s = 1 .. Len(s)
      /\ DOMAIN r = 1 .. Len(s) + 1
      /\ \A j \in 1 .. Len(s) : r[j] = s[j]
      /\ r[Len(s) + 1] = e
  BY AppendProperties
<1> HIDE DEF r
<1>2. \A j \in DOMAIN s : s[j] # e
  BY DEF ToSet
<1>3. ToSet(r) = ToSet(s) \cup {e}
  BY <1>1 DEF ToSet
<1>4. \A a, b \in DOMAIN r : r[a] = r[b] => a = b
  BY <1>1, <1>2
<1> QED
  BY <1>1, <1>3, <1>4 DEF r

\* Moving an element keeps the others, and keeps them distinct.
LEMMA MoveSet ==
    ASSUME NEW T, NEW s \in Seq(T), NEW k \in DOMAIN s, NEW j \in DOMAIN s,
           \A a, b \in DOMAIN s : s[a] = s[b] => a = b
    PROVE  LET m == InsertAt(RemoveAt(s, k), j, s[k])
           IN  /\ m \in Seq(T)
               /\ Len(m) = Len(s)
               /\ ToSet(m) = ToSet(s)
               /\ \A a, b \in DOMAIN m : m[a] = m[b] => a = b
<1> DEFINE r == RemoveAt(s, k)
           m == InsertAt(r, j, s[k])
<1>1. /\ r \in Seq(T) /\ Len(r) = Len(s) - 1
      /\ ToSet(r) = ToSet(s) \ {s[k]}
      /\ \A a, b \in DOMAIN r : r[a] = r[b] => a = b
  BY RemoveAtProperties, RemoveAtSet
<1>2. /\ s[k] \in T /\ Len(s) \in Nat /\ DOMAIN s = 1 .. Len(s)
      /\ DOMAIN r = 1 .. Len(s) - 1 /\ j \in 1 .. Len(r) + 1
      /\ s[k] \in ToSet(s)
  BY <1>1 DEF ToSet
<1> HIDE DEF r
<1>3. /\ m \in Seq(T) /\ Len(m) = Len(r) + 1
      /\ \A i \in 1 .. j - 1 : m[i] = r[i]
      /\ m[j] = s[k]
      /\ \A i \in j + 1 .. Len(r) + 1 : m[i] = r[i - 1]
  <2>1. r \in Seq(T) /\ j \in 1 .. Len(r) + 1 /\ s[k] \in T
    BY <1>1, <1>2
  <2> QED
    BY <2>1, InsertAtProperties
<1> HIDE DEF m
<1>4. DOMAIN m = 1 .. Len(s) /\ m[j] = s[k]
  BY <1>1, <1>2, <1>3
<1>5. ASSUME NEW i \in DOMAIN m, i # j
      PROVE  \E n \in DOMAIN r : m[i] = r[n] /\ n = IF i < j THEN i ELSE i - 1
  <2>1. CASE i < j
    <3>1. i \in DOMAIN r /\ i \in 1 .. j - 1
      BY <2>1, <1>1, <1>2, <1>4
    <3> QED
      BY <2>1, <3>1, <1>3
  <2>2. CASE i > j
    <3>1. i - 1 \in DOMAIN r /\ i \in j + 1 .. Len(r) + 1 /\ ~(i < j)
      BY <2>2, <1>1, <1>2, <1>4
    <3> QED
      BY <3>1, <1>3
  <2> QED
    BY <2>1, <2>2, <1>2, <1>4, <1>5
<1>6. \A i \in DOMAIN r : r[i] # s[k] /\ r[i] \in ToSet(r)
  BY <1>1 DEF ToSet
<1>7. \A a, b \in DOMAIN m : m[a] = m[b] => a = b
  <2> SUFFICES ASSUME NEW a \in DOMAIN m, NEW b \in DOMAIN m, m[a] = m[b] PROVE a = b
    OBVIOUS
  <2>1. CASE a = j \/ b = j
    BY <2>1, <1>4, <1>5, <1>6
  <2>2. CASE a # j /\ b # j
    <3>1. PICK x \in DOMAIN r : m[a] = r[x] /\ x = IF a < j THEN a ELSE a - 1
      BY <2>2, <1>5
    <3>2. PICK y \in DOMAIN r : m[b] = r[y] /\ y = IF b < j THEN b ELSE b - 1
      BY <2>2, <1>5
    <3>3. x = y
      BY <3>1, <3>2, <1>1
    <3> QED
      BY <3>1, <3>2, <3>3, <2>2, <1>2, <1>4
  <2> QED
    BY <2>1, <2>2
<1>8. ASSUME NEW x \in ToSet(m) PROVE x \in ToSet(s)
  <2>1. PICK i \in DOMAIN m : x = m[i]
    BY DEF ToSet
  <2>2. CASE i = j
    BY <2>1, <2>2, <1>2, <1>4
  <2>3. CASE i # j
    BY <2>1, <2>3, <1>1, <1>5, <1>6
  <2> QED
    BY <2>2, <2>3
<1>9. ASSUME NEW x \in ToSet(s) PROVE x \in ToSet(m)
  <2>1. CASE x = s[k]
    BY <2>1, <1>2, <1>4 DEF ToSet
  <2>2. CASE x # s[k]
    <3>1. PICK n \in DOMAIN r : x = r[n]
      BY <2>2, <1>1 DEF ToSet
    <3>2. CASE n < j
      BY <3>1, <3>2, <1>1, <1>2, <1>3, <1>4 DEF ToSet
    <3>3. CASE n >= j
      <4>1. n + 1 \in DOMAIN m /\ ~(n + 1 < j) /\ n + 1 # j /\ (n + 1) - 1 = n
        BY <3>3, <1>1, <1>2, <1>4
      <4>2. n + 1 \in j + 1 .. Len(r) + 1
        BY <3>3, <1>1, <1>2
      <4>3. m[n + 1] = r[(n + 1) - 1]
        BY <4>2, <1>3
      <4> QED
        BY <3>1, <4>1, <4>3 DEF ToSet
    <3> QED
      BY <3>2, <3>3, <1>2
  <2> QED
    BY <2>1, <2>2
<1> QED
  BY <1>1, <1>3, <1>7, <1>8, <1>9 DEF m, r

-----------------------------------------------------------------------------
(* Numbers.                                                                *)

\* Every set of numbers that is not empty has a least one.
LEMMA LeastNumber ==
    ASSUME NEW T, T \subseteq Nat, T # {}
    PROVE  \E x \in T : \A y \in T : x <= y
<1> DEFINE R == {p \in Nat \X Nat : p[1] < p[2]}
<1>1. IsWellFoundedOn(R, Nat)
  BY NatLessThanWellFounded DEF OpToRel
<1>2. PICK x \in T : \A y \in T : ~ (<<y, x>> \in R)
  BY <1>1, WFMin
<1>3. \A y \in T : x <= y
  <2> SUFFICES ASSUME NEW y \in T PROVE x <= y
    OBVIOUS
  <2>1. x \in Nat /\ y \in Nat
    OBVIOUS
  <2>2. ~ (y < x)
    BY <1>2, <2>1
  <2> QED BY <2>1, <2>2
<1> QED BY <1>3

\* Induction: a set of numbers with 0 and the successors of its members.
LEMMA NumberInduction ==
    ASSUME NEW k \in Nat, NEW T, 0 \in T, \A i \in 1 .. k : i - 1 \in T => i \in T
    PROVE  \A i \in 0 .. k : i \in T
<1> DEFINE U == (0 .. k) \ T
<1> SUFFICES ASSUME U # {} PROVE FALSE
  OBVIOUS
<1>0. U \subseteq Nat /\ U \subseteq 0 .. k /\ 0 \notin U
  OBVIOUS
<1> HIDE DEF U
<1>1. PICK x \in U : \A y \in U : x <= y
  BY <1>0, LeastNumber
<1>2. x \in Nat /\ x # 0 /\ x - 1 \in 0 .. k /\ ~ (x <= x - 1) /\ x \in 1 .. k
  BY <1>0, <1>1
<1>3. x - 1 \in T /\ x \notin T
  BY <1>1, <1>2 DEF U
<1> QED BY <1>2, <1>3

\* The first k steps of a recursion stay within S: step i takes x to F[i][x].
StepsWithin(F, S, k) == \A i \in 1 .. k, x \in S : F[i][x] \in S

\* f is the recursion that starts with a.
IsRun(f, F, S, a, k) ==
    f \in [0 .. k -> S] /\ f[0] = a /\ \A i \in 1 .. k : f[i] = F[i][f[i - 1]]

\* Recursion: there are values from a first one, by steps that are functions.
LEMMA RunExists ==
    ASSUME NEW S, NEW k \in Nat, NEW F, StepsWithin(F, S, k), NEW a \in S
    PROVE  \E f : IsRun(f, F, S, a, k)
<1> DEFINE Good(i, f) == /\ f \in [0 .. i -> S] /\ f[0] = a
                         /\ \A j \in 1 .. i : f[j] = F[j][f[j - 1]]
           T == {i \in 0 .. k : \E f : Good(i, f)}
<1>1. 0 \in T
  <2> DEFINE g == [i \in 0 .. 0 |-> a]
  <2>1. g \in [0 .. 0 -> S] /\ g[0] = a /\ \A j \in 1 .. 0 : FALSE
    OBVIOUS
  <2> HIDE DEF g
  <2>2. Good(0, g)
    BY <2>1
  <2>3. 0 \in 0 .. k
    OBVIOUS
  <2> QED BY <2>2, <2>3
<1>2. ASSUME NEW i \in 1 .. k, i - 1 \in T PROVE i \in T
  <2>1. PICK f : Good(i - 1, f)
    BY <1>2
  <2> DEFINE b == F[i][f[i - 1]]
             g == [j \in 0 .. i |-> IF j = i THEN b ELSE f[j]]
  <2>2. i \in Nat /\ i \in 0 .. k /\ i - 1 \in 0 .. i - 1 /\ f[i - 1] \in S
    BY <2>1
  <2>3. b \in S
    BY <2>2 DEF StepsWithin
  <2>4. \A j \in 0 .. i - 1 : j \in 0 .. i /\ j # i /\ g[j] = f[j] /\ f[j] \in S
    BY <2>1, <2>2
  <2>5. g[i] = b /\ i \in 0 .. i
    BY <2>2
  <2>6. g \in [0 .. i -> S]
    <3>1. \A j \in 0 .. i : j = i \/ j \in 0 .. i - 1
      BY <2>2
    <3> QED BY <2>3, <2>4, <2>5, <3>1
  <2>7. g[0] = a
    BY <2>1, <2>2, <2>4
  <2> HIDE DEF g
  <2>8. ASSUME NEW j \in 1 .. i PROVE g[j] = F[j][g[j - 1]]
    <3>1. j - 1 \in 0 .. i - 1 /\ g[j - 1] = f[j - 1]
      BY <2>2, <2>4
    <3>2. CASE j = i
      BY <2>5, <3>1, <3>2
    <3>3. CASE j # i
      <4>1. j \in 1 .. i - 1 /\ j \in 0 .. i - 1
        BY <3>3
      <4> QED BY <2>1, <2>4, <3>1, <4>1
    <3> QED BY <3>2, <3>3
  <2>9. Good(i, g)
    BY <2>6, <2>7, <2>8
  <2> QED BY <2>2, <2>9
<1>3. k \in T
  <2> HIDE DEF T
  <2>1. \A i \in 0 .. k : i \in T
    BY <1>1, <1>2, NumberInduction
  <2> QED BY <2>1
<1> QED BY <1>3 DEF IsRun

-----------------------------------------------------------------------------
(* Retain.                                                                 *)

\* f holds what is left of the first i members of s, for every i.
Retains(f, s, S, A) ==
    /\ f \in [0 .. Len(s) -> Seq(A)] /\ f[0] = <<>>
    /\ \A i \in 1 .. Len(s) : f[i] = IF s[i] \in S THEN Append(f[i - 1], s[i]) ELSE f[i - 1]

\* r has the members of the first n of s that are in S, from the places h.
Places(h, r, s, S, n) ==
    /\ h \in [1 .. Len(r) -> 1 .. n]
    /\ \A i \in 1 .. Len(r) : r[i] = s[h[i]] /\ r[i] \in S
    /\ \A i, j \in 1 .. Len(r) : i < j => h[i] < h[j]
    /\ \A k \in 1 .. n : s[k] \in S => \E i \in 1 .. Len(r) : h[i] = k

\* The steps of retain.
LEMMA RetainedSteps ==
    ASSUME NEW S, NEW A, NEW s \in Seq(A)
    PROVE  \E f : Retains(f, s, S, A) /\ Retained(s, S) = f[Len(s)]
<1> DEFINE F == [i \in 1 .. Len(s) |->
                    [t \in Seq(A) |-> IF s[i] \in S THEN Append(t, s[i]) ELSE t]]
           Is(f) == f = [i \in 0 .. Len(s) |-> IF i = 0 THEN <<>>
                          ELSE IF s[i] \in S THEN Append(f[i - 1], s[i]) ELSE f[i - 1]]
<1>1. Len(s) \in Nat /\ <<>> \in Seq(A)
  OBVIOUS
<1>2. PICK f : IsRun(f, F, Seq(A), <<>>, Len(s))
  <2>1. StepsWithin(F, Seq(A), Len(s))
    BY DEF StepsWithin
  <2> HIDE DEF F
  <2> QED BY <1>1, <2>1, RunExists
<1>3. \A i \in 1 .. Len(s) : i - 1 \in 0 .. Len(s) /\ f[i - 1] \in Seq(A)
  BY <1>1, <1>2 DEF IsRun
<1>4. \A i \in 1 .. Len(s) : f[i] = IF s[i] \in S THEN Append(f[i - 1], s[i]) ELSE f[i - 1]
  BY <1>2, <1>3 DEF IsRun
<1>5. Is(f)
  <2>1. \A i \in 0 .. Len(s) : i = 0 \/ i \in 1 .. Len(s)
    BY <1>1
  <2> QED BY <1>2, <1>4, <2>1 DEF IsRun
<1> DEFINE g == CHOOSE h : Is(h)
<1>6. Is(g)
  BY <1>5
<1>7. Retained(s, S) = g[Len(s)]
  BY DEF Retained
<1> HIDE DEF g
<1>71. g = [i \in 0 .. Len(s) |-> IF i = 0 THEN <<>>
              ELSE IF s[i] \in S THEN Append(g[i - 1], s[i]) ELSE g[i - 1]]
  BY <1>6
<1> HIDE DEF Is
<1>8. g[0] = <<>> /\ \A i \in 1 .. Len(s) : g[i] = IF s[i] \in S THEN Append(g[i - 1], s[i]) ELSE g[i - 1]
  <2>1. 0 \in 0 .. Len(s) /\ \A i \in 1 .. Len(s) : i \in 0 .. Len(s) /\ i # 0
    BY <1>1
  <2> QED BY <1>71, <2>1
<1>9. \A i \in 0 .. Len(s) : g[i] = f[i]
  <2> DEFINE T == {i \in 0 .. Len(s) : g[i] = f[i]}
  <2>1. 0 \in T
    BY <1>1, <1>2, <1>8 DEF IsRun
  <2>2. \A i \in 1 .. Len(s) : i - 1 \in T => i \in T
    BY <1>1, <1>4, <1>8
  <2> HIDE DEF T
  <2>3. \A i \in 0 .. Len(s) : i \in T
    BY <1>1, <2>1, <2>2, NumberInduction
  <2> QED BY <2>3 DEF T
<1>10. f \in [0 .. Len(s) -> Seq(A)] /\ f[0] = <<>> /\ Len(s) \in 0 .. Len(s)
  BY <1>1, <1>2 DEF IsRun
<1>11. Retained(s, S) = f[Len(s)]
  BY <1>7, <1>9, <1>10
<1> HIDE DEF F
<1> QED BY <1>4, <1>10, <1>11 DEF Retains

\* What is left of a sequence by retain: the members at the places that h
\* names, in order, which are all those with a member in S.
LEMMA RetainedPlaces ==
    ASSUME NEW S, NEW A, NEW s \in Seq(A)
    PROVE  LET r == Retained(s, S)
           IN  /\ r \in Seq(A)
               /\ \E h : Places(h, r, s, S, Len(s))
<1>1. PICK f : Retains(f, s, S, A) /\ Retained(s, S) = f[Len(s)]
  BY RetainedSteps
<1>2. Len(s) \in Nat /\ \A k \in 1 .. Len(s) : s[k] \in A
  OBVIOUS
<1> DEFINE T == {n \in 0 .. Len(s) : \E h : Places(h, f[n], s, S, n)}
<1>3. 0 \in T
  <2> DEFINE h == [i \in 1 .. 0 |-> 0]
  <2>1. f[0] = <<>> /\ Len(f[0]) = 0 /\ 0 \in 0 .. Len(s)
    BY <1>1, <1>2 DEF Retains
  <2>2. h \in [1 .. 0 -> 1 .. 0] /\ \A i \in 1 .. 0 : FALSE
    OBVIOUS
  <2> HIDE DEF h
  <2>3. Places(h, f[0], s, S, 0)
    BY <2>1, <2>2 DEF Places
  <2> QED BY <2>1, <2>3
<1>4. ASSUME NEW n \in 1 .. Len(s), n - 1 \in T PROVE n \in T
  <2> DEFINE q == f[n - 1]
             r == f[n]
  <2>1. n \in Nat /\ n - 1 \in Nat /\ n \in 0 .. Len(s) /\ n - 1 \in 0 .. Len(s)
    BY <1>2
  <2>2. q \in Seq(A) /\ Len(q) \in Nat /\ r = IF s[n] \in S THEN Append(q, s[n]) ELSE q
    <3>1. q \in Seq(A) /\ r = IF s[n] \in S THEN Append(q, s[n]) ELSE q
      BY <1>1, <2>1 DEF Retains
    <3> QED BY <3>1
  <2>3. PICK h : Places(h, q, s, S, n - 1)
    BY <1>4
  <2> HIDE DEF q, r
  <2>4. \A i \in 1 .. Len(q) : h[i] \in 1 .. n - 1 /\ h[i] < n /\ h[i] \in 1 .. n
    BY <2>1, <2>3 DEF Places
  <2>5. CASE s[n] \notin S
    <3>1. r = q /\ h \in [1 .. Len(r) -> 1 .. n]
      BY <2>2, <2>3, <2>4, <2>5 DEF Places
    <3>2. \A k \in 1 .. n : s[k] \in S => k \in 1 .. n - 1
      BY <2>1, <2>5
    <3>3. Places(h, r, s, S, n)
      BY <2>3, <3>1, <3>2 DEF Places
    <3> QED BY <2>1, <3>3 DEF r
  <2>6. CASE s[n] \in S
    <3> DEFINE g == [i \in 1 .. Len(q) + 1 |-> IF i = Len(q) + 1 THEN n ELSE h[i]]
    <3>1. /\ Len(r) = Len(q) + 1 /\ r[Len(q) + 1] = s[n]
          /\ \A i \in 1 .. Len(q) : r[i] = q[i]
      BY <1>2, <2>2, <2>6
    <3>2. /\ g[Len(q) + 1] = n /\ Len(q) + 1 \in 1 .. Len(r) /\ n \in 1 .. n
          /\ \A i \in 1 .. Len(q) : g[i] = h[i] /\ i \in 1 .. Len(r)
          /\ \A i \in 1 .. Len(r) : i \in 1 .. Len(q) \/ i = Len(q) + 1
      BY <2>1, <2>2, <3>1
    <3>3. g \in [1 .. Len(r) -> 1 .. n]
      BY <2>1, <2>2, <2>4, <3>1, <3>2
    <3> HIDE DEF g
    <3>4. \A i \in 1 .. Len(r) : r[i] = s[g[i]] /\ r[i] \in S
      BY <2>3, <2>6, <3>1, <3>2 DEF Places
    <3>5. \A i, j \in 1 .. Len(r) : i < j => g[i] < g[j]
      <4> SUFFICES ASSUME NEW i \in 1 .. Len(r), NEW j \in 1 .. Len(r), i < j
                   PROVE  g[i] < g[j]
        OBVIOUS
      <4>1. i \in 1 .. Len(q)
        BY <2>2, <3>1
      <4> QED BY <2>3, <2>4, <3>2, <4>1 DEF Places
    <3>6. \A k \in 1 .. n : s[k] \in S => \E i \in 1 .. Len(r) : g[i] = k
      <4> SUFFICES ASSUME NEW k \in 1 .. n, s[k] \in S PROVE \E i \in 1 .. Len(r) : g[i] = k
        OBVIOUS
      <4>1. CASE k = n
        BY <3>2, <4>1
      <4>2. CASE k # n
        <5>1. k \in 1 .. n - 1
          BY <2>1, <4>2
        <5>2. PICK i \in 1 .. Len(q) : h[i] = k
          BY <2>3, <5>1 DEF Places
        <5> QED BY <3>2, <5>2
      <4> QED BY <4>1, <4>2
    <3>7. Places(g, r, s, S, n)
      BY <3>3, <3>4, <3>5, <3>6 DEF Places
    <3> QED BY <2>1, <3>7 DEF r
  <2> QED BY <2>5, <2>6
<1>5. Len(s) \in T
  <2> HIDE DEF T
  <2>1. \A n \in 0 .. Len(s) : n \in T
    BY <1>2, <1>3, <1>4, NumberInduction
  <2> QED BY <1>2, <2>1
<1>6. f[Len(s)] \in Seq(A)
  BY <1>1, <1>2 DEF Retains
<1>7. PICK h : Places(h, f[Len(s)], s, S, Len(s))
  BY <1>5
<1> QED BY <1>1, <1>6, <1>7

\* The members that are left, and that none is left twice.
LEMMA RetainedMembers ==
    ASSUME NEW S, NEW A, NEW s \in Seq(A)
    PROVE  LET r == Retained(s, S)
           IN  /\ r \in Seq(A) /\ ToSet(r) = ToSet(s) \cap S
               /\ IsInjective(s) => IsInjective(r)
<1> DEFINE r == Retained(s, S)
<1>1. r \in Seq(A)
  BY RetainedPlaces
<1>2. PICK h : Places(h, r, s, S, Len(s))
  BY RetainedPlaces
<1> HIDE DEF r
<1>3. DOMAIN r = 1 .. Len(r) /\ Len(r) \in Nat /\ DOMAIN s = 1 .. Len(s) /\ Len(s) \in Nat
  BY <1>1
<1>4. ToSet(r) = ToSet(s) \cap S
  <2>1. ASSUME NEW x \in ToSet(r) PROVE x \in ToSet(s) \cap S
    BY <1>2, <1>3 DEF ToSet, Places
  <2>2. ASSUME NEW x \in ToSet(s) \cap S PROVE x \in ToSet(r)
    <3>1. PICK k \in 1 .. Len(s) : s[k] = x /\ x \in S
      BY <1>3 DEF ToSet
    <3>2. PICK i \in 1 .. Len(r) : h[i] = k
      BY <1>2, <3>1 DEF Places
    <3> QED BY <1>2, <1>3, <3>1, <3>2 DEF ToSet, Places
  <2> QED BY <2>1, <2>2
<1>5. ASSUME IsInjective(s) PROVE IsInjective(r)
  <2> SUFFICES ASSUME NEW i \in 1 .. Len(r), NEW j \in 1 .. Len(r), r[i] = r[j], i < j
               PROVE  FALSE
    BY <1>3 DEF IsInjective
  <2>1. h[i] \in Nat /\ h[j] \in Nat /\ h[i] < h[j] /\ h[i] \in DOMAIN s /\ h[j] \in DOMAIN s
    <3>1. h[i] \in 1 .. Len(s) /\ h[j] \in 1 .. Len(s) /\ h[i] < h[j]
      BY <1>2 DEF Places
    <3> QED BY <1>3, <3>1
  <2>2. s[h[i]] = s[h[j]]
    BY <1>2 DEF Places
  <2> QED BY <1>5, <2>1, <2>2 DEF IsInjective
<1> QED BY <1>1, <1>4, <1>5 DEF r

\* Inserting an element that was not there.
LEMMA InsertAtSet ==
    ASSUME NEW T, NEW s \in Seq(T), NEW e \in T, e \notin ToSet(s), IsInjective(s),
           NEW j \in 1 .. Len(s) + 1
    PROVE  LET r == InsertAt(s, j, e)
           IN  r \in Seq(T) /\ ToSet(r) = ToSet(s) \cup {e} /\ IsInjective(r)
<1> DEFINE r == InsertAt(s, j, e)
<1>1. /\ r \in Seq(T) /\ Len(r) = Len(s) + 1
      /\ \A m \in 1 .. j - 1 : r[m] = s[m]
      /\ r[j] = e
      /\ \A m \in j + 1 .. Len(s) + 1 : r[m] = s[m - 1]
  BY InsertAtProperties
<1> HIDE DEF r
<1>2. /\ Len(s) \in Nat /\ j \in Nat /\ DOMAIN s = 1 .. Len(s) /\ DOMAIN r = 1 .. Len(s) + 1
  BY <1>1
<1>3. \A i \in DOMAIN s : s[i] # e
  BY DEF ToSet
<1>4. \A m \in DOMAIN r : \/ m = j /\ r[m] = e
                          \/ m < j /\ m \in DOMAIN s /\ r[m] = s[m]
                          \/ m > j /\ m - 1 \in DOMAIN s /\ r[m] = s[m - 1]
  BY <1>1, <1>2
<1>5. ToSet(r) \subseteq ToSet(s) \cup {e}
  BY <1>4 DEF ToSet
<1>6. e \in ToSet(r)
  BY <1>1, <1>2 DEF ToSet
<1>7. ASSUME NEW i \in DOMAIN s PROVE s[i] \in ToSet(r)
  <2>1. CASE i < j
    <3>1. i \in DOMAIN r /\ r[i] = s[i]
      BY <1>1, <1>2, <2>1
    <3> QED BY <3>1 DEF ToSet
  <2>2. CASE ~ (i < j)
    <3>1. i + 1 \in DOMAIN r /\ i + 1 \in j + 1 .. Len(s) + 1 /\ (i + 1) - 1 = i
      BY <1>2, <2>2
    <3>2. r[i + 1] = s[i]
      BY <1>1, <3>1
    <3> QED BY <3>1, <3>2 DEF ToSet
  <2> QED BY <2>1, <2>2
<1>8. \A a, b \in DOMAIN s : s[a] = s[b] => a = b
  BY DEF IsInjective
<1>9. \A a, b \in DOMAIN r : r[a] = r[b] => a = b
  <2> SUFFICES ASSUME NEW a \in DOMAIN r, NEW b \in DOMAIN r, r[a] = r[b] PROVE a = b
    OBVIOUS
  <2>1. a \in Int /\ b \in Int
    BY <1>2
  <2> QED BY <1>2, <1>3, <1>4, <1>8, <2>1
<1>10. ToSet(s) \subseteq ToSet(r)
  BY <1>7 DEF ToSet
<1> QED BY <1>1, <1>5, <1>6, <1>9, <1>10 DEF IsInjective, r

\* Two sequences without a common element, one after the other.
LEMMA ConcatSet ==
    ASSUME NEW T, NEW s \in Seq(T), NEW t \in Seq(T), IsInjective(s), IsInjective(t),
           ToSet(s) \cap ToSet(t) = {}
    PROVE  LET r == s \o t
           IN  r \in Seq(T) /\ ToSet(r) = ToSet(s) \cup ToSet(t) /\ IsInjective(r)
<1> DEFINE r == s \o t
<1>1. /\ r \in Seq(T) /\ Len(r) = Len(s) + Len(t) /\ Len(s) \in Nat /\ Len(t) \in Nat
      /\ DOMAIN s = 1 .. Len(s) /\ DOMAIN t = 1 .. Len(t) /\ DOMAIN r = 1 .. Len(s) + Len(t)
      /\ \A i \in 1 .. Len(s) : r[i] = s[i]
      /\ \A i \in 1 .. Len(s) + Len(t) : i > Len(s) => r[i] = t[i - Len(s)]
  BY ConcatAt
<1> HIDE DEF r
<1>2. \A i \in DOMAIN r : \/ i \in DOMAIN s /\ r[i] = s[i]
                          \/ i > Len(s) /\ i - Len(s) \in DOMAIN t /\ r[i] = t[i - Len(s)]
  BY <1>1
<1>3. ToSet(r) \subseteq ToSet(s) \cup ToSet(t)
  BY <1>2 DEF ToSet
<1>4. ASSUME NEW i \in DOMAIN s PROVE s[i] \in ToSet(r)
  <2>1. i \in DOMAIN r /\ r[i] = s[i]
    BY <1>1
  <2> QED BY <2>1 DEF ToSet
<1>5. ASSUME NEW i \in DOMAIN t PROVE t[i] \in ToSet(r)
  <2>1. i + Len(s) \in DOMAIN r /\ i + Len(s) > Len(s) /\ (i + Len(s)) - Len(s) = i
    BY <1>1
  <2>2. r[i + Len(s)] = t[i]
    BY <1>1, <2>1
  <2> QED BY <2>1, <2>2 DEF ToSet
<1>6. \A i \in DOMAIN s, j \in DOMAIN t : s[i] # t[j]
  BY DEF ToSet
<1>7. \A a, b \in DOMAIN r : r[a] = r[b] => a = b
  <2> SUFFICES ASSUME NEW a \in DOMAIN r, NEW b \in DOMAIN r, r[a] = r[b] PROVE a = b
    OBVIOUS
  <2>1. a \in Int /\ b \in Int
    BY <1>1
  <2>2. /\ \A i, j \in DOMAIN s : s[i] = s[j] => i = j
        /\ \A i, j \in DOMAIN t : t[i] = t[j] => i = j
    BY DEF IsInjective
  <2>3. CASE a \in DOMAIN s /\ r[a] = s[a]
    BY <1>2, <1>6, <2>2, <2>3
  <2>4. CASE a > Len(s) /\ a - Len(s) \in DOMAIN t /\ r[a] = t[a - Len(s)]
    <3>1. b > Len(s) /\ b - Len(s) \in DOMAIN t /\ r[b] = t[b - Len(s)]
      BY <1>2, <1>6, <2>4
    <3>2. a - Len(s) = b - Len(s)
      BY <2>2, <2>4, <3>1
    <3> QED BY <1>1, <2>1, <3>2
  <2> QED BY <1>2, <2>3, <2>4
<1>8. ToSet(s) \subseteq ToSet(r) /\ ToSet(t) \subseteq ToSet(r)
  BY <1>4, <1>5 DEF ToSet
<1> QED BY <1>1, <1>3, <1>7, <1>8 DEF IsInjective, r

\* The last element is replaced.
LEMMA TopFacts ==
    ASSUME NEW S, NEW s \in Seq(S), s # <<>>, NEW f \in S
    PROVE  LET r == Front(s) \o <<f>>
           IN  /\ Len(s) \in Nat /\ Len(s) > 0 /\ Last(s) = s[Len(s)] /\ Last(s) \in S
               /\ r \in Seq(S) /\ Len(r) = Len(s)
               /\ DOMAIN r = 1 .. Len(s) /\ DOMAIN s = 1 .. Len(s)
               /\ \A i \in 1 .. Len(s) : r[i] = IF i = Len(s) THEN f ELSE s[i]
<1>1. Len(s) \in Nat /\ Len(s) > 0 /\ DOMAIN s = 1 .. Len(s)
  OBVIOUS
<1> DEFINE a == Front(s)
           b == <<f>>
           r == a \o b
<1>2. a \in Seq(S) /\ Len(a) = Len(s) - 1 /\ \A i \in 1 .. Len(s) - 1 : a[i] = s[i]
  BY <1>1 DEF Front
<1>3. b \in Seq(S) /\ Len(b) = 1 /\ b[1] = f
  OBVIOUS
<1> HIDE DEF a, b
<1>4. /\ r \in Seq(S) /\ Len(r) = Len(a) + Len(b)
      /\ \A i \in 1 .. Len(a) : r[i] = a[i]
      /\ \A i \in 1 .. Len(a) + Len(b) : i > Len(a) => r[i] = b[i - Len(a)]
  BY <1>2, <1>3, ConcatAt
<1> HIDE DEF r
<1>5. ASSUME NEW i \in 1 .. Len(s) PROVE r[i] = IF i = Len(s) THEN f ELSE s[i]
  <2>1. CASE i = Len(s)
    <3>1. i \in 1 .. Len(a) + Len(b) /\ i > Len(a) /\ i - Len(a) = 1
      BY <1>1, <1>2, <1>3, <2>1
    <3> QED BY <1>3, <1>4, <2>1, <3>1
  <2>2. CASE i # Len(s)
    <3>0. ASSUME NEW k \in Nat, NEW j \in 1 .. k, j # k PROVE j \in 1 .. k - 1
      BY <3>0
    <3>1. i \in 1 .. Len(s) - 1
      BY <1>1, <2>2, <3>0
    <3>2. i \in 1 .. Len(a)
      BY <1>2, <3>1
    <3> QED BY <1>2, <1>4, <2>2, <3>1, <3>2
  <2> QED BY <2>1, <2>2
<1>6. Last(s) = s[Len(s)] /\ s[Len(s)] \in S
  BY <1>1 DEF Last
<1>7. Len(r) = Len(s) /\ DOMAIN r = 1 .. Len(s)
  BY <1>1, <1>2, <1>3, <1>4
<1> QED BY <1>1, <1>4, <1>5, <1>6, <1>7 DEF r, a, b

\* Retain looks at one member after the other.
LEMMA RetainedAppend ==
    ASSUME NEW S, NEW A, NEW s \in Seq(A), NEW x \in A
    PROVE  Retained(Append(s, x), S) = IF x \in S THEN Append(Retained(s, S), x) ELSE Retained(s, S)
<1> DEFINE t == Append(s, x)
           n == Len(s)
<1>1. /\ t \in Seq(A) /\ Len(t) = n + 1 /\ n \in Nat /\ t[n + 1] = x
      /\ \A i \in 1 .. n : t[i] = s[i]
  OBVIOUS
<1> HIDE DEF t
<1>2. PICK f : Retains(f, s, S, A) /\ Retained(s, S) = f[n]
  BY RetainedSteps
<1>3. PICK g : Retains(g, t, S, A) /\ Retained(t, S) = g[Len(t)]
  BY <1>1, RetainedSteps
<1> HIDE DEF n
<1>4. /\ f[0] = <<>>
      /\ \A i \in 1 .. n : f[i] = IF s[i] \in S THEN Append(f[i - 1], s[i]) ELSE f[i - 1]
  BY <1>2 DEF Retains, n
<1>5. /\ g[0] = <<>>
      /\ \A i \in 1 .. n + 1 : g[i] = IF t[i] \in S THEN Append(g[i - 1], t[i]) ELSE g[i - 1]
  BY <1>1, <1>3 DEF Retains
<1> DEFINE T == {i \in 0 .. n : g[i] = f[i]}
<1>6. 0 \in T
  BY <1>1, <1>4, <1>5
<1>7. \A i \in 1 .. n : i - 1 \in T => i \in T
  <2> TAKE i \in 1 .. n
  <2>1. i \in 1 .. n + 1 /\ i \in 0 .. n
    BY <1>1
  <2> QED BY <1>1, <1>4, <1>5, <2>1
<1> HIDE DEF T
<1>8. \A i \in 0 .. n : i \in T
  BY <1>1, <1>6, <1>7, NumberInduction
<1>9. g[n] = f[n]
  BY <1>1, <1>8 DEF T
<1>10. n + 1 \in 1 .. n + 1 /\ n + 1 - 1 = n
  BY <1>1
<1>11. g[n + 1] = IF x \in S THEN Append(f[n], x) ELSE f[n]
  BY <1>1, <1>5, <1>9, <1>10
<1> QED BY <1>1, <1>2, <1>3, <1>11 DEF t

\* The beginnings of a sequence.
LEMMA Beginnings ==
    ASSUME NEW A, NEW s \in Seq(A)
    PROVE  /\ SubSeq(s, 1, 0) = <<>> /\ SubSeq(s, 1, Len(s)) = s
           /\ \A k \in 1 .. Len(s) :
                /\ SubSeq(s, 1, k - 1) \in Seq(A)
                /\ SubSeq(s, 1, k) = Append(SubSeq(s, 1, k - 1), s[k])
<1>1. SubSeq(s, 1, 0) = <<>> /\ SubSeq(s, 1, Len(s)) = s
  OBVIOUS
<1>2. ASSUME NEW k \in 1 .. Len(s)
      PROVE  /\ SubSeq(s, 1, k - 1) \in Seq(A)
             /\ SubSeq(s, 1, k) = Append(SubSeq(s, 1, k - 1), s[k])
  <2> DEFINE a == SubSeq(s, 1, k - 1)
             b == SubSeq(s, 1, k)
  <2>1. a \in Seq(A) /\ Len(a) = k - 1 /\ \A i \in 1 .. k - 1 : a[i] = s[i]
    OBVIOUS
  <2>2. b \in Seq(A) /\ Len(b) = k /\ \A i \in 1 .. k : b[i] = s[i]
    OBVIOUS
  <2> HIDE DEF a, b
  <2>3. /\ Append(a, s[k]) \in Seq(A) /\ Len(Append(a, s[k])) = k
        /\ \A i \in 1 .. k : Append(a, s[k])[i] = s[i]
    BY <2>1
  <2>4. b = Append(a, s[k])
    <3> DEFINE c == Append(a, s[k])
    <3>1. c \in Seq(A) /\ Len(c) = k /\ \A i \in 1 .. k : c[i] = b[i]
      BY <2>2, <2>3
    <3> HIDE DEF c
    <3>2. b = c
      BY <2>2, <3>1
    <3> QED BY <3>2 DEF c
  <2> QED BY <2>1, <2>4 DEF a, b
<1> QED BY <1>1, <1>2

\* To retain twice is to retain what passes both tests.
LEMMA RetainedTwice ==
    ASSUME NEW S, NEW T, NEW A, NEW s \in Seq(A)
    PROVE  Retained(Retained(s, S), T) = Retained(s, S \cap T)
<1> DEFINE b(k) == SubSeq(s, 1, k)
           n == Len(s)
           U == {k \in 0 .. n : Retained(Retained(b(k), S), T) = Retained(b(k), S \cap T)}
<1>0. n \in Nat
  OBVIOUS
<1>1. /\ b(0) = <<>> /\ b(n) = s
      /\ \A k \in 1 .. n : b(k - 1) \in Seq(A) /\ b(k) = Append(b(k - 1), s[k]) /\ s[k] \in A
  BY Beginnings
<1> HIDE DEF b
<1>2. \A V : Retained(<<>>, V) = <<>>
  <2> TAKE V
  <2>1. <<>> \in Seq({}) /\ Len(<<>>) = 0
    OBVIOUS
  <2>2. PICK f : Retains(f, <<>>, V, {}) /\ Retained(<<>>, V) = f[0]
    BY <2>1, RetainedSteps
  <2> QED BY <2>2 DEF Retains
<1>3. 0 \in U
  BY <1>0, <1>1, <1>2
<1>4. ASSUME NEW k \in 1 .. n, k - 1 \in U PROVE k \in U
  <2> DEFINE p == b(k - 1)
             x == s[k]
             q == Retained(p, S)
  <2>1. p \in Seq(A) /\ x \in A /\ b(k) = Append(p, x) /\ k \in 0 .. n
    BY <1>0, <1>1
  <2>2. Retained(q, T) = Retained(p, S \cap T)
    BY <1>4
  <2> HIDE DEF p, x
  <2>3. q \in Seq(A)
    BY <2>1, RetainedMembers
  <2>4. Retained(Append(p, x), S) = IF x \in S THEN Append(q, x) ELSE q
    BY <2>1, RetainedAppend
  <2>5. Retained(Append(p, x), S \cap T) =
          IF x \in S \cap T THEN Append(Retained(p, S \cap T), x) ELSE Retained(p, S \cap T)
    BY <2>1, RetainedAppend
  <2> HIDE DEF q
  <2>6. Retained(Append(q, x), T) = IF x \in T THEN Append(Retained(q, T), x) ELSE Retained(q, T)
    BY <2>1, <2>3, RetainedAppend
  <2>7. Retained(Retained(Append(p, x), S), T) = Retained(Append(p, x), S \cap T)
    <3>1. CASE x \in S
      <4>1. x \in S \cap T <=> x \in T
        BY <3>1
      <4>2. Retained(Append(p, x), S) = Append(q, x)
        BY <2>4, <3>1
      <4>3. Retained(Retained(Append(p, x), S), T) = Retained(Append(q, x), T)
        BY <4>2
      <4>4. CASE x \in T
        <5>1. Retained(Append(q, x), T) = Append(Retained(p, S \cap T), x)
          BY <2>2, <2>6, <4>4
        <5>2. Retained(Append(p, x), S \cap T) = Append(Retained(p, S \cap T), x)
          BY <2>5, <4>1, <4>4
        <5> QED BY <4>3, <5>1, <5>2
      <4>5. CASE x \notin T
        <5>1. Retained(Append(q, x), T) = Retained(p, S \cap T)
          BY <2>2, <2>6, <4>5
        <5>2. Retained(Append(p, x), S \cap T) = Retained(p, S \cap T)
          BY <2>5, <4>1, <4>5
        <5> QED BY <4>3, <5>1, <5>2
      <4> QED BY <4>4, <4>5
    <3>2. CASE x \notin S
      BY <2>2, <2>4, <2>5, <3>2
    <3> QED BY <3>1, <3>2
  <2> QED BY <2>1, <2>7
<1> HIDE DEF U
<1>5. \A k \in 0 .. n : k \in U
  BY <1>0, <1>3, <1>4, NumberInduction
<1>6. n \in U
  BY <1>0, <1>5
<1> HIDE DEF n
<1> QED BY <1>1, <1>6 DEF U

\* Flattening joins one sequence after the other.
LEMMA FlattenSteps ==
    ASSUME NEW A, NEW s \in Seq(Seq(A)), s # <<>>
    PROVE  \E h : /\ FlattenSeq(s) = h[Len(s)] /\ h[1] = s[1]
                  /\ \A i \in 1 .. Len(s) : h[i] \in Seq(A) /\ (i # 1 => h[i] = h[i - 1] \o s[i])
<1>1. Len(s) \in Nat /\ Len(s) # 0
  OBVIOUS
<1> DEFINE F == [i \in 1 .. Len(s) |-> [t \in Seq(A) |-> IF i = 1 THEN s[i] ELSE t \o s[i]]]
           Is(f) == f = [i \in 1 .. Len(s) |-> IF i = 1 THEN s[i] ELSE f[i - 1] \o s[i]]
<1>2. StepsWithin(F, Seq(A), Len(s))
  <2> SUFFICES ASSUME NEW i \in 1 .. Len(s), NEW t \in Seq(A)
               PROVE  (IF i = 1 THEN s[i] ELSE t \o s[i]) \in Seq(A)
    BY DEF StepsWithin
  <2>1. s[i] \in Seq(A)
    BY <1>1
  <2> QED BY <2>1
<1>3. PICK f : IsRun(f, F, Seq(A), <<>>, Len(s))
  <2> HIDE DEF F
  <2>1. <<>> \in Seq(A)
    OBVIOUS
  <2> QED BY <1>1, <1>2, <2>1, RunExists
<1> DEFINE g == [i \in 1 .. Len(s) |-> f[i]]
<1>4. ASSUME NEW i \in 1 .. Len(s)
      PROVE  f[i] = IF i = 1 THEN s[i] ELSE f[i - 1] \o s[i]
  <2>1. i - 1 \in 0 .. Len(s) /\ f \in [0 .. Len(s) -> Seq(A)] /\ f[i] = F[i][f[i - 1]]
    <3> HIDE DEF F
    <3> QED BY <1>1, <1>3 DEF IsRun
  <2>2. f[i - 1] \in Seq(A)
    BY <2>1
  <2> QED BY <2>1, <2>2
<1>5. Is(g)
  <2>1. \A i \in 1 .. Len(s) : g[i] = IF i = 1 THEN s[i] ELSE g[i - 1] \o s[i]
    <3> TAKE i \in 1 .. Len(s)
    <3>1. i # 1 => i - 1 \in 1 .. Len(s)
      BY <1>1
    <3> QED BY <1>4, <3>1
  <2> QED BY <2>1
<1> DEFINE h == CHOOSE f2 : Is(f2)
<1>6. Is(h)
  BY <1>5
<1>7. FlattenSeq(s) = h[Len(s)]
  BY <1>1 DEF FlattenSeq
<1> HIDE DEF h
<1>8. \A i \in 1 .. Len(s) : h[i] = IF i = 1 THEN s[i] ELSE h[i - 1] \o s[i]
  BY <1>6
<1> HIDE DEF Is
<1> DEFINE T == {i \in 0 .. Len(s) : i # 0 => h[i] \in Seq(A)}
<1>9. 0 \in T
  BY <1>1
<1>10. ASSUME NEW i \in 1 .. Len(s), i - 1 \in T PROVE i \in T
  <2>1. s[i] \in Seq(A) /\ i \in 0 .. Len(s)
    BY <1>1
  <2>2. i # 1 => h[i - 1] \in Seq(A)
    BY <1>1, <1>10
  <2>3. CASE i = 1
    BY <1>8, <2>1, <2>3
  <2>4. CASE i # 1
    <3> DEFINE a == h[i - 1]
               b == s[i]
    <3>1. a \in Seq(A) /\ b \in Seq(A) /\ h[i] = a \o b
      BY <1>8, <2>1, <2>2, <2>4
    <3> HIDE DEF a, b
    <3>2. h[i] \in Seq(A)
      BY <3>1
    <3> QED BY <2>1, <3>2
  <2> QED BY <2>3, <2>4
<1> HIDE DEF T
<1>11. \A i \in 0 .. Len(s) : i \in T
  BY <1>1, <1>9, <1>10, NumberInduction
<1>12. \A i \in 1 .. Len(s) : h[i] \in Seq(A) /\ (i # 1 => h[i] = h[i - 1] \o s[i])
  <2> TAKE i \in 1 .. Len(s)
  <2>1. i \in 0 .. Len(s) /\ i # 0
    BY <1>1
  <2> QED BY <1>8, <1>11, <2>1 DEF T
<1>13. h[1] = s[1]
  BY <1>1, <1>8
<1> QED BY <1>7, <1>12, <1>13

\* The members of the first n sequences of s.
JoinedSet(s, n) == UNION {ToSet(s[i]) : i \in 1 .. n}

\* None of the sequences of s has a member twice, and no two have one in common.
AllApart(s) ==
    /\ \A i \in DOMAIN s : IsInjective(s[i])
    /\ \A i, j \in DOMAIN s : i # j => ToSet(s[i]) \cap ToSet(s[j]) = {}

LEMMA ConcatMembers ==
    ASSUME NEW T, NEW s \in Seq(T), NEW t \in Seq(T)
    PROVE  s \o t \in Seq(T) /\ ToSet(s \o t) = ToSet(s) \cup ToSet(t)
<1> DEFINE r == s \o t
<1>1. /\ r \in Seq(T) /\ Len(r) = Len(s) + Len(t) /\ Len(s) \in Nat /\ Len(t) \in Nat
      /\ DOMAIN r = 1 .. Len(s) + Len(t) /\ DOMAIN s = 1 .. Len(s) /\ DOMAIN t = 1 .. Len(t)
      /\ \A i \in 1 .. Len(s) : r[i] = s[i]
      /\ \A i \in 1 .. Len(s) + Len(t) : i > Len(s) => r[i] = t[i - Len(s)]
  BY ConcatAt
<1> HIDE DEF r
<1>2. ToSet(r) \subseteq ToSet(s) \cup ToSet(t)
  <2> SUFFICES ASSUME NEW i \in 1 .. Len(s) + Len(t) PROVE r[i] \in ToSet(s) \cup ToSet(t)
    BY <1>1 DEF ToSet
  <2>1. CASE i \in 1 .. Len(s)
    BY <1>1, <2>1 DEF ToSet
  <2>2. CASE i \notin 1 .. Len(s)
    <3>1. i > Len(s) /\ i - Len(s) \in 1 .. Len(t)
      BY <1>1, <2>2
    <3> QED BY <1>1, <3>1 DEF ToSet
  <2> QED BY <2>1, <2>2
<1>3. ToSet(s) \subseteq ToSet(r)
  <2> SUFFICES ASSUME NEW i \in 1 .. Len(s) PROVE s[i] \in ToSet(r)
    BY <1>1 DEF ToSet
  <2>1. i \in DOMAIN r /\ r[i] = s[i]
    BY <1>1
  <2> QED BY <2>1 DEF ToSet
<1>4. ToSet(t) \subseteq ToSet(r)
  <2> SUFFICES ASSUME NEW i \in 1 .. Len(t) PROVE t[i] \in ToSet(r)
    BY <1>1 DEF ToSet
  <2>1. i + Len(s) \in 1 .. Len(s) + Len(t) /\ i + Len(s) > Len(s) /\ i + Len(s) - Len(s) = i
    BY <1>1
  <2>2. i + Len(s) \in DOMAIN r /\ r[i + Len(s)] = t[i]
    BY <1>1, <2>1
  <2> QED BY <2>2 DEF ToSet
<1> QED BY <1>1, <1>2, <1>3, <1>4 DEF r

\* What flattening gives.
LEMMA FlattenFacts ==
    ASSUME NEW A, NEW s \in Seq(Seq(A))
    PROVE  LET r == FlattenSeq(s)
           IN  /\ r \in Seq(A) /\ ToSet(r) = JoinedSet(s, Len(s))
               /\ AllApart(s) => IsInjective(r)
<1>1. Len(s) \in Nat /\ DOMAIN s = 1 .. Len(s) /\ \A i \in 1 .. Len(s) : s[i] \in Seq(A)
  OBVIOUS
<1>2. CASE s = <<>>
  <2>1. FlattenSeq(s) = <<>> /\ Len(s) = 0
    BY <1>2 DEF FlattenSeq
  <2>2. DOMAIN <<>> = {} /\ <<>> \in Seq(A) /\ 1 .. 0 = {}
    OBVIOUS
  <2>3. ToSet(<<>>) = {} /\ IsInjective(<<>>)
    BY <2>2 DEF ToSet, IsInjective
  <2>4. JoinedSet(s, 0) = {}
    BY <2>2 DEF JoinedSet
  <2> QED BY <2>1, <2>2, <2>3, <2>4
<1>3. CASE s # <<>>
  <2>1. PICK h : /\ FlattenSeq(s) = h[Len(s)] /\ h[1] = s[1]
                 /\ \A i \in 1 .. Len(s) : h[i] \in Seq(A) /\ (i # 1 => h[i] = h[i - 1] \o s[i])
    BY <1>3, FlattenSteps
  <2>2. Len(s) # 0
    BY <1>3
  <2> DEFINE T == {i \in 0 .. Len(s) : i # 0 => /\ ToSet(h[i]) = JoinedSet(s, i)
                                                /\ AllApart(s) => IsInjective(h[i])}
  <2>3. 0 \in T
    BY <1>1
  <2>4. ASSUME NEW i \in 1 .. Len(s), i - 1 \in T PROVE i \in T
    <3>1. i \in 0 .. Len(s) /\ h[i] \in Seq(A) /\ s[i] \in Seq(A)
      BY <1>1, <2>1
    <3>2. CASE i = 1
      <4>1. h[i] = s[1] /\ 1 .. 1 = {1}
        BY <2>1, <3>2
      <4>2. JoinedSet(s, 1) = ToSet(s[1])
        BY <4>1 DEF JoinedSet
      <4>3. AllApart(s) => IsInjective(s[1])
        <5>1. 1 \in DOMAIN s
          BY <1>1, <2>2
        <5> QED BY <5>1 DEF AllApart
      <4> QED BY <3>1, <3>2, <4>1, <4>2, <4>3
    <3>3. CASE i # 1
      <4> DEFINE a == h[i - 1]
                 b == s[i]
                 J == JoinedSet(s, i - 1)
      <4>1. /\ a \in Seq(A) /\ b \in Seq(A) /\ h[i] = a \o b
            /\ ToSet(a) = J /\ (AllApart(s) => IsInjective(a))
        <5>1. i - 1 \in 1 .. Len(s) /\ i - 1 # 0
          BY <1>1, <3>3
        <5> QED BY <2>1, <2>4, <3>1, <3>3, <5>1
      <4>2. JoinedSet(s, i) = J \cup ToSet(b)
        <5>1. 1 .. i = (1 .. i - 1) \cup {i}
          OBVIOUS
        <5> QED BY <5>1 DEF JoinedSet
      <4>3. AllApart(s) => J \cap ToSet(b) = {} /\ IsInjective(b)
        <5>1. \A j \in 1 .. i - 1 : j \in DOMAIN s /\ j # i
          BY <1>1
        <5>2. i \in DOMAIN s
          BY <1>1
        <5> SUFFICES ASSUME AllApart(s) PROVE J \cap ToSet(b) = {} /\ IsInjective(b)
          OBVIOUS
        <5>3. \A j \in 1 .. i - 1 : ToSet(s[j]) \cap ToSet(b) = {}
          BY <5>1, <5>2 DEF AllApart
        <5>4. IsInjective(b)
          BY <5>2 DEF AllApart
        <5> HIDE DEF b
        <5> QED BY <5>3, <5>4 DEF JoinedSet
      <4> HIDE DEF a, b, J
      <4>4. ToSet(a \o b) = ToSet(a) \cup ToSet(b)
        BY <4>1, ConcatMembers
      <4>5. AllApart(s) => IsInjective(a \o b)
        BY <4>1, <4>3, ConcatSet
      <4> QED BY <3>1, <4>1, <4>2, <4>4, <4>5
    <3> QED BY <3>2, <3>3
  <2> HIDE DEF T
  <2>5. \A i \in 0 .. Len(s) : i \in T
    BY <1>1, <2>3, <2>4, NumberInduction
  <2>6. Len(s) \in 0 .. Len(s) /\ Len(s) \in 1 .. Len(s)
    BY <1>1, <2>2
  <2>7. ToSet(h[Len(s)]) = JoinedSet(s, Len(s)) /\ (AllApart(s) => IsInjective(h[Len(s)]))
    BY <2>2, <2>5, <2>6 DEF T
  <2> QED BY <2>1, <2>6, <2>7
<1> QED BY <1>2, <1>3

-----------------------------------------------------------------------------
(* Recursion over numbers, from the last one down and from the first one up. *)

\* What holds of a number when it holds of those below it, or above it, holds of all.
LEMMA UpwardInduction ==
    ASSUME NEW n \in Nat, NEW T, \A i \in 1 .. n : 1 .. i - 1 \subseteq T => i \in T
    PROVE  1 .. n \subseteq T
<1> SUFFICES ASSUME {i \in 1 .. n : i \notin T} # {} PROVE FALSE
  OBVIOUS
<1> DEFINE M == {i \in 1 .. n : i \notin T}
<1>1. M \subseteq Nat /\ M # {}
  OBVIOUS
<1> HIDE DEF M
<1>2. PICK x \in M : \A y \in M : x <= y
  BY <1>1, LeastNumber
<1>3. x \in 1 .. n /\ x \notin T /\ \A y \in 1 .. n : y \notin T => x <= y
  BY <1>2 DEF M
<1>4. \A y \in 1 .. x - 1 : y \in 1 .. n /\ ~ (x <= y)
  BY <1>3
<1> QED BY <1>3, <1>4

LEMMA DownwardInduction ==
    ASSUME NEW n \in Nat, NEW T, \A i \in 1 .. n : i + 1 .. n \subseteq T => i \in T
    PROVE  1 .. n \subseteq T
<1> DEFINE D == {i \in 1 .. n : n + 1 - i \in T}
<1>1. ASSUME NEW i \in 1 .. n, 1 .. i - 1 \subseteq D PROVE i \in D
  <2> DEFINE m == n + 1 - i
  <2>1. m \in 1 .. n
    OBVIOUS
  <2>2. \A j \in m + 1 .. n : n + 1 - j \in 1 .. i - 1 /\ n + 1 - (n + 1 - j) = j
    OBVIOUS
  <2>3. m + 1 .. n \subseteq T
    BY <1>1, <2>2
  <2> QED BY <2>1, <2>3
<1> HIDE DEF D
<1>2. 1 .. n \subseteq D
  BY <1>1, UpwardInduction
<1>3. \A i \in 1 .. n : n + 1 - i \in 1 .. n /\ n + 1 - (n + 1 - i) = i
  OBVIOUS
<1> QED BY <1>2, <1>3 DEF D

\* F[i] says what is at i from what is above it, or from what is below it.
StepsDown(F, S, n) == \A i \in 1 .. n : \A f \in [i + 1 .. n -> S] : F[i][f] \in S
StepsUp(F, S, n) == \A i \in 1 .. n : \A f \in [1 .. i - 1 -> S] : F[i][f] \in S

\* g is what the recursion gives.
IsDescent(g, F, S, n) ==
    g \in [1 .. n -> S] /\ \A i \in 1 .. n : g[i] = F[i][[j \in i + 1 .. n |-> g[j]]]

IsAscent(g, F, S, n) ==
    g \in [1 .. n -> S] /\ \A i \in 1 .. n : g[i] = F[i][[j \in 1 .. i - 1 |-> g[j]]]

LEMMA DescentExists ==
    ASSUME NEW S, NEW n \in Nat, NEW F, StepsDown(F, S, n)
    PROVE  \E g : IsDescent(g, F, S, n)
<1> DEFINE Good(k, g) == /\ g \in [n - k + 1 .. n -> S]
                         /\ \A i \in n - k + 1 .. n : g[i] = F[i][[j \in i + 1 .. n |-> g[j]]]
           T == {k \in 0 .. n : \E g : Good(k, g)}
<1>1. 0 \in T
  <2> DEFINE e == [i \in n + 1 .. n |-> 0]
  <2>1. n + 1 .. n = {} /\ n - 0 + 1 = n + 1 /\ 0 \in 0 .. n
    OBVIOUS
  <2>2. e \in [n + 1 .. n -> S] /\ \A i \in n + 1 .. n : FALSE
    BY <2>1
  <2>3. Good(0, e)
    BY <2>1, <2>2
  <2> QED BY <2>1, <2>3
<1>2. ASSUME NEW k \in 1 .. n, k - 1 \in T PROVE k \in T
  <2>1. PICK f : Good(k - 1, f)
    BY <1>2
  <2> DEFINE m == n - k + 1
             b == F[m][f]
             g == [i \in m .. n |-> IF i = m THEN b ELSE f[i]]
  <2>2. m \in 1 .. n /\ n - (k - 1) + 1 = m + 1 /\ k \in 0 .. n
    OBVIOUS
  <2>3. f \in [m + 1 .. n -> S] /\ \A i \in m + 1 .. n : f[i] = F[i][[j \in i + 1 .. n |-> f[j]]]
    BY <2>1, <2>2
  <2> HIDE DEF m
  <2>4. b \in S
    BY <2>2, <2>3 DEF StepsDown
  <2>5. m .. n = {m} \cup (m + 1 .. n) /\ m \notin m + 1 .. n
    BY <2>2
  <2>6. g[m] = b /\ \A i \in m + 1 .. n : g[i] = f[i]
    BY <2>5
  <2>7. g \in [m .. n -> S]
    BY <2>3, <2>4, <2>5
  <2> HIDE DEF g
  <2>8. ASSUME NEW i \in m .. n PROVE g[i] = F[i][[j \in i + 1 .. n |-> g[j]]]
    <3>1. i + 1 .. n \subseteq m + 1 .. n
      BY <2>2
    <3>2. [j \in i + 1 .. n |-> g[j]] = [j \in i + 1 .. n |-> f[j]]
      BY <2>6, <3>1
    <3>3. CASE i = m
      <4>1. [j \in m + 1 .. n |-> f[j]] = f
        BY <2>3
      <4> QED BY <2>6, <3>2, <3>3, <4>1
    <3>4. CASE i # m
      <4>1. i \in m + 1 .. n
        BY <2>5, <3>4
      <4> QED BY <2>3, <2>6, <3>2, <4>1
    <3> QED BY <3>3, <3>4
  <2>9. Good(k, g)
    BY <2>7, <2>8 DEF m
  <2> QED BY <2>2, <2>9
<1>3. n \in T
  <2> HIDE DEF T
  <2>1. \A i \in 0 .. n : i \in T
    BY <1>1, <1>2, NumberInduction
  <2> QED BY <2>1
<1>4. n - n + 1 = 1
  OBVIOUS
<1>5. PICK g : Good(n, g)
  BY <1>3
<1>6. g \in [1 .. n -> S] /\ \A i \in 1 .. n : g[i] = F[i][[j \in i + 1 .. n |-> g[j]]]
  BY <1>4, <1>5
<1> HIDE DEF Good
<1> QED BY <1>6 DEF IsDescent

LEMMA AscentExists ==
    ASSUME NEW S, NEW n \in Nat, NEW F, StepsUp(F, S, n)
    PROVE  \E g : IsAscent(g, F, S, n)
<1> DEFINE Good(k, g) == /\ g \in [1 .. k -> S]
                         /\ \A i \in 1 .. k : g[i] = F[i][[j \in 1 .. i - 1 |-> g[j]]]
           T == {k \in 0 .. n : \E g : Good(k, g)}
<1>1. 0 \in T
  <2> DEFINE e == [i \in 1 .. 0 |-> 0]
  <2>1. 1 .. 0 = {} /\ 0 \in 0 .. n
    OBVIOUS
  <2>2. e \in [1 .. 0 -> S] /\ \A i \in 1 .. 0 : FALSE
    BY <2>1
  <2>3. Good(0, e)
    BY <2>2
  <2> QED BY <2>1, <2>3
<1>2. ASSUME NEW k \in 1 .. n, k - 1 \in T PROVE k \in T
  <2>1. PICK f : Good(k - 1, f)
    BY <1>2
  <2> DEFINE b == F[k][f]
             g == [i \in 1 .. k |-> IF i = k THEN b ELSE f[i]]
  <2>2. k \in 0 .. n /\ 1 .. k = (1 .. k - 1) \cup {k} /\ k \notin 1 .. k - 1
    OBVIOUS
  <2>3. f \in [1 .. k - 1 -> S] /\ \A i \in 1 .. k - 1 : f[i] = F[i][[j \in 1 .. i - 1 |-> f[j]]]
    BY <2>1
  <2>4. b \in S
    BY <2>3 DEF StepsUp
  <2>6. g[k] = b /\ \A i \in 1 .. k - 1 : g[i] = f[i]
    BY <2>2
  <2>7. g \in [1 .. k -> S]
    BY <2>2, <2>3, <2>4
  <2> HIDE DEF g
  <2>8. ASSUME NEW i \in 1 .. k PROVE g[i] = F[i][[j \in 1 .. i - 1 |-> g[j]]]
    <3>1. 1 .. i - 1 \subseteq 1 .. k - 1
      OBVIOUS
    <3>2. [j \in 1 .. i - 1 |-> g[j]] = [j \in 1 .. i - 1 |-> f[j]]
      BY <2>6, <3>1
    <3>3. CASE i = k
      <4>1. [j \in 1 .. k - 1 |-> f[j]] = f
        BY <2>3
      <4> QED BY <2>6, <3>2, <3>3, <4>1
    <3>4. CASE i # k
      <4>1. i \in 1 .. k - 1
        BY <2>2, <3>4
      <4> QED BY <2>3, <2>6, <3>2, <4>1
    <3> QED BY <3>3, <3>4
  <2>9. Good(k, g)
    BY <2>7, <2>8
  <2> QED BY <2>2, <2>9
<1>3. n \in T
  <2> HIDE DEF T
  <2>1. \A i \in 0 .. n : i \in T
    BY <1>1, <1>2, NumberInduction
  <2> QED BY <2>1
<1>4. PICK g : Good(n, g)
  BY <1>3
<1> QED BY <1>4 DEF IsAscent

-----------------------------------------------------------------------------
(* Sorting by counting.                                                    *)

\* R is a strict order of the numbers up to n.
OrdersUpTo(R, n) ==
    /\ \A i \in 1 .. n : <<i, i>> \notin R
    /\ \A i, j \in 1 .. n : i # j => <<i, j>> \in R \/ <<j, i>> \in R
    /\ \A i, j, k \in 1 .. n : <<i, j>> \in R /\ <<j, k>> \in R => <<i, k>> \in R

\* How many come before i.
RankBefore(R, n, i) == Cardinality({j \in 1 .. n : <<j, i>> \in R})

\* Each number is the count of one, and who has fewer before it comes before.
LEMMA CountingSorts ==
    ASSUME NEW n \in Nat, NEW R, OrdersUpTo(R, n)
    PROVE  /\ \A k \in 1 .. n : \E i \in 1 .. n : RankBefore(R, n, i) = k - 1
           /\ \A i, j \in 1 .. n : RankBefore(R, n, i) < RankBefore(R, n, j) => <<i, j>> \in R
<1> DEFINE N == 1 .. n
           B(i) == {j \in N : <<j, i>> \in R}
<1>1. IsFiniteSet(N) /\ Cardinality(N) = n
  <2>1. 1 \in Int /\ n \in Int
    OBVIOUS
  <2>2. IsFiniteSet(1 .. n) /\ Cardinality(1 .. n) = IF 1 > n THEN 0 ELSE n - 1 + 1
    BY <2>1, FS_Interval
  <2> QED BY <2>2
<1>2. /\ \A i \in N : <<i, i>> \notin R
      /\ \A i, j \in N : i # j => <<i, j>> \in R \/ <<j, i>> \in R
      /\ \A i, j, k \in N : <<i, j>> \in R /\ <<j, k>> \in R => <<i, k>> \in R
  BY DEF OrdersUpTo
<1>3. \A i \in N : RankBefore(R, n, i) = Cardinality(B(i))
  BY DEF RankBefore
<1> HIDE DEF N
<1>4. \A i \in N : IsFiniteSet(B(i)) /\ Cardinality(B(i)) \in Nat /\ Cardinality(B(i)) <= n - 1
  <2> TAKE i \in N
  <2>1. B(i) \in SUBSET (N \ {i})
    BY <1>2
  <2>2. IsFiniteSet(N \ {i}) /\ Cardinality(N \ {i}) = n - 1
    BY <1>1, FS_RemoveElement
  <2> HIDE DEF B
  <2>3. IsFiniteSet(B(i)) /\ Cardinality(B(i)) <= Cardinality(N \ {i})
    BY <2>1, <2>2, FS_Subset
  <2> QED BY <2>2, <2>3, FS_CardinalityType
<1>5. ASSUME NEW i \in N, NEW j \in N, <<i, j>> \in R
      PROVE  Cardinality(B(i)) < Cardinality(B(j))
  <2>1. B(i) \in SUBSET B(j) /\ i \in B(j) /\ i \notin B(i)
    BY <1>2, <1>5
  <2> HIDE DEF B
  <2>2. IsFiniteSet(B(j)) /\ Cardinality(B(j)) \in Nat /\ Cardinality(B(i)) \in Nat
    BY <1>4
  <2>3. Cardinality(B(i)) <= Cardinality(B(j)) /\ (Cardinality(B(j)) = Cardinality(B(i)) => B(j) = B(i))
    BY <2>1, <2>2, FS_Subset
  <2> QED BY <2>1, <2>2, <2>3
<1> DEFINE p == [i \in N |-> 1 + Cardinality(B(i))]
<1>6. \A i \in N : p[i] = 1 + Cardinality(B(i)) /\ p[i] \in 1 .. n
  <2> HIDE DEF B
  <2> QED BY <1>4
<1>7. p \in Injection(N, N)
  <2>1. p \in [N -> N]
    BY <1>6 DEF N
  <2>2. \A i, j \in N : p[i] = p[j] => i = j
    <3> SUFFICES ASSUME NEW i \in N, NEW j \in N, p[i] = p[j], i # j PROVE FALSE
      OBVIOUS
    <3> HIDE DEF p, B
    <3>1. Cardinality(B(i)) = Cardinality(B(j)) /\ Cardinality(B(i)) \in Nat
      BY <1>4, <1>6
    <3>2. CASE <<i, j>> \in R
      BY <1>5, <3>1, <3>2
    <3>3. CASE <<j, i>> \in R
      BY <1>5, <3>1, <3>3
    <3> QED BY <1>2, <3>2, <3>3
  <2> QED BY <2>1, <2>2 DEF Injection, IsInjective
<1>8. p \in Surjection(N, N)
  <2> HIDE DEF p
  <2> QED BY <1>1, <1>7, FS_Injection
<1>9. ASSUME NEW k \in N PROVE \E i \in N : RankBefore(R, n, i) = k - 1
  <2>1. PICK i \in N : p[i] = k
    BY <1>8 DEF Surjection
  <2>2. p[i] = 1 + Cardinality(B(i)) /\ Cardinality(B(i)) \in Nat
    BY <1>4, <1>6
  <2> HIDE DEF p, B
  <2> QED BY <1>3, <2>1, <2>2
<1>10. ASSUME NEW i \in N, NEW j \in N, RankBefore(R, n, i) < RankBefore(R, n, j) PROVE <<i, j>> \in R
  <2> HIDE DEF B, p
  <2>1. Cardinality(B(i)) \in Nat /\ Cardinality(B(j)) \in Nat
    BY <1>4
  <2>2. ~ (Cardinality(B(j)) < Cardinality(B(i))) /\ i # j
    BY <1>3, <1>10, <2>1
  <2> QED BY <1>2, <1>5, <2>2
<1> QED BY <1>9, <1>10 DEF N
=============================================================================
