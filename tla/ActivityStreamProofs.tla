------------------------- MODULE ActivityStreamProofs -------------------------
(***************************************************************************)
(* Theorems about ActivityStream for any number of consoles and rows, any  *)
(* sizes of page and window.                                               *)
(*                                                                         *)
(* StreamInv strengthens the properties to an inductive invariant.  Every  *)
(* cursor that the service or a console keeps is one that the table had    *)
(* when it was read: a row that commits later and is on time lies past it, *)
(* so that nothing is missing up to that cursor ever after.  What the      *)
(* polling has passed is in the queue of a client that catches up, or was  *)
(* written to one that is live.                                            *)
(***************************************************************************)
EXTENDS ActivityStream, SequenceTheorems, FiniteSetTheorems, WellFoundedInduction, TLAPS

-----------------------------------------------------------------------------
(* Sequences of cursors in ascending order are known by their members.     *)

\* A set of numbers has a least one ...
LEMMA LeastOf ==
  ASSUME NEW S \in SUBSET Nat, S # {}
  PROVE  \E i \in S : \A j \in S : i <= j
<1>1. PICK i \in S : \A j \in S : <<j, i>> \notin OpToRel(<, Nat)
  BY NatLessThanWellFounded, WFMin
<1>2. \A j \in S : ~(j < i)
  BY <1>1 DEF OpToRel
<1> QED
  BY <1>2

\* ... and a set of cursors a greatest.
LEMMA GreatestOf ==
  ASSUME NEW S \in SUBSET Cursor, S # {}
  PROVE  \E i \in S : \A j \in S : j <= i
<1> DEFINE Below == {MaxCursor - i : i \in S}
<1>0. MaxCursor \in Nat
  BY BoundsAssumption
<1>1. Below \in SUBSET Nat /\ Below # {}
  <2>1. \A i \in S : MaxCursor - i \in Nat
    BY <1>0 DEF Cursor
  <2> QED
    BY <2>1
<1>2. PICK m \in Below : \A j \in Below : m <= j
  BY <1>1, LeastOf
<1>3. PICK i \in S : m = MaxCursor - i
  OBVIOUS
<1>4. ASSUME NEW j \in S PROVE j <= i
  <2>1. m <= MaxCursor - j
    BY <1>2
  <2> QED
    BY <1>0, <1>3, <2>1 DEF Cursor
<1> QED
  BY <1>4

\* SubSeq keeps the order, and has the members at the positions that it keeps.
LEMMA Segment ==
  ASSUME NEW s \in Seq(Cursor), Increasing(s), NEW m \in 1..(Len(s) + 1), NEW n \in 0..Len(s)
  PROVE  /\ SubSeq(s, m, n) \in Seq(Cursor) /\ Increasing(SubSeq(s, m, n))
         /\ ToSet(SubSeq(s, m, n)) = {s[i] : i \in m..n}
<1> DEFINE t == SubSeq(s, m, n)
<1>1. /\ m \in Int /\ n \in Int /\ Len(s) \in Nat /\ DOMAIN s = 1..Len(s)
      /\ \A i \in m..n : i \in 1..Len(s)
  BY LenProperties
<1>2. \A i \in m..n : s[i] \in Cursor
  BY <1>1, ElementOfSeq
<1>3. /\ t \in Seq(Cursor) /\ Len(t) = (IF m <= n THEN n - m + 1 ELSE 0)
      /\ \A i \in 1..(n - m + 1) : t[i] = s[m + i - 1]
  BY <1>1, <1>2, SubSeqProperties
<1>4. DOMAIN t = 1..Len(t) /\ DOMAIN t = 1..(n - m + 1)
  BY <1>1, <1>3, LenProperties
<1> HIDE DEF t
<1>5. Increasing(t)
  <2> SUFFICES ASSUME NEW i \in DOMAIN t, NEW j \in DOMAIN t, i < j PROVE t[i] < t[j]
    BY DEF Increasing
  <2>1. /\ t[i] = s[m + i - 1] /\ t[j] = s[m + j - 1]
        /\ m + i - 1 \in DOMAIN s /\ m + j - 1 \in DOMAIN s /\ m + i - 1 < m + j - 1
    BY <1>1, <1>3, <1>4
  <2> QED
    BY <2>1 DEF Increasing
<1>6. ToSet(t) = {s[i] : i \in m..n}
  <2>1. ToSet(t) \subseteq {s[i] : i \in m..n}
    <3> SUFFICES ASSUME NEW i \in DOMAIN t PROVE \E j \in m..n : t[i] = s[j]
      BY DEF ToSet
    <3>1. t[i] = s[m + i - 1] /\ m + i - 1 \in m..n
      BY <1>1, <1>3, <1>4
    <3> QED
      BY <3>1
  <2>2. {s[i] : i \in m..n} \subseteq ToSet(t)
    <3> SUFFICES ASSUME NEW j \in m..n PROVE \E i \in DOMAIN t : t[i] = s[j]
      BY DEF ToSet
    <3>1. j - m + 1 \in DOMAIN t /\ t[j - m + 1] = s[m + (j - m + 1) - 1]
      BY <1>1, <1>3, <1>4
    <3>2. m + (j - m + 1) - 1 = j
      BY <1>1
    <3> QED
      BY <3>1, <3>2
  <2> QED
    BY <2>1, <2>2
<1> QED
  BY <1>3, <1>5, <1>6 DEF t

\* Ascending lists a set of cursors.
LEMMA AscendingLists ==
  ASSUME NEW S \in SUBSET Cursor
  PROVE  Ascending(S) \in Seq(Cursor) /\ Increasing(Ascending(S)) /\ ToSet(Ascending(S)) = S
<1> DEFINE n == Cardinality(S)
           UpTo(k) == {j \in S : j <= k}
           count == [k \in S |-> Cardinality(UpTo(k))]
<1>0. \A k \in S : k \in Nat
  BY BoundsAssumption DEF Cursor
<1>1. IsFiniteSet(S) /\ n \in Nat
  <2>1. IsFiniteSet(Cursor)
    BY BoundsAssumption, FS_Interval DEF Cursor
  <2> QED
    BY <2>1, FS_Subset, FS_CardinalityType
<1>2. ASSUME NEW k \in S
      PROVE  IsFiniteSet(UpTo(k)) /\ Cardinality(UpTo(k)) \in 1..n
  <2>1. UpTo(k) \in SUBSET S
    OBVIOUS
  <2>2. IsFiniteSet(UpTo(k)) /\ Cardinality(UpTo(k)) <= n /\ Cardinality(UpTo(k)) \in Nat
    BY <1>1, <2>1, FS_Subset, FS_CardinalityType
  <2>3. UpTo(k) # {}
    BY <1>0
  <2>4. Cardinality(UpTo(k)) # 0
    BY <2>2, <2>3, FS_EmptySet
  <2> QED
    BY <1>1, <2>2, <2>4
<1>3. ASSUME NEW k \in S, NEW l \in S, k < l
      PROVE  count[k] < count[l]
  <2>0. k \in Nat /\ l \in Nat /\ \A j \in S : j \in Nat
    BY <1>0
  <2>1. UpTo(k) \in SUBSET UpTo(l) /\ l \in UpTo(l) /\ l \notin UpTo(k)
    <3>1. \A j \in S : j <= k => j <= l
      BY <1>3, <2>0
    <3>2. l <= l /\ ~(l <= k)
      BY <1>3, <2>0
    <3> QED
      BY <3>1, <3>2
  <2>2. Cardinality(UpTo(k)) <= Cardinality(UpTo(l)) /\ Cardinality(UpTo(l)) # Cardinality(UpTo(k))
    BY <1>2, <2>1, FS_Subset
  <2>3. Cardinality(UpTo(k)) \in Nat /\ Cardinality(UpTo(l)) \in Nat
    BY <1>1, <1>2
  <2> QED
    BY <2>2, <2>3
<1>4. count \in [S -> 1..n]
  BY <1>2
<1> HIDE DEF count
<1>5. \A k, l \in S : count[k] = count[l] => k = l
  <2> SUFFICES ASSUME NEW k \in S, NEW l \in S, k # l PROVE count[k] # count[l]
    OBVIOUS
  <2>1. count[k] \in Nat /\ count[l] \in Nat /\ (k < l \/ l < k)
    BY <1>0, <1>1, <1>4
  <2> QED
    BY <1>3, <2>1
<1>6. count \in Surjection(S, 1..n)
  <2>1. count \in Injection(S, 1..n)
    BY <1>4, <1>5 DEF Injection, IsInjective
  <2>2. IsFiniteSet(1..n) /\ Cardinality(1..n) = n
    BY <1>1, FS_Interval
  <2> QED
    BY <2>1, <2>2, FS_Injection
<1>7. \A i \in 1..n : \E k \in S : count[k] = i
  BY <1>6 DEF Surjection
<1>8. \E s \in [1..n -> S] : Increasing(s)
  <2> DEFINE s == [i \in 1..n |-> CHOOSE k \in S : count[k] = i]
  <2>1. \A i \in 1..n : s[i] \in S /\ count[s[i]] = i
    BY <1>7
  <2>2. s \in [1..n -> S]
    BY <2>1
  <2>3. DOMAIN s = 1..n
    OBVIOUS
  <2> HIDE DEF s
  <2>4. ASSUME NEW i \in 1..n, NEW j \in 1..n, i < j PROVE s[i] < s[j]
    <3>1. s[i] \in S /\ s[j] \in S /\ count[s[i]] < count[s[j]] /\ count[s[j]] \in Nat
      BY <1>1, <2>1, <2>4
    <3>2. s[i] \in Nat /\ s[j] \in Nat /\ count[s[i]] \in Nat
      BY <1>0, <1>1, <2>1
    <3>3. s[i] # s[j]
      BY <3>1, <3>2
    <3>4. CASE s[j] < s[i]
      <4>1. count[s[j]] < count[s[i]]
        BY <1>3, <3>1, <3>4
      <4> QED
        BY <3>1, <3>2, <4>1
    <3> QED
      BY <3>2, <3>3, <3>4
  <2>5. Increasing(s)
    BY <2>3, <2>4 DEF Increasing
  <2> QED
    BY <2>2, <2>5
<1>9. Ascending(S) \in [1..n -> S] /\ Increasing(Ascending(S))
  BY <1>8 DEF Ascending
<1> DEFINE t == Ascending(S)
<1> HIDE DEF t
<1>10. t \in [1..n -> S] /\ Increasing(t) /\ DOMAIN t = 1..n
  BY <1>9 DEF t
<1>11. t \in Seq(Cursor)
  BY <1>1, <1>10
<1>12. t \in Injection(1..n, S)
  <2>1. \A i, j \in 1..n : t[i] = t[j] => i = j
    <3> SUFFICES ASSUME NEW i \in 1..n, NEW j \in 1..n, i # j PROVE t[i] # t[j]
      OBVIOUS
    <3>0. t[i] \in S /\ t[j] \in S /\ i \in Nat /\ j \in Nat
      BY <1>10
    <3>1. (i < j \/ j < i) /\ t[i] \in Nat /\ t[j] \in Nat
      BY <1>0, <3>0
    <3> QED
      BY <1>10, <3>1 DEF Increasing
  <2> QED
    BY <1>10, <2>1 DEF Injection, IsInjective
<1>13. t \in Surjection(1..n, S)
  <2>1. Cardinality(1..n) = n
    BY <1>1, FS_Interval
  <2> QED
    BY <1>1, <1>12, <2>1, FS_Injection
<1>14. ToSet(t) = S
  BY <1>10, <1>13 DEF ToSet, Surjection
<1> QED
  BY <1>10, <1>11, <1>14 DEF t

\* Newer keeps the members past a cursor.
LEMMA NewerKeeps ==
  ASSUME NEW s \in Seq(Cursor), Increasing(s), NEW x \in Nat
  PROVE  /\ Newer(x, s) \in Seq(Cursor) /\ Increasing(Newer(x, s))
         /\ ToSet(Newer(x, s)) = {k \in ToSet(s) : k > x}
<1> DEFINE past == {i \in DOMAIN s : s[i] > x}
           From(n) == \A i \in DOMAIN s : s[i] > x <=> i >= n
           m == CHOOSE n \in 1..(Len(s) + 1) : From(n)
<1>0. /\ Len(s) \in Nat /\ DOMAIN s = 1..Len(s)
      /\ \A i \in DOMAIN s : s[i] \in Nat
  <2>1. \A i \in 1..Len(s) : s[i] \in Cursor
    BY ElementOfSeq
  <2> QED
    BY <2>1, LenProperties DEF Cursor
<1>1. \E n \in 1..(Len(s) + 1) : From(n)
  <2>1. CASE past = {}
    <3>1. From(Len(s) + 1)
      BY <1>0, <2>1
    <3> QED
      BY <1>0, <3>1
  <2>2. CASE past # {}
    <3>1. past \in SUBSET Nat
      BY <1>0
    <3>2. PICK n \in past : \A j \in past : n <= j
      BY <2>2, <3>1, LeastOf
    <3>3. ASSUME NEW i \in DOMAIN s, i >= n PROVE s[i] > x
      <4>1. i = n \/ s[n] < s[i]
        BY <1>0, <3>3 DEF Increasing
      <4> QED
        BY <1>0, <4>1
    <3>4. From(n)
      BY <1>0, <3>2, <3>3
    <3> QED
      BY <1>0, <3>4
  <2> QED
    BY <2>1, <2>2
<1>2. m \in 1..(Len(s) + 1) /\ From(m)
  BY <1>1
<1>3. Newer(x, s) = SubSeq(s, m, Len(s))
  BY DEF Newer
<1> HIDE DEF m
<1>4. /\ Newer(x, s) \in Seq(Cursor) /\ Increasing(Newer(x, s))
      /\ ToSet(Newer(x, s)) = {s[i] : i \in m..Len(s)}
  <2>1. Len(s) \in 0..Len(s)
    BY <1>0
  <2> QED
    BY <1>2, <1>3, <2>1, Segment
<1>5. {s[i] : i \in m..Len(s)} = {k \in ToSet(s) : k > x}
  BY <1>0, <1>2 DEF ToSet
<1> QED
  BY <1>4, <1>5

\* When all members are past the cursor, it keeps the sequence.
LEMMA NewerKeepsAll ==
  ASSUME NEW s \in Seq(Cursor), NEW x \in Nat, \A k \in ToSet(s) : k > x
  PROVE  Newer(x, s) = s
<1> DEFINE m == CHOOSE n \in 1..(Len(s) + 1) : \A i \in DOMAIN s : s[i] > x <=> i >= n
<1>0. Len(s) \in Nat /\ DOMAIN s = 1..Len(s) /\ \A i \in DOMAIN s : s[i] > x
  BY LenProperties DEF ToSet
<1>1. 1 \in 1..(Len(s) + 1) /\ \A i \in DOMAIN s : s[i] > x <=> i >= 1
  BY <1>0
<1>2. m \in 1..(Len(s) + 1) /\ \A i \in DOMAIN s : s[i] > x <=> i >= m
  BY <1>1
<1> HIDE DEF m
<1>3. m = 1
  <2>1. CASE Len(s) = 0
    BY <1>2, <2>1
  <2>2. CASE Len(s) # 0
    <3>1. 1 \in DOMAIN s
      BY <1>0, <2>2
    <3> QED
      BY <1>0, <1>2, <3>1
  <2> QED
    BY <2>1, <2>2
<1> QED
  BY <1>3, SubSeqFull DEF Newer, m

\* The last member is the greatest.
LEMMA LastIsGreatest ==
  ASSUME NEW s \in Seq(Cursor), Increasing(s), NEW x \in Nat
  PROVE  /\ LastOr(x, s) \in Nat
         /\ s = <<>> => LastOr(x, s) = x /\ ToSet(s) = {}
         /\ s # <<>> => LastOr(x, s) \in ToSet(s) /\ \A k \in ToSet(s) : k <= LastOr(x, s)
<1>0. /\ Len(s) \in Nat /\ DOMAIN s = 1..Len(s)
      /\ \A i \in DOMAIN s : s[i] \in Nat
  <2>1. \A i \in 1..Len(s) : s[i] \in Cursor
    BY ElementOfSeq
  <2> QED
    BY <2>1, LenProperties DEF Cursor
<1>1. CASE s = <<>>
  BY <1>1 DEF LastOr, ToSet
<1>2. CASE s # <<>>
  <2>1. Len(s) \in DOMAIN s
    BY <1>0, <1>2, EmptySeq
  <2>2. LastOr(x, s) = s[Len(s)]
    BY <1>2 DEF LastOr
  <2>3. \A i \in DOMAIN s : s[i] <= s[Len(s)]
    <3> SUFFICES ASSUME NEW i \in DOMAIN s PROVE s[i] <= s[Len(s)]
      OBVIOUS
    <3>1. i = Len(s) \/ s[i] < s[Len(s)]
      BY <1>0, <2>1 DEF Increasing
    <3> QED
      BY <1>0, <2>1, <3>1
  <2> QED
    BY <1>0, <1>2, <2>1, <2>2, <2>3 DEF ToSet
<1> QED
  BY <1>1, <1>2

\* Putting two sequences together, the second past the first.
LEMMA Joined ==
  ASSUME NEW s \in Seq(Cursor), NEW t \in Seq(Cursor), Increasing(s), Increasing(t),
         \A k \in ToSet(s), l \in ToSet(t) : k < l
  PROVE  s \o t \in Seq(Cursor) /\ Increasing(s \o t) /\ ToSet(s \o t) = ToSet(s) \cup ToSet(t)
<1> DEFINE u == s \o t
<1>1. /\ Len(s) \in Nat /\ DOMAIN s = 1..Len(s) /\ Len(t) \in Nat /\ DOMAIN t = 1..Len(t)
  BY LenProperties
<1>2. /\ u \in Seq(Cursor) /\ Len(u) = Len(s) + Len(t)
      /\ \A i \in 1..(Len(s) + Len(t)) : u[i] = IF i <= Len(s) THEN s[i] ELSE t[i - Len(s)]
  BY ConcatProperties
<1> HIDE DEF u
<1>3. DOMAIN u = 1..(Len(s) + Len(t))
  BY <1>2, LenProperties
<1>4. \A i \in DOMAIN u : \/ i \in DOMAIN s /\ u[i] = s[i]
                          \/ i > Len(s) /\ i - Len(s) \in DOMAIN t /\ u[i] = t[i - Len(s)]
  BY <1>1, <1>2, <1>3
<1>5. Increasing(u)
  <2> SUFFICES ASSUME NEW i \in DOMAIN u, NEW j \in DOMAIN u, i < j PROVE u[i] < u[j]
    BY DEF Increasing
  <2>1. CASE i \in DOMAIN s /\ j \in DOMAIN s
    <3>1. u[i] = s[i] /\ u[j] = s[j]
      BY <1>1, <1>2, <1>3, <2>1
    <3> QED
      BY <2>1, <3>1 DEF Increasing
  <2>2. CASE i \in DOMAIN s /\ j \notin DOMAIN s
    <3>1. u[i] = s[i] /\ j - Len(s) \in DOMAIN t /\ u[j] = t[j - Len(s)]
      BY <1>1, <1>2, <1>3, <1>4, <2>2
    <3>2. u[i] \in ToSet(s) /\ u[j] \in ToSet(t)
      BY <2>2, <3>1 DEF ToSet
    <3> QED
      BY <3>2
  <2>3. CASE i \notin DOMAIN s
    <3>1. /\ i - Len(s) \in DOMAIN t /\ u[i] = t[i - Len(s)]
          /\ j - Len(s) \in DOMAIN t /\ u[j] = t[j - Len(s)]
          /\ i - Len(s) < j - Len(s)
      BY <1>1, <1>2, <1>3, <2>3
    <3> QED
      BY <3>1 DEF Increasing
  <2> QED
    BY <2>1, <2>2, <2>3
<1>6. ToSet(u) = ToSet(s) \cup ToSet(t)
  <2>1. ToSet(u) \subseteq ToSet(s) \cup ToSet(t)
    BY <1>4 DEF ToSet
  <2>2. ASSUME NEW i \in DOMAIN s PROVE s[i] \in ToSet(u)
    <3>1. i \in DOMAIN u /\ u[i] = s[i]
      BY <1>1, <1>2, <1>3
    <3> QED
      BY <3>1 DEF ToSet
  <2>3. ASSUME NEW i \in DOMAIN t PROVE t[i] \in ToSet(u)
    <3>1. i + Len(s) \in DOMAIN u /\ ~(i + Len(s) <= Len(s)) /\ (i + Len(s)) - Len(s) = i
      BY <1>1, <1>3
    <3>2. u[i + Len(s)] = t[i]
      BY <1>2, <1>3, <3>1
    <3> QED
      BY <3>1, <3>2 DEF ToSet
  <2> QED
    BY <2>1, <2>2, <2>3 DEF ToSet
<1> QED
  BY <1>2, <1>5, <1>6 DEF u

\* The first members and the last ones.
LEMMA FirstMembers ==
  ASSUME NEW s \in Seq(Cursor), Increasing(s), NEW n \in Nat \ {0}
  PROVE  /\ FirstOf(n, s) \in Seq(Cursor) /\ Increasing(FirstOf(n, s))
         /\ ToSet(FirstOf(n, s)) \subseteq ToSet(s)
         /\ s # <<>> => FirstOf(n, s) # <<>>
         /\ \A k \in ToSet(s), l \in ToSet(FirstOf(n, s)) : k <= l => k \in ToSet(FirstOf(n, s))
<1> DEFINE m == IF Len(s) < n THEN Len(s) ELSE n
<1>0. /\ Len(s) \in Nat /\ DOMAIN s = 1..Len(s)
      /\ \A i \in DOMAIN s : s[i] \in Nat
  <2>1. \A i \in 1..Len(s) : s[i] \in Cursor
    BY ElementOfSeq
  <2> QED
    BY <2>1, LenProperties DEF Cursor
<1>1. m \in 0..Len(s) /\ (Len(s) # 0 => m # 0) /\ 1 \in 1..(Len(s) + 1)
  BY <1>0
<1>2. FirstOf(n, s) = SubSeq(s, 1, m)
  BY DEF FirstOf
<1> HIDE DEF m
<1>3. /\ FirstOf(n, s) \in Seq(Cursor) /\ Increasing(FirstOf(n, s))
      /\ ToSet(FirstOf(n, s)) = {s[i] : i \in 1..m}
  BY <1>0, <1>1, <1>2, Segment
<1>4. 1..m \subseteq DOMAIN s
  BY <1>0, <1>1
<1>5. ASSUME s # <<>> PROVE FirstOf(n, s) # <<>>
  <2>1. 1 \in 1..m
    BY <1>0, <1>1, <1>5, EmptySeq
  <2>2. s[1] \in ToSet(FirstOf(n, s))
    BY <1>3, <2>1
  <2> QED
    BY <2>2 DEF ToSet
<1>6. ASSUME NEW i \in DOMAIN s, NEW j \in 1..m, s[i] <= s[j] PROVE i \in 1..m
  <2>1. ~(j < i)
    BY <1>0, <1>4, <1>6 DEF Increasing
  <2> QED
    BY <1>0, <1>1, <2>1
<1> QED
  BY <1>3, <1>4, <1>5, <1>6 DEF ToSet

LEMMA LastMembers ==
  ASSUME NEW s \in Seq(Cursor), Increasing(s), NEW n \in Nat \ {0}
  PROVE  /\ LastOf(n, s) \in Seq(Cursor) /\ Increasing(LastOf(n, s))
         /\ ToSet(LastOf(n, s)) \subseteq ToSet(s)
         /\ s # <<>> => LastOf(n, s) # <<>>
         /\ \A k \in ToSet(s), l \in ToSet(LastOf(n, s)) : l <= k => k \in ToSet(LastOf(n, s))
<1> DEFINE m == IF Len(s) < n THEN 1 ELSE Len(s) - n + 1
<1>0. /\ Len(s) \in Nat /\ DOMAIN s = 1..Len(s)
      /\ \A i \in DOMAIN s : s[i] \in Nat
  <2>1. \A i \in 1..Len(s) : s[i] \in Cursor
    BY ElementOfSeq
  <2> QED
    BY <2>1, LenProperties DEF Cursor
<1>1. m \in 1..(Len(s) + 1) /\ (Len(s) # 0 => m <= Len(s)) /\ Len(s) \in 0..Len(s)
  BY <1>0
<1>2. LastOf(n, s) = SubSeq(s, m, Len(s))
  BY DEF LastOf
<1> HIDE DEF m
<1>3. /\ LastOf(n, s) \in Seq(Cursor) /\ Increasing(LastOf(n, s))
      /\ ToSet(LastOf(n, s)) = {s[i] : i \in m..Len(s)}
  BY <1>0, <1>1, <1>2, Segment
<1>4. m..Len(s) \subseteq DOMAIN s
  BY <1>0, <1>1
<1>5. ASSUME s # <<>> PROVE LastOf(n, s) # <<>>
  <2>1. Len(s) \in m..Len(s)
    BY <1>0, <1>1, <1>5, EmptySeq
  <2>2. s[Len(s)] \in ToSet(LastOf(n, s))
    BY <1>3, <2>1
  <2> QED
    BY <2>2 DEF ToSet
<1>6. ASSUME NEW i \in DOMAIN s, NEW j \in m..Len(s), s[j] <= s[i] PROVE i \in m..Len(s)
  <2>1. ~(i < j)
    BY <1>0, <1>4, <1>6 DEF Increasing
  <2> QED
    BY <1>0, <1>1, <2>1
<1> QED
  BY <1>3, <1>4, <1>5, <1>6 DEF ToSet

-----------------------------------------------------------------------------
(***************************************************************************)
(* The table is the set C of its committed rows and the set T of those on  *)
(* time.  What Covers and the reading operators say of them is stated for  *)
(* any two such sets, to be used before and after a step.                  *)
(***************************************************************************)
Span(C, T, s, low, high) ==
  /\ Increasing(s) /\ ToSet(s) \subseteq C
  /\ \A k \in ToSet(s) : low < k /\ k <= high
  /\ \A k \in T : low < k /\ k <= high => k \in ToSet(s)

Top(C) == IF C = {} THEN 0 ELSE CHOOSE k \in C : \A j \in C : j <= k

Between(C, after, through) == {k \in C : after < k /\ k <= through}
Batch(C, after, through, limit) == FirstOf(limit, Ascending(Between(C, after, through)))

LEMMA TableSets ==
  /\ Committed \in SUBSET Cursor /\ OnTime \in SUBSET Committed
  /\ LatestCursor = Top(Committed)
  /\ \A s, low, high : Covers(s, low, high) <=> Span(Committed, OnTime, s, low, high)
  /\ \A after, through, limit :
       EventsBetween(after, through, limit) = Batch(Committed, after, through, limit)
BY DEF Committed, OnTime, LatestCursor, Top, Covers, Span, EventsBetween, Batch, Between

\* The greatest of the committed cursors.
LEMMA TopIsGreatest ==
  ASSUME NEW C \in SUBSET Cursor
  PROVE  Top(C) \in 0..MaxCursor /\ (C # {} => Top(C) \in C) /\ \A k \in C : k <= Top(C)
<1>1. CASE C = {}
  BY <1>1, BoundsAssumption DEF Top
<1>2. CASE C # {}
  <2>1. Top(C) \in C /\ \A k \in C : k <= Top(C)
    BY <1>2, GreatestOf DEF Top
  <2>2. Top(C) \in 0..MaxCursor
    <3>1. Top(C) \in Cursor
      BY <2>1
    <3> QED
      BY <3>1, BoundsAssumption DEF Cursor
  <2> QED
    BY <2>1, <2>2
<1> QED
  BY <1>1, <1>2

\* It does not get smaller when rows commit.
LEMMA TopGrows ==
  ASSUME NEW C \in SUBSET Cursor, NEW D \in SUBSET Cursor, C \subseteq D
  PROVE  Top(C) <= Top(D)
<1>1. CASE C = {}
  BY <1>1, TopIsGreatest, BoundsAssumption DEF Top
<1>2. CASE C # {}
  BY <1>2, TopIsGreatest
<1> QED
  BY <1>1, <1>2

LEMMA SpanEmpty ==
  ASSUME NEW C, NEW T, NEW low, NEW high, \A k \in T : ~(low < k /\ k <= high)
  PROVE  <<>> \in Seq(Cursor) /\ Span(C, T, <<>>, low, high)
<1>1. <<>> \in Seq(Cursor) /\ DOMAIN <<>> = {}
  OBVIOUS
<1> QED
  BY <1>1 DEF Span, Increasing, ToSet

LEMMA SpanWidens ==
  ASSUME NEW C, NEW T \in SUBSET Cursor, NEW s \in Seq(Cursor), NEW low \in Nat, NEW mid \in Nat, NEW high \in Nat,
         Span(C, T, s, low, mid), mid <= high, \A k \in T : ~(mid < k /\ k <= high)
  PROVE  Span(C, T, s, low, high)
<1>1. \A k \in T : k \in Nat
  BY BoundsAssumption DEF Cursor
<1>2. \A k \in ToSet(s) : k \in Nat
  BY LenProperties, ElementOfSeq, BoundsAssumption DEF ToSet, Cursor
<1> QED
  BY <1>1, <1>2 DEF Span

LEMMA SpanJoins ==
  ASSUME NEW C, NEW T \in SUBSET Cursor, NEW s \in Seq(Cursor), NEW t \in Seq(Cursor),
         NEW low \in Nat, NEW mid \in Nat, NEW high \in Nat, low <= mid, mid <= high,
         Span(C, T, s, low, mid), Span(C, T, t, mid, high)
  PROVE  s \o t \in Seq(Cursor) /\ Span(C, T, s \o t, low, high)
<1>1. \A k \in T : k \in Nat
  BY BoundsAssumption DEF Cursor
<1>2. \A k \in ToSet(s) \cup ToSet(t) : k \in Nat
  BY LenProperties, ElementOfSeq, BoundsAssumption DEF ToSet, Cursor
<1>3. \A k \in ToSet(s), l \in ToSet(t) : k < l
  BY <1>2 DEF Span
<1>4. s \o t \in Seq(Cursor) /\ Increasing(s \o t) /\ ToSet(s \o t) = ToSet(s) \cup ToSet(t)
  BY <1>3, Joined DEF Span
<1>5. \A k \in ToSet(s) \cup ToSet(t) : low < k /\ k <= high
  BY <1>2 DEF Span
<1>6. \A k \in T : low < k /\ k <= high => k \in ToSet(s) \cup ToSet(t)
  BY <1>1 DEF Span
<1> QED
  BY <1>4, <1>5, <1>6 DEF Span

\* What was read of a span, and what is left of it, are spans.
LEMMA SpanPrefix ==
  ASSUME NEW C, NEW T \in SUBSET Cursor, NEW s \in Seq(Cursor), NEW low \in Nat, NEW high \in Nat,
         low <= high, Span(C, T, s, low, high), NEW n \in 0..Len(s)
  PROVE  LET p == SubSeq(s, 1, n)
         IN  /\ p \in Seq(Cursor) /\ Span(C, T, p, low, LastOr(low, p))
             /\ low <= LastOr(low, p) /\ LastOr(low, p) <= high
<1> DEFINE p == SubSeq(s, 1, n)
           last == LastOr(low, p)
<1>0. /\ Len(s) \in Nat /\ DOMAIN s = 1..Len(s) /\ 1 \in 1..(Len(s) + 1)
      /\ \A i \in DOMAIN s : s[i] \in Nat
  <2>1. \A i \in 1..Len(s) : s[i] \in Cursor
    BY ElementOfSeq
  <2> QED
    BY <2>1, LenProperties DEF Cursor
<1>1. p \in Seq(Cursor) /\ Increasing(p) /\ ToSet(p) = {s[i] : i \in 1..n}
  BY <1>0, Segment DEF Span
<1>2. 1..n \subseteq DOMAIN s /\ ToSet(p) \subseteq ToSet(s)
  BY <1>0, <1>1 DEF ToSet
<1> HIDE DEF p
<1>3. /\ last \in Nat /\ (p = <<>> => last = low /\ ToSet(p) = {})
      /\ (p # <<>> => last \in ToSet(p) /\ \A k \in ToSet(p) : k <= last)
  BY <1>1, LastIsGreatest
<1> HIDE DEF last
<1>4. low <= last /\ last <= high
  BY <1>2, <1>3 DEF Span
<1>5. ASSUME NEW k \in T, low < k, k <= last PROVE k \in ToSet(p)
  <2>1. k \in Nat
    BY BoundsAssumption DEF Cursor
  <2>2. p # <<>>
    BY <1>3, <1>5, <2>1
  <2>3. k \in ToSet(s)
    BY <1>3, <1>4, <1>5, <2>1 DEF Span
  <2>4. PICK i \in DOMAIN s : k = s[i]
    BY <2>3 DEF ToSet
  <2>5. PICK j \in 1..n : last = s[j]
    BY <1>1, <1>3, <2>2
  <2>6. ~(j < i)
    BY <1>0, <1>2, <1>5, <2>4, <2>5 DEF Span, Increasing
  <2>7. i \in 1..n
    BY <1>0, <2>6
  <2> QED
    BY <1>1, <2>4, <2>7
<1>6. Span(C, T, p, low, last)
  <2>1. ToSet(p) \subseteq C /\ \A k \in ToSet(p) : low < k
    BY <1>2 DEF Span
  <2>2. \A k \in ToSet(p) : k <= last
    BY <1>3
  <2> QED
    BY <1>1, <1>5, <2>1, <2>2 DEF Span
<1> QED
  BY <1>1, <1>4, <1>6 DEF p, last

LEMMA WholeSpan ==
  ASSUME NEW C, NEW T \in SUBSET Cursor, NEW s \in Seq(Cursor), NEW low \in Nat, NEW high \in Nat,
         low <= high, Span(C, T, s, low, high)
  PROVE  Span(C, T, s, low, LastOr(low, s)) /\ low <= LastOr(low, s) /\ LastOr(low, s) <= high
<1> DEFINE p == SubSeq(s, 1, Len(s))
<1>1. Len(s) \in 0..Len(s) /\ p = s
  BY LenProperties, SubSeqFull
<1>2. Span(C, T, p, low, LastOr(low, p)) /\ low <= LastOr(low, p) /\ LastOr(low, p) <= high
  BY <1>1, SpanPrefix
<1> QED
  BY <1>1, <1>2

LEMMA SpanHead ==
  ASSUME NEW C, NEW T \in SUBSET Cursor, NEW s \in Seq(Cursor), NEW low \in Nat, NEW high \in Nat,
         low <= high, Span(C, T, s, low, high), s # <<>>
  PROVE  /\ s[1] \in Cursor /\ low < s[1] /\ s[1] <= high
         /\ <<s[1]>> \in Seq(Cursor) /\ Span(C, T, <<s[1]>>, low, s[1])
         /\ Tail(s) \in Seq(Cursor) /\ Span(C, T, Tail(s), s[1], high)
         /\ LastOr(s[1], Tail(s)) = LastOr(low, s)
<1>0. /\ Len(s) \in Nat /\ Len(s) # 0 /\ DOMAIN s = 1..Len(s)
      /\ \A i \in DOMAIN s : s[i] \in Cursor /\ s[i] \in Nat
  <2>1. \A i \in 1..Len(s) : s[i] \in Cursor
    BY ElementOfSeq
  <2> QED
    BY <2>1, LenProperties, EmptySeq DEF Cursor
<1>1. 1 \in DOMAIN s /\ s[1] \in ToSet(s)
  BY <1>0 DEF ToSet
<1>2. s[1] \in Cursor /\ s[1] \in Nat /\ low < s[1] /\ s[1] <= high
  BY <1>0, <1>1 DEF Span
<1>3. \A i \in DOMAIN s : i = 1 \/ s[1] < s[i]
  BY <1>0, <1>1 DEF Span, Increasing
<1>4. Span(C, T, <<s[1]>>, low, s[1])
  <2>1. DOMAIN <<s[1]>> = {1} /\ ToSet(<<s[1]>>) = {s[1]}
    BY DEF ToSet
  <2>2. ASSUME NEW k \in T, low < k, k <= s[1] PROVE k = s[1]
    <3>1. k \in Nat /\ k <= high
      BY <1>2, <2>2, BoundsAssumption DEF Cursor
    <3>2. PICK i \in DOMAIN s : k = s[i]
      BY <2>2, <3>1 DEF Span, ToSet
    <3> QED
      BY <1>2, <1>3, <2>2, <3>1, <3>2
  <2>3. Increasing(<<s[1]>>)
    BY <2>1 DEF Increasing
  <2>4. s[1] \in C
    BY <1>1 DEF Span
  <2> QED
    BY <1>2, <2>1, <2>2, <2>3, <2>4 DEF Span
<1>5. Tail(s) = SubSeq(s, 2, Len(s)) /\ 2 \in 1..(Len(s) + 1) /\ Len(s) \in 0..Len(s)
  BY <1>0, TailIsSubSeq
<1>6. Tail(s) \in Seq(Cursor) /\ Increasing(Tail(s)) /\ ToSet(Tail(s)) = {s[i] : i \in 2..Len(s)}
  BY <1>5, Segment DEF Span
<1>7. Span(C, T, Tail(s), s[1], high)
  <2>1. 2..Len(s) \subseteq DOMAIN s /\ \A i \in 2..Len(s) : s[1] < s[i]
    BY <1>0, <1>3
  <2>2. ToSet(Tail(s)) \subseteq ToSet(s) /\ \A k \in ToSet(Tail(s)) : s[1] < k
    BY <1>6, <2>1 DEF ToSet
  <2>3. ASSUME NEW k \in T, s[1] < k, k <= high PROVE k \in ToSet(Tail(s))
    <3>1. k \in Nat /\ low < k
      BY <1>2, <2>3, BoundsAssumption DEF Cursor
    <3>2. PICK i \in DOMAIN s : k = s[i]
      BY <2>3, <3>1 DEF Span, ToSet
    <3>3. i \in 2..Len(s)
      BY <1>0, <1>2, <2>3, <3>1, <3>2
    <3> QED
      BY <1>6, <3>2, <3>3
  <2> QED
    BY <1>6, <2>2, <2>3 DEF Span
<1>8. LastOr(s[1], Tail(s)) = LastOr(low, s)
  <2>1. Len(Tail(s)) = Len(s) - 1 /\ \A i \in 1..Len(Tail(s)) : Tail(s)[i] = s[i + 1]
    BY HeadTailProperties
  <2>2. CASE Len(s) = 1
    <3>1. Tail(s) = <<>>
      <4>1. Len(Tail(s)) = 0
        BY <2>1, <2>2
      <4> QED
        BY <1>6, <4>1, EmptySeq
    <3> QED
      BY <2>2, <3>1 DEF LastOr
  <2>3. CASE Len(s) # 1
    <3>1. Tail(s) # <<>> /\ Tail(s)[Len(Tail(s))] = s[Len(s)]
      BY <1>0, <2>1, <2>3, EmptySeq
    <3> QED
      BY <3>1 DEF LastOr
  <2> QED
    BY <2>2, <2>3
<1> QED
  BY <1>2, <1>4, <1>6, <1>7, <1>8

\* A row that commits on time lies past all the others, a late one is not asked for.
LEMMA SpanKeeps ==
  ASSUME NEW C \in SUBSET Cursor, NEW T, NEW D, NEW U, C \subseteq D,
         NEW s, NEW low, NEW high \in Nat, high <= Top(C),
         \A k \in U \ T : k \in Nat /\ Top(C) < k,
         Span(C, T, s, low, high)
  PROVE  Span(D, U, s, low, high)
<1>1. Top(C) \in Nat
  BY TopIsGreatest, BoundsAssumption
<1>2. ASSUME NEW k \in U, low < k, k <= high PROVE k \in ToSet(s)
  <2>1. k \in T
    BY <1>1, <1>2
  <2> QED
    BY <1>2, <2>1 DEF Span
<1> QED
  BY <1>2 DEF Span

\* A page spans the rows up to its last; without one there is nothing to be read.
LEMMA BatchSpans ==
  ASSUME NEW C \in SUBSET Cursor, NEW T \in SUBSET C, NEW after \in Nat, NEW through \in Nat,
         NEW limit \in Nat \ {0}, NEW page, page = Batch(C, after, through, limit),
         NEW last, last = LastOr(after, page)
  PROVE  /\ page \in Seq(Cursor) /\ last \in Nat /\ after <= last
         /\ Span(C, T, page, after, last)
         /\ page # <<>> => last \in C /\ last <= through
         /\ page = <<>> => last = after /\ \A k \in C : ~(after < k /\ k <= through)
<1> DEFINE S == Between(C, after, through)
<1>0. S \in SUBSET C /\ S \in SUBSET Cursor /\ \A k \in S : k \in Nat /\ after < k /\ k <= through
  <2>1. \A k \in S : k \in C /\ after < k /\ k <= through
    BY DEF Between
  <2>2. \A k \in C : k \in Cursor /\ k \in Nat
    BY BoundsAssumption DEF Cursor
  <2> QED
    BY <2>1, <2>2
<1>1. Ascending(S) \in Seq(Cursor) /\ Increasing(Ascending(S)) /\ ToSet(Ascending(S)) = S
  BY <1>0, AscendingLists
<1>2. page = FirstOf(limit, Ascending(S))
  BY DEF Batch
<1>3. /\ page \in Seq(Cursor) /\ Increasing(page) /\ ToSet(page) \subseteq S
      /\ (Ascending(S) # <<>> => page # <<>>)
      /\ \A k \in S, l \in ToSet(page) : k <= l => k \in ToSet(page)
  <2> DEFINE rows == Ascending(S)
  <2>1. rows \in Seq(Cursor) /\ Increasing(rows) /\ ToSet(rows) = S /\ page = FirstOf(limit, rows)
    BY <1>1, <1>2
  <2> HIDE DEF rows, S
  <2>2. /\ page \in Seq(Cursor) /\ Increasing(page) /\ ToSet(page) \subseteq ToSet(rows)
        /\ (rows # <<>> => page # <<>>)
        /\ \A k \in ToSet(rows), l \in ToSet(page) : k <= l => k \in ToSet(page)
    BY <2>1, FirstMembers
  <2> QED
    BY <2>1, <2>2 DEF rows
<1>4. /\ last \in Nat /\ (page = <<>> => last = after /\ ToSet(page) = {})
      /\ (page # <<>> => last \in ToSet(page) /\ \A k \in ToSet(page) : k <= last)
  BY <1>3, LastIsGreatest
<1>5. CASE page = <<>>
  <2>1. S = {}
    BY <1>1, <1>3, <1>5 DEF ToSet
  <2>2. \A k \in C : ~(after < k /\ k <= through)
    BY <2>1 DEF Between
  <2>3. \A k \in T : ~(after < k /\ k <= last)
    BY <1>4, <1>5, BoundsAssumption DEF Cursor
  <2>4. Span(C, T, page, after, last)
    BY <1>5, <2>3, SpanEmpty
  <2> QED
    BY <1>3, <1>4, <1>5, <2>2, <2>4
<1>6. CASE page # <<>>
  <2>1. last \in C /\ after < last /\ last <= through
    BY <1>0, <1>3, <1>4, <1>6
  <2>2. ASSUME NEW k \in T, after < k, k <= last PROVE k \in ToSet(page)
    <3>1. k \in S
      BY <1>4, <2>1, <2>2, BoundsAssumption DEF Between, Cursor
    <3> QED
      BY <1>3, <1>4, <1>6, <2>2, <3>1
  <2>3. \A k \in ToSet(page) : after < k /\ k <= last
    BY <1>0, <1>3, <1>4, <1>6
  <2>4. Span(C, T, page, after, last)
    BY <1>0, <1>3, <2>2, <2>3 DEF Span
  <2> QED
    BY <1>3, <1>4, <1>6, <2>1, <2>4
<1> QED
  BY <1>5, <1>6

\* The newest window spans the rows from its first, and ends with the newest.
LEMMA SnapshotSpans ==
  ASSUME NEW C \in SUBSET Cursor, NEW T \in SUBSET C, NEW limit \in Nat \ {0}, NEW x \in Nat
  PROVE  LET page == LastOf(limit, Ascending(C))
         IN  /\ page \in Seq(Cursor)
             /\ page = <<>> => C = {}
             /\ page # <<>> => /\ page[1] \in Cursor /\ page[1] <= Top(C)
                               /\ LastOr(x, page) = Top(C)
                               /\ Span(C, T, page, page[1] - 1, Top(C))
<1> DEFINE rows == Ascending(C)
           page == LastOf(limit, rows)
<1>1. rows \in Seq(Cursor) /\ Increasing(rows) /\ ToSet(rows) = C
  BY AscendingLists
<1> HIDE DEF rows
<1>2. /\ page \in Seq(Cursor) /\ Increasing(page) /\ ToSet(page) \subseteq ToSet(rows)
      /\ (rows # <<>> => page # <<>>)
      /\ \A k \in ToSet(rows), l \in ToSet(page) : l <= k => k \in ToSet(page)
  BY <1>1, LastMembers
<1> HIDE DEF page
<1>3. ASSUME page = <<>> PROVE C = {}
  BY <1>1, <1>2, <1>3 DEF ToSet
<1>4. ASSUME page # <<>>
      PROVE  /\ page[1] \in Cursor /\ page[1] <= Top(C) /\ LastOr(x, page) = Top(C)
             /\ Span(C, T, page, page[1] - 1, Top(C))
  <2>0. Top(C) \in Nat /\ (C # {} => Top(C) \in C) /\ \A k \in C : k \in Nat /\ k <= Top(C)
    BY TopIsGreatest, BoundsAssumption DEF Cursor
  <2>1. DOMAIN page = 1..Len(page) /\ Len(page) \in Nat \ {0}
    BY <1>2, <1>4, LenProperties, EmptySeq
  <2>2. 1 \in DOMAIN page /\ page[1] \in ToSet(page) /\ page[1] \in C
    <3>1. 1 \in DOMAIN page
      BY <2>1
    <3>2. page[1] \in ToSet(page)
      BY <3>1 DEF ToSet
    <3> QED
      BY <1>1, <1>2, <3>1, <3>2
  <2>3. \A k \in ToSet(page) : page[1] <= k
    <3> SUFFICES ASSUME NEW i \in DOMAIN page PROVE page[1] <= page[i]
      BY DEF ToSet
    <3>1. i = 1 \/ page[1] < page[i]
      BY <1>2, <2>1, <2>2 DEF Increasing
    <3>2. page[i] \in ToSet(page)
      BY DEF ToSet
    <3>3. page[i] \in Nat /\ page[1] \in Nat
      BY <1>1, <1>2, <2>0, <2>2, <3>2
    <3> QED
      BY <3>1, <3>3
  <2>4. Top(C) \in ToSet(page)
    BY <1>1, <1>2, <2>0, <2>2
  <2>5. LastOr(x, page) \in ToSet(page) /\ \A k \in ToSet(page) : k <= LastOr(x, page)
    BY <1>2, <1>4, LastIsGreatest
  <2>6. LastOr(x, page) = Top(C)
    <3>1. LastOr(x, page) \in C /\ Top(C) <= LastOr(x, page)
      BY <1>1, <1>2, <2>4, <2>5
    <3> QED
      BY <2>0, <3>1
  <2>7. \A k \in T : page[1] - 1 < k => k \in ToSet(page)
    <3> SUFFICES ASSUME NEW k \in T, page[1] - 1 < k PROVE k \in ToSet(page)
      OBVIOUS
    <3>1. page[1] <= k
      BY <2>0, <2>2
    <3> QED
      BY <1>1, <1>2, <2>2, <3>1
  <2>8. \A k \in ToSet(page) : page[1] - 1 < k /\ k <= Top(C)
    BY <1>1, <1>2, <2>0, <2>2, <2>3
  <2>9. Span(C, T, page, page[1] - 1, Top(C))
    BY <1>1, <1>2, <2>7, <2>8 DEF Span
  <2> QED
    BY <2>0, <2>2, <2>6, <2>9
<1> QED
  BY <1>2, <1>3, <1>4 DEF page, rows

-----------------------------------------------------------------------------
(***************************************************************************)
(* The invariant.  Its parts are stated of a table (C, T), what the        *)
(* service observed, a client L, a console K, its wire w, its feed f and   *)
(* the cursor s where the feed begins.                                     *)
(***************************************************************************)
Clients == [stage : {"none", "registered", "catchingUp", "live"},
            cursor : 0..MaxCursor, through : 0..MaxCursor, pending : SUBSET Cursor]
Consoles == [pc : {"down", "repair", "repaired", "streaming"},
             last : 0..MaxCursor, through : 0..MaxCursor]

\* Cursors that some committed row has reached.
CursorsReached(C, L, K) ==
  /\ L.cursor <= Top(C) /\ L.through <= Top(C)
  /\ K.last <= Top(C) /\ K.through <= Top(C)

\* The wire continues the feed, up to the cursor of the client if there is one.
WireReads(C, T, L, K, w) ==
  /\ K.pc # "streaming" => w = <<>> /\ L.stage = "none"
  /\ K.pc = "streaming" => Span(C, T, w, K.last, LastOr(K.last, w))
  /\ L.stage # "none" => K.last <= L.cursor /\ Span(C, T, w, K.last, L.cursor)

\* What the polling has passed is queued, or the client is past it.
QueueHolds(C, T, passed, L) ==
  /\ L.pending \subseteq C /\ \A k \in L.pending : k <= passed
  /\ L.stage = "catchingUp" =>
       /\ L.cursor <= L.through
       /\ \A k \in T : L.through < k /\ k <= passed => k \in L.pending
  /\ L.stage = "live" => \A k \in T : k <= passed => k <= L.cursor

FeedShows(C, T, K, f, s) == s <= K.last /\ Span(C, T, f, s, K.last)

Streams(C, T, passed, L, K, w, f, s) ==
  CursorsReached(C, L, K) /\ WireReads(C, T, L, K, w) /\ QueueHolds(C, T, passed, L) /\ FeedShows(C, T, K, f, s)

StreamOf(c) ==
  Streams(Committed, OnTime, observed, client[c], console[c], wire[c], feed[c], since[c])

StreamInv ==
  /\ TypeOK /\ zombies <= faults
  /\ observed <= LatestCursor /\ poll.through <= LatestCursor
  /\ \A c \in Console : StreamOf(c)

\* Both properties are parts of it.
LEMMA InvariantImplies == StreamInv => FeedIsExact /\ WireContinuesFeed
<1> SUFFICES ASSUME StreamInv, NEW c \in Console
             PROVE  /\ Covers(feed[c], since[c], console[c].last)
                    /\ client[c].stage # "none" =>
                         /\ console[c].last <= client[c].cursor
                         /\ Covers(wire[c], console[c].last, client[c].cursor)
  BY DEF FeedIsExact, WireContinuesFeed
<1>1. Streams(Committed, OnTime, observed, client[c], console[c], wire[c], feed[c], since[c])
  BY DEF StreamInv, StreamOf
<1>2. /\ Span(Committed, OnTime, feed[c], since[c], console[c].last)
      /\ client[c].stage # "none" =>
           console[c].last <= client[c].cursor /\ Span(Committed, OnTime, wire[c], console[c].last, client[c].cursor)
  BY <1>1 DEF Streams, FeedShows, WireReads
<1> QED
  BY <1>2, TableSets

\* What the types say of one console.
LEMMA ConsoleTypes ==
  ASSUME TypeOK, NEW c \in Console
  PROVE  /\ client[c] \in Clients /\ console[c] \in Consoles
         /\ wire[c] \in Seq(Cursor) /\ feed[c] \in Seq(Cursor) /\ since[c] \in 0..MaxCursor
         /\ client[c].cursor \in Nat /\ client[c].through \in Nat /\ client[c].pending \in SUBSET Cursor
         /\ console[c].last \in Nat /\ console[c].through \in Nat /\ since[c] \in Nat
         /\ observed \in Nat /\ poll.through \in Nat
<1>1. /\ client[c] \in Clients /\ console[c] \in Consoles
      /\ wire[c] \in Seq(Cursor) /\ feed[c] \in Seq(Cursor) /\ since[c] \in 0..MaxCursor
      /\ observed \in 0..MaxCursor /\ poll.through \in 0..MaxCursor
  BY DEF TypeOK, Clients, Consoles
<1> QED
  BY <1>1, BoundsAssumption DEF Clients, Consoles

-----------------------------------------------------------------------------
(* Steps of the table. *)

\* What holds of a console holds when rows commit, on time past all others.
LEMMA StreamsKeep ==
  ASSUME NEW C \in SUBSET Cursor, NEW T \in SUBSET C, NEW D \in SUBSET Cursor, NEW U \in SUBSET D,
         C \subseteq D, \A k \in U \ T : Top(C) < k,
         NEW passed \in Nat, passed <= Top(C), NEW L \in Clients, NEW K \in Consoles,
         NEW w \in Seq(Cursor), NEW f \in Seq(Cursor), NEW s \in Nat,
         Streams(C, T, passed, L, K, w, f, s)
  PROVE  Streams(D, U, passed, L, K, w, f, s)
<1>0. /\ Top(C) \in Nat /\ Top(D) \in Nat /\ Top(C) <= Top(D)
      /\ L.cursor \in Nat /\ L.through \in Nat /\ K.last \in Nat /\ K.through \in Nat
      /\ \A k \in U : k \in Nat
  <2>1. Top(C) \in 0..MaxCursor /\ Top(D) \in 0..MaxCursor /\ Top(C) <= Top(D)
    BY TopIsGreatest, TopGrows
  <2>2. L.cursor \in 0..MaxCursor /\ L.through \in 0..MaxCursor /\ K.last \in 0..MaxCursor /\ K.through \in 0..MaxCursor
    BY DEF Clients, Consoles
  <2>3. \A k \in U : k \in 1..MaxCursor
    BY DEF Cursor
  <2> QED
    BY <2>1, <2>2, <2>3, BoundsAssumption
<1>1. \A k \in U \ T : k \in Nat /\ Top(C) < k
  BY <1>0
<1>2. CursorsReached(D, L, K)
  BY <1>0 DEF Streams, CursorsReached
<1>3. WireReads(D, U, L, K, w)
  <2>1. ASSUME K.pc = "streaming"
        PROVE  Span(D, U, w, K.last, LastOr(K.last, w))
    <3>1. Span(C, T, w, K.last, LastOr(K.last, w))
      BY <2>1 DEF Streams, WireReads
    <3>2. LastOr(K.last, w) \in Nat /\ LastOr(K.last, w) <= Top(C)
      <4>1. /\ LastOr(K.last, w) \in Nat
            /\ w = <<>> => LastOr(K.last, w) = K.last
            /\ w # <<>> => LastOr(K.last, w) \in ToSet(w)
        BY <1>0, <3>1, LastIsGreatest DEF Span
      <4>2. \A k \in ToSet(w) : k <= Top(C)
        BY <3>1, TopIsGreatest DEF Span
      <4> QED
        BY <4>1, <4>2 DEF Streams, CursorsReached
    <3> QED
      BY <1>1, <3>1, <3>2, SpanKeeps
  <2>2. ASSUME L.stage # "none"
        PROVE  K.last <= L.cursor /\ Span(D, U, w, K.last, L.cursor)
    <3>1. K.last <= L.cursor /\ Span(C, T, w, K.last, L.cursor) /\ L.cursor <= Top(C)
      BY <2>2 DEF Streams, WireReads, CursorsReached
    <3> QED
      BY <1>0, <1>1, <3>1, SpanKeeps
  <2> QED
    BY <2>1, <2>2 DEF Streams, WireReads
<1>4. QueueHolds(D, U, passed, L)
  <2>1. \A k \in U : k <= passed => k \in T
    BY <1>0, <1>1
  <2> QED
    BY <2>1 DEF Streams, QueueHolds
<1>5. FeedShows(D, U, K, f, s)
  <2>1. s <= K.last /\ Span(C, T, f, s, K.last) /\ K.last <= Top(C)
    BY DEF Streams, FeedShows, CursorsReached
  <2> QED
    BY <1>0, <1>1, <2>1, SpanKeeps DEF FeedShows
<1> QED
  BY <1>2, <1>3, <1>4, <1>5 DEF Streams

LEMMA TableStep ==
  ASSUME StreamInv, NEW k \in Cursor, Insert(k) \/ Commit(k) \/ Abort(k)
  PROVE  StreamInv'
<1> DEFINE RowStatus == {"unused", "open", "committed", "late", "aborted"}
<1>1. UNCHANGED <<observed, poll, client, zombies, wire, console, feed, since, faults>>
  BY DEF Insert, Commit, Abort
<1>2. row \in [Cursor -> RowStatus]
  BY DEF StreamInv, TypeOK
<1>3. row' \in [Cursor -> RowStatus]
  BY <1>2 DEF Insert, Commit, Abort
<1>4. TypeOK'
  BY <1>1, <1>3 DEF StreamInv, TypeOK
<1>5. Committed \subseteq Committed'
  BY <1>2 DEF Insert, Commit, Abort, Committed
<1>6. \A j \in OnTime' \ OnTime : Top(Committed) < j
  <2> SUFFICES ASSUME NEW j \in OnTime', j \notin OnTime PROVE Top(Committed) < j
    OBVIOUS
  <2>1. j = k /\ Commit(k) /\ row[k] = "open" /\ \A i \in Committed : ~(i > k)
    BY <1>2 DEF Insert, Commit, Abort, OnTime
  <2>2. k \notin Committed /\ k \in Nat /\ k > 0
    BY <2>1, BoundsAssumption DEF Commit, Committed, Cursor
  <2>3. Top(Committed) = 0 \/ Top(Committed) \in Committed
    BY TableSets DEF Top, TopIsGreatest
  <2>4. Top(Committed) \in Nat
    BY TableSets, TopIsGreatest, BoundsAssumption
  <2>5. CASE Top(Committed) \in Committed
    <3>1. ~(Top(Committed) > k) /\ Top(Committed) # k
      BY <2>1, <2>2, <2>5
    <3> QED
      BY <2>1, <2>2, <2>4, <3>1
  <2> QED
    BY <2>1, <2>2, <2>3, <2>5
<1>7. Committed \in SUBSET Cursor /\ OnTime \in SUBSET Committed
  BY TableSets
<1>8. Committed' \in SUBSET Cursor /\ OnTime' \in SUBSET Committed'
  BY DEF Committed, OnTime
<1>9. LatestCursor <= LatestCursor' /\ LatestCursor \in Nat /\ LatestCursor' \in Nat
  <2>1. LatestCursor = Top(Committed) /\ LatestCursor' = Top(Committed')
    BY DEF LatestCursor, Top
  <2> QED
    BY <1>5, <1>7, <1>8, <2>1, TopGrows, TopIsGreatest, BoundsAssumption
<1>10. ASSUME NEW c \in Console PROVE StreamOf(c)'
  <2>1. Streams(Committed, OnTime, observed, client[c], console[c], wire[c], feed[c], since[c])
    BY DEF StreamInv, StreamOf
  <2>2. observed \in Nat /\ observed <= Top(Committed)
    BY ConsoleTypes, TableSets DEF StreamInv
  <2>3. Streams(Committed', OnTime', observed, client[c], console[c], wire[c], feed[c], since[c])
    BY <1>5, <1>6, <1>7, <1>8, <2>1, <2>2, ConsoleTypes, StreamsKeep DEF StreamInv
  <2> QED
    BY <1>1, <2>3 DEF StreamOf
<1>11. observed' <= LatestCursor' /\ poll'.through <= LatestCursor'
  <2>1. observed \in Nat /\ poll.through \in Nat
    BY BoundsAssumption DEF StreamInv, TypeOK
  <2> QED
    BY <1>1, <1>9, <2>1 DEF StreamInv
<1> QED
  BY <1>1, <1>4, <1>10, <1>11 DEF StreamInv

-----------------------------------------------------------------------------
(* Steps of the service. *)

\* The table stands still when its rows do.
LEMMA TableStill ==
  ASSUME row' = row
  PROVE  Committed' = Committed /\ OnTime' = OnTime /\ LatestCursor' = LatestCursor
BY DEF Committed, OnTime, LatestCursor

\* A step of one console and its client leaves the others alone.
LEMMA OthersKeep ==
  ASSUME StreamInv, row' = row, observed' = observed, NEW c \in Console, StreamOf(c)',
         \A d \in Console \ {c} :
           /\ client'[d] = client[d] /\ console'[d] = console[d]
           /\ wire'[d] = wire[d] /\ feed'[d] = feed[d] /\ since'[d] = since[d]
  PROVE  \A d \in Console : StreamOf(d)'
<1> SUFFICES ASSUME NEW d \in Console, d # c PROVE StreamOf(d)'
  OBVIOUS
<1>1. StreamOf(d)
  BY DEF StreamInv
<1> QED
  BY <1>1, TableStill DEF StreamOf

\* It is a number.
LEMMA LastIsNumber ==
  ASSUME NEW x \in Nat, NEW s \in Seq(Cursor)
  PROVE  LastOr(x, s) \in Nat
<1>1. CASE s = <<>>
  BY <1>1 DEF LastOr
<1>2. CASE s # <<>>
  <2>1. Len(s) \in 1..Len(s)
    BY <1>2, EmptySeq
  <2>2. s[Len(s)] \in 1..MaxCursor
    BY <2>1, ElementOfSeq DEF Cursor
  <2> QED
    BY <1>2, <2>2, BoundsAssumption DEF LastOr
<1> QED
  BY <1>1, <1>2

\* The catching up: rows up to the bound from the table, the rest from the queue.
Ended(cursor, page, through) == page = <<>> \/ cursor >= through

\* A step of it: what it reads is page, what it takes from the queue is queued.
CatchUpFrom(C, T, passed, low, from, through, w, pending, limit, page, cursor, queued, end) ==
  /\ C \in SUBSET Cursor /\ T \in SUBSET C /\ w \in Seq(Cursor) /\ limit \in Nat \ {0}
  /\ passed \in Nat /\ low \in Nat /\ from \in Nat /\ through \in Nat
  /\ low <= from /\ from <= through /\ through <= Top(C) /\ Span(C, T, w, low, from)
  /\ pending \in SUBSET C /\ \A k \in pending : k <= passed
  /\ \A k \in T : through < k /\ k <= passed => k \in pending
  /\ page = IF from < through THEN Batch(C, from, through, limit) ELSE <<>>
  /\ cursor \in Nat /\ cursor = LastOr(from, page)
  /\ queued = IF Ended(cursor, page, through) THEN Newer(cursor, Ascending(pending)) ELSE <<>>
  /\ end \in Nat /\ end = LastOr(cursor, queued)

LEMMA CatchUpReads ==
  ASSUME NEW C, NEW T, NEW passed, NEW low, NEW from, NEW through, NEW w, NEW pending, NEW limit,
         NEW page, NEW cursor, NEW queued, NEW end,
         CatchUpFrom(C, T, passed, low, from, through, w, pending, limit, page, cursor, queued, end)
  PROVE  /\ w \o page \o queued \in Seq(Cursor) /\ Span(C, T, w \o page \o queued, low, end)
         /\ end \in Nat /\ low <= end /\ end <= Top(C)
         /\ Ended(cursor, page, through) => \A k \in T : k <= passed => k <= end
         /\ ~Ended(cursor, page, through) => end <= through
<1>a. /\ C \in SUBSET Cursor /\ T \in SUBSET C /\ w \in Seq(Cursor) /\ limit \in Nat \ {0}
      /\ passed \in Nat /\ low \in Nat /\ from \in Nat /\ through \in Nat
      /\ low <= from /\ from <= through /\ through <= Top(C) /\ Span(C, T, w, low, from)
      /\ pending \in SUBSET C /\ \A k \in pending : k <= passed
      /\ \A k \in T : through < k /\ k <= passed => k \in pending
      /\ page = IF from < through THEN Batch(C, from, through, limit) ELSE <<>>
      /\ cursor \in Nat /\ cursor = LastOr(from, page)
      /\ queued = IF Ended(cursor, page, through) THEN Newer(cursor, Ascending(pending)) ELSE <<>>
      /\ end \in Nat /\ end = LastOr(cursor, queued)
  BY DEF CatchUpFrom
<1> USE <1>a
<1>0. /\ Top(C) \in Nat /\ \A k \in C : k \in Nat /\ k <= Top(C)
      /\ pending \in SUBSET Cursor /\ T \in SUBSET Cursor
  BY TopIsGreatest, BoundsAssumption DEF Cursor
<1>1. /\ page \in Seq(Cursor) /\ cursor \in Nat /\ from <= cursor /\ cursor <= through
      /\ Span(C, T, page, from, cursor)
      /\ Ended(cursor, page, through) => \A k \in T : ~(cursor < k /\ k <= through)
  <2>1. CASE from < through
    <3>1. page = Batch(C, from, through, limit)
      BY <2>1
    <3>2. Span(C, T, page, from, cursor)
      BY <3>1, BatchSpans
    <3>3. /\ page \in Seq(Cursor) /\ cursor \in Nat /\ from <= cursor
          /\ page # <<>> => cursor <= through
          /\ page = <<>> => cursor = from /\ \A k \in C : ~(from < k /\ k <= through)
      BY <3>1, <3>2, BatchSpans
    <3>4. cursor <= through
      BY <2>1, <3>3
    <3>5. Ended(cursor, page, through) => \A k \in T : ~(cursor < k /\ k <= through)
      BY <1>0, <3>3, <3>4 DEF Ended
    <3> QED
      BY <3>2, <3>3, <3>4, <3>5
  <2>2. CASE ~(from < through)
    <3>1. page = <<>> /\ cursor = from /\ cursor = through
      BY <2>2 DEF LastOr
    <3>2. \A k \in T : ~(cursor < k /\ k <= through)
      BY <1>0, <3>1
    <3>3. <<>> \in Seq(Cursor) /\ Span(C, T, <<>>, from, cursor)
      BY <1>0, <3>1, <3>2, SpanEmpty
    <3> QED
      BY <3>1, <3>2, <3>3
  <2> QED
    BY <2>1, <2>2
<1>2. w \o page \in Seq(Cursor) /\ Span(C, T, w \o page, low, cursor)
  BY <1>0, <1>1, SpanJoins
<1>3. /\ queued \in Seq(Cursor) /\ end \in Nat /\ cursor <= end /\ end <= Top(C)
      /\ Span(C, T, queued, cursor, end)
      /\ Ended(cursor, page, through) => \A k \in T : k <= passed => k <= end
      /\ ~Ended(cursor, page, through) => end = cursor
  <2>1. CASE Ended(cursor, page, through)
    <3> DEFINE rows == Ascending(pending)
    <3>1. rows \in Seq(Cursor) /\ Increasing(rows) /\ ToSet(rows) = pending
      BY <1>0, AscendingLists
    <3>2. queued = Newer(cursor, rows)
      BY <2>1
    <3> HIDE DEF rows
    <3>3. /\ queued \in Seq(Cursor) /\ Increasing(queued)
          /\ ToSet(queued) = {k \in ToSet(rows) : k > cursor}
      <4> DEFINE newer == Newer(cursor, rows)
      <4>1. /\ newer \in Seq(Cursor) /\ Increasing(newer)
            /\ ToSet(newer) = {k \in ToSet(rows) : k > cursor}
        BY <3>1, NewerKeeps
      <4> QED
        BY <3>2, <4>1
    <3>4. /\ end \in Nat /\ (queued = <<>> => end = cursor /\ ToSet(queued) = {})
          /\ (queued # <<>> => end \in ToSet(queued) /\ \A k \in ToSet(queued) : k <= end)
      BY <1>1, <3>3, LastIsGreatest
    <3>5. cursor <= end /\ end <= Top(C) /\ (end = cursor \/ end <= passed)
      BY <1>0, <1>1, <3>1, <3>3, <3>4
    <3>6. ASSUME NEW k \in T, cursor < k, k <= passed PROVE k \in ToSet(queued)
      <4>1. k \in pending
        BY <1>0, <1>1, <2>1, <3>6
      <4> QED
        BY <3>1, <3>3, <3>6, <4>1
    <3>7. \A k \in ToSet(queued) : cursor < k /\ k <= end
      BY <1>0, <1>1, <3>1, <3>3, <3>4
    <3>8. \A k \in T : cursor < k /\ k <= end => k \in ToSet(queued)
      BY <1>0, <1>1, <3>4, <3>5, <3>6
    <3>9. Span(C, T, queued, cursor, end)
      BY <3>1, <3>3, <3>7, <3>8 DEF Span
    <3>10. ASSUME NEW k \in T, k <= passed PROVE k <= end
      <4>1. CASE k <= cursor
        BY <1>0, <1>1, <3>4, <3>5, <4>1
      <4>2. CASE ~(k <= cursor)
        <5>1. k \in ToSet(queued)
          BY <1>0, <1>1, <3>6, <3>10, <4>2
        <5> QED
          BY <3>4, <5>1
      <4> QED
        BY <4>1, <4>2
    <3> QED
      BY <2>1, <3>3, <3>4, <3>5, <3>9, <3>10
  <2>2. CASE ~Ended(cursor, page, through)
    <3>1. queued = <<>> /\ end = cursor
      BY <2>2 DEF LastOr
    <3>2. \A k \in T : ~(cursor < k /\ k <= end)
      BY <1>0, <1>1, <3>1
    <3>3. <<>> \in Seq(Cursor) /\ Span(C, T, <<>>, cursor, end)
      BY <3>2, SpanEmpty
    <3> QED
      BY <1>0, <1>1, <2>2, <3>1, <3>3
  <2> QED
    BY <2>1, <2>2
<1>4. w \o page \o queued \in Seq(Cursor) /\ Span(C, T, w \o page \o queued, low, end)
  <2> DEFINE read == w \o page
  <2>1. read \in Seq(Cursor) /\ Span(C, T, read, low, cursor) /\ low <= cursor
    BY <1>1, <1>2
  <2> HIDE DEF read
  <2>2. read \o queued \in Seq(Cursor) /\ Span(C, T, read \o queued, low, end)
    BY <1>0, <1>1, <1>3, <2>1, SpanJoins
  <2> QED
    BY <2>2 DEF read
<1>5. low <= end /\ (~Ended(cursor, page, through) => end <= through)
  BY <1>0, <1>1, <1>3
<1> QED
  BY <1>3, <1>4, <1>5

\* The parts that a step of the client and its wire can disturb.
LEMMA ClientParts ==
  ASSUME NEW C \in SUBSET Cursor, NEW T \in SUBSET C, NEW passed, NEW L, NEW K \in Consoles,
         NEW w \in Seq(Cursor), NEW f, NEW s,
         K.last <= Top(C), K.through <= Top(C), FeedShows(C, T, K, f, s),
         K.pc = "streaming", L.stage # "none", L.cursor \in Nat, L.cursor <= Top(C), L.through <= Top(C),
         K.last <= L.cursor, Span(C, T, w, K.last, L.cursor), QueueHolds(C, T, passed, L)
  PROVE  Streams(C, T, passed, L, K, w, f, s)
<1>1. PICK low \in Nat, high \in Nat : low = K.last /\ high = L.cursor
  BY BoundsAssumption DEF Consoles
<1>2. Span(C, T, w, low, high) /\ low <= high /\ T \in SUBSET Cursor
  BY <1>1
<1>3. Span(C, T, w, low, LastOr(low, w))
  BY <1>2, WholeSpan
<1> QED
  BY <1>1, <1>3 DEF Streams, CursorsReached, WireReads

\* A client that is live is written what it is not past yet.
LiveStep(C, T, passed, through, limit, page, now, low, cursor, w, sent, end) ==
  /\ C \in SUBSET Cursor /\ T \in SUBSET C /\ w \in Seq(Cursor) /\ limit \in Nat \ {0}
  /\ passed \in Nat /\ through \in Nat /\ page = Batch(C, passed, through, limit)
  /\ now \in Nat /\ now = LastOr(passed, page)
  /\ low \in Nat /\ cursor \in Nat /\ low <= cursor /\ cursor <= Top(C) /\ Span(C, T, w, low, cursor)
  /\ \A k \in T : k <= passed => k <= cursor
  /\ sent = Newer(cursor, page) /\ end \in Nat /\ end = LastOr(cursor, sent)

LEMMA LiveReads ==
  ASSUME NEW C, NEW T, NEW passed, NEW through, NEW limit, NEW page, NEW now, NEW low, NEW cursor,
         NEW w, NEW sent, NEW end,
         LiveStep(C, T, passed, through, limit, page, now, low, cursor, w, sent, end)
  PROVE  /\ w \o sent \in Seq(Cursor) /\ Span(C, T, w \o sent, low, end)
         /\ low <= end /\ end <= Top(C)
         /\ \A k \in T : k <= now => k <= end
<1>a. /\ C \in SUBSET Cursor /\ T \in SUBSET C /\ w \in Seq(Cursor) /\ limit \in Nat \ {0}
      /\ passed \in Nat /\ through \in Nat /\ page = Batch(C, passed, through, limit)
      /\ now \in Nat /\ now = LastOr(passed, page)
      /\ low \in Nat /\ cursor \in Nat /\ low <= cursor /\ cursor <= Top(C) /\ Span(C, T, w, low, cursor)
      /\ \A k \in T : k <= passed => k <= cursor
      /\ sent = Newer(cursor, page) /\ end \in Nat /\ end = LastOr(cursor, sent)
  BY DEF LiveStep
<1> USE <1>a
<1>0. /\ Top(C) \in Nat /\ T \in SUBSET Cursor
      /\ \A k \in C : k \in Nat /\ k <= Top(C)
  BY TopIsGreatest, BoundsAssumption DEF Cursor
<1>1. Span(C, T, page, passed, now)
  BY BatchSpans
<1>2. page \in Seq(Cursor) /\ passed <= now
  BY <1>1, BatchSpans
<1>3. Increasing(page) /\ ToSet(page) \subseteq C
  BY <1>1 DEF Span
<1>4. /\ sent \in Seq(Cursor) /\ Increasing(sent)
      /\ ToSet(sent) = {k \in ToSet(page) : k > cursor}
  <2> DEFINE newer == Newer(cursor, page)
  <2>1. /\ newer \in Seq(Cursor) /\ Increasing(newer)
        /\ ToSet(newer) = {k \in ToSet(page) : k > cursor}
    BY <1>2, <1>3, NewerKeeps
  <2> QED
    BY <2>1
<1>5. /\ sent = <<>> => end = cursor /\ ToSet(sent) = {}
      /\ sent # <<>> => end \in ToSet(sent) /\ \A k \in ToSet(sent) : k <= end
  BY <1>4, LastIsGreatest
<1>6. cursor <= end /\ end <= Top(C) /\ (end = cursor \/ end <= now)
  BY <1>0, <1>1, <1>4, <1>5 DEF Span
<1>7. ASSUME NEW k \in T, cursor < k, k <= now PROVE k \in ToSet(sent)
  <2>1. k \in Nat /\ passed < k
    BY <1>0, <1>7
  <2>2. k \in ToSet(page)
    BY <1>1, <1>7, <2>1 DEF Span
  <2> QED
    BY <1>4, <1>7, <2>2
<1>8. \A k \in ToSet(sent) : k \in Nat /\ cursor < k /\ k <= end
  BY <1>0, <1>3, <1>4, <1>5
<1>9. \A k \in T : cursor < k /\ k <= end => k \in ToSet(sent)
  BY <1>0, <1>5, <1>6, <1>7
<1>10. Span(C, T, sent, cursor, end)
  BY <1>3, <1>4, <1>8, <1>9 DEF Span
<1>11. w \o sent \in Seq(Cursor) /\ Span(C, T, w \o sent, low, end)
  BY <1>0, <1>4, <1>6, <1>10, SpanJoins
<1>12. ASSUME NEW k \in T, k <= now PROVE k <= end
  <2>1. k \in Nat
    BY <1>0
  <2>2. CASE cursor < k
    BY <1>5, <1>7, <1>12, <2>2
  <2>3. CASE ~(cursor < k)
    BY <1>6, <2>1, <2>3
  <2> QED
    BY <2>2, <2>3
<1> QED
  BY <1>6, <1>11, <1>12

\* A page of the polling, which spans what it passes.
PageStep(C, T, passed, through, limit, page, now) ==
  /\ C \in SUBSET Cursor /\ T \in SUBSET C /\ limit \in Nat \ {0}
  /\ passed \in Nat /\ through \in Nat /\ page = Batch(C, passed, through, limit)
  /\ now \in Nat /\ now = LastOr(passed, page)

LEMMA PageOfPoll ==
  ASSUME NEW C, NEW T, NEW passed, NEW through, NEW limit, NEW page, NEW now,
         PageStep(C, T, passed, through, limit, page, now)
  PROVE  /\ Span(C, T, page, passed, now) /\ passed <= now
         /\ page \in Seq(Cursor) /\ Increasing(page)
<1>1. /\ C \in SUBSET Cursor /\ T \in SUBSET C /\ limit \in Nat \ {0}
      /\ passed \in Nat /\ through \in Nat /\ page = Batch(C, passed, through, limit)
      /\ now \in Nat /\ now = LastOr(passed, page)
  BY DEF PageStep
<1>2. Span(C, T, page, passed, now)
  BY <1>1, BatchSpans
<1>3. passed <= now /\ page \in Seq(Cursor)
  BY <1>1, <1>2, BatchSpans
<1> QED
  BY <1>2, <1>3 DEF Span

\* What a client that catches up is with the new rows of a page.
Grown(L, page) == [L EXCEPT !.pending = @ \cup {k \in ToSet(page) : k > L.cursor}]

\* Whoever catches up has it queued.
LEMMA QueueGrows ==
  ASSUME NEW C \in SUBSET Cursor, NEW T \in SUBSET C, NEW passed \in Nat, NEW now \in Nat,
         NEW through, NEW limit, NEW page, PageStep(C, T, passed, through, limit, page, now),
         NEW L \in Clients, QueueHolds(C, T, passed, L), L.stage # "live"
  PROVE  Grown(L, page) \in Clients /\ QueueHolds(C, T, now, Grown(L, page))
<1> DEFINE M == Grown(L, page)
<1>0. /\ L.cursor \in Nat /\ L.through \in Nat /\ \A k \in C : k \in Nat
      /\ T \in SUBSET C /\ C \in SUBSET Cursor /\ L.pending \in SUBSET Cursor
  BY BoundsAssumption DEF Cursor, Clients
<1>1. Span(C, T, page, passed, now)
  BY PageOfPoll
<1>2. passed <= now /\ ToSet(page) \subseteq C /\ \A k \in ToSet(page) : passed < k /\ k <= now
  <2>1. passed <= now
    BY PageOfPoll
  <2> QED
    BY <1>1, <2>1 DEF Span
<1> DEFINE more == {k \in ToSet(page) : k > L.cursor}
<1>3. more \subseteq C /\ \A k \in more : k <= now
  BY <1>2
<1>4. ASSUME NEW k \in T, L.cursor < k, passed < k, k <= now PROVE k \in more
  <2>1. k \in ToSet(page)
    BY <1>1, <1>4 DEF Span
  <2> QED
    BY <1>0, <1>4, <2>1
<1> HIDE DEF more
<1>5. M = [L EXCEPT !.pending = @ \cup more]
  BY DEF more, Grown
<1> HIDE DEF M
<1>6. /\ M.stage = L.stage /\ M.cursor = L.cursor /\ M.through = L.through
      /\ M.pending = L.pending \cup more
  BY <1>5 DEF Clients
<1>7. M \in Clients
  BY <1>0, <1>3, <1>5 DEF Clients
<1>8. M.pending \subseteq C /\ \A k \in M.pending : k <= now
  <2>1. \A k \in L.pending : k <= passed /\ k \in C
    BY DEF QueueHolds
  <2>2. \A k \in L.pending : k <= now
    BY <1>0, <1>2, <2>1
  <2> QED
    BY <1>3, <1>6, <2>1, <2>2
<1>9. ASSUME L.stage = "catchingUp"
      PROVE  /\ L.cursor <= L.through
             /\ \A k \in T : L.through < k /\ k <= now => k \in M.pending
  <2>1. /\ L.cursor <= L.through
        /\ \A k \in T : L.through < k /\ k <= passed => k \in L.pending
    BY <1>9 DEF QueueHolds
  <2>2. ASSUME NEW k \in T, L.through < k, k <= now PROVE k \in M.pending
    <3>1. k \in Nat /\ L.cursor < k
      BY <1>0, <2>1, <2>2
    <3>2. CASE k <= passed
      BY <1>6, <2>1, <2>2, <3>2
    <3>3. CASE ~(k <= passed)
      BY <1>4, <1>6, <2>2, <3>1, <3>3
    <3> QED
      BY <3>2, <3>3
  <2> QED
    BY <2>1, <2>2
<1> QED
  BY <1>6, <1>7, <1>8, <1>9 DEF QueueHolds, M

-----------------------------------------------------------------------------
(* Steps that leave the streams in place, or break them. *)

THEOREM StreamInit == Init => StreamInv
<1> SUFFICES ASSUME Init PROVE StreamInv
  OBVIOUS
<1>1. 0 \in 0..MaxCursor /\ 0 \in 0..MaxFaults /\ MaxCursor \in Nat /\ <<>> \in Seq(Cursor)
  BY BoundsAssumption
<1>2. TypeOK
  BY <1>1 DEF Init, TypeOK, IdlePoll, NoClient, NewConsole
<1>3. Committed = {} /\ OnTime = {}
  BY DEF Init, Committed, OnTime
<1>4. LatestCursor = 0 /\ Top({}) = 0
  BY <1>3 DEF LatestCursor, Top
<1>5. ASSUME NEW c \in Console PROVE StreamOf(c)
  <2>1. /\ client[c] = NoClient /\ console[c] = NewConsole /\ wire[c] = <<>> /\ feed[c] = <<>>
        /\ since[c] = 0 /\ observed = 0
    BY DEF Init
  <2>2. Span({}, {}, <<>>, 0, 0)
    BY SpanEmpty
  <2>3. Streams({}, {}, 0, NoClient, NewConsole, <<>>, <<>>, 0)
    BY <1>4, <2>2 DEF Streams, CursorsReached, WireReads, QueueHolds, FeedShows, NoClient, NewConsole
  <2> QED
    BY <1>3, <2>1, <2>3 DEF StreamOf
<1>6. zombies <= faults /\ observed <= LatestCursor /\ poll.through <= LatestCursor
  BY <1>4 DEF Init, IdlePoll
<1> QED
  BY <1>2, <1>5, <1>6 DEF StreamInv

\* What the service and the consoles keep when only one console and its client move.
LEMMA OneMoves ==
  ASSUME StreamInv, row' = row, observed' = observed, poll' = poll, NEW c \in Console,
         NEW L \in Clients, client' = [client EXCEPT ![c] = L],
         NEW K \in Consoles, console' = [console EXCEPT ![c] = K],
         NEW w \in Seq(Cursor), wire' = [wire EXCEPT ![c] = w],
         NEW f \in Seq(Cursor), feed' = [feed EXCEPT ![c] = f],
         NEW s \in 0..MaxCursor, since' = [since EXCEPT ![c] = s],
         zombies' \in Nat, faults' \in 0..MaxFaults, zombies' <= faults',
         Streams(Committed, OnTime, observed, L, K, w, f, s)
  PROVE  StreamInv'
<1>1. zombies' \in 0..MaxFaults
  BY BoundsAssumption
<1>2. TypeOK'
  BY <1>1 DEF StreamInv, TypeOK, Clients, Consoles
<1>3. /\ client'[c] = L /\ console'[c] = K /\ wire'[c] = w /\ feed'[c] = f /\ since'[c] = s
      /\ \A d \in Console \ {c} :
           /\ client'[d] = client[d] /\ console'[d] = console[d]
           /\ wire'[d] = wire[d] /\ feed'[d] = feed[d] /\ since'[d] = since[d]
  BY DEF StreamInv, TypeOK
<1>4. StreamOf(c)'
  BY <1>3, TableStill DEF StreamOf
<1>5. \A d \in Console : StreamOf(d)'
  BY <1>3, <1>4, OthersKeep
<1> QED
  BY <1>2, <1>5, TableStill DEF StreamInv

\* A function with one value put back in its place.
LEMMA PutBack ==
  ASSUME TypeOK, NEW c \in Console
  PROVE  /\ client = [client EXCEPT ![c] = client[c]] /\ console = [console EXCEPT ![c] = console[c]]
         /\ wire = [wire EXCEPT ![c] = wire[c]] /\ feed = [feed EXCEPT ![c] = feed[c]]
         /\ since = [since EXCEPT ![c] = since[c]]
         /\ zombies \in Nat /\ faults \in 0..MaxFaults
<1>1. zombies \in Nat
  BY BoundsAssumption DEF TypeOK
<1> QED
  BY <1>1 DEF TypeOK

\* Without a client nothing is asked of the queue.
LEMMA ClientGone ==
  ASSUME NEW C \in SUBSET Cursor, NEW T, NEW passed, NEW L, NEW K, NEW w, NEW f, NEW s,
         Streams(C, T, passed, L, K, w, f, s), NEW now
  PROVE  Streams(C, T, now, NoClient, K, w, f, s)
<1>1. 0 <= Top(C)
  BY TopIsGreatest, BoundsAssumption
<1> QED
  BY <1>1 DEF Streams, CursorsReached, WireReads, QueueHolds, FeedShows, NoClient

LEMMA AllDisconnected ==
  ASSUME StreamInv, PollFails \/ Restart
  PROVE  StreamInv'
<1>0. MaxCursor \in Nat /\ MaxFaults \in Nat /\ faults \in Nat /\ 0 \in 0..MaxCursor
  BY BoundsAssumption DEF StreamInv, TypeOK
<1>1. /\ row' = row /\ observed' \in {observed, 0} /\ poll' = IdlePoll /\ zombies' = 0 /\ faults' = faults + 1
      /\ faults < MaxFaults
      /\ client' = [c \in Console |-> NoClient]
      /\ UNCHANGED <<wire, console, feed, since>>
  BY DEF PollFails, Restart, Fault
<1>2. TypeOK'
  <2>1. NoClient \in Clients /\ poll' \in [busy : BOOLEAN, through : 0..MaxCursor]
    BY <1>0, <1>1 DEF NoClient, Clients, IdlePoll
  <2>2. zombies' \in 0..MaxFaults /\ faults' \in 0..MaxFaults
    BY <1>0, <1>1
  <2>3. observed' \in 0..MaxCursor
    BY <1>0, <1>1 DEF StreamInv, TypeOK
  <2>4. client' \in [Console -> Clients]
    BY <1>1, <2>1
  <2> QED
    BY <1>1, <2>1, <2>2, <2>3, <2>4 DEF StreamInv, TypeOK, Clients
<1>3. ASSUME NEW c \in Console PROVE StreamOf(c)'
  <2>1. client'[c] = NoClient
    BY <1>1
  <2>2. Streams(Committed, OnTime, observed', NoClient, console[c], wire[c], feed[c], since[c])
    BY TableSets, ClientGone DEF StreamInv, StreamOf
  <2> QED
    BY <1>1, <2>1, <2>2, TableStill DEF StreamOf
<1>4. observed' <= LatestCursor' /\ poll'.through <= LatestCursor'
  <2>1. LatestCursor \in Nat /\ poll'.through = 0
    BY <1>0, <1>1, TableSets, TopIsGreatest DEF IdlePoll
  <2>2. observed' <= LatestCursor
    BY <1>1, <2>1 DEF StreamInv
  <2> QED
    BY <1>1, <2>1, <2>2, TableStill
<1>5. zombies' <= faults'
  BY <1>0, <1>1
<1> QED
  BY <1>2, <1>3, <1>4, <1>5 DEF StreamInv

LEMMA PollBegins ==
  ASSUME StreamInv, BeginPoll
  PROVE  StreamInv'
<1>1. LatestCursor \in 0..MaxCursor
  BY TableSets, TopIsGreatest
<1>2. /\ row' = row /\ UNCHANGED <<observed, client, zombies, wire, console, feed, since, faults>>
      /\ poll' = [busy |-> TRUE, through |-> LatestCursor]
  BY DEF BeginPoll
<1>3. poll' \in [busy : BOOLEAN, through : 0..MaxCursor] /\ poll'.through = LatestCursor
  BY <1>1, <1>2
<1>4. TypeOK'
  BY <1>2, <1>3 DEF StreamInv, TypeOK
<1>5. \A c \in Console : StreamOf(c)'
  BY <1>2, TableStill DEF StreamInv, StreamOf
<1> QED
  BY <1>1, <1>2, <1>3, <1>4, <1>5, TableStill, BoundsAssumption DEF StreamInv

LEMMA Reaps ==
  ASSUME StreamInv, Reap
  PROVE  StreamInv'
<1>1. /\ row' = row /\ UNCHANGED <<observed, poll, client, wire, console, feed, since, faults>>
      /\ zombies' = zombies - 1 /\ zombies > 0
  BY DEF Reap
<1>2. zombies \in 0..MaxFaults /\ faults \in 0..MaxFaults /\ MaxFaults \in Nat /\ zombies <= faults
  BY BoundsAssumption DEF StreamInv, TypeOK
<1>3. zombies' \in 0..MaxFaults /\ zombies' <= faults'
  BY <1>1, <1>2
<1>4. TypeOK'
  BY <1>1, <1>3 DEF StreamInv, TypeOK
<1>5. \A c \in Console : StreamOf(c)'
  BY <1>1, TableStill DEF StreamInv, StreamOf
<1> QED
  BY <1>1, <1>3, <1>4, <1>5, TableStill DEF StreamInv

-----------------------------------------------------------------------------
(* Steps of one client or one console. *)

\* The queue is complete when its client starts: nothing lies past the bound yet.
LEMMA CatchUpBegins ==
  ASSUME StreamInv, NEW c \in Console, BeginCatchUp(c)
  PROVE  StreamInv'
<1> DEFINE old == client[c]
           new == [old EXCEPT !.stage = "catchingUp", !.through = LatestCursor]
<1>0. TypeOK /\ zombies <= faults /\ Committed \in SUBSET Cursor /\ OnTime \in SUBSET Committed
  BY TableSets DEF StreamInv
<1>1. /\ old \in Clients /\ old.stage = "registered" /\ console[c] \in Consoles
      /\ wire[c] \in Seq(Cursor) /\ feed[c] \in Seq(Cursor) /\ since[c] \in 0..MaxCursor
  BY <1>0, ConsoleTypes DEF BeginCatchUp
<1>2. LatestCursor = Top(Committed) /\ LatestCursor \in 0..MaxCursor /\ \A k \in Committed : k <= LatestCursor
  BY TableSets, TopIsGreatest
<1>3. client' = [client EXCEPT ![c] = new]
  BY DEF BeginCatchUp
<1>4. /\ new \in Clients /\ new.stage = "catchingUp" /\ new.through = LatestCursor
      /\ new.cursor = old.cursor /\ new.pending = old.pending
  BY <1>1, <1>2 DEF Clients
<1>5. Streams(Committed, OnTime, observed, old, console[c], wire[c], feed[c], since[c])
  BY DEF StreamInv, StreamOf
<1> HIDE DEF new
<1>6. \A k \in OnTime : ~(LatestCursor < k)
  <2>1. \A k \in OnTime : k <= LatestCursor /\ k \in Nat
    BY <1>0, <1>2, BoundsAssumption DEF Cursor
  <2>2. LatestCursor \in Nat
    BY <1>2, BoundsAssumption
  <2> QED
    BY <2>1, <2>2
<1>7. LatestCursor <= LatestCursor
  BY <1>2, BoundsAssumption
<1>8. CursorsReached(Committed, new, console[c])
  BY <1>2, <1>4, <1>5, <1>7 DEF Streams, CursorsReached
<1>9. WireReads(Committed, OnTime, new, console[c], wire[c])
  BY <1>1, <1>4, <1>5 DEF Streams, WireReads
<1>10. QueueHolds(Committed, OnTime, observed, new)
  BY <1>2, <1>4, <1>5, <1>6 DEF Streams, CursorsReached, QueueHolds
<1>11. Streams(Committed, OnTime, observed, new, console[c], wire[c], feed[c], since[c])
  BY <1>5, <1>8, <1>9, <1>10 DEF Streams
<1>12. /\ row' = row /\ observed' = observed /\ poll' = poll
       /\ zombies' = zombies /\ faults' = faults /\ wire' = wire /\ console' = console
       /\ feed' = feed /\ since' = since
  BY DEF BeginCatchUp
<1>13. /\ wire' = [wire EXCEPT ![c] = wire[c]] /\ console' = [console EXCEPT ![c] = console[c]]
       /\ feed' = [feed EXCEPT ![c] = feed[c]] /\ since' = [since EXCEPT ![c] = since[c]]
       /\ zombies' \in Nat /\ faults' \in 0..MaxFaults /\ zombies' <= faults'
  BY <1>0, <1>12, PutBack
<1> QED
  BY <1>1, <1>3, <1>4, <1>11, <1>12, <1>13, OneMoves

LEMMA CatchesUp ==
  ASSUME StreamInv, NEW c \in Console, CatchUp(c)
  PROVE  StreamInv'
<1> DEFINE old == client[c]
           page == IF old.cursor < old.through
                   THEN EventsBetween(old.cursor, old.through, PageSize) ELSE <<>>
           cursor == LastOr(old.cursor, page)
           last == page = <<>> \/ cursor >= old.through
           queued == IF last THEN Newer(cursor, Ascending(old.pending)) ELSE <<>>
           end == LastOr(cursor, queued)
           new == [old EXCEPT !.cursor = end, !.stage = IF last THEN "live" ELSE @,
                              !.pending = IF last THEN {} ELSE @]
           read == wire[c] \o page \o queued
<1>0. TypeOK /\ zombies <= faults /\ Committed \in SUBSET Cursor /\ OnTime \in SUBSET Committed
  BY TableSets DEF StreamInv
<1>1. /\ old \in Clients /\ old.stage = "catchingUp" /\ console[c] \in Consoles
      /\ wire[c] \in Seq(Cursor) /\ feed[c] \in Seq(Cursor) /\ since[c] \in 0..MaxCursor
      /\ old.pending \in SUBSET Cursor
  BY <1>0, ConsoleTypes DEF CatchUp
<1>2. /\ client' = [client EXCEPT ![c] = new] /\ wire' = [wire EXCEPT ![c] = read]
  BY DEF CatchUp
<1>3. Streams(Committed, OnTime, observed, old, console[c], wire[c], feed[c], since[c])
  BY DEF StreamInv, StreamOf
<1>4. PICK low \in Nat, from \in Nat, through \in Nat, passed \in Nat :
        low = console[c].last /\ from = old.cursor /\ through = old.through /\ passed = observed
  BY <1>0, ConsoleTypes
<1>5. /\ low <= from /\ from <= through /\ through <= Top(Committed) /\ low <= Top(Committed)
      /\ Span(Committed, OnTime, wire[c], low, from)
      /\ old.pending \in SUBSET Committed
      /\ \A k \in old.pending : k <= passed
      /\ \A k \in OnTime : through < k /\ k <= passed => k \in old.pending
  BY <1>1, <1>3, <1>4 DEF Streams, CursorsReached, WireReads, QueueHolds
<1>6. page = IF from < through THEN Batch(Committed, from, through, PageSize) ELSE <<>>
  BY <1>4, TableSets
<1>7. cursor = LastOr(from, page) /\ last = Ended(cursor, page, through)
  BY <1>4 DEF Ended
<1>8. /\ console[c].pc = "streaming" /\ console[c].last = low /\ console[c].through <= Top(Committed)
      /\ FeedShows(Committed, OnTime, console[c], feed[c], since[c])
  BY <1>1, <1>3, <1>4 DEF Streams, WireReads, CursorsReached
<1>10. queued = IF Ended(cursor, page, through) THEN Newer(cursor, Ascending(old.pending)) ELSE <<>>
  BY <1>7
<1> HIDE DEF page, cursor, last
<1>9. page \in Seq(Cursor) /\ cursor \in Nat
  <2>1. CASE from < through
    <3>1. page = Batch(Committed, from, through, PageSize)
      BY <1>6, <2>1
    <3>2. PageSize \in Nat \ {0}
      BY BoundsAssumption
    <3>3. Span(Committed, OnTime, page, from, cursor)
      BY <1>0, <1>7, <3>1, <3>2, BatchSpans
    <3> QED
      BY <1>0, <1>7, <3>1, <3>2, <3>3, BatchSpans
  <2>2. CASE ~(from < through)
    <3>1. page = <<>>
      BY <1>6, <2>2
    <3>2. cursor = from
      BY <1>7, <3>1 DEF LastOr
    <3> QED
      BY <3>1, <3>2
  <2> QED
    BY <2>1, <2>2
<1>11. queued \in Seq(Cursor) /\ end \in Nat
  <2> DEFINE rows == Ascending(old.pending)
             newer == Newer(cursor, rows)
  <2>1. rows \in Seq(Cursor) /\ Increasing(rows)
    BY <1>1, AscendingLists
  <2> HIDE DEF rows
  <2>2. newer \in Seq(Cursor)
    BY <1>9, <2>1, NewerKeeps
  <2>3. queued \in Seq(Cursor)
    BY <2>2 DEF rows
  <2> HIDE DEF queued
  <2> QED
    BY <1>9, <2>3, LastIsNumber
<1>12. PageSize \in Nat \ {0}
  BY BoundsAssumption
<1> HIDE DEF queued, end
<1>13. /\ read \in Seq(Cursor) /\ Span(Committed, OnTime, read, low, end)
       /\ low <= end /\ end <= Top(Committed)
       /\ Ended(cursor, page, through) => \A k \in OnTime : k <= passed => k <= end
       /\ ~Ended(cursor, page, through) => end <= through
  <2>1. end = LastOr(cursor, queued)
    BY DEF end
  <2>2. PICK pending \in SUBSET Committed : pending = old.pending
    BY <1>5
  <2>3. PICK w \in Seq(Cursor) : w = wire[c]
    BY <1>1
  <2>5. /\ Span(Committed, OnTime, w, low, from) /\ \A k \in pending : k <= passed
        /\ \A k \in OnTime : through < k /\ k <= passed => k \in pending
    BY <1>5, <2>2, <2>3
  <2>6. queued = IF Ended(cursor, page, through) THEN Newer(cursor, Ascending(pending)) ELSE <<>>
    BY <1>10, <2>2
  <2>7. low <= from /\ from <= through /\ through <= Top(Committed)
    BY <1>5
  <2>8. cursor = LastOr(from, page)
    BY <1>7
  <2> HIDE DEF old
  <2>9. /\ w \o page \o queued \in Seq(Cursor) /\ Span(Committed, OnTime, w \o page \o queued, low, end)
        /\ low <= end /\ end <= Top(Committed)
        /\ Ended(cursor, page, through) => \A k \in OnTime : k <= passed => k <= end
        /\ ~Ended(cursor, page, through) => end <= through
    <3>1. CatchUpFrom(Committed, OnTime, passed, low, from, through, w, pending, PageSize,
                      page, cursor, queued, end)
      BY <1>0, <1>6, <1>9, <1>11, <1>12, <2>1, <2>5, <2>6, <2>7, <2>8 DEF CatchUpFrom
    <3> QED
      BY <3>1, CatchUpReads
  <2> QED
    BY <2>3, <2>9
<1>14. end \in 0..MaxCursor
  BY <1>0, <1>11, <1>13, TopIsGreatest, BoundsAssumption
<1>15. /\ new \in Clients /\ new.cursor = end /\ new.through = old.through
       /\ new.stage = (IF last THEN "live" ELSE "catchingUp")
       /\ new.pending = (IF last THEN {} ELSE old.pending)
  BY <1>1, <1>14 DEF Clients
<1> HIDE DEF new, read
<1>16. QueueHolds(Committed, OnTime, observed, new)
  <2>1. CASE last
    <3>1. \A k \in OnTime : k <= observed => k <= end
      BY <1>4, <1>7, <1>13, <2>1
    <3> QED
      BY <1>15, <2>1, <3>1 DEF QueueHolds
  <2>2. CASE ~last
    <3>1. end <= old.through
      BY <1>4, <1>7, <1>13, <2>2
    <3> QED
      BY <1>1, <1>3, <1>15, <2>2, <3>1 DEF Streams, QueueHolds
  <2> QED
    BY <2>1, <2>2
<1>17. Streams(Committed, OnTime, observed, new, console[c], read, feed[c], since[c])
  <2>1. new.stage # "none" /\ new.cursor \in Nat /\ new.cursor <= Top(Committed)
    BY <1>11, <1>13, <1>15
  <2>2. new.through <= Top(Committed)
    BY <1>4, <1>5, <1>15
  <2>3. console[c].last <= new.cursor /\ Span(Committed, OnTime, read, console[c].last, new.cursor)
    BY <1>8, <1>13, <1>15
  <2>4. console[c].last <= Top(Committed)
    BY <1>5, <1>8
  <2> QED
    BY <1>0, <1>1, <1>8, <1>13, <1>16, <2>1, <2>2, <2>3, <2>4, ClientParts
<1>18. /\ row' = row /\ observed' = observed /\ poll' = poll
       /\ zombies' = zombies /\ faults' = faults /\ console' = console
       /\ feed' = feed /\ since' = since
  BY DEF CatchUp
<1>19. /\ console' = [console EXCEPT ![c] = console[c]]
       /\ feed' = [feed EXCEPT ![c] = feed[c]] /\ since' = [since EXCEPT ![c] = since[c]]
       /\ zombies' \in Nat /\ faults' \in 0..MaxFaults /\ zombies' <= faults'
  BY <1>0, <1>18, PutBack
<1> QED
  BY <1>1, <1>2, <1>13, <1>15, <1>17, <1>18, <1>19, OneMoves

\* A page of the polling reaches a client that is live, or its queue.
LEMMA PageReaches ==
  ASSUME NEW C \in SUBSET Cursor, NEW T \in SUBSET C, NEW passed \in Nat, NEW now \in Nat,
         NEW through, NEW limit, NEW page, PageStep(C, T, passed, through, limit, page, now),
         NEW L \in Clients, NEW K \in Consoles, NEW w \in Seq(Cursor), NEW f, NEW s,
         Streams(C, T, passed, L, K, w, f, s),
         NEW sent, sent = IF L.stage = "live" THEN Newer(L.cursor, page) ELSE <<>>,
         NEW M, M = CASE L.stage = "none" -> L
                      [] L.stage = "live" -> [L EXCEPT !.cursor = LastOr(@, sent)]
                      [] OTHER -> [L EXCEPT !.pending = @ \cup {k \in ToSet(page) : k > L.cursor}]
  PROVE  M \in Clients /\ w \o sent \in Seq(Cursor) /\ Streams(C, T, now, M, K, w \o sent, f, s)
<1>0. /\ L.stage \in {"none", "registered", "catchingUp", "live"} /\ L.cursor \in 0..MaxCursor
      /\ L.through \in 0..MaxCursor /\ K.last \in 0..MaxCursor /\ Top(C) \in 0..MaxCursor /\ MaxCursor \in Nat
      /\ \A k \in C : k \in Nat
  BY TopIsGreatest, BoundsAssumption DEF Clients, Consoles, Cursor
<1>2. Span(C, T, page, passed, now) /\ passed <= now /\ page \in Seq(Cursor) /\ Increasing(page)
  BY PageOfPoll
<1>3. /\ CursorsReached(C, L, K) /\ WireReads(C, T, L, K, w) /\ QueueHolds(C, T, passed, L)
      /\ FeedShows(C, T, K, f, s)
  BY DEF Streams
<1>4. CASE L.stage = "none"
  <2>1. M = L /\ sent = <<>>
    BY <1>4
  <2>2. w \o sent = w
    BY <2>1, ConcatEmptySeq
  <2>3. \A k \in L.pending : k <= now
    BY <1>0, <1>2, <1>3 DEF QueueHolds
  <2>4. QueueHolds(C, T, now, M)
    BY <1>3, <1>4, <2>1, <2>3 DEF QueueHolds
  <2> QED
    BY <1>3, <2>1, <2>2, <2>4 DEF Streams
<1>5. CASE L.stage = "live"
  <2>1. PICK low \in Nat, cursor \in Nat : low = K.last /\ cursor = L.cursor
    BY <1>0
  <2>2. sent = Newer(cursor, page)
    BY <1>5, <2>1
  <2> DEFINE end == LastOr(cursor, sent)
  <2>3. sent \in Seq(Cursor)
    <3> DEFINE newer == Newer(cursor, page)
    <3>1. newer \in Seq(Cursor)
      BY <1>2, NewerKeeps
    <3> QED
      BY <2>2, <3>1
  <2>4. end \in Nat
    BY <2>3, LastIsNumber
  <2>5. M = [L EXCEPT !.cursor = end]
    BY <1>5, <2>1
  <2>6. end = LastOr(cursor, sent)
    OBVIOUS
  <2> HIDE DEF end
  <2>7. low <= cursor /\ cursor <= Top(C) /\ Span(C, T, w, low, cursor)
    BY <1>3, <1>5, <2>1 DEF CursorsReached, WireReads
  <2>8. \A k \in T : k <= passed => k <= cursor
    BY <1>3, <1>5, <2>1 DEF QueueHolds
  <2>9. LiveStep(C, T, passed, through, limit, page, now, low, cursor, w, sent, end)
    BY <2>2, <2>4, <2>6, <2>7, <2>8 DEF LiveStep, PageStep
  <2>10. /\ w \o sent \in Seq(Cursor) /\ Span(C, T, w \o sent, low, end)
         /\ low <= end /\ end <= Top(C)
         /\ \A k \in T : k <= now => k <= end
    BY <2>9, LiveReads
  <2>11. end \in 0..MaxCursor
    BY <1>0, <2>4, <2>10
  <2>12. /\ M \in Clients /\ M.stage = "live" /\ M.cursor = end /\ M.through = L.through
         /\ M.pending = L.pending
    BY <1>5, <2>5, <2>11 DEF Clients
  <2>13. \A k \in L.pending : k <= now
    <3>1. \A k \in L.pending : k \in Nat /\ k <= passed
      BY <1>0, <1>3 DEF QueueHolds
    <3> QED
      BY <1>2, <3>1
  <2>14. QueueHolds(C, T, now, M)
    BY <1>3, <2>10, <2>12, <2>13 DEF QueueHolds
  <2>15. /\ K.pc = "streaming" /\ K.last <= M.cursor /\ Span(C, T, w \o sent, K.last, M.cursor)
         /\ M.cursor \in Nat /\ M.cursor <= Top(C) /\ M.through <= Top(C)
         /\ K.last <= Top(C) /\ K.through <= Top(C)
    BY <1>3, <1>5, <2>1, <2>4, <2>10, <2>12 DEF WireReads, CursorsReached
  <2> QED
    BY <1>3, <2>10, <2>12, <2>14, <2>15, ClientParts
<1>6. CASE L.stage \in {"registered", "catchingUp"}
  <2>1. sent = <<>> /\ M = [L EXCEPT !.pending = @ \cup {k \in ToSet(page) : k > L.cursor}]
    BY <1>6
  <2>2. w \o sent = w
    BY <2>1, ConcatEmptySeq
  <2>3. M \in Clients /\ QueueHolds(C, T, now, M)
    <3>1. QueueHolds(C, T, passed, L) /\ L.stage # "live" /\ M = Grown(L, page)
      BY <1>3, <1>6, <2>1 DEF Grown
    <3>2. Grown(L, page) \in Clients /\ QueueHolds(C, T, now, Grown(L, page))
      BY <3>1, QueueGrows
    <3> QED
      BY <3>1, <3>2
  <2>4. M.stage = L.stage /\ M.cursor = L.cursor /\ M.through = L.through
    BY <2>1 DEF Clients
  <2> QED
    BY <1>3, <2>2, <2>3, <2>4 DEF Streams, CursorsReached, WireReads
<1> QED
  BY <1>0, <1>4, <1>5, <1>6

LEMMA Polls ==
  ASSUME StreamInv, PollPage
  PROVE  StreamInv'
<1> DEFINE page == EventsBetween(observed, poll.through, PageSize)
           now == LastOr(observed, page)
           M(c) == CASE client[c].stage = "none" -> client[c]
                     [] client[c].stage = "live" -> [client[c] EXCEPT !.cursor = LastOr(@, Sent(c, page))]
                     [] OTHER -> [client[c] EXCEPT !.pending = @ \cup Queued(c, page)]
<1>0. TypeOK /\ Committed \in SUBSET Cursor /\ OnTime \in SUBSET Committed
  BY TableSets DEF StreamInv
<1>1. PICK passed \in Nat, through \in Nat : passed = observed /\ through = poll.through
  <2>1. observed \in 0..MaxCursor /\ poll \in [busy : BOOLEAN, through : 0..MaxCursor]
    BY <1>0 DEF TypeOK
  <2>2. observed \in Nat /\ poll.through \in Nat
    BY <2>1, BoundsAssumption
  <2> QED
    BY <2>2
<1>2. page = Batch(Committed, passed, through, PageSize) /\ PageSize \in Nat \ {0}
  BY <1>1, TableSets, BoundsAssumption
<1>3. now = LastOr(passed, page)
  BY <1>1
<1>4. /\ row' = row /\ observed' = now /\ poll' \in {IdlePoll, poll}
      /\ wire' = [c \in Console |-> wire[c] \o Sent(c, page)]
      /\ client' = [c \in Console |-> M(c)]
      /\ UNCHANGED <<zombies, console, feed, since, faults>>
  BY DEF PollPage, Broadcast
<1> HIDE DEF page, now
<1>5. /\ passed <= Top(Committed) /\ through <= Top(Committed) /\ Top(Committed) \in 0..MaxCursor
      /\ MaxCursor \in Nat /\ \A k \in Committed : k <= Top(Committed)
  BY <1>0, <1>1, TableSets, TopIsGreatest, BoundsAssumption DEF StreamInv
<1>6. now \in Nat /\ now <= Top(Committed)
  <2>1. Span(Committed, OnTime, page, passed, now)
    BY <1>0, <1>2, <1>3, BatchSpans
  <2>2. now \in Nat /\ (page # <<>> => now \in Committed) /\ (page = <<>> => now = passed)
    BY <1>0, <1>2, <1>3, <2>1, BatchSpans
  <2> QED
    BY <1>5, <2>2
<1>7. ASSUME NEW c \in Console
      PROVE  /\ client'[c] \in Clients /\ wire'[c] \in Seq(Cursor)
             /\ Streams(Committed, OnTime, now, client'[c], console[c], wire'[c], feed[c], since[c])
  <2> DEFINE sent == Sent(c, page)
             more == Queued(c, page)
  <2>1. /\ client[c] \in Clients /\ console[c] \in Consoles /\ wire[c] \in Seq(Cursor)
    BY <1>0, ConsoleTypes
  <2>2. Streams(Committed, OnTime, passed, client[c], console[c], wire[c], feed[c], since[c])
    BY <1>1 DEF StreamInv, StreamOf
  <2>3. /\ sent = (IF client[c].stage = "live" THEN Newer(client[c].cursor, page) ELSE <<>>)
        /\ more = {k \in ToSet(page) : k > client[c].cursor}
    BY DEF Sent, Queued
  <2>4. wire'[c] = wire[c] \o sent /\ client'[c] = M(c)
    BY <1>4
  <2>5. client'[c] = CASE client[c].stage = "none" -> client[c]
                       [] client[c].stage = "live" -> [client[c] EXCEPT !.cursor = LastOr(@, sent)]
                       [] OTHER -> [client[c] EXCEPT !.pending = @ \cup {k \in ToSet(page) : k > client[c].cursor}]
    BY <2>3, <2>4
  <2>6. PageStep(Committed, OnTime, passed, through, PageSize, page, now)
    BY <1>0, <1>2, <1>3, <1>6 DEF PageStep
  <2> HIDE DEF sent, more
  <2> QED
    BY <1>0, <1>6, <2>1, <2>2, <2>3, <2>4, <2>5, <2>6, PageReaches
<1>8. TypeOK'
  <2>1. client' \in [Console -> Clients]
    <3>1. client' = [c \in Console |-> client'[c]]
      BY <1>4
    <3> QED
      BY <1>7, <3>1
  <2>2. wire' \in [Console -> Seq(Cursor)]
    <3>1. wire' = [c \in Console |-> wire'[c]]
      BY <1>4
    <3> QED
      BY <1>7, <3>1
  <2>3. observed' \in 0..MaxCursor
    BY <1>4, <1>5, <1>6
  <2>4. poll' \in [busy : BOOLEAN, through : 0..MaxCursor]
    <3>1. IdlePoll \in [busy : BOOLEAN, through : 0..MaxCursor]
      BY <1>5 DEF IdlePoll
    <3> QED
      BY <1>0, <1>4, <3>1 DEF TypeOK
  <2> QED
    BY <1>0, <1>4, <2>1, <2>2, <2>3, <2>4 DEF TypeOK, Clients
<1>9. \A c \in Console : StreamOf(c)'
  BY <1>4, <1>7, TableStill DEF StreamOf
<1>10. observed' <= LatestCursor' /\ poll'.through <= LatestCursor'
  <2>1. LatestCursor' = Top(Committed)
    BY TableSets, TableStill, <1>4
  <2>2. poll'.through \in {0, through}
    BY <1>1, <1>4 DEF IdlePoll
  <2> QED
    BY <1>4, <1>5, <1>6, <2>1, <2>2
<1> QED
  BY <1>4, <1>8, <1>9, <1>10 DEF StreamInv

\* A console without a stream and without a client: only its feed is to be shown.
LEMMA ConsoleAlone ==
  ASSUME NEW C \in SUBSET Cursor, NEW T, NEW passed, NEW L, NEW K, NEW w, NEW f, NEW s,
         Streams(C, T, passed, L, K, w, f, s),
         NEW N, N = L \/ N = NoClient, N.stage = "none",
         NEW M, M.pc # "streaming", M.last <= Top(C), M.through <= Top(C),
         NEW g, NEW r, FeedShows(C, T, M, g, r)
  PROVE  Streams(C, T, passed, N, M, <<>>, g, r)
<1>1. Streams(C, T, passed, N, K, w, f, s)
  BY ClientGone
<1> QED
  BY <1>1 DEF Streams, CursorsReached, WireReads

\* What an action leaves alone, for OneMoves.
LEMMA Untouched ==
  ASSUME StreamInv, NEW c \in Console
  PROVE  /\ client[c] \in Clients /\ console[c] \in Consoles
         /\ wire[c] \in Seq(Cursor) /\ feed[c] \in Seq(Cursor) /\ since[c] \in 0..MaxCursor
         /\ zombies \in Nat /\ faults \in 0..MaxFaults /\ zombies <= faults
         /\ Committed \in SUBSET Cursor /\ OnTime \in SUBSET Committed
         /\ Top(Committed) \in 0..MaxCursor /\ MaxCursor \in Nat /\ LatestCursor = Top(Committed)
         /\ Streams(Committed, OnTime, observed, client[c], console[c], wire[c], feed[c], since[c])
<1>1. TypeOK
  BY DEF StreamInv
<1>2. zombies \in Nat /\ faults \in 0..MaxFaults
  BY <1>1, PutBack
<1>3. MaxCursor \in Nat /\ LatestCursor = Top(Committed) /\ Top(Committed) \in 0..MaxCursor
      /\ Committed \in SUBSET Cursor /\ OnTime \in SUBSET Committed
  BY TableSets, TopIsGreatest, BoundsAssumption
<1> QED
  BY <1>1, <1>2, <1>3, ConsoleTypes DEF StreamInv, StreamOf

LEMMA RepairBegins ==
  ASSUME StreamInv, NEW c \in Console, BeginRepair(c)
  PROVE  StreamInv'
<1> DEFINE new == [console[c] EXCEPT !.pc = "repair", !.through = LatestCursor]
<1>0. TypeOK
  BY DEF StreamInv
<1>1. console' = [console EXCEPT ![c] = new] /\ console[c].pc = "down"
  BY DEF BeginRepair
<1>2. /\ new \in Consoles /\ new.pc = "repair" /\ new.last = console[c].last /\ new.through = Top(Committed)
  BY Untouched DEF Consoles
<1> HIDE DEF new
<1>3. client[c].stage = "none" /\ wire[c] = <<>> /\ console[c].last <= Top(Committed)
      /\ FeedShows(Committed, OnTime, console[c], feed[c], since[c])
  BY <1>1, Untouched DEF Streams, WireReads, CursorsReached
<1>4. FeedShows(Committed, OnTime, new, feed[c], since[c])
  BY <1>2, <1>3 DEF FeedShows
<1>5. new.through <= Top(Committed)
  BY <1>2, Untouched
<1>6. Streams(Committed, OnTime, observed, client[c], new, wire[c], feed[c], since[c])
  BY <1>2, <1>3, <1>4, <1>5, Untouched, ConsoleAlone
<1>7. /\ row' = row /\ observed' = observed /\ poll' = poll
      /\ zombies' = zombies /\ faults' = faults /\ wire' = wire /\ client' = client
      /\ feed' = feed /\ since' = since
  BY DEF BeginRepair
<1>8. /\ wire' = [wire EXCEPT ![c] = wire[c]] /\ client' = [client EXCEPT ![c] = client[c]]
      /\ feed' = [feed EXCEPT ![c] = feed[c]] /\ since' = [since EXCEPT ![c] = since[c]]
  BY <1>0, <1>7, PutBack
<1> QED
  BY <1>1, <1>2, <1>6, <1>7, <1>8, Untouched, OneMoves

LEMMA GoesDown ==
  ASSUME StreamInv, NEW c \in Console, Refused(c) \/ StreamEnds(c)
  PROVE  StreamInv'
<1> DEFINE new == [console[c] EXCEPT !.pc = "down"]
<1>0. TypeOK
  BY DEF StreamInv
<1>1. console' = [console EXCEPT ![c] = new]
  BY DEF Refused, StreamEnds
<1>2. /\ new \in Consoles /\ new.pc = "down" /\ new.last = console[c].last
      /\ new.through = console[c].through
  BY Untouched DEF Consoles
<1> HIDE DEF new
<1>3. client[c].stage = "none" /\ wire[c] = <<>>
  BY Untouched DEF Refused, StreamEnds, Streams, WireReads
<1>4. /\ new.last <= Top(Committed) /\ new.through <= Top(Committed)
      /\ FeedShows(Committed, OnTime, new, feed[c], since[c])
  BY <1>2, Untouched DEF Streams, CursorsReached, FeedShows
<1>5. Streams(Committed, OnTime, observed, client[c], new, wire[c], feed[c], since[c])
  BY <1>2, <1>3, <1>4, Untouched, ConsoleAlone
<1>6. /\ row' = row /\ observed' = observed /\ poll' = poll
      /\ zombies' = zombies /\ faults' = faults /\ wire' = wire /\ client' = client
      /\ feed' = feed /\ since' = since
  BY DEF Refused, StreamEnds
<1>7. /\ wire' = [wire EXCEPT ![c] = wire[c]] /\ client' = [client EXCEPT ![c] = client[c]]
      /\ feed' = [feed EXCEPT ![c] = feed[c]] /\ since' = [since EXCEPT ![c] = since[c]]
  BY <1>0, <1>6, PutBack
<1> QED
  BY <1>1, <1>2, <1>5, <1>6, <1>7, Untouched, OneMoves

LEMMA BreaksOff ==
  ASSUME StreamInv, NEW c \in Console, Breaks(c)
  PROVE  StreamInv'
<1> DEFINE new == [console[c] EXCEPT !.pc = "down"]
<1>0. TypeOK /\ MaxFaults \in Nat
  BY BoundsAssumption DEF StreamInv
<1>1. /\ console' = [console EXCEPT ![c] = new] /\ client' = [client EXCEPT ![c] = NoClient]
      /\ wire' = [wire EXCEPT ![c] = <<>>] /\ faults' = faults + 1 /\ faults < MaxFaults
      /\ zombies' \in {zombies, zombies + 1}
  BY DEF Breaks, Fault
<1>2. /\ new \in Consoles /\ new.pc = "down" /\ new.last = console[c].last
      /\ new.through = console[c].through
  BY Untouched DEF Consoles
<1> HIDE DEF new
<1>3. NoClient \in Clients /\ NoClient.stage = "none" /\ <<>> \in Seq(Cursor)
  BY Untouched DEF NoClient, Clients
<1>4. /\ new.last <= Top(Committed) /\ new.through <= Top(Committed)
      /\ FeedShows(Committed, OnTime, new, feed[c], since[c])
  BY <1>2, Untouched DEF Streams, CursorsReached, FeedShows
<1>5. Streams(Committed, OnTime, observed, NoClient, new, <<>>, feed[c], since[c])
  BY <1>2, <1>3, <1>4, Untouched, ConsoleAlone
<1>6. row' = row /\ observed' = observed /\ poll' = poll /\ feed' = feed /\ since' = since
  BY DEF Breaks
<1>7. feed' = [feed EXCEPT ![c] = feed[c]] /\ since' = [since EXCEPT ![c] = since[c]]
  BY <1>0, <1>6, PutBack
<1>8. zombies' \in Nat /\ faults' \in 0..MaxFaults /\ zombies' <= faults'
  <2>1. zombies \in Nat /\ faults \in 0..MaxFaults /\ zombies <= faults
    BY Untouched
  <2> QED
    BY <1>0, <1>1, <2>1
<1> QED
  BY <1>1, <1>2, <1>3, <1>5, <1>6, <1>7, <1>8, Untouched, OneMoves

LEMMA Disconnects ==
  ASSUME StreamInv, NEW c \in Console, Disconnect(c)
  PROVE  StreamInv'
<1>0. TypeOK /\ MaxFaults \in Nat
  BY BoundsAssumption DEF StreamInv
<1>1. /\ client' = [client EXCEPT ![c] = NoClient] /\ faults' = faults + 1 /\ faults < MaxFaults
      /\ client[c].stage # "none"
      /\ UNCHANGED <<row, observed, poll, zombies, console, feed, since>>
  BY DEF Disconnect, Fault
<1>2. PICK n \in 0..Len(wire[c]) : wire' = [wire EXCEPT ![c] = SubSeq(wire[c], 1, n)]
  BY <1>0 DEF Disconnect, TypeOK
<1>3. PICK w \in Seq(Cursor), low \in Nat, high \in Nat :
        w = wire[c] /\ low = console[c].last /\ high = client[c].cursor
  BY <1>0, ConsoleTypes
<1> DEFINE p == SubSeq(w, 1, n)
<1>4. low <= high /\ Span(Committed, OnTime, w, low, high) /\ console[c].pc = "streaming"
  BY <1>1, <1>3, Untouched DEF Streams, WireReads
<1>5. p \in Seq(Cursor) /\ Span(Committed, OnTime, p, low, LastOr(low, p))
  <2>1. OnTime \in SUBSET Cursor /\ n \in 0..Len(w)
    BY <1>2, <1>3, Untouched
  <2> QED
    BY <1>4, <2>1, SpanPrefix
<1> HIDE DEF p
<1>6. NoClient \in Clients /\ NoClient.stage = "none"
  BY Untouched DEF NoClient, Clients
<1>7. Streams(Committed, OnTime, observed, NoClient, console[c], p, feed[c], since[c])
  <2>1. Streams(Committed, OnTime, observed, NoClient, console[c], w, feed[c], since[c])
    BY <1>3, Untouched, ClientGone
  <2> QED
    BY <1>3, <1>4, <1>5, <1>6, <2>1 DEF Streams, WireReads
<1>8. wire' = [wire EXCEPT ![c] = p]
  BY <1>2, <1>3 DEF p
<1>9. /\ console' = [console EXCEPT ![c] = console[c]]
      /\ feed' = [feed EXCEPT ![c] = feed[c]] /\ since' = [since EXCEPT ![c] = since[c]]
  BY <1>0, <1>1, PutBack
<1>10. zombies' \in Nat /\ faults' \in 0..MaxFaults /\ zombies' <= faults'
  <2>1. zombies \in Nat /\ faults \in 0..MaxFaults /\ zombies <= faults
    BY Untouched
  <2> QED
    BY <1>0, <1>1, <2>1
<1> QED
  BY <1>1, <1>5, <1>6, <1>7, <1>8, <1>9, <1>10, Untouched, OneMoves

LEMMA StreamOpens ==
  ASSUME StreamInv, NEW c \in Console, OpenStream(c)
  PROVE  StreamInv'
<1> DEFINE new == [console[c] EXCEPT !.pc = "streaming"]
           L == [NoClient EXCEPT !.stage = "registered", !.cursor = console[c].last]
<1>0. TypeOK
  BY DEF StreamInv
<1>1. /\ console' = [console EXCEPT ![c] = new] /\ client' = [client EXCEPT ![c] = L]
      /\ wire' = [wire EXCEPT ![c] = <<>>]
  BY DEF OpenStream
<1>2. /\ new \in Consoles /\ new.pc = "streaming" /\ new.last = console[c].last
      /\ new.through = console[c].through
  BY Untouched DEF Consoles
<1>3. PICK low \in Nat : low = console[c].last /\ low <= MaxCursor
  <2>1. console[c].last \in 0..MaxCursor /\ MaxCursor \in Nat
    BY Untouched DEF Consoles
  <2> QED
    BY <2>1
<1>4. NoClient \in Clients /\ NoClient.through = 0 /\ NoClient.pending = {}
  <2>1. NoClient \in Clients
    BY Untouched DEF NoClient, Clients
  <2> QED
    BY <2>1 DEF NoClient
<1>5. L \in Clients /\ L.stage = "registered" /\ L.cursor = low /\ L.through = 0 /\ L.pending = {}
  <2>1. console[c].last \in 0..MaxCursor
    BY Untouched DEF Consoles
  <2>2. "registered" \in {"none", "registered", "catchingUp", "live"}
    OBVIOUS
  <2>3. L \in Clients
    BY <1>4, <2>1, <2>2 DEF Clients
  <2>4. L.stage = "registered" /\ L.cursor = console[c].last /\ L.through = 0 /\ L.pending = {}
    BY <1>4 DEF Clients
  <2> QED
    BY <1>3, <2>3, <2>4
<1> HIDE DEF new, L
<1>6. LastOr(low, <<>>) = low
  BY DEF LastOr
<1>7. <<>> \in Seq(Cursor) /\ Span(Committed, OnTime, <<>>, low, low)
  <2>1. \A k \in OnTime : ~(low < k /\ k <= low)
    <3>1. \A k \in OnTime : k \in Nat
      BY Untouched DEF Cursor
    <3> QED
      BY <3>1
  <2> QED
    BY <2>1, SpanEmpty
<1>8. /\ new.last = low /\ low <= Top(Committed) /\ new.through <= Top(Committed) /\ 0 <= Top(Committed)
      /\ FeedShows(Committed, OnTime, new, feed[c], since[c])
  BY <1>2, <1>3, Untouched DEF Streams, CursorsReached, FeedShows
<1>9. CursorsReached(Committed, L, new)
  BY <1>5, <1>8 DEF CursorsReached
<1>10. WireReads(Committed, OnTime, L, new, <<>>)
  BY <1>2, <1>5, <1>6, <1>7, <1>8 DEF WireReads
<1>11. QueueHolds(Committed, OnTime, observed, L)
  BY <1>5 DEF QueueHolds
<1>12. Streams(Committed, OnTime, observed, L, new, <<>>, feed[c], since[c])
  BY <1>8, <1>9, <1>10, <1>11 DEF Streams
<1>13. /\ row' = row /\ observed' = observed /\ poll' = poll
       /\ zombies' = zombies /\ faults' = faults /\ feed' = feed /\ since' = since
  BY DEF OpenStream
<1>14. feed' = [feed EXCEPT ![c] = feed[c]] /\ since' = [since EXCEPT ![c] = since[c]]
  BY <1>0, <1>13, PutBack
<1> QED
  BY <1>1, <1>2, <1>5, <1>7, <1>12, <1>13, <1>14, Untouched, OneMoves

\* What the console reads comes next after what it has.
LEMMA BlockIsRead ==
  ASSUME StreamInv, NEW c \in Console, ReadBlock(c)
  PROVE  StreamInv'
<1>0. TypeOK
  BY DEF StreamInv
<1>1. PICK w \in Seq(Cursor), low \in Nat, s \in Nat, f \in Seq(Cursor) :
        w = wire[c] /\ low = console[c].last /\ s = since[c] /\ f = feed[c]
  BY <1>0, ConsoleTypes
<1>2. console[c].pc = "streaming" /\ w # <<>>
  BY <1>1 DEF ReadBlock
<1> DEFINE high == LastOr(low, w)
<1>3. /\ Span(Committed, OnTime, w, low, high) /\ s <= low /\ Span(Committed, OnTime, f, s, low)
      /\ client[c].stage # "none" => low <= client[c].cursor /\ Span(Committed, OnTime, w, low, client[c].cursor)
  BY <1>1, <1>2, Untouched DEF Streams, WireReads, FeedShows
<1>4. high \in Nat /\ OnTime \in SUBSET Cursor
  BY LastIsNumber, Untouched
<1> HIDE DEF high
<1>5. low <= high
  <2>1. 1 \in DOMAIN w /\ w[1] \in Nat
    <3>1. Len(w) \in Nat /\ Len(w) # 0 /\ DOMAIN w = 1..Len(w)
      BY <1>2, LenProperties, EmptySeq
    <3>2. w[1] \in Cursor
      BY <3>1, ElementOfSeq
    <3> QED
      BY <3>1, <3>2 DEF Cursor
  <2>2. w[1] \in ToSet(w)
    BY <2>1 DEF ToSet
  <2>3. low < w[1] /\ w[1] <= high
    BY <1>3, <2>2 DEF Span
  <2> QED
    BY <1>4, <2>1, <2>3
<1>6. PICK x \in Nat : x = w[1] /\ x \in Cursor
  <2>1. w[1] \in Cursor
    BY <1>2, <1>3, <1>4, <1>5, SpanHead
  <2> QED
    BY <2>1 DEF Cursor
<1>7. /\ low < x /\ x <= high /\ <<x>> \in Seq(Cursor) /\ Span(Committed, OnTime, <<x>>, low, x)
      /\ Tail(w) \in Seq(Cursor) /\ Span(Committed, OnTime, Tail(w), x, high)
      /\ LastOr(x, Tail(w)) = LastOr(low, w)
  BY <1>2, <1>3, <1>4, <1>5, <1>6, SpanHead
<1>8. ToSet(<<x>>) = {x}
  BY DEF ToSet
<1>9. Newer(low, <<x>>) = <<x>>
  <2>1. \A k \in ToSet(<<x>>) : k > low
    BY <1>7, <1>8
  <2> QED
    BY <1>7, <2>1, NewerKeepsAll
<1>10. LastOr(low, <<x>>) = x
  BY DEF LastOr
<1> DEFINE new == [console[c] EXCEPT !.last = x]
<1>11. /\ feed' = [feed EXCEPT ![c] = f \o <<x>>] /\ console' = [console EXCEPT ![c] = new]
       /\ wire' = [wire EXCEPT ![c] = Tail(w)]
  <2>1. <<wire[c][1]>> = <<x>> /\ console[c].last = low /\ feed[c] = f /\ wire[c] = w
    BY <1>1, <1>6
  <2>2. Newer(console[c].last, <<wire[c][1]>>) = <<x>>
    BY <1>9, <2>1
  <2>3. Shown(c, <<wire[c][1]>>) = x
    BY <1>10, <2>1, <2>2 DEF Shown
  <2>4. feed' = [feed EXCEPT ![c] = feed[c] \o <<x>>]
    BY <2>2 DEF ReadBlock, Deliver
  <2>5. console' = [console EXCEPT ![c] = new]
    BY <2>3 DEF ReadBlock
  <2>6. wire' = [wire EXCEPT ![c] = Tail(wire[c])]
    BY DEF ReadBlock
  <2> QED
    BY <2>1, <2>4, <2>5, <2>6
<1>12. /\ new \in Consoles /\ new.pc = "streaming" /\ new.last = x /\ new.through = console[c].through
  <2>1. x \in 0..MaxCursor
    BY <1>6, BoundsAssumption DEF Cursor
  <2> QED
    BY <1>2, <2>1, Untouched DEF Consoles
<1> HIDE DEF new
<1>13. f \o <<x>> \in Seq(Cursor) /\ Span(Committed, OnTime, f \o <<x>>, s, x)
  <2> DEFINE block == <<x>>
  <2>1. block \in Seq(Cursor) /\ Span(Committed, OnTime, block, low, x) /\ low <= x
    BY <1>7
  <2>2. Span(Committed, OnTime, f, s, low) /\ s <= low
    BY <1>3
  <2> HIDE DEF block
  <2>3. f \o block \in Seq(Cursor) /\ Span(Committed, OnTime, f \o block, s, x)
    BY <1>4, <2>1, <2>2, SpanJoins
  <2> QED
    BY <2>3 DEF block
<1>14. FeedShows(Committed, OnTime, new, f \o <<x>>, s)
  BY <1>3, <1>7, <1>12, <1>13 DEF FeedShows
<1>15. WireReads(Committed, OnTime, client[c], new, Tail(w))
  <2>1. Span(Committed, OnTime, Tail(w), x, LastOr(x, Tail(w)))
    BY <1>7 DEF high
  <2>2. ASSUME client[c].stage # "none"
        PROVE  x <= client[c].cursor /\ Span(Committed, OnTime, Tail(w), x, client[c].cursor)
    <3>1. PICK cursor \in Nat : cursor = client[c].cursor
      BY <1>0, ConsoleTypes
    <3>2. low <= cursor /\ Span(Committed, OnTime, w, low, cursor)
      BY <1>3, <2>2, <3>1
    <3>3. x <= cursor /\ Span(Committed, OnTime, Tail(w), x, cursor)
      BY <1>2, <1>4, <1>6, <3>2, SpanHead
    <3> QED
      BY <3>1, <3>3
  <2> QED
    BY <1>12, <2>1, <2>2 DEF WireReads
<1>16. x <= Top(Committed)
  <2>1. x \in ToSet(<<x>>)
    BY <1>8
  <2>2. x \in Committed
    BY <1>7, <2>1 DEF Span
  <2> QED
    BY <2>2, Untouched, TopIsGreatest
<1>17. Streams(Committed, OnTime, observed, client[c], new, Tail(w), f \o <<x>>, s)
  <2>1. /\ CursorsReached(Committed, client[c], console[c])
        /\ QueueHolds(Committed, OnTime, observed, client[c])
    BY Untouched DEF Streams
  <2>2. CursorsReached(Committed, client[c], new)
    BY <1>12, <1>16, <2>1 DEF CursorsReached
  <2> QED
    BY <1>14, <1>15, <2>1, <2>2 DEF Streams
<1>18. /\ row' = row /\ observed' = observed /\ poll' = poll
       /\ zombies' = zombies /\ faults' = faults /\ client' = client /\ since' = since
  BY DEF ReadBlock
<1>19. since' = [since EXCEPT ![c] = s] /\ client' = [client EXCEPT ![c] = client[c]] /\ s \in 0..MaxCursor
  BY <1>0, <1>1, <1>18, PutBack, Untouched
<1> QED
  BY <1>7, <1>11, <1>12, <1>13, <1>17, <1>18, <1>19, Untouched, OneMoves

\* The first snapshot begins the feed of a console.
LEMMA FirstShown ==
  ASSUME StreamInv, NEW c \in Console, FirstSnapshot(c)
  PROVE  StreamInv'
<1> DEFINE page == LatestEvents(Window)
           top == Top(Committed)
           last == IF Shown(c, page) < console[c].through THEN console[c].through ELSE Shown(c, page)
           first == IF page = <<>> THEN console[c].through ELSE page[1] - 1
           new == [console[c] EXCEPT !.pc = "repaired", !.last = last]
<1>0. TypeOK /\ Window \in Nat \ {0} /\ 0 \in Nat
  BY BoundsAssumption DEF StreamInv
<1>1. PICK f \in Seq(Cursor), s \in Nat, through \in Nat :
        f = feed[c] /\ s = since[c] /\ through = console[c].through
  BY <1>0, ConsoleTypes
<1>2. console[c].pc = "repair" /\ console[c].last = 0
  BY DEF FirstSnapshot
<1>3. f = <<>> /\ client[c].stage = "none" /\ wire[c] = <<>> /\ through <= top
  <2>1. /\ client[c].stage = "none" /\ wire[c] = <<>> /\ through <= top
        /\ Span(Committed, OnTime, f, s, 0)
    BY <1>1, <1>2, Untouched DEF Streams, WireReads, CursorsReached, FeedShows
  <2>2. ASSUME f # <<>> PROVE FALSE
    <3>1. Len(f) \in Nat /\ Len(f) # 0 /\ DOMAIN f = 1..Len(f)
      BY <2>2, LenProperties, EmptySeq
    <3>2. 1 \in DOMAIN f
      BY <3>1
    <3>3. f[1] \in ToSet(f)
      BY <3>2 DEF ToSet
    <3>4. s < f[1] /\ f[1] <= 0
      BY <2>1, <3>3 DEF Span
    <3>5. f[1] \in Cursor
      BY <3>1, ElementOfSeq
    <3> QED
      BY <3>4, <3>5 DEF Cursor
  <2> QED
    BY <2>1, <2>2
<1>4. top \in Nat /\ top <= MaxCursor /\ MaxCursor \in Nat
  BY Untouched
<1>5. /\ page \in Seq(Cursor) /\ (page = <<>> => Committed = {})
      /\ (page # <<>> => /\ page[1] \in Cursor /\ page[1] <= top /\ LastOr(0, page) = top
                         /\ Span(Committed, OnTime, page, page[1] - 1, top))
  <2>1. page = LastOf(Window, Ascending(Committed))
    BY DEF LatestEvents
  <2> HIDE DEF page
  <2>2. OnTime \in SUBSET Committed /\ Committed \in SUBSET Cursor
    BY Untouched
  <2>3. /\ page \in Seq(Cursor) /\ (page = <<>> => Committed = {})
        /\ (page # <<>> => page[1] \in Cursor /\ page[1] <= top /\ LastOr(0, page) = top)
    BY <1>0, <2>1, <2>2, SnapshotSpans
  <2>4. page # <<>> => Span(Committed, OnTime, page, page[1] - 1, top)
    BY <1>0, <2>1, <2>2, SnapshotSpans
  <2> QED
    BY <2>3, <2>4
<1>6. feed' = [feed EXCEPT ![c] = f \o Newer(0, page)] /\ Shown(c, page) = LastOr(0, Newer(0, page))
  BY <1>0, <1>1, <1>2 DEF FirstSnapshot, Deliver, Shown, TypeOK
<1>7. since' = [since EXCEPT ![c] = first] /\ console' = [console EXCEPT ![c] = new]
  BY DEF FirstSnapshot
<1>8. last = IF LastOr(0, Newer(0, page)) < through THEN through ELSE LastOr(0, Newer(0, page))
  BY <1>1, <1>6
<1>9. first = IF page = <<>> THEN through ELSE page[1] - 1
  BY <1>1
<1> HIDE DEF page, last, first
<1>10. Newer(0, page) = page
  <2>1. \A k \in ToSet(page) : k > 0
    <3> SUFFICES ASSUME NEW i \in DOMAIN page PROVE page[i] > 0
      BY DEF ToSet
    <3>1. page[i] \in Cursor
      BY <1>5, LenProperties, ElementOfSeq
    <3> QED
      BY <3>1 DEF Cursor
  <2> QED
    BY <1>0, <1>5, <2>1, NewerKeepsAll
<1>11. f \o page = page
  BY <1>3, <1>5, ConcatEmptySeq
<1>12. /\ first \in Nat /\ last = top /\ first <= last /\ Span(Committed, OnTime, page, first, last)
  <2>1. CASE page = <<>>
    <3>1. Committed = {} /\ top = 0
      BY <1>5, <2>1 DEF Top
    <3>2. through = 0 /\ first = 0
      BY <1>3, <1>9, <2>1, <3>1
    <3>3. LastOr(0, page) = 0
      BY <2>1 DEF LastOr
    <3>4. last = 0
      BY <1>8, <1>10, <3>2, <3>3
    <3>5. \A k \in OnTime : ~(0 < k /\ k <= 0)
      <4>1. \A k \in OnTime : k \in Nat
        BY Untouched DEF Cursor
      <4> QED
        BY <4>1
    <3>6. Span(Committed, OnTime, <<>>, 0, 0)
      BY <3>5, SpanEmpty
    <3> QED
      BY <2>1, <3>1, <3>2, <3>4, <3>6
  <2>2. CASE page # <<>>
    <3>1. last = top
      BY <1>3, <1>4, <1>5, <1>8, <1>10, <2>2
    <3>2. first = page[1] - 1 /\ page[1] \in Nat /\ page[1] > 0
      BY <1>5, <1>9, <2>2 DEF Cursor
    <3>3. first \in Nat /\ first <= last
      BY <1>4, <1>5, <2>2, <3>1, <3>2
    <3> QED
      BY <1>5, <2>2, <3>1, <3>2, <3>3
  <2> QED
    BY <2>1, <2>2
<1>13. first \in 0..MaxCursor /\ last \in 0..MaxCursor
  BY <1>4, <1>12
<1>14. /\ new \in Consoles /\ new.pc = "repaired" /\ new.last = last /\ new.through = console[c].through
  BY <1>13, Untouched DEF Consoles
<1> HIDE DEF new
<1>15. /\ new.pc # "streaming" /\ new.last <= Top(Committed) /\ new.through <= Top(Committed)
       /\ FeedShows(Committed, OnTime, new, page, first)
  BY <1>1, <1>3, <1>4, <1>12, <1>14 DEF FeedShows
<1>16. Streams(Committed, OnTime, observed, client[c], new, wire[c], page, first)
  BY <1>3, <1>15, Untouched, ConsoleAlone
<1>17. /\ row' = row /\ observed' = observed /\ poll' = poll
       /\ zombies' = zombies /\ faults' = faults /\ client' = client /\ wire' = wire
  BY DEF FirstSnapshot
<1>18. wire' = [wire EXCEPT ![c] = wire[c]] /\ client' = [client EXCEPT ![c] = client[c]]
  BY <1>0, <1>17, PutBack
<1>19. feed' = [feed EXCEPT ![c] = page]
  BY <1>6, <1>10, <1>11
<1> QED
  BY <1>5, <1>7, <1>13, <1>14, <1>16, <1>17, <1>18, <1>19, Untouched, OneMoves

\* A page of a repair continues the feed.
LEMMA RepairReads ==
  ASSUME NEW C \in SUBSET Cursor, NEW T \in SUBSET C, NEW low \in Nat, NEW s \in Nat, NEW through \in Nat,
         NEW f \in Seq(Cursor), s <= low, Span(C, T, f, s, low), low <= Top(C), through <= Top(C),
         NEW limit \in Nat \ {0}, NEW page, page = Batch(C, low, Top(C), limit),
         NEW shown, shown = LastOr(low, Newer(low, page)),
         NEW reached, reached = IF page = <<>> THEN through ELSE shown,
         NEW last, last = IF low < reached THEN reached ELSE low
  PROVE  /\ f \o Newer(low, page) \in Seq(Cursor) /\ Span(C, T, f \o Newer(low, page), s, last)
         /\ last \in Nat /\ s <= last /\ last <= Top(C)
<1>0. Top(C) \in Nat /\ T \in SUBSET Cursor /\ \A k \in C : k \in Nat /\ k <= Top(C)
  BY TopIsGreatest, BoundsAssumption DEF Cursor
<1> DEFINE end == LastOr(low, page)
<1>1. Span(C, T, page, low, end)
  BY <1>0, BatchSpans
<1>2. /\ page \in Seq(Cursor) /\ end \in Nat /\ low <= end
      /\ page # <<>> => end \in C
      /\ page = <<>> => end = low /\ \A k \in C : ~(low < k /\ k <= Top(C))
  BY <1>0, <1>1, BatchSpans
<1>3. Newer(low, page) = page
  <2>1. \A k \in ToSet(page) : k > low
    <3>1. \A k \in ToSet(page) : k \in Nat /\ low < k
      BY <1>0, <1>1 DEF Span
    <3> QED
      BY <3>1
  <2> QED
    BY <1>2, <2>1, NewerKeepsAll
<1> HIDE DEF end
<1>4. f \o page \in Seq(Cursor) /\ Span(C, T, f \o page, s, end)
  BY <1>0, <1>1, <1>2, SpanJoins
<1>5. CASE page # <<>>
  <2>1. reached = end /\ last = end
    BY <1>2, <1>3, <1>5 DEF end
  <2> QED
    BY <1>0, <1>2, <1>3, <1>4, <1>5, <2>1
<1>6. CASE page = <<>>
  <2>1. reached = through /\ end = low
    BY <1>2, <1>6
  <2>2. last \in Nat /\ low <= last /\ last <= Top(C)
    BY <1>0, <2>1
  <2>3. \A k \in T : ~(low < k /\ k <= last)
    <3> SUFFICES ASSUME NEW k \in T, low < k, k <= last PROVE FALSE
      OBVIOUS
    <3>1. k \in C /\ k \in Nat /\ k <= Top(C)
      BY <1>0
    <3> QED
      BY <1>2, <1>6, <3>1
  <2>4. Span(C, T, f \o page, s, low)
    BY <1>4, <2>1
  <2>5. Span(C, T, f \o page, s, last)
    BY <1>0, <1>4, <2>2, <2>3, <2>4, SpanWidens
  <2> QED
    BY <1>3, <1>4, <2>2, <2>5
<1> QED
  BY <1>5, <1>6

LEMMA RepairShown ==
  ASSUME StreamInv, NEW c \in Console, RepairPage(c)
  PROVE  StreamInv'
<1> DEFINE page == EventsBetween(console[c].last, LatestCursor, Window)
           reached == IF page = <<>> THEN console[c].through ELSE Shown(c, page)
           new == [console[c] EXCEPT !.last = IF @ < reached THEN reached ELSE @,
                                     !.pc = IF reached >= console[c].through THEN "repaired" ELSE @]
<1>0. TypeOK /\ Window \in Nat \ {0}
  BY BoundsAssumption DEF StreamInv
<1>1. PICK f \in Seq(Cursor), s \in Nat, through \in Nat, low \in Nat :
        f = feed[c] /\ s = since[c] /\ through = console[c].through /\ low = console[c].last
  BY <1>0, ConsoleTypes
<1>2. console[c].pc = "repair" /\ console' = [console EXCEPT ![c] = new]
  BY DEF RepairPage
<1>3. /\ client[c].stage = "none" /\ wire[c] = <<>>
      /\ low <= Top(Committed) /\ through <= Top(Committed) /\ s <= low /\ Span(Committed, OnTime, f, s, low)
  BY <1>1, <1>2, Untouched DEF Streams, WireReads, CursorsReached, FeedShows
<1>4. page = Batch(Committed, low, Top(Committed), Window)
  BY <1>1, TableSets
<1>5. Shown(c, page) = LastOr(low, Newer(low, page)) /\ feed' = [feed EXCEPT ![c] = f \o Newer(low, page)]
  BY <1>0, <1>1 DEF RepairPage, Deliver, Shown, TypeOK
<1>6. reached = IF page = <<>> THEN through ELSE LastOr(low, Newer(low, page))
  BY <1>1, <1>5
<1> DEFINE last == IF low < reached THEN reached ELSE low
           shown == LastOr(low, Newer(low, page))
           g == f \o Newer(low, page)
<1>7. new = [console[c] EXCEPT !.last = last, !.pc = IF reached >= console[c].through THEN "repaired" ELSE @]
  BY <1>1
<1> HIDE DEF page, reached
<1>8. /\ g \in Seq(Cursor) /\ Span(Committed, OnTime, g, s, last)
      /\ last \in Nat /\ s <= last /\ last <= Top(Committed)
  <2>1. last = IF low < reached THEN reached ELSE low
    OBVIOUS
  <2>2. reached = IF page = <<>> THEN through ELSE shown
    BY <1>6
  <2>3. shown = LastOr(low, Newer(low, page))
    OBVIOUS
  <2>4. OnTime \in SUBSET Committed /\ Committed \in SUBSET Cursor
    BY Untouched
  <2> HIDE DEF last, shown
  <2>5. Span(Committed, OnTime, g, s, last)
    BY <1>0, <1>3, <1>4, <2>1, <2>2, <2>3, <2>4, RepairReads
  <2> QED
    BY <1>0, <1>3, <1>4, <2>1, <2>2, <2>3, <2>4, <2>5, RepairReads
<1> HIDE DEF last, new, g
<1>9. last \in 0..MaxCursor
  BY <1>8, Untouched
<1>10. /\ new \in Consoles /\ new.pc \in {"repair", "repaired"} /\ new.last = last
       /\ new.through = console[c].through
  BY <1>2, <1>7, <1>9, Untouched DEF Consoles
<1>11. /\ new.pc # "streaming" /\ new.last <= Top(Committed) /\ new.through <= Top(Committed)
       /\ FeedShows(Committed, OnTime, new, g, s)
  BY <1>1, <1>3, <1>8, <1>10 DEF FeedShows
<1>12. Streams(Committed, OnTime, observed, client[c], new, wire[c], g, s)
  BY <1>3, <1>11, Untouched, ConsoleAlone
<1>13. /\ row' = row /\ observed' = observed /\ poll' = poll
       /\ zombies' = zombies /\ faults' = faults /\ client' = client /\ wire' = wire /\ since' = since
  BY DEF RepairPage
<1>14. /\ wire' = [wire EXCEPT ![c] = wire[c]] /\ client' = [client EXCEPT ![c] = client[c]]
       /\ since' = [since EXCEPT ![c] = s] /\ s \in 0..MaxCursor
  BY <1>0, <1>1, <1>13, PutBack, Untouched
<1>15. feed' = [feed EXCEPT ![c] = g]
  BY <1>5 DEF g
<1> QED
  BY <1>2, <1>8, <1>10, <1>12, <1>13, <1>14, <1>15, Untouched, OneMoves

-----------------------------------------------------------------------------
(* The theorems. *)

\* The invariant is inductive.
THEOREM StreamStep == StreamInv /\ [Next]_vars => StreamInv'
<1> SUFFICES ASSUME StreamInv, [Next]_vars PROVE StreamInv'
  OBVIOUS
<1>1. CASE \E k \in Cursor : Insert(k) \/ Commit(k) \/ Abort(k)
  BY <1>1, TableStep
<1>2. CASE BeginPoll
  BY <1>2, PollBegins
<1>3. CASE PollPage
  BY <1>3, Polls
<1>4. CASE PollFails \/ Restart
  BY <1>4, AllDisconnected
<1>5. CASE Reap
  BY <1>5, Reaps
<1>6. ASSUME NEW c \in Console, ServiceStep(c) \/ ConsoleStep(c) \/ Disconnect(c) \/ Breaks(c)
      PROVE  StreamInv'
  <2>1. CASE ServiceStep(c)
    BY <2>1, CatchUpBegins, CatchesUp DEF ServiceStep
  <2>2. CASE ConsoleStep(c)
    BY <2>2, RepairBegins, FirstShown, RepairShown, StreamOpens, GoesDown, BlockIsRead DEF ConsoleStep
  <2>3. CASE Disconnect(c)
    BY <2>3, Disconnects
  <2>4. CASE Breaks(c)
    BY <2>4, BreaksOff
  <2> QED
    BY <1>6, <2>1, <2>2, <2>3, <2>4
<1>7. CASE UNCHANGED vars
  <2>1. /\ row' = row /\ UNCHANGED <<observed, poll, client, zombies, wire, console, feed, since, faults>>
    BY <1>7 DEF vars
  <2>2. TypeOK'
    BY <2>1 DEF StreamInv, TypeOK
  <2>3. \A c \in Console : StreamOf(c)'
    BY <2>1, TableStill DEF StreamInv, StreamOf
  <2> QED
    BY <2>1, <2>2, <2>3, TableStill DEF StreamInv
<1> QED
  BY <1>1, <1>2, <1>3, <1>4, <1>5, <1>6, <1>7 DEF Next

THEOREM StreamInvariant == Spec => []StreamInv
<1> QED
  BY StreamInit, StreamStep, PTL DEF Spec

\* The state has its types throughout, no more broken connections being held than broke.
THEOREM StreamTypes == Spec => []TypeOK
<1>1. StreamInv => TypeOK
  BY DEF StreamInv
<1> QED
  BY <1>1, StreamInvariant, PTL

\* A console is shown the rows from its first snapshot to its cursor once and in order,
\* and misses none that was on time: deliverSnapshot and parseSseBlock on what listEvents,
\* the catching up and the broadcast of the service give them.
THEOREM ExactFeed == Spec => []FeedIsExact
<1> QED
  BY StreamInvariant, InvariantImplies, PTL

\* What is written to a connection continues what its console has, up to the cursor of the
\* client: sendActivity, the queue of registerClient and the broadcast leave no gap.
THEOREM ContinuedWire == Spec => []WireContinuesFeed
<1> QED
  BY StreamInvariant, InvariantImplies, PTL

=============================================================================
