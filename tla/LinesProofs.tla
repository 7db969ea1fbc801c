---------------------------- MODULE LinesProofs ----------------------------
(***************************************************************************)
(* What taking positions out of a line and putting pages into it does, for *)
(* lines of every length.                                                  *)
(***************************************************************************)
EXTENDS Lines, FiniteSetTheorems, SequenceTheorems, WellFoundedInduction, TLAPS

(* A nonempty set of numbers has a least member.                           *)
LEMMA LeastMember ==
    ASSUME NEW I \in SUBSET Nat, I # {}
    PROVE  Least(I) \in I /\ \A j \in I : Least(I) <= j
<1>1. \E x \in I : \A y \in I : ~(<<y, x>> \in OpToRel(<, Nat))
    BY NatLessThanWellFounded, WFMin
<1>2. PICK x \in I : \A y \in I : ~(<<y, x>> \in OpToRel(<, Nat))
    BY <1>1
<1>3. \A y \in I : x <= y
    <2>1. SUFFICES ASSUME NEW y \in I, y < x PROVE FALSE
        OBVIOUS
    <2>2. <<y, x>> \in OpToRel(<, Nat)
        BY <2>1 DEF OpToRel
    <2> QED BY <1>2, <2>2
<1> QED BY <1>2, <1>3 DEF Least

(* Any set of positions is finite.                                         *)
LEMMA PositionsFinite ==
    ASSUME NEW n \in Nat, NEW I \in SUBSET (1..n)
    PROVE  IsFiniteSet(I) /\ Cardinality(I) \in Nat
<1>1. IsFiniteSet(1..n)
    <2>1. 1 \in Int /\ n \in Int
        OBVIOUS
    <2> QED BY <2>1, FS_Interval
<1>2. IsFiniteSet(I)
    BY <1>1, FS_Subset
<1> QED BY <1>2, FS_CardinalityType

(* Ranks grow with the members.                                            *)
LEMMA RankGrows ==
    ASSUME NEW n \in Nat, NEW I \in SUBSET (1..n), NEW i \in I, NEW j \in I, i < j
    PROVE  RankIn(I, i) < RankIn(I, j)
<1> DEFINE A == {x \in I : x <= i}
           B == {x \in I : x <= j}
<1>1. IsFiniteSet(I)
    BY PositionsFinite
<1>0. I \subseteq Int
    OBVIOUS
<1>2. IsFiniteSet(A) /\ IsFiniteSet(B)
    BY <1>1, FS_Subset
<1>3. A \subseteq B /\ j \in B /\ j \notin A
    <2>1. i \in Int /\ j \in Int
        BY <1>0
    <2>2. \A x \in I : x <= i => x <= j
        BY <1>0, <2>1
    <2>3. A \subseteq B
        BY <2>2
    <2>4. j <= j /\ ~(j <= i)
        BY <2>1
    <2> QED BY <2>3, <2>4
<1>4. Cardinality(A) <= Cardinality(B)
    BY <1>2, <1>3, FS_Subset
<1>5. Cardinality(A) # Cardinality(B)
    BY <1>2, <1>3, FS_Subset
<1>6. Cardinality(A) \in Nat /\ Cardinality(B) \in Nat
    BY <1>2, FS_CardinalityType
<1>7. RankIn(I, i) = Cardinality(A) /\ RankIn(I, j) = Cardinality(B)
    BY DEF RankIn
<1> HIDE DEF A, B
<1> QED BY <1>4, <1>5, <1>6, <1>7

(* Every rank up to the size of the set is some member's.  The least rank  *)
(* that were none's would follow one that is, and the next member has it.  *)
LEMMA EveryRank ==
    ASSUME NEW n \in Nat, NEW I \in SUBSET (1..n)
    PROVE  \A k \in 1..Cardinality(I) : \E i \in I : RankIn(I, i) = k
<1>1. IsFiniteSet(I) /\ Cardinality(I) \in Nat
    BY PositionsFinite
<1>0. I \subseteq Int
    OBVIOUS
<1> DEFINE T == {k \in 1..Cardinality(I) : ~\E i \in I : RankIn(I, i) = k}
<1>2. SUFFICES ASSUME T # {} PROVE FALSE
    OBVIOUS
<1>3. T \in SUBSET Nat
    BY <1>1
<1> DEFINE k == Least(T)
<1>4. k \in T /\ \A j \in T : k <= j
    BY <1>2, <1>3, LeastMember
<1>5. k \in 1..Cardinality(I) /\ ~\E i \in I : RankIn(I, i) = k
    BY <1>4
<1>6. k \in Nat
    BY <1>1, <1>5
<1> HIDE DEF k
<1> DEFINE Low == {i \in I : RankIn(I, i) < k}
           Rest == I \ Low
<1>7. Low \subseteq I /\ IsFiniteSet(Low)
    BY <1>1, FS_Subset
<1>8. Cardinality(Low) = k - 1
    <2>1. CASE Low = {}
        <3>1. Cardinality(Low) = 0
            BY <2>1, FS_EmptySet
        <3>2. SUFFICES ASSUME k # 1 PROVE FALSE
            BY <3>1, <1>6
        <3>3. k - 1 \in 1..Cardinality(I) /\ k - 1 \notin T
            BY <1>1, <1>4, <1>5, <1>6, <3>2
        <3>4. PICK i \in I : RankIn(I, i) = k - 1
            BY <3>3
        <3>5. i \in Low
            BY <3>4, <1>6
        <3> QED BY <3>5, <2>1
    <2>2. CASE Low # {}
        <3>1. \A i \in I : RankIn(I, i) \in Nat
            <4>1. SUFFICES ASSUME NEW i \in I PROVE RankIn(I, i) \in Nat
                OBVIOUS
            <4>2. IsFiniteSet({x \in I : x <= i})
                BY <1>1, FS_Subset
            <4> QED BY <4>2, FS_CardinalityType DEF RankIn
        <3>2. \A i \in I : RankIn(I, i) > 0
            <4>1. SUFFICES ASSUME NEW i \in I PROVE RankIn(I, i) # 0
                BY <3>1
            <4>2. IsFiniteSet({x \in I : x <= i}) /\ i \in {x \in I : x <= i}
                BY <1>1, FS_Subset
            <4> QED BY <4>2, FS_EmptySet DEF RankIn
        <3>3. PICK l \in Low : TRUE
            BY <2>2
        <3>4. k - 1 \in 1..Cardinality(I) /\ k - 1 \notin T
            BY <1>1, <1>4, <1>5, <1>6, <3>1, <3>2, <3>3
        <3>5. PICK m \in I : RankIn(I, m) = k - 1
            BY <3>4
        <3>6. Low = {x \in I : x <= m}
            <4>1. ASSUME NEW x \in I, x <= m PROVE x \in Low
                <5>1. RankIn(I, x) <= RankIn(I, m)
                    <6>1. CASE x = m
                        BY <6>1, <3>1
                    <6>2. CASE x < m
                        <7>1. RankIn(I, x) < RankIn(I, m)
                            BY <6>2, RankGrows
                        <7>2. RankIn(I, x) \in Nat /\ RankIn(I, m) \in Nat
                            BY <3>1
                        <7> QED BY <7>1, <7>2
                    <6> QED BY <6>1, <6>2, <4>1, <1>0
                <5> QED BY <5>1, <3>1, <3>5, <1>6
            <4>2. ASSUME NEW x \in Low PROVE x <= m
                <5>1. SUFFICES ASSUME m < x PROVE FALSE
                    OBVIOUS
                <5>2. RankIn(I, m) < RankIn(I, x)
                    BY <5>1, RankGrows
                <5> QED BY <5>2, <3>1, <3>5, <1>6
            <4> QED BY <4>1, <4>2
        <3> QED BY <3>5, <3>6 DEF RankIn
    <2> QED BY <2>1, <2>2
<1>9. Rest # {}
    <2>1. SUFFICES ASSUME Low = I PROVE FALSE
        BY <1>7
    <2> QED BY <2>1, <1>8, <1>5, <1>6, <1>1
<1> DEFINE m == Least(Rest)
<1>10. m \in Rest /\ \A j \in Rest : m <= j
    BY <1>9, LeastMember
<1> HIDE DEF m
<1>11. {x \in I : x <= m} = Low \cup {m}
    <2>1. ASSUME NEW x \in Low PROVE x <= m
        <3>1. SUFFICES ASSUME m < x PROVE FALSE
            BY <1>10
        <3>2. RankIn(I, m) < RankIn(I, x)
            BY <3>1, <1>10, RankGrows
        <3>3. RankIn(I, m) \in Nat /\ RankIn(I, x) \in Nat
            <4>1. IsFiniteSet({y \in I : y <= m}) /\ IsFiniteSet({y \in I : y <= x})
                BY <1>1, FS_Subset
            <4> QED BY <4>1, FS_CardinalityType DEF RankIn
        <3> QED BY <3>2, <3>3, <1>10, <1>6
    <2>2. ASSUME NEW x \in I, x <= m, x \notin Low PROVE x = m
        BY <2>2, <1>10
    <2> QED BY <2>1, <2>2, <1>10
<1>12. Cardinality(Low \cup {m}) = k
    BY <1>7, <1>8, <1>10, <1>6, FS_AddElement
<1> QED BY <1>5, <1>10, <1>11, <1>12 DEF RankIn

(* Nth finds the member it is asked for, and in their order.               *)
LEMMA NthMember ==
    ASSUME NEW n \in Nat, NEW I \in SUBSET (1..n), NEW k \in 1..Cardinality(I)
    PROVE  Nth(I, k) \in I /\ RankIn(I, Nth(I, k)) = k
BY EveryRank DEF Nth

(* What is left of a line once the positions I are out: it stands at other *)
(* positions, in the same order, and nothing else is gone.                 *)
LEMMA WithoutProperties ==
    ASSUME NEW S, NEW s \in Seq(S), NEW I
    PROVE  /\ Without(s, I) \in Seq(S)
           /\ \A k \in DOMAIN Without(s, I) : \E i \in (DOMAIN s) \ I : Without(s, I)[k] = s[i]
           /\ \A k, m \in DOMAIN Without(s, I) : k < m =>
                  \E i, j \in (DOMAIN s) \ I :
                      i < j /\ Without(s, I)[k] = s[i] /\ Without(s, I)[m] = s[j]
           /\ \A i \in (DOMAIN s) \ I : \E k \in DOMAIN Without(s, I) : Without(s, I)[k] = s[i]
<1> DEFINE n == Len(s)
           J == (1..n) \ I
           c == Cardinality(J)
           w == Without(s, I)
<1>1. n \in Nat /\ DOMAIN s = 1..n /\ \A i \in 1..n : s[i] \in S
    OBVIOUS
<1>2. J \in SUBSET (1..n) /\ c \in Nat
    BY <1>1, PositionsFinite
<1>3. w = [k \in 1..c |-> s[Nth(J, k)]]
    BY DEF Without, At
<1>4. \A k \in 1..c : Nth(J, k) \in J /\ RankIn(J, Nth(J, k)) = k
    BY <1>1, <1>2, NthMember
<1>5. \A i \in J : RankIn(J, i) \in 1..c
    <2>1. SUFFICES ASSUME NEW i \in J PROVE RankIn(J, i) \in 1..c
        OBVIOUS
    <2> DEFINE L == {x \in J : x <= i}
    <2>0. i \in Int
        BY <1>1
    <2>2. IsFiniteSet(J) /\ L \subseteq J /\ i \in L
        <3>1. IsFiniteSet(J)
            BY <1>1, <1>2, PositionsFinite
        <3>2. i <= i
            BY <2>0
        <3> QED BY <3>1, <3>2
    <2>3. IsFiniteSet(L) /\ Cardinality(L) <= c /\ Cardinality(L) \in Nat
        BY <2>2, FS_Subset, FS_CardinalityType
    <2>4. Cardinality(L) # 0
        BY <2>2, <2>3, FS_EmptySet
    <2>5. RankIn(J, i) = Cardinality(L)
        BY DEF RankIn
    <2> HIDE DEF L, c
    <2> QED BY <2>3, <2>4, <2>5, <1>2
<1> HIDE DEF n, J, c, w
<1>6. DOMAIN w = 1..c /\ w \in Seq(S)
    <2>1. \A k \in 1..c : s[Nth(J, k)] \in S
        BY <1>1, <1>2, <1>4
    <2> QED BY <1>2, <1>3, <2>1
<1>7. ASSUME NEW k \in DOMAIN w
      PROVE  \E i \in J : w[k] = s[i]
    BY <1>3, <1>4, <1>6
<1>8. ASSUME NEW k \in DOMAIN w, NEW m \in DOMAIN w, k < m
      PROVE  \E i, j \in J : i < j /\ w[k] = s[i] /\ w[m] = s[j]
    <2> DEFINE i == Nth(J, k)
               j == Nth(J, m)
    <2>1. i \in J /\ j \in J /\ RankIn(J, i) = k /\ RankIn(J, j) = m
        BY <1>4, <1>6
    <2>2. w[k] = s[i] /\ w[m] = s[j]
        BY <1>3, <1>6
    <2> HIDE DEF i, j
    <2>3. i \in Nat /\ j \in Nat /\ k \in Nat /\ m \in Nat
        BY <1>1, <1>2, <1>6, <2>1
    <2>4. i < j
        <3>1. SUFFICES ASSUME j <= i PROVE FALSE
            BY <2>3
        <3>2. CASE i = j
            BY <3>2, <2>1, <2>3, <1>8
        <3>3. CASE j < i
            <4>1. RankIn(J, j) < RankIn(J, i)
                BY <3>3, <2>1, <1>1, <1>2, RankGrows
            <4> QED BY <4>1, <2>1, <2>3, <1>8
        <3> QED BY <3>1, <3>2, <3>3, <2>3
    <2> QED BY <2>1, <2>2, <2>4
<1>9. ASSUME NEW i \in J
      PROVE  \E k \in DOMAIN w : w[k] = s[i]
    <2> DEFINE k == RankIn(J, i)
    <2>1. k \in 1..c
        BY <1>5
    <2> DEFINE j == Nth(J, k)
    <2>2. j \in J /\ RankIn(J, j) = k
        BY <1>4, <2>1
    <2> HIDE DEF j
    <2>3. i = j
        <3>1. i \in Nat /\ j \in Nat /\ k \in Nat
            BY <1>1, <1>2, <2>1, <2>2
        <3>2. CASE i < j
            <4>1. RankIn(J, i) < RankIn(J, j)
                BY <3>2, <2>2, <1>1, <1>2, RankGrows
            <4> QED BY <4>1, <2>2, <3>1
        <3>3. CASE j < i
            <4>1. RankIn(J, j) < RankIn(J, i)
                BY <3>3, <2>2, <1>1, <1>2, RankGrows
            <4> QED BY <4>1, <2>2, <3>1
        <3> QED BY <3>1, <3>2, <3>3
    <2>4. w[k] = s[Nth(J, k)]
        BY <1>3, <2>1
    <2> QED BY <2>1, <2>3, <2>4, <1>6 DEF j
<1>10. J = (DOMAIN s) \ I
    BY <1>1 DEF J
<1>11. w = Without(s, I)
    BY DEF w
<1> QED BY <1>6, <1>7, <1>8, <1>9, <1>10, <1>11

(* Putting pages into a line keeps the rest of it in order.                *)
LEMMA InsertProperties ==
    ASSUME NEW S, NEW s \in Seq(S), NEW t \in Seq(S), NEW n \in 0..Len(s)
    PROVE  /\ Insert(s, n, t) \in Seq(S)
           /\ Len(Insert(s, n, t)) = Len(s) + Len(t)
           /\ \A i \in 1..(Len(s) + Len(t)) :
                  Insert(s, n, t)[i] = IF i <= n THEN s[i]
                                       ELSE IF i <= n + Len(t) THEN t[i - n]
                                       ELSE s[i - Len(t)]
<1> DEFINE a == SubSeq(s, 1, n)
           b == SubSeq(s, n + 1, Len(s))
<1>1. a \in Seq(S) /\ Len(a) = n /\ \A i \in 1..n : a[i] = s[i]
    BY SubSeqProperties
<1>2. b \in Seq(S) /\ Len(b) = Len(s) - n /\ \A i \in 1..(Len(s) - n) : b[i] = s[n + i]
    BY SubSeqProperties
<1> HIDE DEF a, b
<1>3. /\ a \o t \in Seq(S) /\ Len(a \o t) = n + Len(t)
      /\ \A i \in 1..(n + Len(t)) : (a \o t)[i] = IF i <= n THEN a[i] ELSE t[i - n]
    BY <1>1, ConcatProperties
<1> DEFINE at == a \o t
<1> HIDE DEF at
<1>4. /\ at \o b \in Seq(S) /\ Len(at \o b) = n + Len(t) + (Len(s) - n)
      /\ \A i \in 1..(n + Len(t) + (Len(s) - n)) :
            (at \o b)[i] = IF i <= n + Len(t) THEN at[i] ELSE b[i - (n + Len(t))]
    BY <1>2, <1>3, ConcatProperties DEF at
<1>5. Insert(s, n, t) = at \o b
    BY DEF Insert, a, b, at
<1> DEFINE r == at \o b
<1>6. \A i \in 1..(n + Len(t)) : at[i] = IF i <= n THEN s[i] ELSE t[i - n]
    BY <1>1, <1>3 DEF at
<1>7. \A i \in 1..(Len(s) + Len(t)) :
          i > n + Len(t) => i - (n + Len(t)) \in 1..(Len(s) - n)
                            /\ n + (i - (n + Len(t))) = i - Len(t)
    OBVIOUS
<1>8. /\ r \in Seq(S) /\ Len(r) = Len(s) + Len(t)
      /\ \A i \in 1..(Len(s) + Len(t)) : r[i] =
            IF i <= n + Len(t) THEN at[i] ELSE b[i - (n + Len(t))]
    BY <1>4
<1> HIDE DEF r
<1>9. ASSUME NEW i \in 1..(Len(s) + Len(t))
      PROVE  r[i] = IF i <= n THEN s[i]
                    ELSE IF i <= n + Len(t) THEN t[i - n]
                    ELSE s[i - Len(t)]
    <2>1. CASE i <= n + Len(t)
        BY <2>1, <1>6, <1>8
    <2>2. CASE i > n + Len(t)
        <3>1. r[i] = b[i - (n + Len(t))]
            BY <2>2, <1>8
        <3>2. b[i - (n + Len(t))] = s[n + (i - (n + Len(t)))]
            BY <2>2, <1>2, <1>7
        <3>3. ~(i <= n) /\ ~(i <= n + Len(t))
            BY <2>2
        <3> QED BY <3>1, <3>2, <3>3, <2>2, <1>7
    <2> QED BY <2>1, <2>2
<1> QED BY <1>5, <1>8, <1>9 DEF r

(* What is left of a line when p is sent off: everybody else, as they      *)
(* stood.                                                                  *)
LEMMA DismissProperties ==
    ASSUME NEW S, NEW q \in Seq(S), NEW p
    PROVE  /\ Dismiss(q, p) \in Seq(S)
           /\ Members(Dismiss(q, p)) = Members(q) \ {p}
           /\ Distinct(q) => Distinct(Dismiss(q, p))
<1> DEFINE I == {i \in DOMAIN q : q[i] = p}
           t == Without(q, I)
<1>0. Dismiss(q, p) = t
    BY DEF Dismiss
<1> HIDE DEF I
<1>1. /\ t \in Seq(S)
      /\ \A k \in DOMAIN t : \E i \in (DOMAIN q) \ I : t[k] = q[i]
      /\ \A k, m \in DOMAIN t : k < m =>
             \E i, j \in (DOMAIN q) \ I : i < j /\ t[k] = q[i] /\ t[m] = q[j]
      /\ \A i \in (DOMAIN q) \ I : \E k \in DOMAIN t : t[k] = q[i]
    BY WithoutProperties
<1> HIDE DEF t
<1> USE DEF I
<1>2. Members(t) = Members(q) \ {p}
    BY <1>1 DEF Members
<1>3. ASSUME Distinct(q) PROVE Distinct(t)
    <2> SUFFICES ASSUME NEW k \in DOMAIN t, NEW m \in DOMAIN t, t[k] = t[m] PROVE k = m
        BY DEF Distinct
    <2>1. k \in Int /\ m \in Int
        BY <1>1
    <2>2. DOMAIN q \subseteq Int
        OBVIOUS
    <2>3. ASSUME NEW a \in DOMAIN t, NEW b \in DOMAIN t, a < b, t[a] = t[b] PROVE FALSE
        <3>1. PICK i, j \in (DOMAIN q) \ I : i < j /\ t[a] = q[i] /\ t[b] = q[j]
            BY <1>1, <2>3
        <3>2. i = j
            BY <1>3, <2>3, <3>1 DEF Distinct
        <3> QED BY <2>2, <3>1, <3>2
    <2> QED BY <2>1, <2>3
<1> QED BY <1>0, <1>1, <1>2, <1>3

(* When those in W are left out, everybody else is left.                   *)
LEMMA AllButSome ==
    ASSUME NEW S, NEW q \in Seq(S), NEW W
    PROVE  LET t == Without(q, {i \in DOMAIN q : q[i] \in W})
           IN t \in Seq(S) /\ Members(t) = Members(q) \ W
<1> DEFINE I == {i \in DOMAIN q : q[i] \in W}
           t == Without(q, I)
<1> HIDE DEF I
<1>1. /\ t \in Seq(S)
      /\ \A k \in DOMAIN t : \E i \in (DOMAIN q) \ I : t[k] = q[i]
      /\ \A i \in (DOMAIN q) \ I : \E k \in DOMAIN t : t[k] = q[i]
    BY WithoutProperties
<1> HIDE DEF t
<1> USE DEF I
<1>2. Members(t) = Members(q) \ W
    BY <1>1 DEF Members
<1> QED BY <1>1, <1>2 DEF t

=============================================================================
