-------------------------- MODULE SchedulerProofs --------------------------
(***************************************************************************)
(* The display scheduler for any rules, settings and bounds: its types,    *)
(* and, in the house of MCDisplay, that the display is left alone for the  *)
(* gap, that a page somebody pushed is not aired over, and that a rule     *)
(* that has aired is left to rest.                                         *)
(***************************************************************************)
EXTENDS MCDisplay, LinesProofs

RuleOK(r, x) ==
    /\ x \in RuleType
    /\ x.slot \in 1..Terms[r].interval
    /\ Terms[r].fixed => ~x.pending

RulesOK == rule \in [Rules -> RuleType] /\ \A r \in Rules : RuleOK(r, rule[r])

ListOK == listed \in Seq(Rules) /\ Distinct(listed)

ScreenOK ==
    /\ active \in BOOLEAN
    /\ env \in [quiet : BOOLEAN, inside : BOOLEAN]
    /\ gapLeft \in Int /\ bootLeft \in -MaxWait..GlobalGap
    /\ activeAiring = None \/ activeAiring \in [rule : Rules, left : Int]
    /\ page = None \/ page \in PageType

AirOK(a) == a = None \/ a \in AiringType

TickType ==
    [on : BOOLEAN, todo : Seq(StepType), air : AiringType \cup {None}, late : 0..MaxWait,
     gone : UNION {[D -> Int] : D \in SUBSET Rules}]

(* A step of a tick airs one fixed rule, or chooses among the boards' rules*)
(* of the cadence.                                                         *)
StepOK(s) ==
    /\ s \in StepType
    /\ s.do = "fixed" => \E r \in Rules : Terms[r].fixed /\ s.rules = <<r>>
    /\ s.do = "boards" => /\ s.rules # <<>>
                          /\ \A r \in Members(s.rules) : Board(r) /\ ~Terms[r].fixed

(* What is for the display is aired before the tick waits for anything.    *)
DisplayFirst(t) ==
    \A i \in DOMAIN t.todo :
        t.todo[i].do = "fixed" /\ (\E r \in Members(t.todo[i].rules) : ~Board(r))
            => i = 1 /\ t.air = None /\ t.late = 0

(* No rule is to be aired twice, and whatever is still to be aired is      *)
(* listed, or the tick knows that it holds what the store has no more.     *)
PlanOK(t, L) ==
    /\ \A i \in DOMAIN t.todo : StepOK(t.todo[i])
    /\ \A i, j \in DOMAIN t.todo :
          i # j => Members(t.todo[i].rules) \cap Members(t.todo[j].rules) = {}
    /\ \A i \in DOMAIN t.todo : Members(t.todo[i].rules) \subseteq L \cup DOMAIN t.gone
    /\ DisplayFirst(t)

TickOK ==
    /\ rung \in BOOLEAN /\ tick \in TickType
    /\ rung => ~tick.on
    /\ ~tick.on => tick = Idle
    /\ PlanOK(tick, Listed)
    /\ AirOK(airNow)

SchedulerInv == RulesOK /\ ListOK /\ ScreenOK /\ TickOK

LEMMA TypesFollow == SchedulerInv => SchedulerTypeOK
<1> SUFFICES ASSUME SchedulerInv PROVE SchedulerTypeOK
    OBVIOUS
<1>1. /\ tick \in TickType /\ rung \in BOOLEAN /\ AirOK(airNow)
    BY DEF SchedulerInv, TickOK
<1>2. /\ tick.on \in BOOLEAN /\ tick.late \in 0..MaxWait
      /\ tick.air = None \/ tick.air \in AiringType
      /\ tick.todo \in Seq(StepType)
    BY <1>1 DEF TickType
<1>3. PICK D \in SUBSET Rules : tick.gone \in [D -> Int]
    BY <1>1 DEF TickType
<1>4. DOMAIN tick.gone \subseteq Rules /\ \A r \in DOMAIN tick.gone : tick.gone[r] \in Int
    BY <1>3
<1>5. \A i \in DOMAIN tick.todo : tick.todo[i] \in StepType
    BY <1>2
<1>6. \A r \in Rules : Terms[r].fixed => ~rule[r].pending
    BY DEF SchedulerInv, RulesOK, RuleOK
<1> QED
    BY <1>1, <1>2, <1>4, <1>5, <1>6
    DEF SchedulerInv, SchedulerTypeOK, RulesOK, ListOK, ScreenOK, AirOK

-----------------------------------------------------------------------------
(* Choosing one of a list.                                                 *)

(* Where being behind is what it should be, somebody in a finite list is   *)
(* behind nobody: if not, take the first place up to which there is none.  *)
LEMMA SomebodyIsAhead ==
    ASSUME NEW n \in Nat, NEW I \in SUBSET (1..n), I # {}, NEW R \in SUBSET (I \X I),
           \A i, j \in I : <<i, j>> \in R => <<j, i>> \notin R,
           \A i, j, k \in I : <<i, k>> \in R => <<i, j>> \in R \/ <<j, k>> \in R
    PROVE  \E i \in I : \A j \in I : <<i, j>> \notin R
<1> DEFINE U(m) == {i \in I : i <= m}
           Led(m) == \E i \in U(m) : \A j \in U(m) : <<i, j>> \notin R
           T == {m \in 1..n : U(m) # {} /\ ~Led(m)}
<1>1. I \subseteq Int /\ U(n) = I /\ n \in 1..n
    <2>1. PICK x \in I : x \in 1..n
        OBVIOUS
    <2>2. n \in 1..n
        BY <2>1
    <2>3. \A i \in I : i \in Int /\ i <= n
        OBVIOUS
    <2> QED BY <2>2, <2>3
<1>2. CASE Led(n)
    BY <1>1, <1>2
<1>3. CASE ~Led(n)
    <2>1. T \in SUBSET Nat /\ n \in T
        <3> HIDE DEF Led
        <3> QED BY <1>1, <1>3
    <2> DEFINE m == Least(T)
    <2>2. m \in T /\ \A k \in T : m <= k
        BY <2>1, LeastMember
    <2>3. m \in 1..n /\ U(m) # {} /\ ~Led(m)
        <3> HIDE DEF m, Led
        <3> QED BY <2>2
    <2>4. ASSUME U(m - 1) # {} PROVE Led(m - 1)
        <3> HIDE DEF m, Led
        <3>1. m - 1 \in 1..n
            <4>1. PICK i \in I : i <= m - 1
                BY <2>4
            <4>2. i \in 1..n
                OBVIOUS
            <4> QED BY <2>3, <4>1, <4>2
        <3>2. m - 1 \notin T
            BY <2>2, <2>3, <3>1
        <3> QED BY <2>4, <3>1, <3>2
    <2> HIDE DEF m, T
    <2>5. \A i \in I : i <= m <=> (i <= m - 1 \/ i = m)
        BY <1>1, <2>3
    <2>6. CASE m \notin I
        <3>1. U(m - 1) = U(m)
            BY <2>5, <2>6
        <3> HIDE DEF U
        <3> QED BY <2>3, <2>4, <3>1
    <2>7. CASE m \in I
        <3>1. U(m) = U(m - 1) \cup {m} /\ <<m, m>> \notin R
            <4>1. <<m, m>> \notin R
                BY <2>7
            <4> DEFINE V == U(m - 1) \cup {m}
            <4>2. \A i : i \in U(m) <=> i \in V
                BY <2>5, <2>7
            <4> HIDE DEF V, U
            <4>3. U(m) = V
                BY <4>2
            <4> QED BY <4>1, <4>3 DEF V
        <3>2. CASE U(m - 1) = {}
            <4>1. U(m) = {m}
                BY <3>1, <3>2
            <4> QED BY <2>3, <3>1, <4>1
        <3>3. CASE U(m - 1) # {}
            <4>1. PICK i \in U(m - 1) : \A j \in U(m - 1) : <<i, j>> \notin R
                BY <2>4, <3>3
            <4>2. CASE <<i, m>> \notin R
                BY <2>3, <3>1, <4>1, <4>2
            <4>3. CASE <<i, m>> \in R
                <5>1. ASSUME NEW j \in U(m - 1) PROVE <<m, j>> \notin R
                    <6>1. i \in I /\ j \in I /\ <<i, j>> \notin R
                        BY <4>1
                    <6> QED BY <2>7, <4>3, <6>1
                <5> QED BY <2>3, <3>1, <5>1
            <4> QED BY <4>2, <4>3
        <3> QED BY <3>2, <3>3
    <2> QED BY <2>6, <2>7
<1> QED BY <1>2, <1>3

(* Fractions with positive denominators are compared by cross-multiplying. *)
LEMMA CrossMultiplied ==
    ASSUME NEW a \in Nat, NEW b \in Nat \ {0}, NEW c \in Nat, NEW d \in Nat \ {0},
           NEW e \in Nat, NEW f \in Nat \ {0}, a * d <= c * b, c * f <= e * d
    PROVE  a * f <= e * b
<1>1. (a * d) * f <= (c * b) * f
    OBVIOUS
<1>2. (c * f) * b <= (e * d) * b
    OBVIOUS
<1>3. (c * b) * f = (c * f) * b
    OBVIOUS
<1>4. (a * f) * d <= (e * b) * d
    <2>1. (a * d) * f = (a * f) * d /\ (e * d) * b = (e * b) * d
        OBVIOUS
    <2>2. /\ (a * d) * f \in Int /\ (c * b) * f \in Int /\ (c * f) * b \in Int
          /\ (e * d) * b \in Int
        OBVIOUS
    <2> QED BY <1>1, <1>2, <1>3, <2>1, <2>2
<1>5. ASSUME a * f > e * b PROVE FALSE
    <2>1. (a * f - e * b) * d > 0
        BY <1>5
    <2>2. (a * f - e * b) * d = (a * f) * d - (e * b) * d
        OBVIOUS
    <2> QED BY <1>4, <2>1, <2>2
<1> QED BY <1>5

LEMMA SettingsTyped ==
    ASSUME NEW r \in Rules
    PROVE  /\ Terms[r] \in TermsType
           /\ Terms[r].interval \in Nat \ {0} /\ Terms[r].planned \in Nat \ {0}
           /\ Terms[r].planned < 1000 /\ Terms[r].importance \in 1..5 /\ Terms[r].cap \in Nat
           /\ Terms[r].hold \in Nat
           /\ {Terms[r].board, Terms[r].closing, Terms[r].fixed} \subseteq BOOLEAN
           /\ {GlobalGap, MaxWait, MaxAge} \subseteq Nat
           /\ ~Terms[r].fixed => MaxWait < MaxAge
<1>1. Terms[r] \in TermsType
    BY SchedulerAssumption
<1>2. Terms[r].planned < 1000
    BY SchedulerAssumption DEF Never
<1>3. {GlobalGap, MaxWait, MaxAge} \subseteq Nat
    BY SchedulerAssumption
<1>4. Terms[r].fixed \/ Terms[r].interval + MaxWait < MaxAge
    BY SchedulerAssumption
<1> QED BY <1>1, <1>2, <1>3, <1>4 DEF TermsType

(* The rule with the best score is one of those that were scored.          *)
LEMMA BestIsListed ==
    ASSUME NEW list \in Seq(Rules), list # <<>>, NEW aired \in [Rules -> Int], tick.late \in Nat
    PROVE  Best(list, aired) \in Members(list)
<1> DEFINE n == Len(list)
           I == 1..n
           a(i) == Since(list[i], aired) * Terms[list[i]].importance
           b(i) == Terms[list[i]].interval
           R == {p \in I \X I : Outscores(list[p[2]], list[p[1]], aired)}
           top == {i \in DOMAIN list : \A j \in DOMAIN list : ~Outscores(list[j], list[i], aired)}
<1>1. n \in Nat /\ 1 \in I /\ DOMAIN list = I /\ \A i \in I : list[i] \in Rules
    <2>1. n \in Nat /\ n # 0
        BY EmptySeq
    <2> HIDE DEF n
    <2>2. 1 \in I
        BY <2>1
    <2> USE DEF n
    <2> QED BY <2>1, <2>2
<1>2. \A i \in I : a(i) \in Nat /\ b(i) \in Nat \ {0}
    <2> SUFFICES ASSUME NEW i \in I PROVE a(i) \in Nat /\ b(i) \in Nat \ {0}
        OBVIOUS
    <2> DEFINE q == list[i]
               late == tick.late
    <2>1. q \in Rules /\ aired[q] \in Int /\ late \in Int
        BY <1>1
    <2> HIDE DEF q, late
    <2>2. Terms[q].interval \in Nat \ {0} /\ Terms[q].importance \in 1..5
        BY <2>1, SettingsTyped
    <2>3. Since(q, aired) \in Nat
        <3>1. 2 * Terms[q].interval \in Nat
            BY <2>2
        <3>2. AtLeast0(aired[q] - tick.late) \in Nat
            BY <2>1 DEF AtLeast0, late
        <3> QED BY <3>1, <3>2 DEF Since
    <2>4. Since(q, aired) * Terms[q].importance \in Nat
        BY <2>2, <2>3
    <2> QED BY <2>2, <2>4 DEF q
<1>3. \A i, j \in I : <<i, j>> \in R <=> a(j) * b(i) > a(i) * b(j)
    BY DEF Outscores
<1> HIDE DEF a, b, I, R
<1>4. \A i, j \in I : a(j) * b(i) \in Int
    BY <1>2
<1>5. \A i, j \in I : <<i, j>> \in R => <<j, i>> \notin R
    BY <1>3, <1>4
<1>6. ASSUME NEW i \in I, NEW j \in I, NEW k \in I, <<i, k>> \in R
      PROVE  <<i, j>> \in R \/ <<j, k>> \in R
    <2>1. SUFFICES ASSUME <<i, j>> \notin R, <<j, k>> \notin R PROVE FALSE
        OBVIOUS
    <2>2. a(k) * b(j) <= a(j) * b(k) /\ a(j) * b(i) <= a(i) * b(j)
        BY <1>3, <1>4, <2>1
    <2>3. a(k) * b(i) <= a(i) * b(k)
        BY <1>2, <2>2, CrossMultiplied
    <2> QED BY <1>3, <1>4, <1>6, <2>3
<1>7. \E i \in I : \A j \in I : <<i, j>> \notin R
    <2>1. I \in SUBSET (1..n) /\ I # {}
        BY <1>1 DEF I
    <2>2. \A i, j, k \in I : <<i, k>> \in R => <<i, j>> \in R \/ <<j, k>> \in R
        BY <1>6
    <2>3. n \in Nat /\ R \in SUBSET (I \X I)
        BY <1>1 DEF R
    <2> HIDE DEF n
    <2> QED BY <1>5, <2>1, <2>2, <2>3, SomebodyIsAhead
<1>8. top # {} /\ top \subseteq Nat
    <2>1. \A i, j \in I : <<i, j>> \in R <=> Outscores(list[j], list[i], aired)
        BY DEF R
    <2>2. PICK i \in I : \A j \in I : <<i, j>> \notin R
        BY <1>7
    <2>3. i \in top
        BY <1>1, <2>1, <2>2
    <2> QED BY <1>1, <2>3 DEF I
<1>9. Least(top) \in top
    <2> HIDE DEF top
    <2> QED BY <1>8, LeastMember
<1>10. Best(list, aired) = list[Least(top)]
    BY DEF Best
<1> QED BY <1>9, <1>10 DEF Members

(* Of the fixed rules that are due, one airs.                              *)
LEMMA FirstIsDue ==
    ASSUME listed \in Seq(Rules), RulesOK, NEW due \in SUBSET Listed, due # {}
    PROVE  First(due) \in due
<1> DEFINE n == Len(listed)
           Behind(i, j) ==
               LET p == listed[i]
                   q == listed[j]
               IN \/ Terms[p].importance < Terms[q].importance
                  \/ Terms[p].importance = Terms[q].importance /\ rule[p].due > rule[q].due
           I == {i \in DOMAIN listed : listed[i] \in due}
           R == {p \in I \X I : Behind(p[1], p[2])}
           top == {i \in I : \A j \in I : ~Behind(i, j)}
<1>1. n \in Nat /\ I \in SUBSET (1..n) /\ I # {}
    BY DEF Listed, Members
<1> DEFINE m(i) == Terms[listed[i]].importance
           d(i) == rule[listed[i]].due
<1>2. \A i \in I : m(i) \in Int /\ d(i) \in Int
    <2> SUFFICES ASSUME NEW i \in I PROVE m(i) \in Int /\ d(i) \in Int
        OBVIOUS
    <2>1. listed[i] \in Rules
        OBVIOUS
    <2>2. rule[listed[i]].due \in Int
        BY <2>1 DEF RulesOK, RuleType
    <2> QED BY <2>1, <2>2, SettingsTyped
<1>0. \A i, j \in I : <<i, j>> \in R <=> Behind(i, j)
    OBVIOUS
<1> HIDE DEF R, I
<1>3. \A i, j \in I : <<i, j>> \in R <=> m(i) < m(j) \/ (m(i) = m(j) /\ d(i) > d(j))
    BY <1>0
<1> HIDE DEF m, d, Behind
<1>4. \A i, j \in I : <<i, j>> \in R => <<j, i>> \notin R
    BY <1>2, <1>3
<1>5. \A i, j, k \in I : <<i, k>> \in R => <<i, j>> \in R \/ <<j, k>> \in R
    <2> SUFFICES ASSUME NEW i \in I, NEW j \in I, NEW k \in I, <<i, k>> \in R, <<i, j>> \notin R
                 PROVE  <<j, k>> \in R
        OBVIOUS
    <2>1. /\ m(i) \in Int /\ m(j) \in Int /\ m(k) \in Int
          /\ d(i) \in Int /\ d(j) \in Int /\ d(k) \in Int
        BY <1>2
    <2>2. m(i) < m(k) \/ (m(i) = m(k) /\ d(i) > d(k))
        BY <1>3
    <2>3. ~(m(i) < m(j) \/ (m(i) = m(j) /\ d(i) > d(j)))
        BY <1>3
    <2>4. m(j) < m(k) \/ (m(j) = m(k) /\ d(j) > d(k))
        BY <2>1, <2>2, <2>3
    <2> QED BY <1>3, <2>4
<1>6. \E i \in I : \A j \in I : <<i, j>> \notin R
    <2>1. R \in SUBSET (I \X I)
        BY DEF R
    <2> HIDE DEF n
    <2> QED BY <1>1, <1>4, <1>5, <2>1, SomebodyIsAhead
<1>7. top # {} /\ top \subseteq Nat
    <2>1. PICK i \in I : \A j \in I : <<i, j>> \notin R
        BY <1>6
    <2>2. i \in top
        BY <1>0, <2>1 DEF Behind
    <2>3. top \subseteq I /\ I \subseteq Nat
        BY <1>1
    <2> QED BY <2>2, <2>3
<1>8. Least(top) \in top
    <2> HIDE DEF top
    <2> QED BY <1>7, LeastMember
<1>9. First(due) = listed[Least(top)]
    BY DEF First, I, Behind
<1> QED BY <1>8, <1>9 DEF I

-----------------------------------------------------------------------------
(* A rule and the clock.                                                   *)

LEMMA AmongIsThose ==
    ASSUME listed \in Seq(Rules), NEW X
    PROVE  Among(X) \in Seq(Rules) /\ Members(Among(X)) = Listed \cap X
<1> DEFINE W == Listed \ X
           I == {i \in DOMAIN listed : listed[i] \notin X}
           J == {i \in DOMAIN listed : listed[i] \in W}
<1>1. I = J
    BY DEF Listed, Members
<1>2. Without(listed, J) \in Seq(Rules) /\ Members(Without(listed, J)) = Members(listed) \ W
    <2> HIDE DEF W
    <2> QED BY AllButSome
<1>3. Among(X) = Without(listed, J)
    BY <1>1 DEF Among
<1> QED BY <1>2, <1>3 DEF Listed

LEMMA ListedAreRules ==
    ASSUME listed \in Seq(Rules)
    PROVE  Listed \subseteq Rules
BY DEF Listed, Members

(* Remainders of a positive divisor.                                       *)
LEMMA Remainder ==
    ASSUME NEW m \in Nat \ {0}, NEW x \in Int
    PROVE  x % m \in Nat /\ x % m < m /\ (0 <= x /\ x < m => x % m = x)
OBVIOUS

(* The next slot after an instant lies ahead of it, and it is not before   *)
(* the next from now if less than an interval lies between the two.        *)
LEMMA NextSlotIsAhead ==
    ASSUME NEW r \in Rules, NEW x, x.slot \in 1..Terms[r].interval, NEW from \in Int
    PROVE  /\ NextSlot(r, x, from) \in Int
           /\ NextSlot(r, x, from) > from
           /\ x.slot - from <= Terms[r].interval => NextSlot(r, x, from) >= x.slot
<1> DEFINE m == Terms[r].interval
           y == x.slot - from - 1
<1>1. m \in Nat \ {0} /\ x.slot \in 1..m
    BY SettingsTyped
<1> DEFINE s == x.slot
<1>2. y = s - from - 1 /\ s \in Int /\ s <= m
    BY <1>1
<1> HIDE DEF m, s
<1>3. y \in Int
    BY <1>2
<1> HIDE DEF y
<1>4. y % m \in Nat /\ y % m < m /\ (0 <= y /\ y < m => y % m = y)
    BY <1>1, <1>3, Remainder
<1> DEFINE z == y % m
<1>5. NextSlot(r, x, from) = from + 1 + z
    BY DEF NextSlot, m, y
<1> HIDE DEF z
<1>6. z \in Nat /\ (0 <= y /\ y < m => z = y)
    BY <1>4 DEF z
<1>7. s - from <= m => from + 1 + z >= s
    <2> SUFFICES ASSUME s - from <= m PROVE from + 1 + z >= s
        OBVIOUS
    <2>1. CASE y >= 0
        BY <1>1, <1>2, <1>6, <2>1
    <2>2. CASE y < 0
        BY <1>2, <1>6, <2>2
    <2> QED BY <1>3, <2>1, <2>2
<1> QED BY <1>5, <1>6, <1>7 DEF s, m

(* When a rule is next looked at, after an evaluation or an airing.        *)
LEMMA AdvanceKeeps ==
    ASSUME NEW r \in Rules, NEW x, RuleOK(r, x), NEW from \in Int
    PROVE  LET y == Advance(r, x, from)
           IN /\ RuleOK(r, y) /\ ~y.pending /\ y.slot = x.slot
              /\ y.due = IF Terms[r].fixed THEN NextSlot(r, x, from) ELSE from + Terms[r].interval
<1> DEFINE due == IF Terms[r].fixed THEN NextSlot(r, x, from) ELSE from + Terms[r].interval
<1>1. due \in Int
    <2>1. Terms[r].interval \in Int
        BY SettingsTyped
    <2> QED BY <2>1, NextSlotIsAhead DEF RuleOK
<1>2. MaxAge \in Nat
    BY SchedulerAssumption
<1>3. x \in RuleType
    BY DEF RuleOK
<1> DEFINE off == FALSE
           none == 0
<1>4. Advance(r, x, from) = [x EXCEPT !.due = due, !.pending = off, !.won = none]
    BY DEF Advance
<1>9. off \in BOOLEAN /\ ~off /\ none \in 0..MaxAge
    BY <1>2
<1> HIDE DEF due, off, none
<1>5. /\ Advance(r, x, from) \in RuleType
      /\ Advance(r, x, from).pending = off /\ Advance(r, x, from).slot = x.slot
      /\ Advance(r, x, from).due = due
    BY <1>1, <1>3, <1>4, <1>9 DEF RuleType
<1>6. x.slot \in 1..Terms[r].interval
    BY DEF RuleOK
<1> DEFINE y == Advance(r, x, from)
<1>7. y \in RuleType /\ ~y.pending /\ y.slot = x.slot /\ y.due = due
    BY <1>5, <1>9
<1> HIDE DEF y
<1>8. RuleOK(r, y)
    BY <1>6, <1>7 DEF RuleOK
<1> QED BY <1>7, <1>8 DEF due, y

LEMMA FreshIsOK ==
    ASSUME NEW r \in Rules
    PROVE  RuleOK(r, Fresh(r)) /\ Fresh(r).due = 0 /\ Fresh(r).slot = Terms[r].interval
<1>1. Terms[r].interval \in Nat \ {0} /\ MaxAge \in Nat
    BY SettingsTyped
<1> DEFINE m == Terms[r].interval
<1>2. Fresh(r) = [enabled |-> TRUE, pending |-> FALSE, won |-> 0, due |-> 0, slot |-> m,
                  aired |-> Never, today |-> 0]
    BY DEF Fresh
<1> HIDE DEF m
<1>3. m \in Nat \ {0} /\ m \in 1..m
    BY <1>1 DEF m
<1>4. Fresh(r).slot = m /\ ~Fresh(r).pending /\ Fresh(r).due = 0
    BY <1>2
<1>5. Never \in Int /\ 0 \in 0..MaxAge /\ m \in Nat
    BY <1>1, <1>3 DEF Never
<1>6. Fresh(r) \in RuleType
    BY <1>2, <1>5 DEF RuleType
<1> QED BY <1>3, <1>4, <1>6 DEF RuleOK, m

LEMMA LesserType ==
    ASSUME NEW a \in Int, NEW b \in Int
    PROVE  /\ Lesser(a, b) \in {a, b} /\ Lesser(a, b) \in Int
           /\ Lesser(a, b) <= a /\ Lesser(a, b) <= b
           /\ a \in Nat /\ b \in Nat => Lesser(a, b) \in 0..b
BY DEF Lesser

(* Time goes by for a rule.                                                *)
LEMMA AgedKeeps ==
    ASSUME NEW r \in Rules, NEW x, RuleOK(r, x)
    PROVE  LET y == Aged(r, x)
           IN /\ RuleOK(r, y) /\ y.pending = x.pending /\ y.due >= x.due - 1
              /\ Terms[r].fixed => y.slot = IF x.slot = 1 THEN Terms[r].interval ELSE x.slot - 1
<1> DEFINE lowest == IF Terms[r].fixed THEN -Terms[r].hold - 1 ELSE -MaxWait
           m == Terms[r].interval
           due == IF x.due > lowest THEN x.due - 1 ELSE x.due
           won == IF x.pending THEN Lesser(x.won + 1, MaxAge) ELSE 0
           slot == IF ~Terms[r].fixed THEN x.slot ELSE IF x.slot = 1 THEN m ELSE x.slot - 1
           aired == IF x.aired = Never THEN x.aired ELSE Lesser(x.aired + 1, MaxAge)
<1>1. x \in RuleType /\ x.slot \in 1..m
    BY DEF RuleOK
<1>2. MaxAge \in Nat /\ m \in Nat \ {0}
    BY SettingsTyped
<1>3. x.due \in Int /\ x.won \in 0..MaxAge /\ x.slot \in Nat /\ x.aired \in Int
    BY <1>1 DEF RuleType
<1>4. due \in Int /\ due >= x.due - 1
    BY <1>3
<1>5. won \in 0..MaxAge /\ aired \in Int
    BY <1>2, <1>3 DEF Lesser
<1>6. slot \in 1..m /\ slot \in Nat
    BY <1>1, <1>2, <1>3
<1>7. Aged(r, x) = [x EXCEPT !.due = due, !.won = won, !.slot = slot, !.aired = aired]
    BY DEF Aged
<1> HIDE DEF due, won, aired
<1>8. slot = IF ~Terms[r].fixed THEN x.slot ELSE IF x.slot = 1 THEN m ELSE x.slot - 1
    OBVIOUS
<1> HIDE DEF slot, m
<1>9. /\ Aged(r, x) \in RuleType /\ Aged(r, x).slot = slot /\ Aged(r, x).pending = x.pending
      /\ Aged(r, x).due = due
    BY <1>1, <1>4, <1>5, <1>6, <1>7 DEF RuleType
<1> QED BY <1>1, <1>4, <1>6, <1>8, <1>9 DEF RuleOK, m

-----------------------------------------------------------------------------
(* Types.                                                                  *)

LEMMA AirTyped ==
    ASSUME TickOK, NEW w \in Waiters, AirOf(w) # None
    PROVE  /\ AirOf(w) \in AiringType
           /\ AirOf(w).rule \in Rules /\ AirOf(w).late \in 0..MaxWait /\ AirOf(w).late \in Int
           /\ AirOf(w).lost \in BOOLEAN
<1>1. tick.air = None \/ tick.air \in AiringType
    BY DEF TickOK, TickType
<1>2. airNow = None \/ airNow \in AiringType
    BY DEF TickOK, AirOK
<1>3. AirOf(w) \in AiringType
    BY <1>1, <1>2 DEF AirOf
<1> QED BY <1>3 DEF AiringType

LEMMA TickTyped ==
    ASSUME TickOK
    PROVE  /\ tick.late \in 0..MaxWait /\ tick.late \in Nat /\ tick.on \in BOOLEAN
           /\ tick.todo \in Seq(StepType)
           /\ tick.air = None \/ tick.air \in AiringType
           /\ DOMAIN tick.gone \subseteq Rules
           /\ \A r \in DOMAIN tick.gone : tick.gone[r] \in Int
           /\ tick = [on |-> tick.on, todo |-> tick.todo, air |-> tick.air, late |-> tick.late,
                      gone |-> tick.gone]
<1>1. tick \in TickType /\ MaxWait \in Nat
    BY SchedulerAssumption DEF TickOK
<1>2. PICK D \in SUBSET Rules : tick.gone \in [D -> Int]
    BY <1>1 DEF TickType
<1>3. /\ tick.late \in 0..MaxWait /\ tick.on \in BOOLEAN /\ tick.todo \in Seq(StepType)
      /\ tick.air = None \/ tick.air \in AiringType
    BY <1>1 DEF TickType
<1>4. tick = [on |-> tick.on, todo |-> tick.todo, air |-> tick.air, late |-> tick.late,
              gone |-> tick.gone]
    BY <1>1 DEF TickType
<1> QED BY <1>1, <1>2, <1>3, <1>4

LEMMA OneRuleChanges ==
    ASSUME RulesOK, NEW r \in Rules, NEW x, RuleOK(r, x), rule' = [rule EXCEPT ![r] = x]
    PROVE  RulesOK'
<1>1. x \in RuleType
    BY DEF RuleOK
<1>2. \A q \in Rules : rule'[q] = IF q = r THEN x ELSE rule[q]
    BY DEF RulesOK
<1>3. rule' \in [Rules -> RuleType]
    BY <1>1 DEF RulesOK
<1>4. \A q \in Rules : RuleOK(q, rule'[q])
    BY <1>2 DEF RulesOK
<1> QED BY <1>3, <1>4 DEF RulesOK, RuleOK

LEMMA AllRulesChange ==
    ASSUME rule' = [r \in Rules |-> rule'[r]], \A r \in Rules : RuleOK(r, rule'[r])
    PROVE  RulesOK'
BY DEF RulesOK, RuleOK

(* The books of an airing that went out.                                   *)
LEMMA BookedKeeps ==
    ASSUME RulesOK, TickOK, NEW w \in Waiters, AirOf(w) # None, Booked(AirOf(w))
    PROVE  /\ RulesOK'
           /\ LET r == AirOf(w).rule
              IN ~AirOf(w).lost => /\ ~rule'[r].pending
                                   /\ rule'[r].slot = rule[r].slot
                                   /\ rule'[r].due = Advance(r, rule[r],
                                                     Terms[r].planned - AirOf(w).late).due
<1> DEFINE a == AirOf(w)
           r == a.rule
           ends == Terms[r].planned - a.late
           y == Advance(r, rule[r], ends)
           today == Lesser(y.today + 1, Terms[r].cap)
           over == -ends
           x == [y EXCEPT !.aired = over, !.today = today]
<1>1. r \in Rules /\ a.late \in Int
    BY AirTyped
<1>2. ends \in Int /\ Terms[r].cap \in Nat
    BY <1>1, SettingsTyped
<1>3. RuleOK(r, rule[r])
    BY <1>1 DEF RulesOK
<1>4. a.lost \/ rule' = [rule EXCEPT ![r] = x]
    BY DEF Booked, Shown
<1>5. a.lost => rule' = rule
    BY DEF Booked
<1> HIDE DEF a, ends
<1>6. RuleOK(r, y) /\ ~y.pending /\ y.slot = rule[r].slot
    BY <1>1, <1>2, <1>3, AdvanceKeeps
<1> HIDE DEF y
<1>7. y \in RuleType /\ y.today \in Nat
    BY <1>6 DEF RuleOK, RuleType
<1>8. today \in Nat
    <2> DEFINE n == y.today + 1
               cap == Terms[r].cap
    <2>1. n \in Nat /\ cap \in Nat
        BY <1>2, <1>7
    <2> HIDE DEF n, cap
    <2>2. Lesser(n, cap) \in Nat
        BY <2>1, LesserType
    <2> QED BY <2>2 DEF n, cap
<1>13. over \in Int
    BY <1>2
<1> HIDE DEF today, over
<1>9. /\ x \in RuleType /\ x.slot = y.slot /\ x.pending = y.pending /\ x.due = y.due
    BY <1>7, <1>8, <1>13 DEF RuleType
<1>10. RuleOK(r, x)
    BY <1>6, <1>9 DEF RuleOK
<1> HIDE DEF x, r
<1>11. CASE a.lost
    BY <1>5, <1>11 DEF RulesOK, a
<1>12. CASE ~a.lost
    <2>1. rule' = [rule EXCEPT ![r] = x]
        BY <1>4, <1>12
    <2>2. RulesOK'
        BY <1>1, <1>10, <2>1, OneRuleChanges
    <2>3. rule'[r] = x
        BY <1>1, <2>1 DEF RulesOK
    <2> QED BY <1>6, <1>9, <2>2, <2>3 DEF a, r, y, ends
<1> QED BY <1>11, <1>12

LEMMA InterruptsKeep ==
    ASSUME RulesOK, ListOK, ScreenOK, NEW g \in Int, Interrupts(g)
    PROVE  /\ RulesOK'
           /\ \A r \in Rules : /\ rule'[r].pending = rule[r].pending
                               /\ rule'[r].due = rule[r].due /\ rule'[r].slot = rule[r].slot
<1> DEFINE r == activeAiring.rule
           x == [rule[r] EXCEPT !.aired = 0]
           cut == activeAiring # None /\ activeAiring.left > 0
<1>1. CASE rule' = rule
    BY <1>1 DEF RulesOK
<1>2. CASE rule' # rule
    <2>1. cut /\ r \in Listed /\ rule' = [rule EXCEPT ![r] = x]
        BY <1>2 DEF Interrupts
    <2>2. r \in Rules
        BY <2>1, ListedAreRules DEF ListOK
    <2>3. RuleOK(r, rule[r])
        BY <2>2 DEF RulesOK
    <2>4. /\ x \in RuleType /\ x.slot = rule[r].slot /\ x.pending = rule[r].pending
          /\ x.due = rule[r].due
        BY <2>3 DEF RuleOK, RuleType
    <2>5. RuleOK(r, x)
        BY <2>3, <2>4 DEF RuleOK
    <2> HIDE DEF x, r
    <2>6. RulesOK'
        BY <2>1, <2>2, <2>5, OneRuleChanges
    <2>7. \A q \in Rules : rule'[q] = IF q = r THEN x ELSE rule[q]
        BY <2>1, <2>2 DEF RulesOK
    <2> QED BY <2>4, <2>6, <2>7
<1> QED BY <1>1, <1>2

(* A tick lets the rules of A win and puts those of B off.                 *)
Turns(A, B, from) ==
    rule' = [r \in Rules |->
                IF r \in A THEN [rule[r] EXCEPT !.pending = TRUE, !.won = tick.late]
                ELSE IF r \in B THEN Advance(r, rule[r], from) ELSE rule[r]]

LEMMA TickTurns ==
    ASSUME RulesOK, TickOK, NEW A, NEW B, NEW from \in Int, Turns(A, B, from),
           \A r \in A : r \in Rules /\ ~Terms[r].fixed
    PROVE  RulesOK'
<1> SUFFICES ASSUME NEW r \in Rules PROVE RuleOK(r, rule'[r])
    <2>1. rule' = [r \in Rules |-> rule'[r]]
        BY Zenon DEF Turns
    <2> QED BY <2>1, AllRulesChange
<1>1. RuleOK(r, rule[r])
    BY DEF RulesOK
<1>2. CASE r \in A
    <2> DEFINE late == tick.late
               x == [rule[r] EXCEPT !.pending = TRUE, !.won = late]
    <2>1. rule'[r] = x
        BY <1>2, Zenon DEF Turns
    <2> HIDE DEF late
    <2>2. late \in 0..MaxAge
        <3>1. ~Terms[r].fixed
            BY <1>2
        <3>2. MaxWait < MaxAge /\ {MaxWait, MaxAge} \subseteq Nat
            BY <3>1, SettingsTyped
        <3>3. late \in 0..MaxWait
            BY TickTyped DEF late
        <3> QED BY <3>2, <3>3
    <2>3. x \in RuleType /\ x.slot = rule[r].slot
        BY <1>1, <2>2 DEF RuleOK, RuleType
    <2> QED BY <1>1, <1>2, <2>1, <2>3 DEF RuleOK
<1>3. CASE r \notin A /\ r \in B
    <2>1. rule'[r] = Advance(r, rule[r], from)
        BY <1>3, Zenon DEF Turns
    <2> QED BY <1>1, <2>1, AdvanceKeeps
<1>4. CASE r \notin A /\ r \notin B
    <2>1. rule'[r] = rule[r]
        BY <1>4, Zenon DEF Turns
    <2> QED BY <1>1, <2>1
<1> QED BY <1>2, <1>3, <1>4

LEMMA RulesKept ==
    ASSUME SchedulerInv, Next
    PROVE  RulesOK'
<1>0. RulesOK /\ ListOK /\ ScreenOK /\ TickOK /\ Listed \subseteq Rules
    BY ListedAreRules DEF SchedulerInv, ListOK
<1>1. CASE rule' = rule
    BY <1>0, <1>1 DEF RulesOK
<1>2. CASE TickBegins
    <2> DEFINE Turned(B) == rule' = [r \in Rules |-> IF r \in B
                                                     THEN Advance(r, rule[r], 0) ELSE rule[r]]
    <2>1. \E B : Turned(B)
        BY <1>2 DEF TickBegins
    <2>2. PICK B : Turned(B)
        BY <2>1
    <2> SUFFICES ASSUME NEW r \in Rules PROVE RuleOK(r, rule'[r])
        BY <2>2, AllRulesChange
    <2>3. RuleOK(r, rule[r]) /\ RuleOK(r, Advance(r, rule[r], 0))
        BY <1>0, AdvanceKeeps DEF RulesOK
    <2> QED BY <2>2, <2>3
<1>3. CASE Collects
    <2> DEFINE expired == {r \in OnCadence : Expired(r)}
               seen == {r \in OnCadence : Blocked(tick.late) => Board(r)}
               thrown == {r \in seen : Evaluated(r)}
               B == expired \cup thrown
    <2>1. PICK A \in SUBSET {r \in thrown : ~Barred(r)} : Turns(A, B, -tick.late)
        BY <1>3 DEF Collects, Turns
    <2>2. A \subseteq OnCadence
        BY <2>1
    <2> HIDE DEF B
    <2>4. \A r \in A : r \in Rules /\ ~Terms[r].fixed
        BY <1>0, <2>2 DEF OnCadence
    <2>5. -tick.late \in Int
        BY <1>0, TickTyped
    <2> QED BY <1>0, <2>1, <2>4, <2>5, TickTurns
<1>4. CASE \E w \in Waiters : AirFails(w)
    <2>1. PICK w \in Waiters : AirFails(w)
        BY <1>4
    <2> DEFINE a == AirOf(w)
               r == a.rule
               x == Advance(r, rule[r], -a.late)
    <2>2. a # None /\ (rule' = rule \/ rule' = [rule EXCEPT ![r] = x])
        BY <2>1 DEF AirFails, IsWaiting
    <2>3. r \in Rules /\ -a.late \in Int
        BY <1>0, <2>2, AirTyped
    <2>4. RuleOK(r, x)
        BY <1>0, <2>3, AdvanceKeeps DEF RulesOK
    <2> HIDE DEF x, r
    <2> QED BY <1>0, <1>1, <2>2, <2>3, <2>4, OneRuleChanges
<1>5. CASE \E w \in Waiters : AirAnswers(w) \/ AirCloses(w)
    <2>1. PICK w \in Waiters : AirOf(w) # None /\ Booked(AirOf(w))
        BY <1>5 DEF AirAnswers, AirCloses, IsWaiting
    <2> QED BY <1>0, <2>1, BookedKeeps
<1>6. CASE \E p : ManualPush(p)
    <2>1. Interrupts(GlobalGap) /\ GlobalGap \in Int
        BY <1>6, SchedulerAssumption DEF ManualPush
    <2> QED BY <1>0, <2>1, InterruptsKeep
<1>7. CASE Pause
    <2>1. Interrupts(gapLeft) /\ gapLeft \in Int
        BY <1>0, <1>7 DEF Pause, ScreenOK
    <2> QED BY <1>0, <2>1, InterruptsKeep
<1>8. CASE \E r \in Rules, enabled \in BOOLEAN : Edit(r, enabled)
    <2>1. PICK r \in Rules, enabled \in BOOLEAN : Edit(r, enabled)
        BY <1>8
    <2> DEFINE x == [rule[r] EXCEPT !.enabled = enabled]
    <2>2. rule' = [rule EXCEPT ![r] = x]
        BY <2>1 DEF Edit
    <2>3. RuleOK(r, rule[r])
        BY <1>0 DEF RulesOK
    <2>4. x \in RuleType /\ x.slot = rule[r].slot /\ x.pending = rule[r].pending
        BY <2>3 DEF RuleOK, RuleType
    <2>5. RuleOK(r, x)
        BY <2>3, <2>4 DEF RuleOK
    <2> HIDE DEF x
    <2> QED BY <1>0, <2>2, <2>5, OneRuleChanges
<1>9. CASE \E r \in Rules : Reset(r)
    <2>1. PICK r \in Rules : Reset(r)
        BY <1>9
    <2> DEFINE e == rule[r].enabled
               t == rule[r].slot
               x == [Fresh(r) EXCEPT !.enabled = e, !.slot = t]
    <2>2. rule' = [rule EXCEPT ![r] = x]
        BY <2>1 DEF Reset
    <2>3. RuleOK(r, rule[r]) /\ RuleOK(r, Fresh(r))
        BY <1>0, FreshIsOK DEF RulesOK
    <2>4. e \in BOOLEAN /\ t \in Nat /\ t \in 1..Terms[r].interval
        BY <2>3 DEF RuleOK, RuleType
    <2> HIDE DEF e, t
    <2>5. x \in RuleType /\ x.slot = t /\ x.pending = Fresh(r).pending
        BY <2>3, <2>4 DEF RuleOK, RuleType
    <2>6. RuleOK(r, x)
        BY <2>3, <2>4, <2>5 DEF RuleOK
    <2> HIDE DEF x
    <2> QED BY <1>0, <2>2, <2>6, OneRuleChanges
<1>10. CASE \E r \in Rules : \E slot \in Slots(r) : Add(r, slot)
    <2>0. PICK r \in Rules : \E slot \in Slots(r) : Add(r, slot)
        BY <1>10
    <2>1. PICK t \in Slots(r) : Add(r, t)
        BY <2>0
    <2> DEFINE x == [Fresh(r) EXCEPT !.slot = t]
    <2>2. rule' = [rule EXCEPT ![r] = x]
        BY <2>1 DEF Add
    <2>3. RuleOK(r, Fresh(r)) /\ Terms[r].interval \in Nat \ {0}
        BY FreshIsOK, SettingsTyped
    <2>4. t \in 1..Terms[r].interval /\ t \in Nat
        BY <2>3 DEF Slots
    <2>5. x \in RuleType /\ x.slot = t /\ x.pending = Fresh(r).pending
        BY <2>3, <2>4 DEF RuleOK, RuleType
    <2>6. RuleOK(r, x)
        BY <2>3, <2>4, <2>5 DEF RuleOK
    <2> HIDE DEF x
    <2> QED BY <1>0, <2>2, <2>6, OneRuleChanges
<1>11. CASE Midnight
    <2>1. rule' = [r \in Rules |-> [rule[r] EXCEPT !.today = 0]]
        BY <1>11 DEF Midnight
    <2> SUFFICES ASSUME NEW r \in Rules PROVE RuleOK(r, rule'[r])
        BY <2>1, AllRulesChange
    <2> DEFINE x == [rule[r] EXCEPT !.today = 0]
    <2>2. RuleOK(r, rule[r])
        BY <1>0 DEF RulesOK
    <2>3. x \in RuleType /\ x.slot = rule[r].slot /\ x.pending = rule[r].pending
        BY <2>2 DEF RuleOK, RuleType
    <2>4. rule'[r] = x
        BY <2>1
    <2> QED BY <2>2, <2>3, <2>4 DEF RuleOK
<1>12. CASE TimePasses
    <2>1. rule' = [r \in Rules |-> IF r \in Listed THEN Aged(r, rule[r]) ELSE Fresh(r)]
        BY <1>12 DEF TimePasses
    <2> SUFFICES ASSUME NEW r \in Rules PROVE RuleOK(r, rule'[r])
        BY <2>1, AllRulesChange
    <2>2. RuleOK(r, rule[r])
        BY <1>0 DEF RulesOK
    <2>3. RuleOK(r, Aged(r, rule[r])) /\ RuleOK(r, Fresh(r))
        BY <2>2, AgedKeeps, FreshIsOK
    <2> QED BY <2>1, <2>3
<1>13. \/ rule' = rule \/ TickBegins \/ Collects \/ Midnight \/ TimePasses \/ Pause
       \/ \E w \in Waiters : AirFails(w)
       \/ \E w \in Waiters : AirAnswers(w) \/ AirCloses(w)
       \/ \E p : ManualPush(p)
       \/ \E r \in Rules, enabled \in BOOLEAN : Edit(r, enabled)
       \/ \E r \in Rules : Reset(r)
       \/ \E r \in Rules : \E slot \in Slots(r) : Add(r, slot)
    <2>1. CASE TickRuns
        BY <2>1 DEF TickRuns, TickPaused, AirsFixed, AirsOnBoards, TickEnds
    <2>2. CASE AirRuns
        BY <2>2 DEF AirRuns, AirSends, AirCleansUp
    <2>3. CASE PeopleAct
        BY <2>3 DEF PeopleAct, PressAirNow, Remove, OthersShow, Resume
    <2>4. CASE \E e \in [quiet : BOOLEAN, inside : BOOLEAN] : EnvChanges(e)
        BY <2>4 DEF EnvChanges
    <2>5. CASE Restart
        BY <2>5 DEF Restart
    <2> QED BY <2>1, <2>2, <2>3, <2>4, <2>5 DEF Next
<1> QED BY <1>1, <1>2, <1>3, <1>4, <1>5, <1>6, <1>7, <1>8, <1>9, <1>10, <1>11, <1>12, <1>13

LEMMA ListKept ==
    ASSUME SchedulerInv, Next
    PROVE  ListOK'
<1>0. listed \in Seq(Rules) /\ Distinct(listed)
    BY DEF SchedulerInv, ListOK
<1>1. CASE listed' = listed
    BY <1>0, <1>1 DEF ListOK, Distinct
<1>2. CASE \E r \in Rules : \E slot \in Slots(r) : Add(r, slot)
    <2>1. PICK r \in Rules : r \notin Listed /\ listed' = Append(listed, r)
        BY <1>2 DEF Add
    <2> DEFINE n == Len(listed)
    <2>2. /\ n \in Nat /\ DOMAIN listed = 1..n /\ DOMAIN listed' = 1..(n + 1)
          /\ \A i \in 1..n : listed'[i] = listed[i] /\ listed[i] # r
          /\ listed'[n + 1] = r /\ listed' \in Seq(Rules)
        BY <1>0, <2>1 DEF Listed, Members
    <2> HIDE DEF n
    <2>3. ASSUME NEW i \in 1..(n + 1), NEW j \in 1..(n + 1), listed'[i] = listed'[j]
          PROVE  i = j
        <3>1. CASE i \in 1..n /\ j \in 1..n
            BY <1>0, <2>2, <2>3, <3>1 DEF Distinct
        <3>2. CASE i = n + 1 \/ j = n + 1
            <4>1. i \in 1..n \/ i = n + 1
                BY <2>2
            <4>2. j \in 1..n \/ j = n + 1
                BY <2>2
            <4> QED BY <2>2, <2>3, <3>2, <4>1, <4>2
        <3> QED BY <2>2, <3>1, <3>2
    <2> QED BY <2>2, <2>3 DEF ListOK, Distinct
<1>3. CASE \E r \in Rules : Remove(r)
    <2>1. PICK r \in Rules : listed' = Dismiss(listed, r)
        BY <1>3 DEF Remove
    <2>2. Dismiss(listed, r) \in Seq(Rules) /\ Distinct(Dismiss(listed, r))
        BY <1>0, DismissProperties
    <2> QED BY <2>1, <2>2 DEF ListOK, Distinct
<1>4. \/ listed' = listed
      \/ \E r \in Rules : Remove(r)
      \/ \E r \in Rules : \E slot \in Slots(r) : Add(r, slot)
    <2>1. CASE TickRuns
        BY <2>1 DEF TickRuns, TickBegins, TickPaused, AirsFixed, Collects, AirsOnBoards, TickEnds
    <2>2. CASE AirRuns
        BY <2>2 DEF AirRuns, AirSends, AirFails, AirAnswers, AirCleansUp, AirCloses
    <2>3. CASE PeopleAct
        BY <2>3 DEF PeopleAct, PressAirNow, Reset, Edit, ManualPush, OthersShow, Pause, Resume
    <2>4. CASE (\E e \in [quiet : BOOLEAN, inside : BOOLEAN] : EnvChanges(e)) \/ Midnight
               \/ Restart \/ TimePasses
        BY <2>4 DEF EnvChanges, Midnight, Restart, TimePasses
    <2> QED BY <2>1, <2>2, <2>3, <2>4 DEF Next
<1> QED BY <1>1, <1>2, <1>3, <1>4

AiringsType == [rule : Rules, left : Int]

LEMMA ScreenKept ==
    ASSUME SchedulerInv, Next
    PROVE  ScreenOK'
<1>0. /\ active \in BOOLEAN
      /\ env \in [quiet : BOOLEAN, inside : BOOLEAN]
      /\ gapLeft \in Int /\ bootLeft \in -MaxWait..GlobalGap
      /\ activeAiring = None \/ activeAiring \in AiringsType
      /\ page = None \/ page \in PageType
      /\ TickOK
    BY DEF SchedulerInv, ScreenOK, AiringsType
<1>1. MaxWait \in Nat /\ GlobalGap \in Nat /\ PageTimes \subseteq Nat \ {0}
    BY SchedulerAssumption
<1> SUFFICES /\ active' \in BOOLEAN
             /\ env' \in [quiet : BOOLEAN, inside : BOOLEAN]
             /\ gapLeft' \in Int /\ bootLeft' \in -MaxWait..GlobalGap
             /\ activeAiring' = None \/ activeAiring' \in AiringsType
             /\ page' = None \/ page' \in PageType
    BY DEF ScreenOK, AiringsType
<1>2. CASE UNCHANGED <<active, env, gapLeft, bootLeft, activeAiring, page>>
    BY <1>0, <1>2
<1>3. CASE \E w \in Waiters : AirSends(w)
    <2>1. PICK w \in Waiters : AirSends(w)
        BY <1>3
    <2> DEFINE r == AirOf(w).rule
               t == Terms[r].planned
    <2>2. r \in Rules
        BY <1>0, <2>1, AirTyped DEF AirSends, IsWaiting
    <2>3. t \in Nat
        BY <2>2, SettingsTyped
    <2>4. page' = page \/ page' = [by |-> "scheduler", left |-> t]
        BY <2>1 DEF AirSends
    <2>5. UNCHANGED <<active, env, gapLeft, bootLeft, activeAiring>>
        BY <2>1 DEF AirSends
    <2> HIDE DEF t
    <2> QED BY <1>0, <2>3, <2>4, <2>5 DEF PageType
<1>4. CASE \E w \in Waiters : AirAnswers(w) \/ AirCloses(w)
    <2>1. PICK w \in Waiters : AirOf(w) # None /\ Booked(AirOf(w))
        BY <1>4 DEF AirAnswers, AirCloses, IsWaiting
    <2> DEFINE a == AirOf(w)
               r == a.rule
               ends == Terms[r].planned - a.late
    <2>2. r \in Rules /\ a.late \in Int
        BY <1>0, <2>1, AirTyped
    <2>3. ends \in Int
        BY <2>2, SettingsTyped
    <2>4. \/ UNCHANGED <<gapLeft, activeAiring>>
          \/ gapLeft' = ends + GlobalGap /\ activeAiring' = [rule |-> r, left |-> ends]
        BY <2>1 DEF Booked
    <2>5. UNCHANGED <<active, env, bootLeft, page>>
        BY <1>4 DEF AirAnswers, AirCloses
    <2> HIDE DEF ends, r
    <2> QED BY <1>0, <1>1, <2>2, <2>3, <2>4, <2>5 DEF AiringsType
<1>5. CASE \E p \in Pages \cup {page} : ManualPush(p)
    <2>1. PICK p \in Pages \cup {page} : ManualPush(p)
        BY <1>5
    <2>2. p = None \/ p \in PageType
        BY <1>0, <1>1 DEF Pages, PageType
    <2> QED BY <1>0, <1>1, <2>1, <2>2 DEF ManualPush, Interrupts
<1>6. CASE \E p \in Pages \cup {None} : OthersShow(p)
    <2>1. PICK p \in Pages \cup {None} : OthersShow(p)
        BY <1>6
    <2>2. p = None \/ p \in PageType
        BY <1>1 DEF Pages, PageType
    <2> QED BY <1>0, <2>1, <2>2 DEF OthersShow
<1>7. CASE Pause
    <2>1. gapLeft' = GlobalGap \/ gapLeft' = gapLeft
        BY <1>7 DEF Pause, Interrupts
    <2>2. active' = FALSE /\ activeAiring' = None /\ env' = env /\ bootLeft' = bootLeft
          /\ page' = page
        BY <1>7 DEF Pause, Interrupts
    <2>3. gapLeft \in Int /\ GlobalGap \in Int
        BY <1>0, <1>1
    <2>4. gapLeft' \in Int /\ active' \in BOOLEAN
        BY <2>1, <2>2, <2>3
    <2> QED BY <1>0, <2>2, <2>4
<1>8. CASE Resume
    BY <1>0, <1>8 DEF Resume
<1>9. CASE \E e \in [quiet : BOOLEAN, inside : BOOLEAN] : EnvChanges(e)
    BY <1>0, <1>9 DEF EnvChanges
<1>10. CASE Restart
    <2>1. GlobalGap \in -MaxWait..GlobalGap /\ -MaxWait \in Int
        BY <1>1
    <2> QED BY <1>0, <1>10, <2>1 DEF Restart
<1>11. CASE TimePasses
    <2>1. gapLeft' \in Int /\ bootLeft' \in -MaxWait..GlobalGap
        BY <1>0, <1>1, <1>11 DEF TimePasses, Later
    <2> DEFINE left == AtLeast0(activeAiring.left - 1)
    <2>2. activeAiring' = IF activeAiring = None THEN None
                          ELSE [activeAiring EXCEPT !.left = left]
        BY <1>11 DEF TimePasses
    <2>3. activeAiring # None => left \in Int
        BY <1>0 DEF AiringsType, AtLeast0
    <2> HIDE DEF left
    <2>4. activeAiring' = None \/ activeAiring' \in AiringsType
        BY <1>0, <2>2, <2>3 DEF AiringsType
    <2> DEFINE down == page.left - 1
    <2>5. page' = IF page = None \/ page.left <= 1 THEN None ELSE [page EXCEPT !.left = down]
        BY <1>11 DEF TimePasses
    <2>6. page # None /\ ~(page.left <= 1) => down \in Nat
        BY <1>0 DEF PageType
    <2> HIDE DEF down
    <2>7. page' = None \/ page' \in PageType
        BY <1>0, <2>5, <2>6 DEF PageType
    <2>8. UNCHANGED <<active, env>>
        BY <1>11 DEF TimePasses
    <2> QED BY <1>0, <2>1, <2>4, <2>7, <2>8
<1>12. \/ UNCHANGED <<active, env, gapLeft, bootLeft, activeAiring, page>>
       \/ \E w \in Waiters : AirSends(w)
       \/ \E w \in Waiters : AirAnswers(w) \/ AirCloses(w)
       \/ \E p \in Pages \cup {page} : ManualPush(p)
       \/ \E p \in Pages \cup {None} : OthersShow(p)
       \/ \E e \in [quiet : BOOLEAN, inside : BOOLEAN] : EnvChanges(e)
       \/ Pause \/ Resume \/ Restart \/ TimePasses
    <2>1. CASE TickRuns
        BY <2>1 DEF TickRuns, TickBegins, TickPaused, AirsFixed, Collects, AirsOnBoards, TickEnds
    <2>2. CASE AirRuns
        BY <2>2 DEF AirRuns, AirFails, AirCleansUp
    <2>3. CASE PeopleAct
        BY <2>3 DEF PeopleAct, PressAirNow, Reset, Edit, Add, Remove
    <2>4. CASE Midnight
        BY <2>4 DEF Midnight
    <2> QED BY <2>1, <2>2, <2>3, <2>4 DEF Next
<1> QED BY <1>2, <1>3, <1>4, <1>5, <1>6, <1>7, <1>8, <1>9, <1>10, <1>11, <1>12

-----------------------------------------------------------------------------
(* What a tick has still to do.                                            *)

LEMMA Joined ==
    ASSUME NEW S, NEW a \in Seq(S), NEW b \in Seq(S)
    PROVE  /\ a \o b \in Seq(S) /\ Len(a) \in Nat /\ Len(b) \in Nat
           /\ DOMAIN (a \o b) = 1..(Len(a) + Len(b))
           /\ \A i \in 1..(Len(a) + Len(b)) :
                 (a \o b)[i] = IF i <= Len(a) THEN a[i] ELSE b[i - Len(a)]
OBVIOUS

LEMMA JoinedToOne ==
    ASSUME NEW S, NEW a \in Seq(S), NEW x \in S
    PROVE  a \o <<x>> = Append(a, x)
<1> DEFINE p == a \o <<x>>
           q == Append(a, x)
           n == Len(a)
<1>1. /\ n \in Nat /\ p \in Seq(S) /\ DOMAIN p = 1..(n + 1)
      /\ \A i \in 1..(n + 1) : p[i] = IF i <= n THEN a[i] ELSE x
    <2>1. <<x>> \in Seq(S) /\ Len(<<x>>) = 1 /\ <<x>>[1] = x
        OBVIOUS
    <2> QED BY <2>1, Joined
<1>2. /\ q \in Seq(S) /\ DOMAIN q = 1..(n + 1)
      /\ \A i \in 1..(n + 1) : q[i] = IF i <= n THEN a[i] ELSE x
    OBVIOUS
<1> HIDE DEF p, q, n
<1> QED BY <1>1, <1>2

LEMMA OnesJoined ==
    ASSUME NEW S, NEW x \in S, NEW y \in S
    PROVE  <<x>> \o <<y>> = <<x, y>>
<1> DEFINE s == Append(<<x>>, y)
<1>1. <<x>> \in Seq(S)
    OBVIOUS
<1>2. <<x>> \o <<y>> = s
    BY <1>1, JoinedToOne
<1>3. Len(s) = 2 /\ s[1] = x /\ s[2] = y /\ s \in Seq(S)
    OBVIOUS
<1> HIDE DEF s
<1>4. s = <<x, y>>
    BY <1>3
<1> QED BY <1>2, <1>4

LEMMA TwoAndOneJoined ==
    ASSUME NEW S, NEW x \in S, NEW y \in S, NEW z \in S
    PROVE  <<x, y>> \o <<z>> = <<x, y, z>>
<1> DEFINE s == Append(<<x, y>>, z)
<1>1. <<x, y>> \in Seq(S)
    OBVIOUS
<1>2. <<x, y>> \o <<z>> = s
    BY <1>1, JoinedToOne
<1>3. Len(s) = 3 /\ s[1] = x /\ s[2] = y /\ s[3] = z /\ s \in Seq(S)
    OBVIOUS
<1> HIDE DEF s
<1>4. s = <<x, y, z>>
    BY <1>3
<1> QED BY <1>2, <1>4

LEMMA NothingJoined ==
    ASSUME NEW S, NEW a \in Seq(S)
    PROVE  <<>> \o a = a /\ a \o <<>> = a
OBVIOUS

LEMMA TuplesAreSeqs ==
    ASSUME NEW S, NEW x \in S, NEW y \in S, NEW z \in S
    PROVE  /\ <<>> \in Seq(S) /\ <<x>> \in Seq(S) /\ <<y>> \in Seq(S) /\ <<z>> \in Seq(S)
           /\ <<x, y>> \in Seq(S) /\ <<x, z>> \in Seq(S) /\ <<y, z>> \in Seq(S)
           /\ <<x, y, z>> \in Seq(S)
OBVIOUS

(* A line of three parts, of one member or none.                           *)
Parted(q, x, y, z, a, b, c) ==
    /\ \A i \in DOMAIN q : \/ q[i] = x /\ a = <<x>> /\ i = 1
                           \/ q[i] = y /\ b = <<y>>
                           \/ q[i] = z /\ c = <<z>>
    /\ \A i, j \in DOMAIN q : i < j =>
          \/ q[i] = x /\ a = <<x>> /\ q[j] = y /\ b = <<y>>
          \/ q[i] = x /\ a = <<x>> /\ q[j] = z /\ c = <<z>>
          \/ q[i] = y /\ b = <<y>> /\ q[j] = z /\ c = <<z>>

LEMMA ThreeParts ==
    ASSUME NEW S, NEW x, NEW y, NEW z, x \in S, y \in S, z \in S, NEW a, NEW b, NEW c,
           a = <<>> \/ a = <<x>>, b = <<>> \/ b = <<y>>, c = <<>> \/ c = <<z>>
    PROVE  a \o b \o c \in Seq(S) /\ Parted(a \o b \o c, x, y, z, a, b, c)
<1> DEFINE p == a \o b \o c
<1> SUFFICES p \in Seq(S) /\ Parted(p, x, y, z, a, b, c)
    OBVIOUS
<1> USE DEF Parted
<1>0. /\ <<x, y>> \o <<z>> = <<x, y, z>> /\ <<x>> \o <<y>> = <<x, y>>
      /\ <<x>> \o <<z>> = <<x, z>> /\ <<y>> \o <<z>> = <<y, z>>
      /\ \A q \in Seq(S) : <<>> \o q = q /\ q \o <<>> = q
      /\ <<x, y>> \o <<>> = <<x, y>>
    BY OnesJoined, TwoAndOneJoined, NothingJoined, TuplesAreSeqs
<1>1. CASE a = <<x>> /\ b = <<y>> /\ c = <<z>>
    <2>1. p = <<x, y, z>>
        BY <1>0, <1>1, TuplesAreSeqs, Zenon
    <2>2. p \in Seq(S)
        BY <2>1, TuplesAreSeqs
    <2>4. DOMAIN p = 1..3
        BY <2>1
    <2>3. p[1] = x /\ p[2] = y /\ p[3] = z
        BY <2>1
    <2> HIDE DEF p
    <2> QED BY <1>1, <2>2, <2>4, <2>3
<1>2. CASE a = <<x>> /\ b = <<y>> /\ c = <<>>
    <2>1. p = <<x, y>>
        BY <1>0, <1>2, TuplesAreSeqs, Zenon
    <2>2. p \in Seq(S)
        BY <2>1, TuplesAreSeqs
    <2>4. DOMAIN p = 1..2
        BY <2>1
    <2>3. p[1] = x /\ p[2] = y
        BY <2>1
    <2> HIDE DEF p
    <2> QED BY <1>2, <2>2, <2>4, <2>3
<1>3. CASE a = <<x>> /\ b = <<>> /\ c = <<z>>
    <2>1. p = <<x, z>>
        BY <1>0, <1>3, TuplesAreSeqs, Zenon
    <2>2. p \in Seq(S)
        BY <2>1, TuplesAreSeqs
    <2>4. DOMAIN p = 1..2
        BY <2>1
    <2>3. p[1] = x /\ p[2] = z
        BY <2>1
    <2> HIDE DEF p
    <2> QED BY <1>3, <2>2, <2>4, <2>3
<1>4. CASE a = <<x>> /\ b = <<>> /\ c = <<>>
    <2>1. p = <<x>>
        BY <1>0, <1>4, TuplesAreSeqs, Zenon
    <2>2. p \in Seq(S)
        BY <2>1, TuplesAreSeqs
    <2>4. DOMAIN p = 1..1
        BY <2>1
    <2>3. p[1] = x
        BY <2>1
    <2> HIDE DEF p
    <2> QED BY <1>4, <2>2, <2>4, <2>3
<1>5. CASE a = <<>> /\ b = <<y>> /\ c = <<z>>
    <2>1. p = <<y, z>>
        BY <1>0, <1>5, TuplesAreSeqs, Zenon
    <2>2. p \in Seq(S)
        BY <2>1, TuplesAreSeqs
    <2>4. DOMAIN p = 1..2
        BY <2>1
    <2>3. p[1] = y /\ p[2] = z
        BY <2>1
    <2> HIDE DEF p
    <2> QED BY <1>5, <2>2, <2>4, <2>3
<1>6. CASE a = <<>> /\ b = <<y>> /\ c = <<>>
    <2>1. p = <<y>>
        BY <1>0, <1>6, TuplesAreSeqs, Zenon
    <2>2. p \in Seq(S)
        BY <2>1, TuplesAreSeqs
    <2>4. DOMAIN p = 1..1
        BY <2>1
    <2>3. p[1] = y
        BY <2>1
    <2> HIDE DEF p
    <2> QED BY <1>6, <2>2, <2>4, <2>3
<1>7. CASE a = <<>> /\ b = <<>> /\ c = <<z>>
    <2>1. p = <<z>>
        BY <1>0, <1>7, TuplesAreSeqs, Zenon
    <2>2. p \in Seq(S)
        BY <2>1, TuplesAreSeqs
    <2>4. DOMAIN p = 1..1
        BY <2>1
    <2>3. p[1] = z
        BY <2>1
    <2> HIDE DEF p
    <2> QED BY <1>7, <2>2, <2>4, <2>3
<1>8. CASE a = <<>> /\ b = <<>> /\ c = <<>>
    <2>1. p = <<>>
        BY <1>0, <1>8, TuplesAreSeqs, Zenon
    <2>2. p \in Seq(S)
        BY <2>1, TuplesAreSeqs
    <2>4. DOMAIN p = 1..0
        BY <2>1
    <2> HIDE DEF p
    <2> QED BY <1>8, <2>2, <2>4
<1> QED BY <1>1, <1>2, <1>3, <1>4, <1>5, <1>6, <1>7, <1>8

LEMMA StepsTyped ==
    /\ \A r \in Rules : /\ FixedStep(r) \in StepType /\ FixedStep(r).do = "fixed"
                         /\ FixedStep(r).rules = <<r>> /\ Members(FixedStep(r).rules) = {r}
    /\ CadenceStep \in StepType /\ CadenceStep.do = "cadence" /\ Members(CadenceStep.rules) = {}
    /\ \A q \in Seq(Rules) : BoardsStep(q) \in StepType
BY DEF FixedStep, CadenceStep, BoardsStep, StepType, Members

(* The plan with which a tick begins.                                      *)
LEMMA PlanBegins ==
    ASSUME NEW L, L \subseteq Rules, NEW t, t.air = None, t.late = 0, NEW a, NEW b, NEW c,
           a = <<>> \/ \E r \in L : Terms[r].fixed /\ ~Board(r) /\ a = <<FixedStep(r)>>,
           b = <<>> \/ \E r \in L : Terms[r].fixed /\ Board(r) /\ b = <<FixedStep(r)>>,
           c = <<>> \/ c = <<CadenceStep>>,
           t.todo = a \o b \o c
    PROVE  t.todo \in Seq(StepType) /\ PlanOK(t, L)
<1> DEFINE p == t.todo
           x == IF a = <<>> THEN CadenceStep ELSE a[1]
           y == IF b = <<>> THEN CadenceStep ELSE b[1]
<1>1. a # <<>> => a = <<x>> /\ \E r \in L : Terms[r].fixed /\ ~Board(r) /\ x = FixedStep(r)
    OBVIOUS
<1>2. b # <<>> => b = <<y>> /\ \E r \in L : Terms[r].fixed /\ Board(r) /\ y = FixedStep(r)
    OBVIOUS
<1>3. x \in StepType /\ y \in StepType /\ CadenceStep \in StepType
    BY <1>1, <1>2, StepsTyped
<1> HIDE DEF x, y
<1> DEFINE z == CadenceStep
<1> HIDE DEF z, p
<1>5. /\ p \in Seq(StepType)
      /\ \A i \in DOMAIN p : \/ p[i] = x /\ a = <<x>> /\ i = 1
                             \/ p[i] = y /\ b = <<y>>
                             \/ p[i] = z /\ c = <<z>>
      /\ \A i, j \in DOMAIN p : i < j =>
            \/ p[i] = x /\ a = <<x>> /\ p[j] = y /\ b = <<y>>
            \/ p[i] = x /\ a = <<x>> /\ p[j] = z /\ c = <<z>>
            \/ p[i] = y /\ b = <<y>> /\ p[j] = z /\ c = <<z>>
    <2>1. /\ x \in StepType /\ y \in StepType /\ z \in StepType
          /\ (a = <<>> \/ a = <<x>>) /\ (b = <<>> \/ b = <<y>>) /\ (c = <<>> \/ c = <<z>>)
        BY <1>1, <1>2, <1>3 DEF z
    <2>2. a \o b \o c \in Seq(StepType) /\ Parted(a \o b \o c, x, y, z, a, b, c)
        BY <2>1, ThreeParts, Zenon
    <2>3. p = a \o b \o c
        BY DEF p
    <2>4. p \in Seq(StepType) /\ Parted(p, x, y, z, a, b, c)
        BY <2>2, <2>3, Zenon
    <2> QED BY <2>4, Zenon DEF Parted
<1>6. a = <<x>> => /\ x.do = "fixed" /\ StepOK(x)
                   /\ \E r \in L : ~Board(r) /\ Members(x.rules) = {r}
    <2> SUFFICES ASSUME a = <<x>>
                 PROVE  /\ x.do = "fixed" /\ StepOK(x)
                        /\ \E r \in L : ~Board(r) /\ Members(x.rules) = {r}
        OBVIOUS
    <2>1. PICK r \in L : Terms[r].fixed /\ ~Board(r) /\ x = FixedStep(r)
        BY <1>1
    <2>2. /\ x \in StepType /\ x.do = "fixed" /\ x.rules = <<r>>
          /\ Members(x.rules) = {r} /\ r \in Rules
        BY <2>1, StepsTyped
    <2> QED BY <2>1, <2>2 DEF StepOK
<1>7. b = <<y>> => /\ y.do = "fixed" /\ StepOK(y)
                   /\ \E r \in L : Board(r) /\ Members(y.rules) = {r}
    <2> SUFFICES ASSUME b = <<y>>
                 PROVE  /\ y.do = "fixed" /\ StepOK(y)
                        /\ \E r \in L : Board(r) /\ Members(y.rules) = {r}
        OBVIOUS
    <2>1. PICK r \in L : Terms[r].fixed /\ Board(r) /\ y = FixedStep(r)
        BY <1>2
    <2>2. /\ y \in StepType /\ y.do = "fixed" /\ y.rules = <<r>>
          /\ Members(y.rules) = {r} /\ r \in Rules
        BY <2>1, StepsTyped
    <2> QED BY <2>1, <2>2 DEF StepOK
<1>8. z.do = "cadence" /\ StepOK(z) /\ Members(z.rules) = {}
    BY StepsTyped DEF z, CadenceStep, StepOK
<1>9. ASSUME NEW i \in DOMAIN p
      PROVE  /\ StepOK(p[i]) /\ Members(p[i].rules) \subseteq L
             /\ p[i].do = "fixed" /\ (\E r \in Members(p[i].rules) : ~Board(r)) => i = 1
    <2>1. CASE p[i] = x /\ a = <<x>> /\ i = 1
        BY <1>6, <2>1
    <2>2. CASE p[i] = y /\ b = <<y>>
        <3>1. PICK r \in L : Board(r) /\ Members(y.rules) = {r}
            BY <1>7, <2>2
        <3>2. StepOK(y)
            BY <1>7, <2>2
        <3> QED BY <2>2, <3>1, <3>2
    <2>3. CASE p[i] = z /\ c = <<z>>
        BY <1>8, <2>3
    <2> QED BY <1>5, <2>1, <2>2, <2>3
<1>10. \A i, j \in DOMAIN p : i < j => Members(p[i].rules) \cap Members(p[j].rules) = {}
    <2> SUFFICES ASSUME NEW i \in DOMAIN p, NEW j \in DOMAIN p, i < j
                 PROVE  Members(p[i].rules) \cap Members(p[j].rules) = {}
        OBVIOUS
    <2>1. CASE p[i] = x /\ a = <<x>> /\ p[j] = y /\ b = <<y>>
        BY <1>6, <1>7, <2>1
    <2>2. CASE p[j] = z /\ c = <<z>>
        BY <1>8, <2>2
    <2> QED BY <1>5, <2>1, <2>2
<1>11. \A i, j \in DOMAIN p : i # j => Members(p[i].rules) \cap Members(p[j].rules) = {}
    <2> SUFFICES ASSUME NEW i \in DOMAIN p, NEW j \in DOMAIN p, i # j
                 PROVE  Members(p[i].rules) \cap Members(p[j].rules) = {}
        OBVIOUS
    <2>1. i < j \/ j < i
        BY <1>5
    <2>2. Members(p[i].rules) \cap Members(p[j].rules)
              = Members(p[j].rules) \cap Members(p[i].rules)
        OBVIOUS
    <2> QED BY <1>10, <2>1, <2>2
<1> QED BY <1>5, <1>9, <1>11 DEF p, PlanOK, DisplayFirst

(* What is left of a plan after its first step, while the tick waits.      *)
LEMMA PlanGoesOn ==
    ASSUME NEW L, NEW t, NEW u, PlanOK(t, L), t.todo \in Seq(StepType), t.todo # <<>>,
           u.todo = Tail(t.todo), DOMAIN u.gone = DOMAIN t.gone
    PROVE  u.todo \in Seq(StepType) /\ PlanOK(u, L)
<1> DEFINE p == t.todo
           q == u.todo
<1>1. /\ q \in Seq(StepType)
      /\ \A i \in DOMAIN q : i \in Int /\ i + 1 \in DOMAIN p /\ i + 1 # 1 /\ q[i] = p[i + 1]
    OBVIOUS
<1>2. \A i \in DOMAIN p :
         /\ StepOK(p[i]) /\ Members(p[i].rules) \subseteq L \cup DOMAIN t.gone
         /\ \A j \in DOMAIN p : i # j => Members(p[i].rules) \cap Members(p[j].rules) = {}
         /\ i # 1 => ~(p[i].do = "fixed" /\ \E r \in Members(p[i].rules) : ~Board(r))
    BY DEF PlanOK, DisplayFirst
<1> HIDE DEF p, q
<1>3. ASSUME NEW i \in DOMAIN q
      PROVE  /\ StepOK(q[i]) /\ Members(q[i].rules) \subseteq L \cup DOMAIN u.gone
             /\ ~(q[i].do = "fixed" /\ \E r \in Members(q[i].rules) : ~Board(r))
    BY <1>1, <1>2
<1>4. ASSUME NEW i \in DOMAIN q, NEW j \in DOMAIN q, i # j
      PROVE  Members(q[i].rules) \cap Members(q[j].rules) = {}
    <2>1. i + 1 # j + 1
        BY <1>1, <1>4
    <2> QED BY <1>1, <1>2, <2>1
<1> QED BY <1>1, <1>3, <1>4 DEF q, PlanOK, DisplayFirst

(* A plan does not change while the tick waits.                            *)
LEMMA PlanStays ==
    ASSUME NEW L, NEW M, NEW t, NEW u, PlanOK(t, L), t.air # None, u.todo = t.todo,
           L \cup DOMAIN t.gone \subseteq M \cup DOMAIN u.gone
    PROVE  PlanOK(u, M)
<1> DEFINE p == t.todo
<1>1. /\ \A i \in DOMAIN p : StepOK(p[i])
      /\ \A i, j \in DOMAIN p : i # j => Members(p[i].rules) \cap Members(p[j].rules) = {}
      /\ \A i \in DOMAIN p : Members(p[i].rules) \subseteq L \cup DOMAIN t.gone
      /\ \A i \in DOMAIN p : ~(p[i].do = "fixed" /\ \E r \in Members(p[i].rules) : ~Board(r))
    BY DEF PlanOK, DisplayFirst
<1>2. u.todo = p
    OBVIOUS
<1> HIDE DEF p
<1>3. \A i \in DOMAIN p : Members(p[i].rules) \subseteq M \cup DOMAIN u.gone
    BY <1>1
<1> QED BY <1>1, <1>2, <1>3 DEF PlanOK, DisplayFirst

LEMMA IdleIsOK ==
    /\ \A L : PlanOK(Idle, L)
    /\ Idle \in TickType /\ ~Idle.on /\ Idle.todo = <<>> /\ Idle.air = None /\ Idle.late = 0
    /\ Idle.gone = <<>>
<1>1. Idle = [on |-> FALSE, todo |-> <<>>, air |-> None, late |-> 0, gone |-> <<>>]
    BY DEF Idle
<1>2. <<>> \in [{} -> Int] /\ {} \in SUBSET Rules
    OBVIOUS
<1>3. <<>> \in Seq(StepType) /\ 0 \in 0..MaxWait
    BY SchedulerAssumption
<1>4. <<>> \in UNION {[D -> Int] : D \in SUBSET Rules}
    BY <1>2
<1>5. Idle \in TickType
    BY <1>1, <1>3, <1>4 DEF TickType
<1>6. ~Idle.on /\ Idle.todo = <<>> /\ Idle.air = None /\ Idle.late = 0 /\ Idle.gone = <<>>
    BY <1>1
<1>7. \A L : PlanOK(Idle, L)
    BY <1>6 DEF PlanOK, DisplayFirst
<1> QED BY <1>5, <1>6, <1>7

Goners == UNION {[D -> Int] : D \in SUBSET Rules}

(* How a tick begins: rules that are due are put off, and at most one for  *)
(* the display and one for the boards are to air.                          *)
Begins(M, a, b, c) ==
    /\ rule' = [r \in Rules |-> IF r \in M THEN Advance(r, rule[r], 0) ELSE rule[r]]
    /\ \A r \in M : r \in Rules /\ rule[r].due <= 0
    /\ \/ a = <<>>
       \/ \E r \in Listed : /\ Terms[r].fixed /\ ~Board(r) /\ a = <<FixedStep(r)>>
                            /\ rule[r].due <= 0 /\ ~YieldsFixed(r)
    /\ \/ b = <<>>
       \/ \E r \in Listed : /\ Terms[r].fixed /\ Board(r) /\ b = <<FixedStep(r)>>
                            /\ rule[r].due <= 0
    /\ c = <<>> \/ c = <<CadenceStep>>
    /\ tick' = [Idle EXCEPT !.on = TRUE, !.todo = a \o b \o c]

LEMMA TickBeginsSo ==
    ASSUME SchedulerInv, TickBegins
    PROVE  /\ rung /\ rung' = FALSE
           /\ UNCHANGED <<listed, active, env, gapLeft, bootLeft, activeAiring, airNow, page>>
           /\ \E M, a, b, c : Begins(M, a, b, c)
<1>0. RulesOK /\ listed \in Seq(Rules)
    BY DEF SchedulerInv, ListOK
<1> DEFINE Wants(r) == /\ r \in Listed /\ rule[r].enabled /\ Terms[r].fixed
                       /\ env.quiet => Terms[r].exempt
                       /\ ~AtDailyCap(r)
                       /\ rule[r].due <= 0
           missed == {r \in Rules : Wants(r) /\ -rule[r].due > Terms[r].hold}
           due(e) == {r \in Rules : Wants(r)} \ (missed \cup e)
           shows(e) == {r \in due(e) : ~Board(r)}
           flips(e) == {r \in due(e) : Board(r)}
           display(e) == IF shows(e) = {} \/ YieldsFixed(First(shows(e))) THEN <<>>
                         ELSE <<FixedStep(First(shows(e)))>>
           boards(e) == IF flips(e) = {} THEN <<>> ELSE <<FixedStep(First(flips(e)))>>
           c == IF env.quiet THEN <<>> ELSE <<CadenceStep>>
           none == {r \in Rules : Wants(r) /\ FALSE \in Terms[r].dice}
           Starts(e) == /\ rule' = [r \in Rules |-> IF r \in missed \cup e
                                                    THEN Advance(r, rule[r], 0) ELSE rule[r]]
                        /\ tick' = [Idle EXCEPT !.on = TRUE,
                                                !.todo = display(e) \o boards(e) \o c]
<1>1. /\ \E e \in SUBSET none : Starts(e)
      /\ rung /\ rung' = FALSE
      /\ UNCHANGED <<listed, active, env, gapLeft, bootLeft, activeAiring, airNow, page>>
    BY Zenon DEF TickBegins
<1>2. PICK e \in SUBSET none : Starts(e)
    BY <1>1
<1>3. shows(e) # {} => First(shows(e)) \in shows(e)
    <2>1. shows(e) \in SUBSET Listed
        OBVIOUS
    <2> HIDE DEF shows
    <2> QED BY <1>0, <2>1, FirstIsDue
<1>4. flips(e) # {} => First(flips(e)) \in flips(e)
    <2>1. flips(e) \in SUBSET Listed
        OBVIOUS
    <2> HIDE DEF flips
    <2> QED BY <1>0, <2>1, FirstIsDue
<1> DEFINE a == display(e)
           b == boards(e)
           M == missed \cup e
<1>5. \/ a = <<>>
      \/ \E r \in Listed : /\ Terms[r].fixed /\ ~Board(r) /\ a = <<FixedStep(r)>>
                           /\ rule[r].due <= 0 /\ ~YieldsFixed(r)
    <2>1. \A r \in shows(e) : r \in Listed /\ Terms[r].fixed /\ ~Board(r) /\ rule[r].due <= 0
        OBVIOUS
    <2> HIDE DEF shows
    <2> QED BY <1>3, <2>1
<1>6. \/ b = <<>>
      \/ \E r \in Listed : /\ Terms[r].fixed /\ Board(r) /\ b = <<FixedStep(r)>>
                           /\ rule[r].due <= 0
    <2>1. \A r \in flips(e) : r \in Listed /\ Terms[r].fixed /\ Board(r) /\ rule[r].due <= 0
        OBVIOUS
    <2> HIDE DEF flips
    <2> QED BY <1>4, <2>1
<1>7. c = <<>> \/ c = <<CadenceStep>>
    OBVIOUS
<1>8. \A r \in M : r \in Rules /\ rule[r].due <= 0
    OBVIOUS
<1>9. /\ rule' = [r \in Rules |-> IF r \in M THEN Advance(r, rule[r], 0) ELSE rule[r]]
      /\ tick' = [Idle EXCEPT !.on = TRUE, !.todo = a \o b \o c]
    BY <1>2
<1> HIDE DEF a, b, c, M
<1>10. Begins(M, a, b, c)
    BY <1>5, <1>6, <1>7, <1>8, <1>9, Zenon DEF Begins
<1> QED BY <1>1, <1>10

LEMMA TickStarts ==
    ASSUME SchedulerInv, TickBegins
    PROVE  TickOK'
<1>0. Listed \subseteq Rules /\ AirOK(airNow)
    BY ListedAreRules DEF SchedulerInv, ListOK, TickOK
<1>1. rung' = FALSE /\ UNCHANGED <<listed, airNow>> /\ \E M, a, b, c : Begins(M, a, b, c)
    BY TickBeginsSo
<1>2. PICK M, a, b, c : Begins(M, a, b, c)
    BY <1>1
<1> DEFINE todo == a \o b \o c
<1>3. /\ a = <<>> \/ \E r \in Listed : Terms[r].fixed /\ ~Board(r) /\ a = <<FixedStep(r)>>
      /\ b = <<>> \/ \E r \in Listed : Terms[r].fixed /\ Board(r) /\ b = <<FixedStep(r)>>
      /\ c = <<>> \/ c = <<CadenceStep>>
      /\ tick' = [Idle EXCEPT !.on = TRUE, !.todo = todo]
    BY <1>2, Zenon DEF Begins
<1>4. tick'.todo = a \o b \o c /\ tick'.air = None /\ tick'.late = 0
    <2> HIDE DEF todo
    <2>1. tick'.todo = todo /\ tick'.air = None /\ tick'.late = 0
        BY <1>3, IdleIsOK DEF TickType
    <2> QED BY <2>1 DEF todo
<1>5. tick'.todo \in Seq(StepType) /\ PlanOK(tick', Listed)
    BY <1>0, <1>3, <1>4, PlanBegins
<1>6. tick' \in TickType /\ tick'.on
    <2>1. todo \in Seq(StepType)
        BY <1>4, <1>5
    <2> HIDE DEF todo
    <2>2. tick'.on /\ tick' \in TickType
        BY <1>3, <2>1, IdleIsOK DEF TickType
    <2> QED BY <2>2
<1>7. Listed' = Listed
    BY <1>1 DEF Listed
<1> QED BY <1>0, <1>1, <1>5, <1>6, <1>7 DEF TickOK

(* The tick asks a rule of the first step of its plan.                     *)
LEMMA HeadAsks ==
    ASSUME SchedulerInv, AirsFixed \/ AirsOnBoards
    PROVE  /\ tick.on /\ tick.air = None /\ tick.todo # <<>> /\ tick.todo \in Seq(StepType)
           /\ 1 \in DOMAIN tick.todo
           /\ \E r \in Rules : /\ Waits(r, Tail(tick.todo)) /\ r \in Members(tick.todo[1].rules)
                               /\ \/ Terms[r].fixed /\ tick.todo[1].do = "fixed"
                                  \/ ~Terms[r].fixed /\ Board(r)
           /\ UNCHANGED <<rung, listed, rule, active, env, gapLeft, bootLeft, activeAiring,
                          airNow, page>>
<1>0. TickOK /\ RulesOK /\ PlanOK(tick, Listed)
    BY DEF SchedulerInv, TickOK
<1>1. /\ tick.on /\ tick.air = None /\ tick.todo # <<>> /\ tick.todo \in Seq(StepType)
      /\ tick.late \in 0..MaxWait /\ tick.late \in Nat
      /\ UNCHANGED <<rung, listed, rule, active, env, gapLeft, bootLeft, activeAiring,
                     airNow, page>>
    BY <1>0, TickTyped DEF AirsFixed, AirsOnBoards, Step, Running
<1> DEFINE head == tick.todo[1]
<1>2. 1 \in DOMAIN tick.todo /\ head = Head(tick.todo) /\ StepOK(head)
    <2>1. 1 \in DOMAIN tick.todo /\ head = Head(tick.todo)
        BY <1>1
    <2> QED BY <1>0, <2>1 DEF PlanOK
<1>3. \E r \in Rules : /\ Waits(r, Tail(tick.todo)) /\ r \in Members(head.rules)
                       /\ \/ Terms[r].fixed /\ head.do = "fixed"
                          \/ ~Terms[r].fixed /\ Board(r)
    <2>1. CASE AirsFixed
        <3>1. head.do = "fixed" /\ Waits(head.rules[1], Tail(tick.todo))
            BY <1>2, <2>1 DEF AirsFixed, Step
        <3>2. PICK r \in Rules : Terms[r].fixed /\ head.rules = <<r>>
            BY <1>2, <3>1 DEF StepOK
        <3>3. head.rules[1] = r /\ r \in Members(head.rules)
            BY <3>2 DEF Members
        <3> QED BY <3>1, <3>2, <3>3
    <2>2. CASE AirsOnBoards
        <3>1. head.do = "boards" /\ Waits(Best(head.rules, AiredHeld), Tail(tick.todo))
            BY <1>2, <2>2 DEF AirsOnBoards, Step
        <3>2. /\ head.rules # <<>> /\ head.rules \in Seq(Rules)
              /\ \A r \in Members(head.rules) : Board(r) /\ ~Terms[r].fixed
            BY <1>2, <3>1 DEF StepOK, StepType
        <3>3. AiredHeld \in [Rules -> Int]
            <4>1. \A r \in DOMAIN tick.gone : tick.gone[r] \in Int
                BY <1>0, TickTyped
            <4>2. \A r \in Rules : rule[r].aired \in Int
                BY <1>0 DEF RulesOK, RuleType
            <4> QED BY <4>1, <4>2 DEF AiredHeld
        <3> DEFINE list == head.rules
        <3> HIDE DEF head
        <3>4. Best(list, AiredHeld) \in Members(list) /\ list \in Seq(Rules)
            <4> HIDE DEF list
            <4>1. list # <<>> /\ list \in Seq(Rules)
                BY <3>2 DEF list
            <4> QED BY <1>1, <3>3, <4>1, BestIsListed
        <3>5. Best(list, AiredHeld) \in Rules
            BY <3>4 DEF Members
        <3> QED BY <3>1, <3>2, <3>4, <3>5
    <2> QED BY <2>1, <2>2
<1> QED BY <1>1, <1>2, <1>3

LEMMA TickAirs ==
    ASSUME SchedulerInv, AirsFixed \/ AirsOnBoards
    PROVE  TickOK'
<1>0. /\ TickOK /\ RulesOK /\ PlanOK(tick, Listed) /\ AirOK(airNow) /\ rung \in BOOLEAN
      /\ (rung => ~tick.on) /\ tick \in TickType
    BY DEF SchedulerInv, TickOK
<1>1. /\ tick.on /\ tick.air = None /\ tick.todo # <<>> /\ tick.todo \in Seq(StepType)
      /\ tick.late \in 0..MaxWait
      /\ UNCHANGED <<listed, airNow, rung>>
    BY <1>0, HeadAsks, TickTyped
<1>4. PICK r \in Rules : Waits(r, Tail(tick.todo))
    BY HeadAsks
<1> DEFINE todo == Tail(tick.todo)
           lost == r \in DOMAIN tick.gone
           air == Asked(r, tick.late, lost)
<1>5. AirOK(air)
    BY <1>1 DEF AiringType, Asked, AirOK
<1>6. todo \in Seq(StepType)
    BY <1>1
<1>7. tick' = [tick EXCEPT !.todo = todo, !.air = air]
    BY <1>4 DEF Waits
<1> HIDE DEF todo, air
<1>8. tick' \in TickType /\ tick'.on /\ tick'.todo = todo /\ tick'.gone = tick.gone
    BY <1>0, <1>1, <1>5, <1>6, <1>7 DEF TickType, AirOK
<1>13. PlanOK(tick', Listed)
    <2>1. tick'.todo = Tail(tick.todo) /\ DOMAIN tick'.gone = DOMAIN tick.gone
        BY <1>8 DEF todo
    <2> QED BY <1>0, <1>1, <2>1, PlanGoesOn
<1>14. Listed' = Listed
    BY <1>1 DEF Listed
<1> QED BY <1>0, <1>1, <1>8, <1>13, <1>14 DEF TickOK

(* What the tick finds on the cadence: the rules of A win their dice, those*)
(* of B are put off; one of S is asked, and those of F are the boards'.    *)
Finds(A, B, S, F, plan) ==
    /\ Turns(A, B, -tick.late)
    /\ A \subseteq S \cup F
    /\ \A r \in S \cup F : r \in Listed /\ ~Terms[r].fixed
    /\ \A r \in A \cup B \cup S \cup F : rule[r].pending \/ rule[r].due + tick.late <= 0
    /\ \A r \in S : ~Board(r) /\ ~Blocked(tick.late)
    /\ \A r \in F : Board(r)
    /\ plan = IF F = {} THEN <<>> ELSE <<BoardsStep(Among(F))>>
    /\ Reads(plan) \/ \E r \in S : ReadsAndWaits(r, plan)

LEMMA CollectsFinds ==
    ASSUME SchedulerInv, Collects
    PROVE  /\ tick.on /\ tick.air = None
           /\ UNCHANGED <<rung, listed, active, env, gapLeft, bootLeft, activeAiring, airNow, page>>
           /\ \E A, B, S, F, plan : Finds(A, B, S, F, plan)
<1>0. /\ TickOK /\ RulesOK /\ listed \in Seq(Rules) /\ Listed \subseteq Rules
    BY ListedAreRules DEF SchedulerInv, ListOK
<1>1. /\ tick.on /\ tick.air = None /\ tick.late \in Nat
      /\ UNCHANGED <<rung, listed, active, env, gapLeft, bootLeft, activeAiring, airNow, page>>
    BY <1>0, TickTyped, Zenon DEF Collects, Step, Running
<1> DEFINE seen == {r \in OnCadence : Blocked(tick.late) => Board(r)}
           expired == {r \in OnCadence : Expired(r)}
           thrown == {r \in seen : Evaluated(r)}
           B == expired \cup thrown
           candidates(lucky) == lucky \cup {r \in seen : rule[r].pending /\ ~Expired(r)}
           shows(lucky) == {r \in candidates(lucky) : ~Board(r)}
           flips(lucky) == {r \in candidates(lucky) : Board(r)}
           todo(lucky) == IF flips(lucky) = {} THEN <<>> ELSE <<BoardsStep(Among(flips(lucky)))>>
           Found(A) == /\ Turns(A, B, -tick.late)
                       /\ \/ Reads(todo(A))
                          \/ /\ shows(A) # {}
                             /\ ReadsAndWaits(Best(Among(shows(A)), AiredNow), todo(A))
<1>2. \E A \in SUBSET {r \in thrown : ~Barred(r)} : Found(A)
    BY DEF Collects, Turns
<1>3. PICK A \in SUBSET {r \in thrown : ~Barred(r)} : Found(A)
    BY <1>2
<1> DEFINE S == shows(A)
           F == flips(A)
           plan == todo(A)
<1>4. A \subseteq S \cup F /\ S \cup F \subseteq seen /\ B \subseteq OnCadence
    OBVIOUS
<1>5. \A r \in OnCadence : r \in Listed /\ ~Terms[r].fixed
    BY DEF OnCadence
<1>6. \A r \in A \cup B \cup S \cup F : rule[r].pending \/ rule[r].due + tick.late <= 0
    BY DEF Evaluated, Expired
<1>7. /\ \A r \in S : ~Board(r) /\ ~Blocked(tick.late)
      /\ \A r \in F : Board(r)
    OBVIOUS
<1>8. plan = IF F = {} THEN <<>> ELSE <<BoardsStep(Among(F))>>
    OBVIOUS
<1>9. /\ Turns(A, B, -tick.late)
      /\ Reads(plan) \/ (S # {} /\ ReadsAndWaits(Best(Among(S), AiredNow), plan))
    BY <1>3
<1>10. \A r \in S \cup F : r \in Listed /\ ~Terms[r].fixed
    BY <1>4, <1>5
<1> HIDE DEF S, F, plan, B
<1>11. Reads(plan) \/ \E r \in S : ReadsAndWaits(r, plan)
    <2>1. CASE Reads(plan)
        BY <2>1
    <2>2. CASE S # {} /\ ReadsAndWaits(Best(Among(S), AiredNow), plan)
        <3> DEFINE list == Among(S)
        <3>1. list \in Seq(Rules) /\ Members(list) = Listed \cap S
            BY <1>0, AmongIsThose
        <3> HIDE DEF list
        <3>2. list # <<>>
            <4>1. Members(list) # {}
                BY <1>10, <2>2, <3>1
            <4> QED BY <4>1 DEF Members
        <3>3. AiredNow \in [Rules -> Int]
            <4>1. \A q \in Rules : rule[q].aired \in Int
                <5>1. \A q \in Rules : rule[q] \in RuleType
                    BY <1>0 DEF RulesOK
                <5> QED BY <5>1 DEF RuleType
            <4> QED BY <4>1 DEF AiredNow
        <3>4. Best(list, AiredNow) \in Members(list)
            BY <1>1, <3>1, <3>2, <3>3, BestIsListed
        <3> QED BY <2>2, <3>1, <3>4 DEF list
    <2> QED BY <1>9, <2>1, <2>2
<1>12. Finds(A, B, S, F, plan)
    BY <1>4, <1>6, <1>7, <1>8, <1>9, <1>10, <1>11 DEF Finds
<1> QED BY <1>1, <1>12

LEMMA TickCollects ==
    ASSUME SchedulerInv, Collects
    PROVE  TickOK'
<1>0. /\ TickOK /\ AirOK(airNow) /\ rung \in BOOLEAN /\ (rung => ~tick.on)
      /\ listed \in Seq(Rules) /\ Listed \subseteq Rules /\ tick \in TickType
      /\ tick.late \in 0..MaxWait
    BY ListedAreRules, TickTyped DEF SchedulerInv, ListOK, TickOK
<1>1. /\ tick.on /\ UNCHANGED <<listed, airNow, rung>>
      /\ \E A, B, S, F, plan : Finds(A, B, S, F, plan)
    BY CollectsFinds
<1>2. PICK A, B, S, F, plan : Finds(A, B, S, F, plan)
    BY <1>1
<1>4. /\ \A r \in S : r \in Listed
      /\ \A r \in F : r \in Listed /\ ~Terms[r].fixed /\ Board(r)
    BY <1>2, Zenon DEF Finds
<1>5. plan = IF F = {} THEN <<>> ELSE <<BoardsStep(Among(F))>>
    BY <1>2, Zenon DEF Finds
<1>6. Reads(plan) \/ \E r \in S : ReadsAndWaits(r, plan)
    BY <1>2, Zenon DEF Finds
<1>7. \/ tick' = [tick EXCEPT !.todo = plan, !.gone = <<>>]
      \/ \E air : AirOK(air) /\ tick' = [tick EXCEPT !.todo = plan, !.gone = <<>>, !.air = air]
    <2>1. CASE Reads(plan)
        BY <2>1 DEF Reads
    <2>2. CASE \E r \in S : ReadsAndWaits(r, plan)
        <3>1. PICK r \in S : ReadsAndWaits(r, plan)
            BY <2>2
        <3>2. tick' = [tick EXCEPT !.todo = plan, !.gone = <<>>,
                                   !.air = Asked(r, tick.late, FALSE)]
            BY <3>1 DEF ReadsAndWaits
        <3>3. r \in Rules
            BY <1>0, <1>4
        <3>4. Asked(r, tick.late, FALSE) \in AiringType
            BY <1>0, <3>3 DEF Asked, AiringType
        <3> QED BY <3>2, <3>4 DEF AirOK
    <2> QED BY <1>6, <2>1, <2>2
<1> DEFINE boards == BoardsStep(Among(F))
<1>9. F # {} => boards.do = "boards" /\ StepOK(boards) /\ Members(boards.rules) \subseteq Listed
    <2> SUFFICES ASSUME F # {}
                 PROVE  boards.do = "boards" /\ StepOK(boards) /\ Members(boards.rules) \subseteq Listed
        OBVIOUS
    <2> DEFINE list == Among(F)
    <2>1. list \in Seq(Rules) /\ Members(list) = Listed \cap F
        BY <1>0, AmongIsThose
    <2>2. boards.rules = list /\ boards.do = "boards"
        BY DEF BoardsStep
    <2>3. boards \in StepType
        BY <2>1, StepsTyped
    <2> HIDE DEF list, boards
    <2>4. list # <<>>
        <3>1. Members(list) # {}
            BY <1>4, <2>1
        <3> QED BY <3>1 DEF Members
    <2>5. \A r \in Members(list) : Board(r) /\ ~Terms[r].fixed
        BY <1>4, <2>1
    <2> QED BY <2>1, <2>2, <2>3, <2>4, <2>5 DEF StepOK
<1>10. plan = <<>> \/ (F # {} /\ plan = <<boards>>)
    BY <1>5
<1> HIDE DEF boards
<1>11. plan \in Seq(StepType)
    <2>1. CASE plan = <<>>
        BY <2>1
    <2>2. CASE F # {} /\ plan = <<boards>>
        <3>1. boards \in StepType
            BY <1>9, <2>2 DEF StepOK
        <3> QED BY <2>2, <3>1
    <2> QED BY <1>10, <2>1, <2>2
<1>15. tick' \in TickType /\ tick'.on /\ tick'.todo = plan /\ tick'.gone = <<>>
    <2>1. <<>> \in [{} -> Int] /\ {} \in SUBSET Rules
        OBVIOUS
    <2>2. <<>> \in Goners
        BY <2>1 DEF Goners
    <2>3. CASE tick' = [tick EXCEPT !.todo = plan, !.gone = <<>>]
        BY <1>0, <1>1, <1>11, <2>2, <2>3 DEF TickType, Goners
    <2>4. CASE \E air : AirOK(air)
                        /\ tick' = [tick EXCEPT !.todo = plan, !.gone = <<>>, !.air = air]
        <3>1. PICK air : AirOK(air)
                         /\ tick' = [tick EXCEPT !.todo = plan, !.gone = <<>>, !.air = air]
            BY <2>4
        <3> QED BY <1>0, <1>1, <1>11, <2>2, <3>1 DEF TickType, Goners, AirOK
    <2> QED BY <1>7, <2>3, <2>4
<1>16. PlanOK(tick', Listed)
    <2>1. \A i \in DOMAIN plan : i = 1 /\ F # {} /\ plan[i] = boards
        BY <1>10
    <2> QED BY <1>9, <1>15, <2>1 DEF PlanOK, DisplayFirst
<1>17. Listed' = Listed
    BY <1>1 DEF Listed
<1> QED BY <1>0, <1>1, <1>15, <1>16, <1>17 DEF TickOK

(* What is waited for by a tick keeps the tick going.                      *)
LEMMA TickIsOn ==
    ASSUME TickOK
    PROVE  tick.air # None => tick.on
BY IdleIsOK DEF TickOK

LEMMA TickWaits ==
    ASSUME SchedulerInv, AirRuns
    PROVE  TickOK'
<1>0. /\ TickOK /\ AirOK(airNow) /\ rung \in BOOLEAN /\ (rung => ~tick.on)
      /\ (~tick.on => tick = Idle) /\ PlanOK(tick, Listed) /\ tick \in TickType
    BY DEF SchedulerInv, TickOK
<1>1. PICK w \in Waiters : AirSends(w) \/ AirFails(w) \/ AirAnswers(w) \/ AirCleansUp(w)
                           \/ AirCloses(w)
    BY DEF AirRuns
<1>2. AirOf(w) # None /\ UNCHANGED <<rung, listed>>
    BY <1>1 DEF AirSends, AirFails, AirAnswers, AirCleansUp, AirCloses, IsWaiting
<1>3. AirOf(w) \in AiringType
    BY <1>0, <1>2, AirTyped
<1>4. Answered(w) \/ \E a \in AiringType : Becomes(w, a)
    <2> DEFINE a == AirOf(w)
    <2>1. [a EXCEPT !.stage = "sent"] \in AiringType /\ [a EXCEPT !.stage = "closing"] \in AiringType
        <3> HIDE DEF a
        <3>1. a \in AiringType
            BY <1>3 DEF a
        <3> QED BY <3>1 DEF AiringType
    <2> QED BY <1>1, <2>1, Zenon DEF AirSends, AirFails, AirAnswers, AirCleansUp, AirCloses
<1>5. Listed' = Listed
    BY <1>2 DEF Listed
<1>6. CASE w = "tick"
    <2>1. tick.air # None /\ tick.air \in AiringType /\ tick.on
        BY <1>0, <1>2, <1>3, <1>6, TickIsOn DEF AirOf
    <2>2. /\ tick' \in TickType /\ tick'.on /\ tick'.todo = tick.todo /\ tick'.gone = tick.gone
          /\ airNow' = airNow
        <3>1. CASE Answered(w)
            <4> DEFINE late == tick.air.late
            <4>1. late \in 0..MaxWait
                BY <2>1 DEF AiringType
            <4>2. tick' = [tick EXCEPT !.air = None, !.late = late] /\ airNow' = airNow
                BY <1>6, <3>1 DEF Answered
            <4> HIDE DEF late
            <4> QED BY <1>0, <2>1, <4>1, <4>2 DEF TickType
        <3>2. CASE \E a \in AiringType : Becomes(w, a)
            <4>1. PICK a \in AiringType : tick' = [tick EXCEPT !.air = a] /\ airNow' = airNow
                BY <1>6, <3>2 DEF Becomes
            <4> QED BY <1>0, <2>1, <4>1 DEF TickType
        <3> QED BY <1>4, <3>1, <3>2
    <2>3. PlanOK(tick', Listed)
        BY <1>0, <2>1, <2>2, PlanStays
    <2> QED BY <1>0, <1>2, <1>5, <2>1, <2>2, <2>3 DEF TickOK
<1>7. CASE w # "tick"
    <2>1. tick' = tick /\ (airNow' = None \/ airNow' \in AiringType)
        BY <1>4, <1>7 DEF Answered, Becomes
    <2> QED BY <1>0, <1>2, <1>5, <2>1 DEF TickOK, AirOK
<1> QED BY <1>6, <1>7

(* The store has another object in the place of a rule.                    *)
LEMMA ReplacedKeeps ==
    ASSUME TickOK, RulesOK, ~Running, NEW r \in Rules, Replaced(r), rung' = rung,
           Listed \ {r} \subseteq Listed'
    PROVE  TickOK'
<1>0. /\ TickOK /\ AirOK(airNow) /\ rung \in BOOLEAN /\ (rung => ~tick.on)
      /\ (~tick.on => tick = Idle) /\ PlanOK(tick, Listed) /\ tick \in TickType
    BY DEF TickOK
<1> DEFINE Lost(a) == IF a # None /\ a.rule = r THEN [a EXCEPT !.lost = TRUE] ELSE a
<1>1. ASSUME NEW a, AirOK(a) PROVE AirOK(Lost(a))
    <2>1. CASE a # None /\ a.rule = r
        <3>1. a \in AiringType
            BY <1>1, <2>1 DEF AirOK
        <3>2. [a EXCEPT !.lost = TRUE] \in AiringType
            BY <3>1 DEF AiringType
        <3> QED BY <2>1, <3>2 DEF AirOK
    <2>2. CASE ~(a # None /\ a.rule = r)
        BY <1>1, <2>2
    <2> QED BY <2>1, <2>2
<1>2. airNow' = Lost(airNow)
    BY DEF Replaced
<1>3. AirOK(airNow')
    BY <1>0, <1>1, <1>2
<1>4. CASE ~tick.on
    <2>1. tick' = tick /\ tick = Idle
        BY <1>0, <1>4 DEF Replaced
    <2> QED BY <1>0, <1>3, <2>1, IdleIsOK DEF TickOK
<1>5. CASE tick.on
    <2> DEFINE air == Lost(tick.air)
               D == DOMAIN tick.gone \cup {r}
               gone == [q \in D |-> AiredHeld[q]]
    <2>1. tick' = [tick EXCEPT !.air = air, !.gone = gone]
        BY <1>5 DEF Replaced
    <2>2. tick.air # None
        BY <1>5 DEF Running
    <2>3. AirOK(air)
        BY <1>0, <1>1 DEF TickType, AirOK
    <2>4. DOMAIN tick.gone \subseteq Rules /\ \A q \in DOMAIN tick.gone : tick.gone[q] \in Int
        BY <1>0, TickTyped
    <2>5. \A q \in Rules : rule[q].aired \in Int
        <3>1. \A q \in Rules : rule[q] \in RuleType
            BY DEF RulesOK
        <3> QED BY <3>1 DEF RuleType
    <2>6. AiredHeld \in [Rules -> Int]
        BY <2>4, <2>5 DEF AiredHeld
    <2>7. D \in SUBSET Rules /\ gone \in [D -> Int] /\ DOMAIN gone = D
        BY <2>4, <2>6
    <2>8. gone \in UNION {[E -> Int] : E \in SUBSET Rules}
        <3> HIDE DEF gone, D
        <3> QED BY <2>7
    <2> HIDE DEF air, gone
    <2>9. /\ tick' \in TickType /\ tick'.on /\ tick'.todo = tick.todo /\ tick'.gone = gone
        BY <1>0, <1>5, <2>1, <2>3, <2>8 DEF TickType, AirOK
    <2>10. Listed \cup DOMAIN tick.gone \subseteq Listed' \cup DOMAIN tick'.gone
        BY <2>7, <2>9
    <2>11. PlanOK(tick', Listed')
        BY <1>0, <2>2, <2>9, <2>10, PlanStays
    <2> QED BY <1>0, <1>3, <1>5, <2>9, <2>11 DEF TickOK
<1> QED BY <1>4, <1>5

LEMMA TickAges ==
    ASSUME SchedulerInv, TimePasses
    PROVE  TickOK'
<1>0. /\ TickOK /\ AirOK(airNow) /\ (~tick.on => tick = Idle) /\ PlanOK(tick, Listed)
      /\ tick \in TickType /\ tick.on \in BOOLEAN
    BY TickTyped DEF SchedulerInv, TickOK
<1>1. ASSUME NEW a, AirOK(a), a # None => a.late < MaxWait PROVE AirOK(Waited(a))
    <2>1. CASE a = None
        BY <2>1 DEF AirOK, Waited
    <2>2. CASE a # None
        <3> DEFINE late == a.late + 1
        <3>1. a \in AiringType /\ a.late < MaxWait /\ MaxWait \in Nat
            BY <1>1, <2>2, SchedulerAssumption DEF AirOK
        <3>2. a.late \in Nat
            BY <3>1 DEF AiringType
        <3>3. late \in 0..MaxWait
            BY <3>1, <3>2
        <3>4. Waited(a) = [a EXCEPT !.late = late]
            BY <2>2 DEF Waited
        <3> HIDE DEF late
        <3> QED BY <3>1, <3>3, <3>4 DEF AirOK, AiringType
    <2> QED BY <2>1, <2>2
<1>2. /\ tick.air # None => tick.air.late < MaxWait
      /\ airNow # None => airNow.late < MaxWait
    BY DEF TimePasses, AirOf, Waiters
<1>3. AirOK(airNow') /\ AirOK(Waited(tick.air))
    <2>1. airNow' = Waited(airNow) /\ AirOK(tick.air)
        BY <1>0 DEF TimePasses, TickType, AirOK
    <2> QED BY <1>0, <1>1, <1>2, <2>1
<1> DEFINE air == Waited(tick.air)
           D == DOMAIN tick.gone
           gone == [r \in D |-> IF tick.gone[r] = Never THEN Never
                                ELSE Lesser(tick.gone[r] + 1, MaxAge)]
<1>4. tick' = [tick EXCEPT !.air = air, !.gone = gone]
    BY DEF TimePasses
<1>5. gone \in [D -> Int] /\ D \in SUBSET Rules /\ DOMAIN gone = D
    <2>1. \A r \in D : tick.gone[r] \in Int /\ D \subseteq Rules
        BY <1>0, TickTyped
    <2>2. D \subseteq Rules
        BY <1>0, TickTyped
    <2>3. MaxAge \in Nat /\ Never \in Int
        BY SchedulerAssumption DEF Never
    <2>4. \A r \in D : gone[r] \in Int
        <3> SUFFICES ASSUME NEW r \in D PROVE gone[r] \in Int
            OBVIOUS
        <3> DEFINE n == tick.gone[r]
        <3>1. n \in Int /\ gone[r] = IF n = Never THEN Never ELSE Lesser(n + 1, MaxAge)
            BY <2>1
        <3> HIDE DEF n, gone
        <3> QED BY <2>3, <3>1, LesserType
    <2> QED BY <2>2, <2>4
<1>6. gone \in UNION {[E -> Int] : E \in SUBSET Rules}
    <2> HIDE DEF gone, D
    <2> QED BY <1>5
<1>7. AirOK(air)
    BY <1>3
<1>8. tick.air = None => air = None
    BY DEF Waited
<1> HIDE DEF air, gone
<1>9. /\ tick' \in TickType /\ tick'.on = tick.on /\ tick'.todo = tick.todo
      /\ tick'.gone = gone /\ tick'.air = air
    BY <1>0, <1>4, <1>6, <1>7 DEF TickType, AirOK
<1>10. rung' = ~tick.on /\ listed' = listed /\ ~Running
    BY DEF TimePasses
<1>11. Listed' = Listed
    BY <1>10 DEF Listed
<1>12. rung' \in BOOLEAN /\ (rung' => ~tick'.on)
    BY <1>0, <1>9, <1>10, Zenon
<1>13. CASE tick.on
    <2>1. tick.air # None
        BY <1>10, <1>13 DEF Running
    <2>2. PlanOK(tick', Listed)
        BY <1>0, <1>5, <1>9, <2>1, PlanStays
    <2> QED BY <1>3, <1>9, <1>11, <1>12, <1>13, <2>2 DEF TickOK
<1>14. CASE ~tick.on
    <2>1. tick = Idle /\ gone = <<>> /\ air = None
        <3>1. tick = Idle /\ D = {}
            BY <1>0, <1>14, IdleIsOK
        <3>2. gone = <<>>
            BY <3>1 DEF gone
        <3> QED BY <1>8, <3>1, <3>2, IdleIsOK
    <2>2. tick' = Idle
        <3>1. air = tick.air /\ gone = tick.gone
            BY <2>1, IdleIsOK
        <3>2. tick' = tick
            BY <1>0, <1>4, <3>1 DEF TickType
        <3> QED BY <2>1, <3>2
    <2> QED BY <1>3, <1>9, <1>11, <1>12, <2>2, IdleIsOK DEF TickOK
<1> QED BY <1>13, <1>14

LEMMA TickKept ==
    ASSUME SchedulerInv, Next
    PROVE  TickOK'
<1>0. /\ TickOK /\ RulesOK /\ AirOK(airNow) /\ rung \in BOOLEAN /\ (rung => ~tick.on)
      /\ (~tick.on => tick = Idle) /\ PlanOK(tick, Listed) /\ tick \in TickType
    BY DEF SchedulerInv, TickOK
<1>1. CASE UNCHANGED <<rung, listed, tick, airNow>>
    <2>1. Listed' = Listed
        BY <1>1 DEF Listed
    <2> QED BY <1>0, <1>1, <2>1 DEF TickOK
<1>2. CASE TickPaused
    <2>1. Listed' = Listed /\ UNCHANGED <<tick, airNow>> /\ rung' = FALSE
        BY <1>2 DEF TickPaused, Listed
    <2> QED BY <1>0, <2>1 DEF TickOK
<1>3. CASE TickEnds
    <2>1. tick' = Idle /\ rung' = rung /\ airNow' = airNow /\ tick.on
        BY <1>3 DEF TickEnds, Running
    <2> QED BY <1>0, <2>1, IdleIsOK DEF TickOK
<1>4. CASE Restart
    <2>1. tick' = Idle /\ rung' = FALSE /\ airNow' = None
        BY <1>4 DEF Restart
    <2> QED BY <2>1, IdleIsOK DEF TickOK, AirOK
<1>5. CASE \E r \in Rules : PressAirNow(r)
    <2>1. PICK r \in Rules : airNow' = Asked(r, 0, FALSE) /\ UNCHANGED <<rung, listed, tick>>
        BY <1>5 DEF PressAirNow
    <2>2. AirOK(airNow')
        <3>1. 0 \in 0..MaxWait
            BY SchedulerAssumption
        <3> QED BY <2>1, <3>1 DEF Asked, AiringType, AirOK
    <2>3. Listed' = Listed
        BY <2>1 DEF Listed
    <2> QED BY <1>0, <2>1, <2>2, <2>3 DEF TickOK
<1>6. CASE \E r \in Rules : Remove(r) \/ Reset(r) \/ \E on \in BOOLEAN : Edit(r, on)
    <2>1. PICK r \in Rules : Remove(r) \/ Reset(r) \/ \E on \in BOOLEAN : Edit(r, on)
        BY <1>6
    <2>2. ~Running /\ Replaced(r) /\ rung' = rung /\ (listed' = listed \/ listed' = Dismiss(listed, r))
        BY <2>1 DEF Remove, Reset, Edit
    <2>3. Listed \ {r} \subseteq Listed'
        <3>1. listed \in Seq(Rules) /\ Distinct(listed)
            BY DEF SchedulerInv, ListOK
        <3>2. Members(Dismiss(listed, r)) = Members(listed) \ {r}
            BY <3>1, DismissProperties
        <3> QED BY <2>2, <3>2 DEF Listed
    <2> QED BY <1>0, <2>2, <2>3, ReplacedKeeps
<1>7. CASE \E r \in Rules : \E slot \in Slots(r) : Add(r, slot)
    <2>1. PICK r \in Rules : listed' = Append(listed, r) /\ UNCHANGED <<rung, tick, airNow>> /\ ~Running
        BY <1>7 DEF Add
    <2>2. Listed \subseteq Listed'
        <3>1. listed \in Seq(Rules)
            BY DEF SchedulerInv, ListOK
        <3>2. \A i \in DOMAIN listed : i \in DOMAIN listed' /\ listed'[i] = listed[i]
            BY <2>1, <3>1
        <3> QED BY <3>2 DEF Listed, Members
    <2>3. PlanOK(tick', Listed')
        <3>1. CASE tick.on
            <4>1. tick.air # None
                BY <2>1, <3>1 DEF Running
            <4> QED BY <1>0, <2>1, <2>2, <4>1, PlanStays
        <3>2. CASE ~tick.on
            BY <1>0, <2>1, <3>2, IdleIsOK
        <3> QED BY <3>1, <3>2
    <2> QED BY <1>0, <2>1, <2>3 DEF TickOK
<1>8. \/ UNCHANGED <<rung, listed, tick, airNow>>
      \/ TickBegins \/ TickPaused \/ AirsFixed \/ AirsOnBoards \/ Collects \/ TickEnds
      \/ AirRuns \/ TimePasses \/ Restart
      \/ \E r \in Rules : PressAirNow(r)
      \/ \E r \in Rules : Remove(r) \/ Reset(r) \/ \E on \in BOOLEAN : Edit(r, on)
      \/ \E r \in Rules : \E slot \in Slots(r) : Add(r, slot)
    BY DEF Next, TickRuns, PeopleAct, ManualPush, OthersShow, Pause, Resume, EnvChanges, Midnight
<1> QED BY <1>1, <1>2, <1>3, <1>4, <1>5, <1>6, <1>7, <1>8, TickStarts, TickAirs, TickCollects,
           TickWaits, TickAges

LEMMA SchedulerInvKept ==
    SchedulerInv /\ [Next]_scheduler => SchedulerInv'
<1>1. ASSUME SchedulerInv, Next PROVE SchedulerInv'
    BY <1>1, RulesKept, ListKept, ScreenKept, TickKept DEF SchedulerInv
<1>2. ASSUME SchedulerInv, UNCHANGED scheduler PROVE SchedulerInv'
    BY <1>2 DEF scheduler, SchedulerInv, RulesOK, RuleOK, ListOK, Distinct, ScreenOK, TickOK, Listed
<1> QED BY <1>1, <1>2

LEMMA SchedulerInvBegins ==
    Init => SchedulerInv
<1> SUFFICES ASSUME Init PROVE SchedulerInv
    OBVIOUS
<1>1. RulesOK
    BY FreshIsOK DEF Init, RulesOK, RuleOK
<1>2. ListOK
    BY SchedulerAssumption DEF Init, ListOK
<1>3. ScreenOK
    <2>1. MaxWait \in Nat /\ GlobalGap \in Nat
        BY SchedulerAssumption
    <2> QED BY <2>1 DEF Init, ScreenOK
<1>4. TickOK
    BY IdleIsOK DEF Init, TickOK, AirOK
<1> QED BY <1>1, <1>2, <1>3, <1>4 DEF SchedulerInv

THEOREM SchedulerInvariant == Spec => []SchedulerInv
BY SchedulerInvBegins, SchedulerInvKept, PTL DEF Spec

(* Whatever the rules, their settings and the bounds: no rule is listed    *)
(* twice, a fixed rule never waits for a throw of the dice, and every      *)
(* clock, page, airing and plan of the scheduler is one it can make sense  *)
(* of.                                                                     *)
THEOREM SchedulerTypes == Spec => []SchedulerTypeOK
BY SchedulerInvariant, TypesFollow, PTL

-----------------------------------------------------------------------------
(* The house of MCDisplay, whatever its rules.                             *)

LEMMA HouseSteps ==
    /\ MCInit => Init
    /\ [MCNext]_mcvars => [Next]_scheduler
<1>1. MCInit => Init
    BY DEF MCInit
<1>2. ASSUME UNCHANGED mcvars PROVE UNCHANGED scheduler
    BY <1>2 DEF mcvars, scheduler
<1>3. ASSUME MCNext PROVE Next
    <2>1. CASE Ticks
        BY <2>1 DEF Ticks, Next
    <2>2. CASE Airing
        BY <2>2 DEF Airing, Airs, Next, AirRuns
    <2>3. CASE Passing
        BY <2>3 DEF Passing, Next
    <2>4. CASE Moving
        <3>1. CASE \E w \in Waiters : Failing(w)
            BY <3>1 DEF Failing, Next, AirRuns
        <3>2. CASE \E r \in Rules : Touching(r)
            <4>1. PICK r \in Rules : Touching(r)
                BY <3>2
            <4>2. \/ PressAirNow(r) \/ Reset(r) \/ Remove(r) \/ \E slot \in Slots(r) : Add(r, slot)
                  \/ \E enabled \in BOOLEAN : Edit(r, enabled)
                BY <4>1, Zenon DEF Touching
            <4>3. PeopleAct
                BY <4>2, Zenon DEF PeopleAct
            <4> QED BY <4>3 DEF Next
        <3>3. CASE Pushing
            BY <3>3 DEF Pushing, Next, PeopleAct
        <3>4. CASE Pausing
            BY <3>4 DEF Pausing, Next, PeopleAct
        <3>5. CASE Turning
            BY <3>5 DEF Turning, Next
        <3>6. CASE Restarting
            BY <3>6 DEF Restarting, Next
        <3> QED BY <2>4, <3>1, <3>2, <3>3, <3>4, <3>5, <3>6 DEF Moving
    <2> QED BY <1>3, <2>1, <2>2, <2>3, <2>4 DEF MCNext
<1> QED BY <1>1, <1>2, <1>3

LEMMA HouseKeepsScheduler ==
    SchedulerInv /\ [MCNext]_mcvars => SchedulerInv'
BY HouseSteps, SchedulerInvKept

(* What an airing that is waited for does to the rest.                     *)
LEMMA AirsMove ==
    ASSUME TickOK, NEW w \in Waiters,
           AirSends(w) \/ AirAnswers(w) \/ AirCleansUp(w) \/ AirCloses(w)
    PROVE  /\ AirOf(w) \in AiringType /\ AirOf(w) # None /\ ~Running
           /\ \/ /\ AirOf(w)' = None /\ Booked(AirOf(w)) /\ page' = page
                 /\ AirOf(w).stage # "asked"
              \/ /\ AirOf(w)' # None /\ AirOf(w)'.rule = AirOf(w).rule
                 /\ AirOf(w)'.late = AirOf(w).late /\ AirOf(w)'.lost = AirOf(w).lost
                 /\ UNCHANGED <<rule, gapLeft, activeAiring>>
                 /\ Board(AirOf(w).rule) \/ AirOf(w).stage # "asked" \/ page'.by = "scheduler"
           /\ w = "tick" => airNow' = airNow
           /\ w # "tick" => tick' = tick
           /\ tick'.todo = tick.todo
           /\ UNCHANGED <<listed, bootLeft>>
<1>1. /\ AirOf(w) # None /\ ~Running /\ UNCHANGED <<listed, bootLeft>>
    BY DEF AirSends, AirAnswers, AirCleansUp, AirCloses, IsWaiting
<1>2. AirOf(w) \in AiringType /\ tick \in TickType
    BY <1>1, AirTyped DEF TickOK
<1> DEFINE a == AirOf(w)
<1> HIDE DEF a
<1>3. a \in AiringType
    BY <1>2 DEF a
<1>4. CASE AirAnswers(w) \/ AirCloses(w)
    <2>1. Answered(w) /\ Booked(AirOf(w)) /\ page' = page /\ AirOf(w).stage # "asked"
        BY <1>4 DEF AirAnswers, AirCloses
    <2>2. CASE w = "tick"
        <3>1. /\ tick' = [tick EXCEPT !.air = None, !.late = tick.air.late] /\ airNow' = airNow
            BY <2>1, <2>2 DEF Answered
        <3>2. tick'.air = None /\ tick'.todo = tick.todo
            BY <1>2, <3>1 DEF TickType
        <3> QED BY <1>1, <1>2, <2>1, <2>2, <3>1, <3>2 DEF AirOf
    <2>3. CASE w # "tick"
        <3>1. airNow' = None /\ tick' = tick
            BY <2>1, <2>3 DEF Answered
        <3> QED BY <1>1, <1>2, <2>1, <2>3, <3>1 DEF AirOf
    <2> QED BY <2>2, <2>3
<1>5. CASE AirSends(w) \/ AirCleansUp(w)
    <2>1. \E s \in {"sent", "closing"} : Becomes(w, [a EXCEPT !.stage = s])
        BY <1>5 DEF AirSends, AirCleansUp, a
    <2>2. PICK s \in {"sent", "closing"} : Becomes(w, [a EXCEPT !.stage = s])
        BY <2>1
    <2> DEFINE b == [a EXCEPT !.stage = s]
    <2>3. /\ b \in AiringType /\ b.rule = a.rule /\ b.late = a.late /\ b.lost = a.lost
        BY <1>3 DEF AiringType
    <2>4. Becomes(w, b)
        BY <2>2
    <2> HIDE DEF b
    <2>5. b # None
        BY <2>3, NoneAssumption
    <2>6. UNCHANGED <<rule, gapLeft, activeAiring>>
        BY <1>5 DEF AirSends, AirCleansUp
    <2>9. Board(a.rule) \/ a.stage # "asked" \/ page'.by = "scheduler"
        BY <1>5 DEF AirSends, AirCleansUp, a
    <2>7. CASE w = "tick"
        <3>1. tick' = [tick EXCEPT !.air = b] /\ airNow' = airNow
            BY <2>4, <2>7 DEF Becomes
        <3>2. tick'.air = b /\ tick'.todo = tick.todo
            BY <1>2, <3>1 DEF TickType
        <3>3. AirOf(w)' = b
            BY <2>7, <3>2 DEF AirOf
        <3> QED BY <1>1, <1>2, <2>3, <2>5, <2>6, <2>7, <2>9, <3>1, <3>2, <3>3 DEF a
    <2>8. CASE w # "tick"
        <3>1. airNow' = b /\ tick' = tick
            BY <2>4, <2>8 DEF Becomes
        <3>2. AirOf(w)' = b
            BY <2>8, <3>1 DEF AirOf
        <3> QED BY <1>1, <1>2, <2>3, <2>5, <2>6, <2>8, <2>9, <3>1, <3>2 DEF a
    <2> QED BY <2>7, <2>8
<1> QED BY <1>4, <1>5

(* Touching a rule does not end an airing, nor change which rule it is.    *)
LEMMA ReplacedMoves ==
    ASSUME TickOK, NEW r \in Rules, Replaced(r)
    PROVE  /\ tick'.todo = tick.todo /\ tick'.on = tick.on /\ tick'.late = tick.late
           /\ \A w \in Waiters :
                 /\ AirOf(w)' = None <=> AirOf(w) = None
                 /\ AirOf(w) # None =>
                       /\ AirOf(w)'.rule = AirOf(w).rule /\ AirOf(w)'.late = AirOf(w).late
                       /\ AirOf(w)'.stage = AirOf(w).stage
                       /\ AirOf(w).rule # r => AirOf(w)'.lost = AirOf(w).lost
<1> DEFINE Lost(a) == IF a # None /\ a.rule = r THEN [a EXCEPT !.lost = TRUE] ELSE a
<1>1. ASSUME NEW a, AirOK(a)
      PROVE  /\ Lost(a) = None <=> a = None
             /\ a # None => /\ Lost(a).rule = a.rule /\ Lost(a).late = a.late
                            /\ Lost(a).stage = a.stage
                            /\ a.rule # r => Lost(a).lost = a.lost
    <2>1. CASE a # None /\ a.rule = r
        <3> DEFINE b == [a EXCEPT !.lost = TRUE]
        <3>1. a \in AiringType
            BY <1>1, <2>1 DEF AirOK
        <3>2. b \in AiringType /\ b.rule = a.rule /\ b.late = a.late /\ b.stage = a.stage
            BY <3>1 DEF AiringType
        <3>3. Lost(a) = b
            BY <2>1
        <3> HIDE DEF b, Lost
        <3> QED BY <2>1, <3>2, <3>3, NoneAssumption
    <2>2. CASE ~(a # None /\ a.rule = r)
        <3>1. Lost(a) = a
            BY <2>2
        <3> HIDE DEF Lost
        <3> QED BY <3>1
    <2> QED BY <2>1, <2>2
<1>2. AirOK(airNow) /\ tick \in TickType /\ AirOK(tick.air) /\ (~tick.on => tick.air = None)
    <2>1. tick \in TickType
        BY DEF TickOK
    <2> QED BY <2>1, TickIsOn DEF TickOK, TickType, AirOK
<1>3. airNow' = Lost(airNow)
    BY DEF Replaced
<1>4. tick'.todo = tick.todo /\ tick'.air = Lost(tick.air) /\ tick'.on = tick.on
      /\ tick'.late = tick.late
    <2>1. CASE ~tick.on
        <3>1. tick' = tick /\ tick.air = None
            BY <1>2, <2>1 DEF Replaced
        <3> QED BY <3>1
    <2>2. CASE tick.on
        <3> DEFINE gone == [q \in DOMAIN tick.gone \cup {r} |-> AiredHeld[q]]
                   air == Lost(tick.air)
        <3>1. tick' = [tick EXCEPT !.air = air, !.gone = gone]
            BY <2>2 DEF Replaced
        <3> HIDE DEF gone, air
        <3>2. tick'.todo = tick.todo /\ tick'.air = air /\ tick'.on = tick.on
              /\ tick'.late = tick.late
            BY <1>2, <3>1 DEF TickType
        <3> QED BY <3>2 DEF air
    <2> QED BY <2>1, <2>2
<1> HIDE DEF Lost
<1>5. ASSUME NEW w \in Waiters PROVE AirOf(w)' = Lost(AirOf(w)) /\ AirOK(AirOf(w))
    BY <1>2, <1>3, <1>4 DEF AirOf
<1> QED BY <1>1, <1>4, <1>5

(* Time only makes an airing later.                                        *)
LEMMA TickAirAges ==
    ASSUME TickOK, TimePasses
    PROVE  /\ tick'.todo = tick.todo
           /\ \A w \in Waiters :
                 /\ AirOf(w)' = None <=> AirOf(w) = None
                 /\ AirOf(w) # None =>
                       /\ AirOf(w)'.rule = AirOf(w).rule /\ AirOf(w)'.late = AirOf(w).late + 1
                       /\ AirOf(w)'.stage = AirOf(w).stage /\ AirOf(w)'.lost = AirOf(w).lost
<1>1. ASSUME NEW a, AirOK(a), a # None => a.late < MaxWait
      PROVE  /\ Waited(a) = None <=> a = None
             /\ a # None => /\ Waited(a).rule = a.rule /\ Waited(a).late = a.late + 1
                            /\ Waited(a).stage = a.stage /\ Waited(a).lost = a.lost
    <2>1. CASE a = None
        BY <2>1 DEF Waited
    <2>2. CASE a # None
        <3> DEFINE late == a.late + 1
                   b == [a EXCEPT !.late = late]
        <3>1. a \in AiringType /\ a.late < MaxWait /\ MaxWait \in Nat
            BY <1>1, <2>2, SchedulerAssumption DEF AirOK
        <3>2. a.late \in Nat
            BY <3>1 DEF AiringType
        <3>3. late \in 0..MaxWait
            BY <3>1, <3>2
        <3> HIDE DEF late
        <3>4. b \in AiringType /\ b.rule = a.rule /\ b.late = late /\ b.stage = a.stage
              /\ b.lost = a.lost
            BY <3>1, <3>3 DEF AiringType
        <3>5. Waited(a) = b
            BY <2>2 DEF Waited, late
        <3> HIDE DEF b
        <3> QED BY <2>2, <3>4, <3>5, NoneAssumption DEF late
    <2> QED BY <2>1, <2>2
<1>2. AirOK(airNow) /\ tick \in TickType /\ AirOK(tick.air)
    <2>1. tick \in TickType
        BY DEF TickOK
    <2> QED BY <2>1 DEF TickOK, TickType, AirOK
<1>3. airNow' = Waited(airNow)
    BY DEF TimePasses
<1>4. tick'.todo = tick.todo /\ tick'.air = Waited(tick.air)
    <2> DEFINE air == Waited(tick.air)
               gone == [r \in DOMAIN tick.gone |->
                           IF tick.gone[r] = Never THEN Never
                           ELSE Lesser(tick.gone[r] + 1, MaxAge)]
    <2>1. tick' = [tick EXCEPT !.air = air, !.gone = gone]
        BY DEF TimePasses
    <2> HIDE DEF gone, air
    <2>2. tick'.todo = tick.todo /\ tick'.air = air
        BY <1>2, <2>1 DEF TickType
    <2> QED BY <2>2 DEF air
<1>5. ASSUME NEW w \in Waiters
      PROVE  /\ AirOf(w)' = Waited(AirOf(w)) /\ AirOK(AirOf(w))
             /\ AirOf(w) # None => AirOf(w).late < MaxWait
    BY <1>2, <1>3, <1>4 DEF AirOf, TimePasses
<1> QED BY <1>1, <1>4, <1>5

(* Nobody else makes a tick ask.                                           *)
LEMMA OnlyTicksAsk ==
    ASSUME SchedulerInv, [MCNext]_mcvars, tick.air = None, tick'.air # None
    PROVE  TickRuns
<1>0. TickOK /\ "tick" \in Waiters /\ AirOf("tick") = tick.air /\ AirOf("tick")' = tick'.air
    BY DEF SchedulerInv, Waiters, AirOf
<1>1. CASE Ticks
    BY <1>1 DEF Ticks
<1>2. CASE Airing
    <2>1. PICK w \in Waiters : Airs(w)
        BY <1>2 DEF Airing
    <2>2. AirSends(w) \/ AirAnswers(w) \/ AirCleansUp(w) \/ AirCloses(w)
        BY <2>1, Zenon DEF Airs
    <2>3. AirOf(w) # None /\ (w # "tick" => tick' = tick)
        BY <1>0, <2>2, AirsMove
    <2> QED BY <1>0, <2>3
<1>3. CASE Passing
    BY <1>0, <1>3, TickAirAges DEF Passing
<1>4. CASE Moving
    <2>1. CASE \E w \in Waiters : Failing(w)
        <3>1. PICK w \in Waiters : AirFails(w)
            BY <2>1 DEF Failing
        <3>2. AirOf(w) # None /\ Answered(w)
            BY <3>1 DEF AirFails, IsWaiting
        <3>3. w # "tick"
            BY <1>0, <3>2
        <3> QED BY <3>2, <3>3 DEF Answered
    <2>2. CASE \E r \in Rules : Touching(r)
        <3>1. PICK r \in Rules : tick' = tick \/ Replaced(r)
            BY <2>2 DEF Touching, PressAirNow, Reset, Remove, Add, Edit
        <3> QED BY <1>0, <3>1, ReplacedMoves
    <2>3. CASE Pushing \/ Pausing \/ Turning
        BY <2>3 DEF Pushing, Pausing, Turning, ManualPush, OthersShow, Pause, Resume, Midnight,
                    EnvChanges
    <2>4. CASE Restarting
        BY <2>4, IdleIsOK DEF Restarting, Restart
    <2> QED BY <1>4, <2>1, <2>2, <2>3, <2>4 DEF Moving
<1>5. CASE UNCHANGED mcvars
    BY <1>5 DEF mcvars, scheduler
<1> QED BY <1>1, <1>2, <1>3, <1>4, <1>5 DEF MCNext

-----------------------------------------------------------------------------
(* The gap.                                                                *)

TickShows == tick.air # None /\ ~Board(tick.air.rule)

(* While the display must be left alone, one of the two countdowns says so,*)
(* or the tick is waiting for a page it sent there.                        *)
GapInv ==
    /\ hush \in Nat
    /\ TickShows \/ hush <= AtLeast0(gapLeft) \/ hush <= AtLeast0(bootLeft)

LEMMA AtLeast0Type ==
    ASSUME NEW n \in Int
    PROVE  AtLeast0(n) \in Nat /\ AtLeast0(n) >= n /\ (n <= 0 => AtLeast0(n) = 0)
                               /\ (n > 0 => AtLeast0(n) = n)
BY DEF AtLeast0

(* Whom a tick asks: what is asked while the display must be left alone is *)
(* a fixed rule or the boards'.                                            *)
LEMMA TicksMove ==
    ASSUME SchedulerInv, TickRuns
    PROVE  /\ UNCHANGED <<gapLeft, bootLeft, activeAiring, airNow, page>>
           /\ tick.air = None
           /\ \/ tick'.air = None
              \/ \E r \in Rules : /\ tick'.air # None /\ tick'.air.rule = r
                                  /\ tick'.air.late = tick.late /\ tick'.air.late \in Nat
                                  /\ tick'.air.stage = "asked"
                                  /\ \/ Terms[r].fixed /\ tick.todo[1].do = "fixed"
                                        /\ 1 \in DOMAIN tick.todo
                                        /\ r \in Members(tick.todo[1].rules)
                                     \/ Board(r)
                                     \/ ~Blocked(tick.late)
<1>0. /\ TickOK /\ tick \in TickType /\ (rung => tick.air = None)
      /\ tick.late \in 0..MaxWait /\ tick.late \in Nat
    BY TickIsOn, TickTyped DEF SchedulerInv, TickOK
<1>1. CASE TickBegins
    <2>1. /\ UNCHANGED <<gapLeft, bootLeft, activeAiring, airNow, page>> /\ rung
          /\ \E todo : tick' = [Idle EXCEPT !.on = TRUE, !.todo = todo]
        BY <1>1, Zenon DEF TickBegins
    <2>2. tick'.air = None
        BY <2>1, IdleIsOK DEF TickType
    <2> QED BY <1>0, <2>1, <2>2
<1>2. CASE TickPaused
    BY <1>0, <1>2 DEF TickPaused
<1>3. CASE TickEnds
    <2>1. tick' = Idle /\ tick.air = None
        BY <1>3 DEF TickEnds, Running
    <2>2. UNCHANGED <<gapLeft, bootLeft, activeAiring, airNow, page>>
        BY <1>3 DEF TickEnds
    <2> QED BY <2>1, <2>2, IdleIsOK
<1>4. CASE AirsFixed \/ AirsOnBoards
    <2>0. /\ tick.air = None /\ 1 \in DOMAIN tick.todo
          /\ UNCHANGED <<gapLeft, bootLeft, activeAiring, airNow, page>>
        BY <1>4, HeadAsks
    <2>1. PICK r \in Rules : /\ Waits(r, Tail(tick.todo)) /\ r \in Members(tick.todo[1].rules)
                             /\ \/ Terms[r].fixed /\ tick.todo[1].do = "fixed"
                                \/ ~Terms[r].fixed /\ Board(r)
        BY <1>4, HeadAsks
    <2> DEFINE lost == r \in DOMAIN tick.gone
               air == Asked(r, tick.late, lost)
               todo == Tail(tick.todo)
    <2>2. tick' = [tick EXCEPT !.todo = todo, !.air = air]
        BY <2>1 DEF Waits
    <2>3. air \in AiringType /\ air.rule = r /\ air.late = tick.late /\ air.stage = "asked"
        BY <1>0 DEF Asked, AiringType
    <2> HIDE DEF air, todo
    <2>4. tick'.air = air
        BY <1>0, <2>2 DEF TickType
    <2> QED BY <1>0, <2>0, <2>1, <2>3, <2>4, NoneAssumption
<1>5. CASE Collects
    <2>0. /\ tick.air = None
          /\ UNCHANGED <<gapLeft, bootLeft, activeAiring, airNow, page>>
          /\ \E A, B, S, F, plan : Finds(A, B, S, F, plan)
        BY <1>5, CollectsFinds
    <2>1. PICK A, B, S, F, plan : Finds(A, B, S, F, plan)
        BY <2>0
    <2>2. \A r \in S : r \in Rules /\ ~Blocked(tick.late)
        <3>1. \A r \in S : r \in Listed /\ ~Blocked(tick.late)
            BY <2>1, Zenon DEF Finds
        <3> QED BY <3>1, ListedAreRules DEF SchedulerInv, ListOK
    <2>3. CASE Reads(plan)
        <3>1. tick' = [tick EXCEPT !.todo = plan, !.gone = <<>>]
            BY <2>3 DEF Reads
        <3>2. tick'.air = None
            BY <1>0, <2>0, <3>1 DEF TickType
        <3> QED BY <2>0, <3>2
    <2>4. CASE \E r \in S : ReadsAndWaits(r, plan)
        <3>1. PICK r \in S : ReadsAndWaits(r, plan)
            BY <2>4
        <3> DEFINE air == Asked(r, tick.late, FALSE)
        <3>2. tick' = [tick EXCEPT !.todo = plan, !.gone = <<>>, !.air = air]
            BY <3>1 DEF ReadsAndWaits
        <3>3. air \in AiringType /\ air.rule = r /\ air.late = tick.late /\ air.stage = "asked"
            BY <1>0, <2>2 DEF Asked, AiringType
        <3> HIDE DEF air
        <3>4. tick'.air = air
            BY <1>0, <3>2 DEF TickType
        <3> QED BY <1>0, <2>0, <2>2, <3>3, <3>4, NoneAssumption
    <2>5. Reads(plan) \/ \E r \in S : ReadsAndWaits(r, plan)
        BY <2>1, Zenon DEF Finds
    <2> QED BY <2>3, <2>4, <2>5
<1> QED BY <1>1, <1>2, <1>3, <1>4, <1>5 DEF TickRuns

LEMMA GapKeptByTicks ==
    ASSUME SchedulerInv, GapInv, Ticks
    PROVE  GapInv'
<1>0. /\ UNCHANGED <<gapLeft, bootLeft>> /\ tick.air = None
      /\ hush \in Nat /\ (hush <= AtLeast0(gapLeft) \/ hush <= AtLeast0(bootLeft))
    BY TicksMove DEF Ticks, GapInv, TickShows
<1> DEFINE Showing == \E r \in Rules : ~Board(r) /\ Asks(r)
           to == LET r == tick'.air.rule IN AtLeast0(Ends(r) + GlobalGap)
<1>1. hush' = IF Showing THEN to ELSE hush
    BY Zenon DEF Ticks
<1>2. CASE Showing
    <2>1. PICK r \in Rules : ~Board(r) /\ Asks(r)
        BY <1>2
    <2>2. tick'.air # None /\ tick'.air.rule = r /\ tick'.air.late \in Nat
        BY <1>0, <2>1, TicksMove DEF Ticks, Asks
    <2> DEFINE ends == Terms[r].planned - tick'.air.late + GlobalGap
    <2>3. ends \in Int
        BY <2>2, SettingsTyped
    <2>4. hush' = AtLeast0(ends)
        BY <1>1, <1>2, <2>2 DEF Ends
    <2> HIDE DEF ends
    <2>5. hush' \in Nat
        BY <2>3, <2>4, AtLeast0Type
    <2> QED BY <2>1, <2>2, <2>5 DEF GapInv, TickShows
<1>3. CASE ~Showing
    <2>1. hush' = hush
        BY <1>1, <1>3
    <2> QED BY <1>0, <2>1 DEF GapInv, AtLeast0
<1> QED BY <1>2, <1>3

LEMMA GapKeptByAirings ==
    ASSUME SchedulerInv, GapInv, Airing
    PROVE  GapInv'
<1>0. TickOK /\ hush \in Nat /\ gapLeft \in Int /\ bootLeft \in Int
    <2>1. MaxWait \in Int /\ GlobalGap \in Int
        BY SchedulerAssumption
    <2> QED BY <2>1 DEF SchedulerInv, GapInv, ScreenOK
<1>1. PICK w \in Waiters : Airs(w)
    BY DEF Airing
<1> DEFINE a == AirOf(w)
           booked == AirOf(w)' = None
           over == Terms[a.rule].planned - a.late + GlobalGap
<1>2. /\ AirSends(w) \/ AirAnswers(w) \/ AirCleansUp(w) \/ AirCloses(w)
      /\ hush' = IF booked /\ ~Board(a.rule) THEN AtLeast0(over) ELSE hush
    BY <1>1, Zenon DEF Airs
<1>3. a \in AiringType /\ a # None /\ bootLeft' = bootLeft
    BY <1>0, <1>2, AirsMove
<1>4. over \in Int
    <2>1. a.rule \in Rules /\ a.late \in Int
        BY <1>0, <1>3, AirTyped
    <2> QED BY <2>1, SettingsTyped
<1>5. CASE booked /\ ~Board(a.rule)
    <2>1. Booked(a)
        BY <1>0, <1>2, <1>5, AirsMove
    <2>2. gapLeft' = Terms[a.rule].planned - a.late + GlobalGap
        BY <1>5, <2>1 DEF Booked
    <2>3. hush' = AtLeast0(gapLeft')
        BY <1>2, <1>5, <2>2
    <2>4. gapLeft' \in Int
        BY <1>4, <2>2
    <2>5. hush' \in Nat /\ hush' <= AtLeast0(gapLeft')
        BY <2>3, <2>4, AtLeast0Type
    <2> QED BY <2>5 DEF GapInv, AtLeast0
<1>6. CASE ~(booked /\ ~Board(a.rule))
    <2>1. hush' = hush /\ gapLeft' = gapLeft
        <3>1. CASE booked
            <4>1. Booked(a) /\ Board(a.rule)
                BY <1>0, <1>2, <1>6, <3>1, AirsMove
            <4> QED BY <1>2, <1>6, <4>1 DEF Booked
        <3>2. CASE ~booked
            BY <1>0, <1>2, <3>2, AirsMove
        <3> QED BY <3>1, <3>2
    <2>2. TickShows => TickShows'
        <3> SUFFICES ASSUME TickShows PROVE TickShows'
            OBVIOUS
        <3>1. CASE w = "tick"
            <4>1. tick.air = a /\ ~Board(a.rule) /\ ~booked
                BY <1>6, <3>1 DEF TickShows, AirOf
            <4>2. AirOf(w)' # None /\ AirOf(w)'.rule = a.rule
                BY <1>0, <1>2, <4>1, AirsMove
            <4>3. AirOf(w)' = tick'.air
                BY <3>1 DEF AirOf
            <4> QED BY <4>1, <4>2, <4>3 DEF TickShows
        <3>2. CASE w # "tick"
            <4>1. tick' = tick
                BY <1>0, <1>2, <3>2, AirsMove
            <4> QED BY <4>1 DEF TickShows
        <3> QED BY <3>1, <3>2
    <2> QED BY <1>0, <1>3, <2>1, <2>2 DEF GapInv, AtLeast0
<1> QED BY <1>5, <1>6

LEMMA GapKeptByTime ==
    ASSUME SchedulerInv, GapInv, Passing
    PROVE  GapInv'
<1>0. TickOK /\ tick \in TickType /\ hush \in Nat /\ gapLeft \in Int /\ bootLeft \in Int
    <2>1. MaxWait \in Int /\ GlobalGap \in Int
        BY SchedulerAssumption
    <2> QED BY <2>1 DEF SchedulerInv, GapInv, ScreenOK, TickOK
<1>1. /\ hush' = AtLeast0(hush - 1) /\ gapLeft' = Later(gapLeft) /\ bootLeft' = Later(bootLeft)
    BY DEF Passing, TimePasses
<1>2. hush' \in Nat
    BY <1>0, <1>1, AtLeast0Type
<1>3. ASSUME NEW n \in Int, hush <= AtLeast0(n) PROVE hush' <= AtLeast0(Later(n))
    <2>1. MaxWait \in Nat
        BY SchedulerAssumption
    <2> QED BY <1>0, <1>1, <1>3, <2>1 DEF AtLeast0, Later
<1>4. TickShows => TickShows'
    <2>1. "tick" \in Waiters /\ AirOf("tick") = tick.air /\ AirOf("tick")' = tick'.air
        BY DEF Waiters, AirOf
    <2> QED BY <1>0, <2>1, TickAirAges DEF TickShows, Passing
<1> QED BY <1>0, <1>1, <1>2, <1>3, <1>4 DEF GapInv

LEMMA GapKeptByMoves ==
    ASSUME SchedulerInv, GapInv, Moving
    PROVE  GapInv'
<1>0. /\ TickOK /\ tick \in TickType /\ hush \in Nat /\ gapLeft \in Int /\ bootLeft \in Int
      /\ GlobalGap \in Nat
    <2>1. MaxWait \in Int /\ GlobalGap \in Nat
        BY SchedulerAssumption
    <2> QED BY <2>1 DEF SchedulerInv, GapInv, ScreenOK, TickOK
<1>1. CASE \E w \in Waiters : Failing(w)
    <2>1. PICK w \in Waiters : Failing(w)
        BY <1>1
    <2>2. /\ AirFails(w) /\ UNCHANGED <<gapLeft, bootLeft>>
          /\ hush' = IF Board(AirOf(w).rule) THEN hush ELSE 0
        BY <2>1 DEF Failing, AirFails
    <2>3. CASE Board(AirOf(w).rule)
        <3>1. TickShows => w # "tick"
            BY <2>3 DEF TickShows, AirOf
        <3>2. w # "tick" => tick' = tick
            BY <2>2 DEF AirFails, Answered
        <3> QED BY <1>0, <2>2, <2>3, <3>1, <3>2 DEF GapInv, TickShows, AtLeast0
    <2>4. CASE ~Board(AirOf(w).rule)
        BY <1>0, <2>2, <2>4 DEF GapInv, AtLeast0
    <2> QED BY <2>3, <2>4
<1>2. CASE \E r \in Rules : Touching(r)
    <2>1. PICK r \in Rules : Touching(r)
        BY <1>2
    <2>2. UNCHANGED <<hush, gapLeft, bootLeft>>
        BY <2>1 DEF Touching, PressAirNow, Reset, Remove, Add, Edit
    <2>3. tick' = tick \/ Replaced(r)
        BY <2>1 DEF Touching, PressAirNow, Reset, Remove, Add, Edit
    <2>4. TickShows => TickShows'
        <3>1. CASE tick' = tick
            BY <3>1 DEF TickShows
        <3>2. CASE Replaced(r)
            <4>1. "tick" \in Waiters /\ AirOf("tick") = tick.air /\ AirOf("tick")' = tick'.air
                BY DEF Waiters, AirOf
            <4> QED BY <1>0, <3>2, <4>1, ReplacedMoves DEF TickShows
        <3> QED BY <2>3, <3>1, <3>2
    <2> QED BY <1>0, <2>2, <2>4 DEF GapInv, AtLeast0
<1>3. CASE Pushing
    <2>1. CASE \E p : ManualPush(p) /\ hush' = GlobalGap
        <3>1. gapLeft' = GlobalGap /\ hush' = GlobalGap
            BY <2>1 DEF ManualPush, Interrupts
        <3> QED BY <1>0, <3>1 DEF GapInv, AtLeast0
    <2>2. CASE \E p : OthersShow(p) /\ UNCHANGED hush
        <3>1. UNCHANGED <<hush, gapLeft, bootLeft, tick>>
            BY <2>2 DEF OthersShow
        <3> QED BY <3>1 DEF GapInv, TickShows, AtLeast0
    <2> QED BY <1>3, <2>1, <2>2 DEF Pushing
<1>4. CASE Pausing
    <2>1. /\ hush' = Lesser(hush, GlobalGap) /\ UNCHANGED <<bootLeft, tick>>
          /\ gapLeft' = gapLeft \/ gapLeft' = GlobalGap
        BY <1>4 DEF Pausing, Pause, Resume, Interrupts
    <2>2. hush' \in Nat /\ hush' <= hush /\ hush' <= GlobalGap
        BY <1>0, <2>1 DEF Lesser
    <2> QED BY <1>0, <2>1, <2>2 DEF GapInv, TickShows, AtLeast0
<1>5. CASE Turning
    <2>1. UNCHANGED <<hush, gapLeft, bootLeft, tick>>
        BY <1>5 DEF Turning, Midnight, EnvChanges
    <2> QED BY <2>1 DEF GapInv, TickShows, AtLeast0
<1>6. CASE Restarting
    <2>1. hush' = GlobalGap /\ bootLeft' = GlobalGap
        BY <1>6 DEF Restarting, Restart
    <2> QED BY <1>0, <2>1 DEF GapInv, AtLeast0
<1> QED BY <1>1, <1>2, <1>3, <1>4, <1>5, <1>6 DEF Moving

LEMMA GapInvKept ==
    SchedulerInv /\ GapInv /\ [MCNext]_mcvars => GapInv'
<1>1. ASSUME SchedulerInv, GapInv, MCNext PROVE GapInv'
    BY <1>1, GapKeptByTicks, GapKeptByAirings, GapKeptByTime, GapKeptByMoves DEF MCNext
<1>2. ASSUME GapInv, UNCHANGED mcvars PROVE GapInv'
    BY <1>2 DEF GapInv, TickShows, AtLeast0, mcvars, scheduler
<1> QED BY <1>1, <1>2

LEMMA GapStep ==
    ASSUME SchedulerInv, GapInv, [MCNext]_mcvars
    PROVE  \A r \in Rules : Asks(r) /\ ~Board(r) /\ ~Terms[r].fixed => hush = 0 /\ ~IsBusy
<1> SUFFICES ASSUME NEW r \in Rules, Asks(r), ~Board(r), ~Terms[r].fixed
             PROVE  hush = 0 /\ ~IsBusy
    OBVIOUS
<1>1. tick.air = None /\ tick'.air # None /\ tick'.air.rule = r
    BY DEF Asks
<1>2. TickRuns
    BY <1>1, OnlyTicksAsk
<1>3. ~Blocked(tick.late)
    BY <1>1, <1>2, TicksMove
<1>4. /\ tick.late \in Nat /\ gapLeft \in Int /\ bootLeft \in Int /\ hush \in Nat
      /\ (hush <= AtLeast0(gapLeft) \/ hush <= AtLeast0(bootLeft))
    <2>1. MaxWait \in Int /\ GlobalGap \in Int
        BY SchedulerAssumption
    <2> QED BY <1>1, <2>1, TickTyped DEF SchedulerInv, ScreenOK, GapInv, TickShows
<1> QED BY <1>3, <1>4 DEF Blocked, AtLeast0

(* For any rules and settings: a rule of the cadence goes to the display   *)
(* only when no page is up there and the gap after the last one, after a   *)
(* push, a pause or the start of the process is over.                      *)
THEOREM GapIsKept == MCSpec => GapKept
<1>1. MCInit => SchedulerInv /\ GapInv
    <2>1. MCInit => GapInv
        <3>1. GlobalGap \in Nat
            BY SchedulerAssumption
        <3> QED BY <3>1 DEF MCInit, Init, GapInv, AtLeast0
    <2> QED BY <2>1, HouseSteps, SchedulerInvBegins
<1>2. SchedulerInv /\ GapInv /\ [MCNext]_mcvars => SchedulerInv' /\ GapInv'
    BY HouseKeepsScheduler, GapInvKept
<1>3. SchedulerInv /\ GapInv /\ [MCNext]_mcvars
      => [\A r \in Rules : Asks(r) /\ ~Board(r) /\ ~Terms[r].fixed => hush = 0 /\ ~IsBusy]_mcvars
    BY GapStep
<1> QED BY <1>1, <1>2, <1>3, PTL DEF MCSpec, GapKept


-----------------------------------------------------------------------------
(* A page of somebody's.                                                   *)

(* The tick still has a fixed rule to put on the display.                  *)
ShowPlanned(t) ==
    \E i \in DOMAIN t.todo :
        t.todo[i].do = "fixed" /\ \E r \in Members(t.todo[i].rules) : ~Board(r)

(* While the page on the display is somebody's push: it has its time still *)
(* before it, the scheduler knows of no page of its own, and whatever is on*)
(* its way to the display was asked for, not sent.                         *)
HumanInv ==
    human =>
        /\ page # None /\ page.by = "others" /\ page.left > 0
        /\ activeAiring = None
        /\ \A w \in Waiters :
              AirOf(w) # None /\ ~Board(AirOf(w).rule) => AirOf(w).stage = "asked"
        /\ ~ShowPlanned(tick)

LEMMA PlanNow ==
    ASSUME NEW todo, ~ShowPlanned(tick), tick'.todo = todo,
           \A i \in DOMAIN todo : \E j \in DOMAIN tick.todo : todo[i] = tick.todo[j]
    PROVE  ~ShowPlanned(tick')
BY DEF ShowPlanned

LEMMA HumanKeptByTicks ==
    ASSUME SchedulerInv, HumanInv, human, TickRuns
    PROVE  ~ShowPlanned(tick')
<1>0. /\ tick \in TickType /\ RulesOK /\ ListOK
      /\ IsBusy /\ activeAiring = None /\ ~ShowPlanned(tick)
    BY DEF SchedulerInv, TickOK, HumanInv, IsBusy
<1>1. CASE TickBegins
    <2>1. PICK M, a, b, c : Begins(M, a, b, c)
        BY <1>1, TickBeginsSo
    <2>2. a = <<>>
        <3>1. \A r : YieldsFixed(r)
            BY <1>0 DEF YieldsFixed
        <3> QED BY <2>1, <3>1, Zenon DEF Begins
    <2>3. b = <<>> \/ \E r \in Listed : Board(r) /\ b = <<FixedStep(r)>>
        BY <2>1, Zenon DEF Begins
    <2>4. c = <<>> \/ c = <<CadenceStep>>
        BY <2>1, Zenon DEF Begins
    <2>5. Listed \subseteq Rules
        BY <1>0, ListedAreRules DEF ListOK
    <2> DEFINE y == IF b = <<>> THEN CadenceStep ELSE b[1]
               z == CadenceStep
               p == a \o b \o c
    <2>6. b = <<>> \/ (b = <<y>> /\ \E r \in Listed : Board(r) /\ y = FixedStep(r))
        BY <2>3
    <2>7. y \in StepType /\ z \in StepType
        BY <2>5, <2>6, StepsTyped
    <2>8. c = <<>> \/ c = <<z>>
        BY <2>4
    <2>9. z.do = "cadence"
        BY StepsTyped
    <2> HIDE DEF y, z
    <2>10. Parted(p, z, y, z, a, b, c)
        <3>1. a = <<>> \/ a = <<z>>
            BY <2>2
        <3>2. b = <<>> \/ b = <<y>>
            BY <2>6
        <3> QED BY <2>7, <2>8, <3>1, <3>2, ThreeParts, Zenon
    <2>11. \A i \in DOMAIN p : p[i] = z \/ (p[i] = y /\ b = <<y>>)
        <3>1. a # <<z>>
            BY <2>2
        <3> HIDE DEF p
        <3> QED BY <2>10, <3>1, Zenon DEF Parted
    <2> HIDE DEF p
    <2>12. \A i \in DOMAIN p : p[i].do = "fixed" => \A r \in Members(p[i].rules) : Board(r)
        <3> SUFFICES ASSUME NEW i \in DOMAIN p, p[i].do = "fixed", NEW r \in Members(p[i].rules)
                     PROVE  Board(r)
            OBVIOUS
        <3>1. p[i] = y /\ b = <<y>>
            BY <2>9, <2>11
        <3>2. PICK q \in Listed : Board(q) /\ y = FixedStep(q)
            BY <2>6, <3>1
        <3>3. Members(y.rules) = {q}
            BY <2>5, <3>2, StepsTyped
        <3> QED BY <3>1, <3>2, <3>3
    <2>13. tick' = [Idle EXCEPT !.on = TRUE, !.todo = p]
        BY <2>1, Zenon DEF Begins, p
    <2>14. tick'.todo = p
        BY <2>13, IdleIsOK DEF TickType
    <2> QED BY <2>12, <2>14 DEF ShowPlanned
<1>2. CASE TickPaused
    BY <1>0, <1>2 DEF TickPaused, ShowPlanned
<1>3. CASE TickEnds
    <2>1. tick'.todo = <<>>
        BY <1>3, IdleIsOK DEF TickEnds
    <2> QED BY <2>1 DEF ShowPlanned
<1>4. CASE AirsFixed \/ AirsOnBoards
    <2>1. /\ tick.todo \in Seq(StepType) /\ tick.todo # <<>>
          /\ \E r \in Rules : Waits(r, Tail(tick.todo))
        BY <1>4, HeadAsks
    <2>2. PICK r \in Rules : Waits(r, Tail(tick.todo))
        BY <2>1
    <2> DEFINE air == Asked(r, tick.late, r \in DOMAIN tick.gone)
               todo == Tail(tick.todo)
    <2>3. tick' = [tick EXCEPT !.todo = todo, !.air = air]
        BY <2>2 DEF Waits
    <2>4. \A i \in DOMAIN todo : \E j \in DOMAIN tick.todo : todo[i] = tick.todo[j]
        <3>1. \A i \in DOMAIN todo : i + 1 \in DOMAIN tick.todo /\ todo[i] = tick.todo[i + 1]
            BY <2>1
        <3> QED BY <3>1
    <2> HIDE DEF air, todo
    <2>5. tick'.todo = todo
        BY <1>0, <2>3 DEF TickType
    <2> QED BY <1>0, <2>4, <2>5, PlanNow
<1>5. CASE Collects
    <2>1. PICK A, B, S, F, plan : Finds(A, B, S, F, plan)
        BY <1>5, CollectsFinds
    <2>2. tick'.todo = plan
        <3>1. CASE Reads(plan)
            BY <1>0, <3>1 DEF Reads, TickType
        <3>2. CASE \E r \in S : ReadsAndWaits(r, plan)
            <4>1. PICK r \in S : ReadsAndWaits(r, plan)
                BY <3>2
            <4> DEFINE air == Asked(r, tick.late, FALSE)
            <4>2. tick' = [tick EXCEPT !.todo = plan, !.gone = <<>>, !.air = air]
                BY <4>1 DEF ReadsAndWaits
            <4> HIDE DEF air
            <4> QED BY <1>0, <4>2 DEF TickType
        <3> QED BY <2>1, <3>1, <3>2, Zenon DEF Finds
    <2>3. plan = IF F = {} THEN <<>> ELSE <<BoardsStep(Among(F))>>
        BY <2>1, Zenon DEF Finds
    <2>4. \A i \in DOMAIN plan : plan[i].do = "boards"
        <3>1. BoardsStep(Among(F)).do = "boards"
            BY DEF BoardsStep
        <3> DEFINE s == BoardsStep(Among(F))
        <3> HIDE DEF s
        <3>2. plan = <<>> \/ plan = <<s>>
            BY <2>3 DEF s
        <3> QED BY <3>1, <3>2 DEF s
    <2> QED BY <2>2, <2>4 DEF ShowPlanned
<1> QED BY <1>1, <1>2, <1>3, <1>4, <1>5 DEF TickRuns

LEMMA HumanKeptByTime ==
    ASSUME SchedulerInv, HumanInv, Passing
    PROVE  HumanInv'
<1> SUFFICES ASSUME human' PROVE HumanInv'
    BY DEF HumanInv
<1>1. human /\ page' # None
    BY Zenon DEF Passing
<1>2. TimePasses /\ TickOK /\ page \in PageType
    BY <1>1 DEF Passing, SchedulerInv, HumanInv, ScreenOK
<1>3. page'.by = "others" /\ page'.left > 0
    <2> DEFINE left == page.left - 1
    <2>1. page' = [page EXCEPT !.left = left] /\ page.left > 1
        <3>1. page' = IF page = None \/ page.left <= 1 THEN None
                      ELSE [page EXCEPT !.left = left]
            BY <1>2 DEF TimePasses
        <3>2. ~(page = None \/ page.left <= 1)
            BY <1>1, <3>1
        <3>3. page.left \in Nat
            BY <1>2 DEF PageType
        <3> HIDE DEF left
        <3> QED BY <3>1, <3>2, <3>3
    <2>2. left > 0
        BY <1>2, <2>1 DEF PageType
    <2> HIDE DEF left
    <2> QED BY <1>1, <1>2, <2>1, <2>2 DEF PageType, HumanInv
<1>4. activeAiring' = None
    BY <1>1, <1>2 DEF TimePasses, HumanInv
<1>5. \A w \in Waiters :
         AirOf(w)' # None /\ ~Board(AirOf(w)'.rule) => AirOf(w)'.stage = "asked"
    BY <1>1, <1>2, TickAirAges DEF HumanInv
<1>6. ~ShowPlanned(tick')
    BY <1>1, <1>2, TickAirAges DEF HumanInv, ShowPlanned
<1> QED BY <1>1, <1>3, <1>4, <1>5, <1>6 DEF HumanInv

LEMMA HumanKeptByAirings ==
    ASSUME SchedulerInv, HumanInv, Airing
    PROVE  HumanInv'
<1> SUFFICES ASSUME human' PROVE HumanInv'
    BY DEF HumanInv
<1>1. PICK w \in Waiters : Airs(w)
    BY DEF Airing
<1>2. human /\ page' = page /\ TickOK
    BY <1>1, Zenon DEF Airs, SchedulerInv
<1>3. AirSends(w) \/ AirAnswers(w) \/ AirCleansUp(w) \/ AirCloses(w)
    BY <1>1, Zenon DEF Airs
<1>4. page.by = "others" /\ AirOf(w) # None
    BY <1>2, <1>3, AirsMove DEF HumanInv
<1>5. AirOf(w) # None /\ ~Board(AirOf(w).rule) => AirOf(w).stage = "asked"
    BY <1>2 DEF HumanInv
<1>6. Board(AirOf(w).rule)
    <2> SUFFICES ASSUME ~Board(AirOf(w).rule) PROVE FALSE
        OBVIOUS
    <2>1. AirOf(w).stage = "asked"
        BY <1>4, <1>5
    <2> QED BY <1>2, <1>3, <1>4, <2>1, AirsMove
<1>7. activeAiring' = None
    <2>1. activeAiring' = activeAiring
        BY <1>2, <1>3, <1>6, AirsMove DEF Booked
    <2> QED BY <1>2, <2>1 DEF HumanInv
<1>8. ASSUME NEW v \in Waiters, AirOf(v)' # None, ~Board(AirOf(v)'.rule)
      PROVE  AirOf(v)'.stage = "asked"
    <2>1. v # w
        BY <1>2, <1>3, <1>6, <1>8, AirsMove
    <2>2. AirOf(v)' = AirOf(v)
        <3>1. w = "tick" => airNow' = airNow
            BY <1>2, <1>3, AirsMove
        <3>2. w # "tick" => tick' = tick
            BY <1>2, <1>3, AirsMove
        <3> QED BY <2>1, <3>1, <3>2 DEF Waiters, AirOf
    <2> QED BY <1>2, <1>8, <2>2 DEF HumanInv
<1>9. ~ShowPlanned(tick')
    <2>1. tick'.todo = tick.todo
        BY <1>2, <1>3, AirsMove
    <2> QED BY <1>2, <2>1 DEF HumanInv, ShowPlanned
<1> QED BY <1>2, <1>7, <1>8, <1>9 DEF HumanInv

LEMMA HumanKeptByMoves ==
    ASSUME SchedulerInv, HumanInv, Moving
    PROVE  HumanInv'
<1> SUFFICES ASSUME human' PROVE HumanInv'
    BY DEF HumanInv
<1>0. TickOK /\ ScreenOK
    BY DEF SchedulerInv
<1>1. CASE \E w \in Waiters : Failing(w)
    <2>1. PICK w \in Waiters : AirFails(w) /\ UNCHANGED human
        BY <1>1 DEF Failing
    <2>2. AirOf(w) # None /\ Answered(w) /\ UNCHANGED <<page, activeAiring>>
        BY <2>1 DEF AirFails, IsWaiting
    <2>3. /\ tick'.todo = tick.todo
          /\ \A v \in Waiters : AirOf(v)' = None \/ AirOf(v)' = AirOf(v)
        <3>1. CASE w = "tick"
            <4> DEFINE late == tick.air.late
            <4>1. tick' = [tick EXCEPT !.air = None, !.late = late] /\ airNow' = airNow
                BY <2>2, <3>1 DEF Answered
            <4> HIDE DEF late
            <4>2. tick'.todo = tick.todo /\ tick'.air = None
                BY <1>0, <4>1 DEF TickOK, TickType
            <4> QED BY <4>1, <4>2 DEF AirOf
        <3>2. CASE w # "tick"
            BY <2>2, <3>2 DEF Answered, AirOf
        <3> QED BY <3>1, <3>2
    <2>4. \A v \in Waiters :
             AirOf(v)' # None /\ ~Board(AirOf(v)'.rule) => AirOf(v)'.stage = "asked"
        BY <2>1, <2>3 DEF HumanInv
    <2> QED BY <2>1, <2>2, <2>3, <2>4 DEF HumanInv, ShowPlanned
<1>2. CASE \E r \in Rules : Touching(r)
    <2>1. PICK r \in Rules : Touching(r)
        BY <1>2
    <2>2. human /\ UNCHANGED <<page, activeAiring>>
        BY <2>1 DEF Touching, PressAirNow, Reset, Remove, Add, Edit
    <2>3. /\ tick'.todo = tick.todo
          /\ \A v \in Waiters : AirOf(v)' # None /\ ~Board(AirOf(v)'.rule)
                                 => AirOf(v)'.stage = "asked"
        <3>1. CASE Replaced(r)
            BY <1>0, <2>2, <3>1, ReplacedMoves DEF HumanInv
        <3>2. CASE PressAirNow(r)
            <4>1. tick' = tick /\ airNow' = Asked(r, 0, FALSE)
                BY <3>2 DEF PressAirNow
            <4>2. airNow'.stage = "asked"
                BY <4>1 DEF Asked
            <4> QED BY <2>2, <4>1, <4>2 DEF HumanInv, AirOf
        <3>3. CASE UNCHANGED <<tick, airNow>>
            BY <2>2, <3>3 DEF HumanInv, AirOf
        <3> QED BY <2>1, <3>1, <3>2, <3>3 DEF Touching, Reset, Remove, Add, Edit
    <2> QED BY <2>2, <2>3 DEF HumanInv, ShowPlanned
<1>3. CASE Pushing
    <2>1. /\ \E p \in Pages \cup {page} : ManualPush(p)
          /\ page' # page /\ ~DisplayInFlight
        BY <1>3, Zenon DEF Pushing
    <2>2. PICK p \in Pages \cup {page} : ManualPush(p)
        BY <2>1
    <2>3. /\ p \in Pages /\ page' = p /\ activeAiring' = None /\ ~Running
          /\ UNCHANGED <<tick, airNow>>
        BY <2>1, <2>2 DEF ManualPush, Interrupts
    <2>4. page' # None /\ page'.by = "others" /\ page'.left > 0
        <3>1. PICK t \in PageTimes : page' = [by |-> "others", left |-> t]
            BY <2>3 DEF Pages
        <3>2. t \in Nat \ {0}
            BY SchedulerAssumption
        <3>3. page' \in PageType
            BY <3>1, <3>2 DEF PageType
        <3> QED BY <3>1, <3>2, <3>3, NoneAssumption
    <2>5. \A w \in Waiters : AirOf(w) # None => Board(AirOf(w).rule)
        <3> SUFFICES ASSUME NEW w \in Waiters, AirOf(w) # None PROVE Board(AirOf(w).rule)
            OBVIOUS
        <3>1. AirOf(w).rule \in Rules
            BY <1>0, AirTyped
        <3> QED BY <2>1, <3>1 DEF DisplayInFlight, InFlight
    <2>6. \A w \in Waiters : AirOf(w)' = AirOf(w)
        BY <2>3 DEF AirOf
    <2>7. ~ShowPlanned(tick)
        <3>1. CASE tick.air # None
            BY <1>0, <3>1 DEF TickOK, PlanOK, DisplayFirst, ShowPlanned
        <3>2. CASE ~tick.on
            <4>1. tick.todo = <<>>
                BY <1>0, <3>2, IdleIsOK DEF TickOK
            <4> QED BY <4>1 DEF ShowPlanned
        <3> QED BY <2>3, <3>1, <3>2 DEF Running
    <2> QED BY <2>3, <2>4, <2>5, <2>6, <2>7 DEF HumanInv, ShowPlanned
<1>4. CASE Pausing
    <2>1. human /\ UNCHANGED <<page, tick, airNow>>
          /\ (activeAiring' = None \/ activeAiring' = activeAiring)
        BY <1>4 DEF Pausing, Pause, Resume, Interrupts
    <2> QED BY <2>1 DEF HumanInv, ShowPlanned, AirOf
<1>5. CASE Turning
    <2>1. human /\ UNCHANGED <<page, tick, airNow, activeAiring>>
        BY <1>5 DEF Turning, Midnight, EnvChanges
    <2> QED BY <2>1 DEF HumanInv, ShowPlanned, AirOf
<1>6. CASE Restarting
    BY <1>6 DEF Restarting
<1> QED BY <1>1, <1>2, <1>3, <1>4, <1>5, <1>6 DEF Moving

LEMMA HumanInvKept ==
    SchedulerInv /\ HumanInv /\ [MCNext]_mcvars => HumanInv'
<1>1. ASSUME SchedulerInv, HumanInv, Ticks PROVE HumanInv'
    <2> SUFFICES ASSUME human' PROVE HumanInv'
        BY DEF HumanInv
    <2>1. human /\ TickRuns
        BY <1>1 DEF Ticks
    <2>2. UNCHANGED <<activeAiring, airNow, page>>
          /\ (tick'.air = None \/ tick'.air.stage = "asked")
        BY <1>1, <2>1, TicksMove
    <2>3. ~ShowPlanned(tick')
        BY <1>1, <2>1, HumanKeptByTicks
    <2> QED BY <1>1, <2>1, <2>2, <2>3 DEF HumanInv, AirOf
<1>2. ASSUME SchedulerInv, HumanInv, MCNext PROVE HumanInv'
    BY <1>1, <1>2, HumanKeptByAirings, HumanKeptByTime, HumanKeptByMoves DEF MCNext
<1>3. ASSUME HumanInv, UNCHANGED mcvars PROVE HumanInv'
    BY <1>3 DEF HumanInv, ShowPlanned, AirOf, mcvars, scheduler
<1> QED BY <1>2, <1>3

LEMMA HumanStep ==
    ASSUME SchedulerInv, HumanInv, [MCNext]_mcvars
    PROVE  \A r \in Rules : Asks(r) /\ ~Board(r) => ~human
<1> SUFFICES ASSUME NEW r \in Rules, Asks(r), ~Board(r), human PROVE FALSE
    OBVIOUS
<1>1. tick.air = None /\ tick'.air # None /\ tick'.air.rule = r
    BY DEF Asks
<1>2. TickRuns
    BY <1>1, OnlyTicksAsk
<1>3. \/ tick.todo[1].do = "fixed" /\ 1 \in DOMAIN tick.todo /\ r \in Members(tick.todo[1].rules)
      \/ ~Blocked(tick.late)
    BY <1>1, <1>2, TicksMove
<1>4. IsBusy /\ ~ShowPlanned(tick)
    BY DEF HumanInv, IsBusy
<1> QED BY <1>3, <1>4 DEF ShowPlanned, Blocked

(* For any rules and settings: no rule, not even one with a fixed time, is *)
(* aired over a page that somebody pushed when nothing was on its way to   *)
(* the display.                                                            *)
THEOREM HumanPagesStay == MCSpec => HumanPageStays
<1>1. MCInit => SchedulerInv /\ HumanInv
    <2>1. MCInit => HumanInv
        BY DEF MCInit, HumanInv
    <2> QED BY <2>1, HouseSteps, SchedulerInvBegins
<1>2. SchedulerInv /\ HumanInv /\ [MCNext]_mcvars => SchedulerInv' /\ HumanInv'
    BY HouseKeepsScheduler, HumanInvKept
<1>3. SchedulerInv /\ HumanInv /\ [MCNext]_mcvars
      => [\A r \in Rules : Asks(r) /\ ~Board(r) => ~human]_mcvars
    BY HumanStep
<1> QED BY <1>1, <1>2, <1>3, PTL DEF MCSpec, HumanPageStays


-----------------------------------------------------------------------------
(* Rest.                                                                   *)

(* Of a rule with n to rest: it is listed and the tick has no plan for it; *)
(* it is not due before that, or it is the one that is airing, and then its*)
(* next time, reckoned from the end of its page, will not be before that.  *)
RestOK(r, n, x, L, t) ==
    n > 0 =>
        /\ r \in L
        /\ \A i \in DOMAIN t.todo : r \notin Members(t.todo[i].rules)
        /\ t.air = None \/ t.air.rule # r => ~x.pending /\ n <= x.due
        /\ t.air # None /\ t.air.rule = r =>
              /\ ~t.air.lost
              /\ IF Terms[r].fixed
                 THEN /\ n <= x.slot
                      /\ x.slot - (Terms[r].planned - t.air.late) <= Terms[r].interval
                 ELSE n <= Terms[r].planned - t.air.late + Terms[r].interval

(* No tick waits longer for what airs before it than its page lasts, if it *)
(* is a fixed rule of the boards.                                          *)
OutlastsWaits(r) == Terms[r].fixed /\ Board(r) => MaxWait <= Terms[r].planned

RestInv ==
    /\ rest \in [Rules -> Nat]
    /\ \A r \in Rules : OutlastsWaits(r) => RestOK(r, rest[r], rule[r], Listed, tick)

(* What does not concern a rule leaves it what rest it has,                *)
LEMMA RestSame ==
    ASSUME NEW r, NEW n, NEW x, NEW y, NEW L, NEW M, NEW t, NEW u, RestOK(r, n, x, L, t),
           y.pending = x.pending, y.due = x.due, y.slot = x.slot, r \in L => r \in M,
           u.todo = t.todo, u.air = None <=> t.air = None,
           t.air # None => /\ u.air.rule = t.air.rule /\ u.air.late = t.air.late
                           /\ t.air.rule = r => u.air.lost = t.air.lost
    PROVE  RestOK(r, n, y, M, u)
BY DEF RestOK

(* and while it is not on the air what becomes of the tick does neither.   *)
LEMMA RestApart ==
    ASSUME NEW r, NEW n, NEW x, NEW y, NEW L, NEW M, NEW t, NEW u, RestOK(r, n, x, L, t),
           y.pending = x.pending, y.due = x.due, r \in L => r \in M,
           t.air = None \/ t.air.rule # r, u.air = None \/ u.air.rule # r,
           \A i \in DOMAIN u.todo : r \in Members(u.todo[i].rules) =>
               \E j \in DOMAIN t.todo : r \in Members(t.todo[j].rules)
    PROVE  RestOK(r, n, y, M, u)
BY DEF RestOK

(* A rule with which the tick waits next.                                  *)
LEMMA RestAsked ==
    ASSUME NEW r \in Rules, OutlastsWaits(r), RuleOK(r, rule[r]), tick.late \in 0..MaxWait,
           Terms[r].fixed /\ ~Board(r) => tick.late = 0,
           NEW u, u.air # None, u.air.rule = r, u.air.late = tick.late,
           ~u.air.lost => /\ r \in Listed
                          /\ \A i \in DOMAIN u.todo : r \notin Members(u.todo[i].rules),
           NEW n, n = IF u.air.lost THEN 0
                      ELSE IF Terms[r].fixed THEN rule[r].slot
                      ELSE AtLeast0(Terms[r].planned - u.air.late + Terms[r].interval)
    PROVE  n \in Nat /\ RestOK(r, n, rule[r], Listed, u)
<1>0. /\ rule[r].slot \in Nat /\ rule[r].slot <= Terms[r].interval
      /\ Terms[r].interval \in Nat /\ Terms[r].planned \in Nat \ {0}
      /\ tick.late \in Nat /\ tick.late <= MaxWait /\ MaxWait \in Nat
    BY SettingsTyped DEF RuleOK
<1>1. CASE u.air.lost
    BY <1>1 DEF RestOK
<1>2. CASE ~u.air.lost /\ Terms[r].fixed
    <2>1. tick.late <= Terms[r].planned
        BY <1>0, <1>2 DEF OutlastsWaits
    <2>2. n = rule[r].slot
        BY <1>2
    <2>3. rule[r].slot - (Terms[r].planned - tick.late) <= Terms[r].interval
        BY <1>0, <2>1
    <2>4. rule[r].slot - (Terms[r].planned - u.air.late) <= Terms[r].interval
        BY <2>3
    <2>5. n \in Nat /\ n <= rule[r].slot
        BY <1>0, <2>2
    <2> QED BY <1>2, <2>4, <2>5 DEF RestOK
<1>3. CASE ~u.air.lost /\ ~Terms[r].fixed
    <2> DEFINE m == Terms[r].planned - tick.late + Terms[r].interval
    <2>1. m \in Int /\ n = AtLeast0(m) /\ m = Terms[r].planned - u.air.late + Terms[r].interval
        BY <1>0, <1>3
    <2> HIDE DEF m
    <2>2. n \in Nat /\ (n > 0 => n <= m)
        BY <2>1, AtLeast0Type
    <2> QED BY <1>3, <2>1, <2>2 DEF RestOK
<1> QED BY <1>1, <1>2, <1>3

(* What the rest of a rule is after a tick went on.                        *)
LEMMA RestNow ==
    ASSUME Ticks, NEW r \in Rules
    PROVE  rest'[r] = IF ~Asks(r) THEN rest[r]
                      ELSE IF tick'.air.lost THEN 0
                      ELSE IF Terms[r].fixed THEN rule[r].slot
                      ELSE AtLeast0(Terms[r].planned - tick'.air.late + Terms[r].interval)
BY Zenon DEF Ticks, Ends

LEMMA RestKeptByStart ==
    ASSUME SchedulerInv, RestInv, Ticks, TickBegins, NEW r \in Rules, OutlastsWaits(r)
    PROVE  rest'[r] = rest[r] /\ RestOK(r, rest[r], rule'[r], Listed', tick')
<1>0. /\ rest[r] \in Nat /\ RestOK(r, rest[r], rule[r], Listed, tick) /\ TickOK
      /\ Listed \subseteq Rules /\ rule[r].due \in Int
    BY ListedAreRules DEF RestInv, SchedulerInv, RulesOK, RuleOK, RuleType, ListOK
<1>1. tick.air = None /\ Listed' = Listed
    BY <1>0, TickBeginsSo, TickIsOn DEF TickOK, Listed
<1>2. PICK M, a, b, c : Begins(M, a, b, c)
    BY TickBeginsSo
<1> DEFINE L == {q \in Listed : rule[q].due <= 0}
           p == a \o b \o c
<1>3. /\ a = <<>> \/ \E q \in L : Terms[q].fixed /\ ~Board(q) /\ a = <<FixedStep(q)>>
      /\ b = <<>> \/ \E q \in L : Terms[q].fixed /\ Board(q) /\ b = <<FixedStep(q)>>
      /\ c = <<>> \/ c = <<CadenceStep>>
    BY <1>2, Zenon DEF Begins
<1>4. /\ tick' = [Idle EXCEPT !.on = TRUE, !.todo = p]
      /\ \A q \in M : rule[q].due <= 0
      /\ rule'[r] = IF r \in M THEN Advance(r, rule[r], 0) ELSE rule[r]
    BY <1>2, Zenon DEF Begins
<1> HIDE DEF p
<1>5. tick'.todo = p /\ tick'.air = None /\ tick'.late = 0 /\ tick'.gone = <<>>
    BY <1>4, IdleIsOK DEF TickType
<1>6. L \subseteq Rules
    BY <1>0
<1>7. PlanOK(tick', L)
    <2> HIDE DEF L
    <2>1. tick'.todo = a \o b \o c
        BY <1>5 DEF p
    <2> QED BY <1>3, <1>5, <1>6, <2>1, PlanBegins
<1>8. \A i \in DOMAIN tick'.todo : Members(tick'.todo[i].rules) \subseteq L
    <2>1. DOMAIN tick'.gone = {}
        BY <1>5
    <2> HIDE DEF L
    <2> QED BY <1>7, <2>1 DEF PlanOK
<1>9. rest'[r] = rest[r]
    BY <1>5, RestNow DEF Asks
<1>10. CASE rest[r] = 0
    BY <1>10, <1>9 DEF RestOK
<1>11. CASE rest[r] > 0
    <2>1. rest[r] <= rule[r].due
        BY <1>0, <1>1, <1>11 DEF RestOK
    <2>2. rule[r].due > 0
        BY <1>0, <1>11, <2>1
    <2>3. r \notin M /\ r \notin L
        BY <1>0, <1>4, <2>2
    <2>4. rule'[r] = rule[r]
        BY <1>4, <2>3
    <2>5. \A i \in DOMAIN tick'.todo : r \notin Members(tick'.todo[i].rules)
        BY <1>8, <2>3
    <2> QED BY <1>0, <1>1, <1>5, <1>9, <2>4, <2>5, RestApart
<1> QED BY <1>0, <1>10, <1>11

LEMMA RestKeptByHead ==
    ASSUME SchedulerInv, RestInv, Ticks, AirsFixed \/ AirsOnBoards, NEW r \in Rules,
           OutlastsWaits(r)
    PROVE  rest'[r] \in Nat /\ RestOK(r, rest'[r], rule'[r], Listed', tick')
<1>0. /\ rest[r] \in Nat /\ RestOK(r, rest[r], rule[r], Listed, tick) /\ TickOK
      /\ tick \in TickType /\ PlanOK(tick, Listed) /\ RuleOK(r, rule[r])
    BY DEF RestInv, SchedulerInv, TickOK, RulesOK
<1>1. /\ tick.air = None /\ tick.todo # <<>> /\ tick.todo \in Seq(StepType)
      /\ 1 \in DOMAIN tick.todo /\ rule' = rule /\ Listed' = Listed
    BY HeadAsks DEF Listed
<1>2. PICK q \in Rules : /\ Waits(q, Tail(tick.todo)) /\ q \in Members(tick.todo[1].rules)
                         /\ \/ Terms[q].fixed /\ tick.todo[1].do = "fixed"
                            \/ ~Terms[q].fixed /\ Board(q)
    BY HeadAsks
<1> DEFINE lost == q \in DOMAIN tick.gone
           air == Asked(q, tick.late, lost)
           todo == Tail(tick.todo)
<1>3. tick' = [tick EXCEPT !.todo = todo, !.air = air]
    BY <1>2 DEF Waits
<1>4. /\ air \in AiringType /\ air.rule = q /\ air.late = tick.late /\ air.lost = lost
      /\ tick.late \in 0..MaxWait
    BY <1>0, TickTyped DEF Asked, AiringType
<1>5. \A i \in DOMAIN todo : i \in Nat /\ i + 1 # 1 /\ i + 1 \in DOMAIN tick.todo
                             /\ todo[i] = tick.todo[i + 1]
    BY <1>1
<1> HIDE DEF air, todo
<1>6. tick'.air = air /\ tick'.todo = todo
    BY <1>0, <1>3 DEF TickType
<1>7. air # None
    BY <1>4, NoneAssumption
<1>8. CASE r # q
    <2>1. ~Asks(r)
        BY <1>4, <1>6, <1>8 DEF Asks
    <2>2. rest'[r] = rest[r]
        BY <2>1, RestNow
    <2>3. \A i \in DOMAIN tick'.todo : r \in Members(tick'.todo[i].rules) =>
               \E j \in DOMAIN tick.todo : r \in Members(tick.todo[j].rules)
        BY <1>5, <1>6
    <2> QED BY <1>0, <1>1, <1>4, <1>6, <1>8, <2>2, <2>3, RestApart
<1>9. CASE r = q
    <2>1. Asks(r)
        BY <1>1, <1>4, <1>6, <1>7, <1>9 DEF Asks
    <2>2. rest'[r] = IF tick'.air.lost THEN 0 ELSE IF Terms[r].fixed THEN rule[r].slot
                     ELSE AtLeast0(Terms[r].planned - tick'.air.late + Terms[r].interval)
        BY <2>1, RestNow
    <2>3. Terms[r].fixed /\ ~Board(r) => tick.late = 0
        BY <1>0, <1>1, <1>2, <1>9 DEF PlanOK, DisplayFirst
    <2>4. ~tick'.air.lost => /\ r \in Listed
                             /\ \A i \in DOMAIN tick'.todo : r \notin Members(tick'.todo[i].rules)
        <3>1. ASSUME ~lost PROVE r \in Listed
            BY <1>0, <1>1, <1>2, <1>9, <3>1 DEF PlanOK
        <3>2. ASSUME NEW i \in DOMAIN todo PROVE r \notin Members(todo[i].rules)
            <4>1. /\ i + 1 # 1 /\ i + 1 \in DOMAIN tick.todo /\ todo[i] = tick.todo[i + 1]
                BY <1>5
            <4>2. Members(tick.todo[i + 1].rules) \cap Members(tick.todo[1].rules) = {}
                BY <1>0, <1>1, <4>1 DEF PlanOK
            <4> QED BY <1>2, <1>9, <4>1, <4>2
        <3> QED BY <1>4, <1>6, <3>1, <3>2
    <2>5. tick'.air # None /\ tick'.air.rule = r /\ tick'.air.late = tick.late
        BY <1>4, <1>6, <1>7, <1>9
    <2>6. rest'[r] \in Nat /\ RestOK(r, rest'[r], rule[r], Listed, tick')
        BY <1>0, <1>4, <2>2, <2>3, <2>4, <2>5, RestAsked
    <2> QED BY <1>1, <2>6
<1> QED BY <1>8, <1>9

LEMMA RestKeptByCadence ==
    ASSUME SchedulerInv, RestInv, Ticks, Collects, NEW r \in Rules, OutlastsWaits(r)
    PROVE  rest'[r] \in Nat /\ RestOK(r, rest'[r], rule'[r], Listed', tick')
<1>0. /\ rest[r] \in Nat /\ RestOK(r, rest[r], rule[r], Listed, tick) /\ TickOK
      /\ tick \in TickType /\ RuleOK(r, rule[r]) /\ rule[r].due \in Int /\ tick.late \in Nat
      /\ tick.late \in 0..MaxWait /\ listed \in Seq(Rules)
    BY TickTyped DEF RestInv, SchedulerInv, TickOK, RulesOK, RuleOK, RuleType, ListOK
<1>1. tick.air = None /\ Listed' = Listed
    BY CollectsFinds DEF Listed
<1>2. PICK A, B, S, F, plan : Finds(A, B, S, F, plan)
    BY CollectsFinds
<1>3. /\ A \subseteq S \cup F
      /\ \A q \in S \cup F : q \in Listed /\ ~Terms[q].fixed
      /\ \A q \in A \cup B \cup S \cup F : rule[q].pending \/ rule[q].due + tick.late <= 0
      /\ \A q \in S : ~Board(q)
      /\ \A q \in F : Board(q)
      /\ plan = IF F = {} THEN <<>> ELSE <<BoardsStep(Among(F))>>
      /\ Reads(plan) \/ \E q \in S : ReadsAndWaits(q, plan)
    BY <1>2, Zenon DEF Finds
<1>4. /\ r \notin A \cup B => rule'[r] = rule[r]
    <2>1. Turns(A, B, -tick.late)
        BY <1>2, Zenon DEF Finds
    <2> QED BY <2>1, Zenon DEF Turns
<1>5. \A i \in DOMAIN plan : Members(plan[i].rules) \subseteq F
    <2>1. Members(BoardsStep(Among(F)).rules) \subseteq F
        BY <1>0, AmongIsThose DEF BoardsStep
    <2> DEFINE s == BoardsStep(Among(F))
    <2>2. plan = <<>> \/ plan = <<s>>
        BY <1>3
    <2> HIDE DEF s
    <2> QED BY <2>1, <2>2 DEF s
<1>6. tick'.todo = plan
    <2>1. CASE Reads(plan)
        BY <1>0, <2>1 DEF Reads, TickType
    <2>2. CASE \E q \in S : ReadsAndWaits(q, plan)
        <3>1. PICK q \in S : ReadsAndWaits(q, plan)
            BY <2>2
        <3> DEFINE air == Asked(q, tick.late, FALSE)
        <3>2. tick' = [tick EXCEPT !.todo = plan, !.gone = <<>>, !.air = air]
            BY <3>1 DEF ReadsAndWaits
        <3> HIDE DEF air
        <3> QED BY <1>0, <3>2 DEF TickType
    <2> QED BY <1>3, <2>1, <2>2
<1>7. ASSUME rest'[r] = rest[r], tick'.air = None \/ tick'.air.rule # r
      PROVE  RestOK(r, rest'[r], rule'[r], Listed', tick')
    <2>1. CASE rest[r] = 0
        BY <1>7, <2>1 DEF RestOK
    <2>2. CASE rest[r] > 0
        <3>1. ~rule[r].pending /\ rest[r] <= rule[r].due
            BY <1>0, <1>1, <2>2 DEF RestOK
        <3>2. ~(rule[r].due + tick.late <= 0)
            BY <1>0, <2>2, <3>1
        <3>3. r \notin A \cup B \cup S \cup F
            BY <1>3, <3>1, <3>2
        <3>4. \A i \in DOMAIN tick'.todo : r \notin Members(tick'.todo[i].rules)
            BY <1>5, <1>6, <3>3
        <3> QED BY <1>0, <1>1, <1>4, <1>7, <3>3, <3>4, RestApart
    <2> QED BY <1>0, <2>1, <2>2
<1>8. CASE Reads(plan)
    <2>1. tick'.air = None
        BY <1>0, <1>1, <1>8 DEF Reads, TickType
    <2>2. rest'[r] = rest[r]
        BY <2>1, RestNow DEF Asks
    <2> QED BY <1>0, <1>7, <2>1, <2>2
<1>9. CASE \E q \in S : ReadsAndWaits(q, plan)
    <2>1. PICK q \in S : ReadsAndWaits(q, plan)
        BY <1>9
    <2>2. q \in Rules /\ q \in Listed /\ ~Terms[q].fixed /\ ~Board(q)
        BY <1>0, <1>3, ListedAreRules
    <2> DEFINE air == Asked(q, tick.late, FALSE)
    <2>3. tick' = [tick EXCEPT !.todo = plan, !.gone = <<>>, !.air = air]
        BY <2>1 DEF ReadsAndWaits
    <2>4. air \in AiringType /\ air.rule = q /\ air.late = tick.late /\ ~air.lost
        BY <1>0, <2>2 DEF Asked, AiringType
    <2> HIDE DEF air
    <2>5. tick'.air = air /\ air # None
        BY <1>0, <2>3, <2>4, NoneAssumption DEF TickType
    <2>6. CASE r # q
        <3>1. rest'[r] = rest[r]
            BY <2>4, <2>5, <2>6, RestNow DEF Asks
        <3> QED BY <1>0, <1>7, <2>4, <2>5, <2>6, <3>1
    <2>7. CASE r = q
        <3>1. Asks(r)
            BY <1>1, <2>4, <2>5, <2>7 DEF Asks
        <3>2. rest'[r] = IF tick'.air.lost THEN 0 ELSE IF Terms[r].fixed THEN rule[r].slot
                         ELSE AtLeast0(Terms[r].planned - tick'.air.late + Terms[r].interval)
            BY <3>1, RestNow
        <3>3. \A i \in DOMAIN tick'.todo : r \notin Members(tick'.todo[i].rules)
            BY <1>3, <1>5, <1>6, <2>2, <2>7
        <3>5. rest'[r] \in Nat /\ RestOK(r, rest'[r], rule[r], Listed, tick')
            BY <1>0, <2>2, <2>4, <2>5, <2>7, <3>2, <3>3, RestAsked
        <3>6. RestOK(r, rest'[r], rule'[r], Listed, tick')
            BY <2>2, <2>4, <2>5, <2>7, <3>5 DEF RestOK
        <3> QED BY <1>1, <3>5, <3>6
    <2> QED BY <2>6, <2>7
<1> QED BY <1>3, <1>8, <1>9

LEMMA RestKeptByTicks ==
    ASSUME SchedulerInv, RestInv, Ticks
    PROVE  RestInv'
<1>0. TickOK /\ rest' = [r \in Rules |-> rest'[r]] /\ rest \in [Rules -> Nat]
    BY Zenon DEF SchedulerInv, Ticks, RestInv
<1> SUFFICES ASSUME NEW r \in Rules
             PROVE  /\ rest'[r] \in Nat
                    /\ OutlastsWaits(r) => RestOK(r, rest'[r], rule'[r], Listed', tick')
    BY <1>0 DEF RestInv
<1>1. rest'[r] \in Nat
    <2>1. CASE ~Asks(r)
        BY <1>0, <2>1, RestNow
    <2>2. CASE Asks(r)
        <3>1. rule[r].slot \in Nat
            BY DEF SchedulerInv, RulesOK, RuleType
        <3>2. tick'.air.late \in Nat
            BY <2>2, TicksMove DEF Ticks, Asks
        <3> DEFINE m == Terms[r].planned - tick'.air.late + Terms[r].interval
        <3>3. m \in Int
            BY <3>2, SettingsTyped
        <3> HIDE DEF m
        <3>4. AtLeast0(m) \in Nat
            BY <3>3, AtLeast0Type
        <3> QED BY <2>2, <3>1, <3>4, RestNow DEF m
    <2> QED BY <2>1, <2>2
<1> SUFFICES ASSUME OutlastsWaits(r) PROVE RestOK(r, rest'[r], rule'[r], Listed', tick')
    BY <1>1
<1>2. RestOK(r, rest[r], rule[r], Listed, tick)
    BY DEF RestInv
<1>3. CASE TickBegins
    BY <1>3, RestKeptByStart
<1>4. CASE TickPaused
    <2>1. UNCHANGED <<tick, rule>> /\ Listed' = Listed
        BY <1>4 DEF TickPaused, Listed
    <2>2. rest'[r] = rest[r]
        BY <2>1, RestNow DEF Asks
    <2> QED BY <1>2, <2>1, <2>2
<1>5. CASE TickEnds
    <2>1. tick' = Idle /\ rule' = rule /\ Listed' = Listed /\ tick.air = None
        BY <1>5 DEF TickEnds, Running, Listed
    <2>2. tick'.todo = <<>> /\ tick'.air = None
        BY <2>1, IdleIsOK
    <2>3. rest'[r] = rest[r]
        BY <2>2, RestNow DEF Asks
    <2>4. \A i \in DOMAIN tick'.todo : r \in Members(tick'.todo[i].rules) =>
               \E j \in DOMAIN tick.todo : r \in Members(tick.todo[j].rules)
        BY <2>2
    <2> QED BY <1>2, <2>1, <2>2, <2>3, <2>4, RestApart
<1>6. CASE AirsFixed \/ AirsOnBoards
    BY <1>6, RestKeptByHead
<1>7. CASE Collects
    BY <1>7, RestKeptByCadence
<1> QED BY <1>3, <1>4, <1>5, <1>6, <1>7 DEF Ticks, TickRuns


LEMMA RestKeptByTime ==
    ASSUME SchedulerInv, RestInv, Passing
    PROVE  RestInv'
<1>0. TickOK /\ TimePasses /\ rest \in [Rules -> Nat] /\ Listed' = Listed
    BY DEF SchedulerInv, Passing, RestInv, TimePasses, Listed
<1>1. rest' = [r \in Rules |-> AtLeast0(rest[r] - 1)]
    BY DEF Passing
<1>2. \A r \in Rules : rest[r] \in Nat /\ rest[r] - 1 \in Int
    BY <1>0
<1>3. rest' \in [Rules -> Nat]
    BY <1>1, <1>2, AtLeast0Type
<1> SUFFICES ASSUME NEW r \in Rules, OutlastsWaits(r)
             PROVE  RestOK(r, rest'[r], rule'[r], Listed, tick')
    BY <1>0, <1>3 DEF RestInv
<1> DEFINE n == rest[r]
           m == rest'[r]
           x == rule[r]
           y == rule'[r]
<1>4. n \in Nat /\ m \in Nat /\ (m > 0 => m = n - 1 /\ n > 0)
    BY <1>0, <1>1 DEF AtLeast0
<1>5. RestOK(r, n, x, Listed, tick) /\ RuleOK(r, x)
    BY DEF RestInv, SchedulerInv, RulesOK
<1>6. CASE m = 0
    BY <1>6 DEF RestOK
<1>7. CASE m > 0
    <2>1. r \in Listed /\ m = n - 1 /\ n > 0
        BY <1>4, <1>5, <1>7 DEF RestOK
    <2>2. y = Aged(r, x)
        BY <1>0, <2>1 DEF TimePasses
    <2>3. /\ y.pending = x.pending /\ y.due >= x.due - 1
          /\ Terms[r].fixed => y.slot = IF x.slot = 1 THEN Terms[r].interval ELSE x.slot - 1
        BY <1>5, <2>2, AgedKeeps
    <2>4. y.due \in Int /\ x.due \in Int /\ x.slot \in Nat
        <3>1. RuleOK(r, y)
            BY <1>5, <2>2, AgedKeeps
        <3> QED BY <1>5, <3>1 DEF RuleOK, RuleType
    <2>5. /\ tick'.todo = tick.todo
          /\ tick'.air = None <=> tick.air = None
          /\ tick.air # None => /\ tick'.air.rule = tick.air.rule
                                /\ tick'.air.late = tick.air.late + 1
                                /\ tick'.air.lost = tick.air.lost
        <3>1. "tick" \in Waiters /\ AirOf("tick") = tick.air /\ AirOf("tick")' = tick'.air
            BY DEF Waiters, AirOf
        <3> QED BY <1>0, <3>1, TickAirAges
    <2>6. CASE tick.air = None \/ tick.air.rule # r
        <3>1. ~x.pending /\ n <= x.due
            BY <1>5, <2>1, <2>6 DEF RestOK
        <3>2. m <= y.due
            BY <1>4, <2>1, <2>3, <2>4, <3>1
        <3>3. ~y.pending
            BY <2>3, <3>1
        <3>4. tick'.air = None \/ tick'.air.rule # r
            BY <2>5, <2>6
        <3>5. \A i \in DOMAIN tick'.todo : r \notin Members(tick'.todo[i].rules)
            BY <1>5, <2>1, <2>5 DEF RestOK
        <3> HIDE DEF m, n, x, y
        <3> QED BY <2>1, <3>2, <3>3, <3>4, <3>5 DEF RestOK, m, y
    <2>7. CASE tick.air # None /\ tick.air.rule = r
        <3>1. /\ ~tick.air.lost
              /\ IF Terms[r].fixed
                 THEN n <= x.slot /\ x.slot - (Terms[r].planned - tick.air.late) <= Terms[r].interval
                 ELSE n <= Terms[r].planned - tick.air.late + Terms[r].interval
            BY <1>5, <2>1, <2>7 DEF RestOK
        <3>2. tick'.air # None /\ tick'.air.rule = r /\ ~tick'.air.lost
            BY <2>5, <2>7, <3>1
        <3>3. /\ tick.air.late \in Int /\ Terms[r].planned \in Int /\ Terms[r].interval \in Nat
            <4>1. tick.air.late \in Nat
                BY <1>0, <2>7, TickTyped DEF AiringType
            <4> QED BY <4>1, SettingsTyped
        <3>4. CASE Terms[r].fixed
            <4>1. n <= x.slot /\ x.slot - (Terms[r].planned - tick.air.late) <= Terms[r].interval
                BY <3>1, <3>4
            <4>2. x.slot # 1
                BY <1>4, <1>7, <2>1, <4>1
            <4>3. y.slot = x.slot - 1
                BY <2>3, <3>4, <4>2
            <4>4. m <= y.slot
                BY <1>4, <2>1, <2>4, <4>1, <4>3
            <4> DEFINE l == tick'.air.late
            <4>5. l = tick.air.late + 1
                BY <2>5, <2>7
            <4> HIDE DEF l
            <4>6. y.slot - (Terms[r].planned - l) <= Terms[r].interval
                BY <2>4, <3>3, <4>1, <4>3, <4>5
            <4>7. \A i \in DOMAIN tick'.todo : r \notin Members(tick'.todo[i].rules)
                BY <1>5, <2>1, <2>5 DEF RestOK
            <4> HIDE DEF m, n, x, y
            <4> QED BY <2>1, <3>2, <3>4, <4>4, <4>6, <4>7 DEF RestOK, m, y, l
        <3>5. CASE ~Terms[r].fixed
            <4> DEFINE l == tick'.air.late
            <4>1. n <= Terms[r].planned - tick.air.late + Terms[r].interval
                BY <3>1, <3>5
            <4>2. l = tick.air.late + 1
                BY <2>5, <2>7
            <4> HIDE DEF l
            <4>3. m <= Terms[r].planned - l + Terms[r].interval
                BY <1>4, <2>1, <3>3, <4>1, <4>2
            <4>4. \A i \in DOMAIN tick'.todo : r \notin Members(tick'.todo[i].rules)
                BY <1>5, <2>1, <2>5 DEF RestOK
            <4> HIDE DEF m, n, x, y
            <4> QED BY <2>1, <3>2, <3>5, <4>3, <4>4 DEF RestOK, m, y, l
        <3> QED BY <3>4, <3>5
    <2> QED BY <2>6, <2>7
<1> QED BY <1>4, <1>6, <1>7

LEMMA RestKeptByAirings ==
    ASSUME SchedulerInv, RestInv, Airing
    PROVE  RestInv'
<1>1. PICK w \in Waiters : Airs(w)
    BY DEF Airing
<1> DEFINE a == AirOf(w)
           q == a.rule
<1>2. /\ AirSends(w) \/ AirAnswers(w) \/ AirCleansUp(w) \/ AirCloses(w)
      /\ rest' = IF AirOf(w)' = None /\ w = "airNow" THEN [rest EXCEPT ![q] = 0] ELSE rest
    BY <1>1, Zenon DEF Airs
<1>3. /\ TickOK /\ RulesOK /\ rest \in [Rules -> Nat]
      /\ \A r \in Rules : RuleOK(r, rule[r])
    BY DEF SchedulerInv, RestInv, RulesOK
<1>4. /\ a # None /\ tick'.todo = tick.todo /\ Listed' = Listed
      /\ w = "tick" => airNow' = airNow
      /\ w # "tick" => tick' = tick
    BY <1>2, <1>3, AirsMove DEF Listed
<1>5. q \in Rules /\ a.late \in Int /\ a.lost \in BOOLEAN
    BY <1>3, <1>4, AirTyped
<1>6. rest' \in [Rules -> Nat]
    BY <1>2, <1>3
<1> SUFFICES ASSUME NEW r \in Rules, OutlastsWaits(r)
             PROVE  RestOK(r, rest'[r], rule'[r], Listed, tick')
    BY <1>4, <1>6 DEF RestInv
<1>7. RestOK(r, rest[r], rule[r], Listed, tick)
    BY DEF RestInv
<1>8. CASE AirOf(w)' # None
    <2>1. /\ rule' = rule /\ AirOf(w)'.rule = a.rule /\ AirOf(w)'.late = a.late
          /\ AirOf(w)'.lost = a.lost
        BY <1>2, <1>3, <1>8, AirsMove
    <2>2. rest' = rest
        BY <1>2, <1>8
    <2>3. CASE w = "tick"
        <3>1. tick.air = a /\ AirOf(w)' = tick'.air
            BY <2>3 DEF AirOf
        <3> HIDE DEF a
        <3> QED BY <1>4, <1>7, <1>8, <2>1, <2>2, <3>1, RestSame
    <2>4. CASE w # "tick"
        BY <1>4, <1>7, <2>1, <2>2, <2>4
    <2> QED BY <2>3, <2>4
<1>9. CASE AirOf(w)' = None
    <2>1. Booked(a)
        BY <1>2, <1>3, <1>9, AirsMove
    <2>2. \A p \in Rules : p # q => rule'[p] = rule[p]
        BY <2>1 DEF Booked
    <2>3. CASE w # "tick"
        <3>1. w = "airNow" /\ tick' = tick
            BY <1>4, <2>3 DEF Waiters
        <3>2. CASE r = q
            BY <1>2, <1>3, <1>9, <3>1, <3>2 DEF RestOK
        <3>3. CASE r # q
            <4>1. rest'[r] = rest[r]
                BY <1>2, <1>3, <1>9, <3>1, <3>3
            <4> QED BY <1>7, <2>2, <3>1, <3>3, <4>1
        <3> QED BY <3>2, <3>3
    <2>4. CASE w = "tick"
        <3>1. rest' = rest /\ tick.air = a /\ tick'.air = None
            BY <1>2, <1>9, <2>4 DEF AirOf
        <3>2. CASE r # q
            BY <1>4, <1>7, <2>2, <3>1, <3>2, RestApart
        <3>3. CASE r = q
            <4>1. CASE rest[r] = 0
                BY <3>1, <4>1 DEF RestOK
            <4>2. CASE rest[r] > 0
                <5> DEFINE n == rest[r]
                           x == rule[r]
                           y == rule'[r]
                           ends == Terms[r].planned - a.late
                <5>1. /\ r \in Listed /\ ~a.lost
                      /\ \A i \in DOMAIN tick.todo : r \notin Members(tick.todo[i].rules)
                      /\ IF Terms[r].fixed
                         THEN n <= x.slot /\ x.slot - ends <= Terms[r].interval
                         ELSE n <= ends + Terms[r].interval
                    BY <1>4, <1>7, <3>1, <3>3, <4>2 DEF RestOK
                <5>2. ends \in Int /\ RuleOK(r, x)
                    BY <1>3, <1>5, SettingsTyped
                <5>3. ~y.pending /\ y.due = Advance(r, x, ends).due
                    BY <1>3, <1>4, <2>1, <3>3, <5>1, BookedKeeps
                <5>4. y.due = IF Terms[r].fixed THEN NextSlot(r, x, ends)
                              ELSE ends + Terms[r].interval
                    <6> HIDE DEF ends
                    <6> QED BY <5>2, <5>3, AdvanceKeeps
                <5>5. n <= y.due
                    <6>1. CASE Terms[r].fixed
                        <7>1. x.slot \in 1..Terms[r].interval /\ n \in Nat
                            BY <1>3, <5>2 DEF RuleOK
                        <7>2. NextSlot(r, x, ends) \in Int /\ NextSlot(r, x, ends) >= x.slot
                            <8> HIDE DEF ends, x, n
                            <8> QED BY <5>1, <5>2, <6>1, <7>1, NextSlotIsAhead
                        <7>3. x.slot \in Int
                            BY <7>1, SettingsTyped
                        <7> HIDE DEF ends, x, n, y
                        <7> QED BY <5>1, <5>4, <6>1, <7>1, <7>2, <7>3
                    <6>2. CASE ~Terms[r].fixed
                        BY <5>1, <5>4, <6>2
                    <6> QED BY <6>1, <6>2
                <5> QED BY <1>4, <3>1, <5>1, <5>3, <5>5 DEF RestOK
            <4> QED BY <1>3, <4>1, <4>2
        <3> QED BY <3>2, <3>3
    <2> QED BY <2>3, <2>4
<1> QED BY <1>8, <1>9


LEMMA RestKeptByFailing ==
    ASSUME SchedulerInv, RestInv, NEW w \in Waiters, Failing(w)
    PROVE  RestInv'
<1> DEFINE a == AirOf(w)
           q == a.rule
<1>1. /\ AirFails(w) /\ rest' = [rest EXCEPT ![q] = 0]
      /\ TickOK /\ tick \in TickType /\ RulesOK /\ rest \in [Rules -> Nat]
    BY DEF Failing, Spoils, SchedulerInv, TickOK, RestInv
<1>2. a # None /\ Answered(w) /\ Listed' = Listed
    BY <1>1 DEF AirFails, IsWaiting, Listed
<1>3. q \in Rules
    BY <1>1, <1>2, AirTyped
<1>4. \A p \in Rules : p # q => rule'[p] = rule[p]
    BY <1>1, <1>3 DEF AirFails, RulesOK
<1>5. rest' \in [Rules -> Nat] /\ rest'[q] = 0 /\ \A p \in Rules : p # q => rest'[p] = rest[p]
    BY <1>1, <1>3
<1> SUFFICES ASSUME NEW r \in Rules, OutlastsWaits(r)
             PROVE  RestOK(r, rest'[r], rule'[r], Listed, tick')
    BY <1>2, <1>5 DEF RestInv
<1>6. RestOK(r, rest[r], rule[r], Listed, tick)
    BY DEF RestInv
<1>7. CASE r = q
    BY <1>5, <1>7 DEF RestOK
<1>8. CASE r # q
    <2>1. rest'[r] = rest[r] /\ rule'[r] = rule[r]
        BY <1>4, <1>5, <1>8
    <2>2. CASE w = "tick"
        <3> DEFINE late == tick.air.late
        <3>1. tick' = [tick EXCEPT !.air = None, !.late = late]
            BY <1>2, <2>2 DEF Answered
        <3> HIDE DEF late
        <3>2. tick'.todo = tick.todo /\ tick'.air = None
            BY <1>1, <3>1 DEF TickType
        <3>3. tick.air.rule # r
            BY <1>8, <2>2 DEF AirOf
        <3> QED BY <1>6, <2>1, <3>2, <3>3, RestApart
    <2>3. CASE w # "tick"
        <3>1. tick' = tick
            BY <1>2, <2>3 DEF Answered
        <3> QED BY <1>6, <2>1, <3>1
    <2> QED BY <2>2, <2>3
<1> QED BY <1>7, <1>8

LEMMA RestKeptByTouching ==
    ASSUME SchedulerInv, RestInv, NEW q \in Rules, Touching(q)
    PROVE  RestInv'
<1>1. /\ rest' = [rest EXCEPT ![q] = 0]
      /\ TickOK /\ RulesOK /\ listed \in Seq(Rules) /\ rest \in [Rules -> Nat]
    BY DEF Touching, Spoils, SchedulerInv, ListOK, RestInv
<1>2. rest' \in [Rules -> Nat] /\ rest'[q] = 0 /\ \A p \in Rules : p # q => rest'[p] = rest[p]
    BY <1>1
<1>3. \A p \in Rules : p # q => rule'[p] = rule[p]
    BY <1>1 DEF Touching, PressAirNow, Reset, Remove, Add, Edit, RulesOK
<1>4. \A p \in Rules : p # q /\ p \in Listed => p \in Listed'
    <2>1. CASE listed' = listed
        BY <2>1 DEF Listed
    <2>2. CASE listed' = Append(listed, q)
        BY <1>1, <2>2 DEF Listed, Members
    <2>3. CASE listed' = Dismiss(listed, q)
        <3>1. Members(listed') = Members(listed) \ {q}
            BY <1>1, <2>3, DismissProperties
        <3> QED BY <3>1 DEF Listed
    <2> QED BY <2>1, <2>2, <2>3 DEF Touching, PressAirNow, Reset, Remove, Add, Edit
<1>5. tick' = tick \/ Replaced(q)
    BY DEF Touching, PressAirNow, Reset, Remove, Add, Edit
<1> SUFFICES ASSUME NEW r \in Rules, OutlastsWaits(r)
             PROVE  RestOK(r, rest'[r], rule'[r], Listed', tick')
    BY <1>2 DEF RestInv
<1>6. RestOK(r, rest[r], rule[r], Listed, tick)
    BY DEF RestInv
<1>7. CASE r = q
    BY <1>2, <1>7 DEF RestOK
<1>8. CASE r # q
    <2>1. rest'[r] = rest[r] /\ rule'[r] = rule[r] /\ (r \in Listed => r \in Listed')
        BY <1>2, <1>3, <1>4, <1>8
    <2>2. CASE tick' = tick
        BY <1>6, <2>1, <2>2, RestSame
    <2>3. CASE Replaced(q)
        <3>1. /\ tick'.todo = tick.todo
              /\ tick'.air = None <=> tick.air = None
              /\ tick.air # None => /\ tick'.air.rule = tick.air.rule
                                    /\ tick'.air.late = tick.air.late
                                    /\ tick.air.rule # q => tick'.air.lost = tick.air.lost
            <4>1. "tick" \in Waiters /\ AirOf("tick") = tick.air /\ AirOf("tick")' = tick'.air
                BY DEF Waiters, AirOf
            <4> QED BY <1>1, <2>3, <4>1, ReplacedMoves
        <3> QED BY <1>6, <1>8, <2>1, <3>1, RestSame
    <2> QED BY <1>5, <2>2, <2>3
<1> QED BY <1>7, <1>8

(* What changes no rule's next time, nor the tick, nor the list.           *)
LEMMA RestUndisturbed ==
    ASSUME RestInv, UNCHANGED <<rest, tick>>, Listed' = Listed,
           \A r \in Rules : /\ rule'[r].pending = rule[r].pending
                            /\ rule'[r].due = rule[r].due /\ rule'[r].slot = rule[r].slot
    PROVE  RestInv'
<1> SUFFICES ASSUME NEW r \in Rules, OutlastsWaits(r)
             PROVE  RestOK(r, rest[r], rule'[r], Listed, tick)
    BY DEF RestInv
<1>1. RestOK(r, rest[r], rule[r], Listed, tick)
    BY DEF RestInv
<1> QED BY <1>1, RestSame

LEMMA RestKeptByMoves ==
    ASSUME SchedulerInv, RestInv, Moving
    PROVE  RestInv'
<1>0. RulesOK /\ ListOK /\ ScreenOK /\ TickOK /\ {GlobalGap, MaxWait} \subseteq Nat
    BY SchedulerAssumption DEF SchedulerInv
<1>1. CASE Pushing \/ Pausing
    <2>1. UNCHANGED <<rest, tick>> /\ Listed' = Listed
        BY <1>1 DEF Pushing, Pausing, ManualPush, OthersShow, Pause, Resume, Listed
    <2>2. \/ rule' = rule
          \/ Interrupts(GlobalGap) \/ Interrupts(gapLeft)
        BY <1>1 DEF Pushing, Pausing, ManualPush, OthersShow, Pause, Resume
    <2>3. gapLeft \in Int /\ GlobalGap \in Int
        BY <1>0 DEF ScreenOK
    <2>4. \A r \in Rules : /\ rule'[r].pending = rule[r].pending
                           /\ rule'[r].due = rule[r].due /\ rule'[r].slot = rule[r].slot
        BY <1>0, <2>2, <2>3, InterruptsKeep
    <2> QED BY <2>1, <2>4, RestUndisturbed
<1>2. CASE Turning
    <2>1. UNCHANGED <<rest, tick>> /\ Listed' = Listed
        BY <1>2 DEF Turning, Midnight, EnvChanges, Listed
    <2>2. \A r \in Rules : /\ rule'[r].pending = rule[r].pending
                           /\ rule'[r].due = rule[r].due /\ rule'[r].slot = rule[r].slot
        <3>1. CASE rule' = rule
            BY <3>1
        <3>2. CASE rule' = [r \in Rules |-> [rule[r] EXCEPT !.today = 0]]
            <4> SUFFICES ASSUME NEW r \in Rules
                         PROVE  /\ rule'[r].pending = rule[r].pending
                                /\ rule'[r].due = rule[r].due /\ rule'[r].slot = rule[r].slot
                OBVIOUS
            <4> DEFINE zero == 0
                       y == [rule[r] EXCEPT !.today = zero]
            <4>1. rule'[r] = y
                BY <3>2
            <4>2. rule[r] \in RuleType
                BY <1>0 DEF RulesOK
            <4> HIDE DEF zero
            <4>3. y.pending = rule[r].pending /\ y.due = rule[r].due /\ y.slot = rule[r].slot
                BY <4>2 DEF RuleType
            <4> QED BY <4>1, <4>3
        <3> QED BY <1>2, <3>1, <3>2 DEF Turning, Midnight, EnvChanges
    <2> QED BY <2>1, <2>2, RestUndisturbed
<1>3. CASE Restarting
    <2>1. /\ rest' = [r \in Rules |-> IF InFlight(r) THEN 0 ELSE rest[r]]
          /\ tick' = Idle /\ rule' = rule /\ Listed' = Listed /\ rest \in [Rules -> Nat]
        BY <1>3 DEF Restarting, Restart, Listed, RestInv
    <2>2. rest' \in [Rules -> Nat]
        BY <2>1
    <2> SUFFICES ASSUME NEW r \in Rules, OutlastsWaits(r)
                 PROVE  RestOK(r, rest'[r], rule[r], Listed, Idle)
        BY <2>1, <2>2 DEF RestInv
    <2>3. RestOK(r, rest[r], rule[r], Listed, tick)
        BY DEF RestInv
    <2>4. CASE InFlight(r)
        BY <2>1, <2>4 DEF RestOK
    <2>5. CASE ~InFlight(r)
        <3>1. tick.air = None \/ tick.air.rule # r
            BY <2>5 DEF InFlight, Waiters, AirOf
        <3>2. rest'[r] = rest[r] /\ Idle.todo = <<>> /\ Idle.air = None
            BY <2>1, <2>5, IdleIsOK
        <3>3. \A i \in DOMAIN Idle.todo : r \in Members(Idle.todo[i].rules) =>
                   \E j \in DOMAIN tick.todo : r \in Members(tick.todo[j].rules)
            BY <3>2
        <3> QED BY <2>3, <3>1, <3>2, <3>3, RestApart
    <2> QED BY <2>4, <2>5
<1>4. CASE \E w \in Waiters : Failing(w)
    BY <1>4, RestKeptByFailing
<1>5. CASE \E r \in Rules : Touching(r)
    BY <1>5, RestKeptByTouching
<1> QED BY <1>1, <1>2, <1>3, <1>4, <1>5 DEF Moving

LEMMA RestInvKept ==
    SchedulerInv /\ RestInv /\ [MCNext]_mcvars => RestInv'
<1>1. ASSUME SchedulerInv, RestInv, MCNext PROVE RestInv'
    BY <1>1, RestKeptByTicks, RestKeptByAirings, RestKeptByTime, RestKeptByMoves DEF MCNext
<1>2. ASSUME RestInv, UNCHANGED mcvars PROVE RestInv'
    <2>1. UNCHANGED <<rest, rule, tick>> /\ Listed' = Listed
        BY <1>2 DEF mcvars, scheduler, Listed
    <2> QED BY <1>2, <2>1, RestUndisturbed
<1> QED BY <1>1, <1>2

(* Whom a tick asks is due.                                                *)
LEMMA RestStep ==
    ASSUME SchedulerInv, RestInv, [MCNext]_mcvars
    PROVE  \A r \in Rules : Asks(r) /\ OutlastsWaits(r) => rest[r] = 0
<1> SUFFICES ASSUME NEW r \in Rules, Asks(r), OutlastsWaits(r), rest[r] > 0 PROVE FALSE
    BY DEF RestInv
<1>1. tick.air = None /\ tick'.air # None /\ tick'.air.rule = r
    BY DEF Asks
<1>2. /\ TickRuns /\ TickOK /\ tick \in TickType /\ tick.late \in Nat
    BY <1>1, OnlyTicksAsk, TickTyped DEF SchedulerInv, TickOK
<1>3. /\ RestOK(r, rest[r], rule[r], Listed, tick) /\ rest[r] \in Nat /\ rule[r].due \in Int
    BY DEF RestInv, SchedulerInv, RulesOK, RuleType
<1>4. /\ ~rule[r].pending /\ rest[r] <= rule[r].due
      /\ \A i \in DOMAIN tick.todo : r \notin Members(tick.todo[i].rules)
    BY <1>1, <1>3 DEF RestOK
<1>5. CASE TickBegins
    <2>1. PICK M, a, b, c : Begins(M, a, b, c)
        BY <1>5, TickBeginsSo
    <2> DEFINE p == a \o b \o c
    <2>2. tick' = [Idle EXCEPT !.on = TRUE, !.todo = p]
        BY <2>1, Zenon DEF Begins
    <2> HIDE DEF p
    <2>3. tick'.air = None
        BY <2>2, IdleIsOK DEF TickType
    <2> QED BY <1>1, <2>3
<1>6. CASE TickPaused
    BY <1>1, <1>6 DEF TickPaused
<1>7. CASE TickEnds
    BY <1>1, <1>7, IdleIsOK DEF TickEnds
<1>8. CASE AirsFixed \/ AirsOnBoards
    <2>1. PICK q \in Rules : Waits(q, Tail(tick.todo)) /\ q \in Members(tick.todo[1].rules)
                             /\ 1 \in DOMAIN tick.todo
        BY <1>8, HeadAsks
    <2> DEFINE air == Asked(q, tick.late, q \in DOMAIN tick.gone)
               todo == Tail(tick.todo)
    <2>2. tick' = [tick EXCEPT !.todo = todo, !.air = air] /\ air.rule = q
        BY <2>1 DEF Waits, Asked
    <2> HIDE DEF air, todo
    <2>3. tick'.air = air
        BY <1>2, <2>2 DEF TickType
    <2> QED BY <1>1, <1>4, <2>1, <2>2, <2>3
<1>9. CASE Collects
    <2>1. PICK A, B, S, F, plan : Finds(A, B, S, F, plan)
        BY <1>9, CollectsFinds
    <2>2. /\ Reads(plan) \/ \E q \in S : ReadsAndWaits(q, plan)
          /\ \A q \in S : rule[q].pending \/ rule[q].due + tick.late <= 0
        BY <2>1, Zenon DEF Finds
    <2>3. CASE Reads(plan)
        BY <1>1, <1>2, <2>3 DEF Reads, TickType
    <2>4. CASE \E q \in S : ReadsAndWaits(q, plan)
        <3>1. PICK q \in S : ReadsAndWaits(q, plan)
            BY <2>4
        <3> DEFINE air == Asked(q, tick.late, FALSE)
        <3>2. tick' = [tick EXCEPT !.todo = plan, !.gone = <<>>, !.air = air] /\ air.rule = q
            BY <3>1 DEF ReadsAndWaits, Asked
        <3> HIDE DEF air
        <3>3. tick'.air = air
            BY <1>2, <3>2 DEF TickType
        <3>4. r \in S
            BY <1>1, <3>1, <3>2, <3>3
        <3> QED BY <1>2, <1>3, <1>4, <2>2, <3>4
    <2> QED BY <2>2, <2>3, <2>4
<1> QED BY <1>2, <1>5, <1>6, <1>7, <1>8, <1>9 DEF TickRuns

(* For any rules and settings, if the page of a fixed rule of the boards is*)
(* never shorter than what a tick can wait before it: the tick takes no    *)
(* rule again before a whole interval after the end of its page (a fixed   *)
(* rule: before its next slot), unless somebody touched the rule or its    *)
(* airing failed.                                                          *)
THEOREM RulesRest == (\A r \in Rules : OutlastsWaits(r)) /\ MCSpec => NoEncore
<1> DEFINE Fit == \A r \in Rules : OutlastsWaits(r)
<1>1. MCInit => SchedulerInv /\ RestInv
    <2>1. MCInit => RestInv
        BY DEF MCInit, RestInv, RestOK
    <2> QED BY <2>1, HouseSteps, SchedulerInvBegins
<1>2. SchedulerInv /\ RestInv /\ [MCNext]_mcvars => SchedulerInv' /\ RestInv'
    BY HouseKeepsScheduler, RestInvKept
<1>3. Fit /\ SchedulerInv /\ RestInv /\ [MCNext]_mcvars
      => [\A r \in Rules : Asks(r) => rest[r] = 0]_mcvars
    BY RestStep
<1>4. Fit => Fit'
    BY DEF OutlastsWaits, Board
<1> HIDE DEF Fit
<1>5. Fit /\ MCSpec => NoEncore
    BY <1>1, <1>2, <1>3, <1>4, PTL DEF MCSpec, NoEncore
<1> QED BY <1>5 DEF Fit

=============================================================================
