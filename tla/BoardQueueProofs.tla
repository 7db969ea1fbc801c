-------------------------- MODULE BoardQueueProofs --------------------------
(***************************************************************************)
(* For every house: any list of priorities, any cards, any boards and any  *)
(* timing.  The queue's state is well typed, no two waiting pages share an *)
(* id, and the page in flight is tracked, whatever runs during its await.  *)
(* The pages of a card stay in order, and an answer takes out its own.     *)
(***************************************************************************)
EXTENDS BoardQueue, LinesProofs

IInv == TypeOK /\ InFlightTracked

-----------------------------------------------------------------------------
(* The data.                                                               *)

(* The types of what a card carries.                                       *)
LEMMA CardFields ==
    ASSUME NEW c \in CardType
    PROVE  /\ c.source \in Sources /\ c.kind \in Kinds
           /\ c.live \in BOOLEAN /\ c.join \in BOOLEAN
           /\ c.rows \in Seq(Layouts)
           /\ c.reading \in Nat /\ c.hold \in Nat /\ c.after \in Nat /\ c.phase \in Nat
           /\ c.device \in Keys \cup {None}
           /\ c.boards \in SUBSET Boards
           /\ c.clears \in BOOLEAN
BY DEF CardType

(* The types of what a Priorities rule carries.                            *)
LEMMA RuleFields ==
    ASSUME NEW s \in Sources
    PROVE  Policy[s].rank \in Nat /\ Policy[s].minutes \in Nat
BY PolicyAssumption DEF RuleType

(* A card's coalesce key is a key or none.                                 *)
LEMMA KeyOfType ==
    ASSUME NEW c \in CardType
    PROVE  KeyOf(c) \in Keys \cup {None}
BY CardFields, PolicyAssumption DEF KeyOf

(* Whatever takes the hold makes a lock.                                   *)
LEMMA LockTypes ==
    /\ \A s \in Sources, join \in BOOLEAN : PolicyLock(s, join) \in LockType
    /\ \A c \in CardType : CardLock(c) \in LockType
<1>1. ASSUME NEW s \in Sources, NEW join \in BOOLEAN
      PROVE  PolicyLock(s, join) \in LockType
    BY RuleFields, PolicyAssumption DEF PolicyLock, LockType, Larger
<1>2. ASSUME NEW c \in CardType
      PROVE  CardLock(c) \in LockType
    <2>1. c.source \in Sources
        BY CardFields
    <2>2. Rank(c) \in Nat
        BY <2>1, RuleFields DEF Rank
    <2>3. HoldTtl(c.source, c.join) \in Nat
        BY <2>1, RuleFields, PolicyAssumption DEF HoldTtl, Larger
    <2> QED BY <2>1, <2>2, <2>3 DEF CardLock, LockType
<1> QED BY <1>1, <1>2

(* The types of what a waiting page carries.                               *)
LEMMA ItemFields ==
    ASSUME NEW i \in ItemType
    PROVE  /\ i.batch \in Nat /\ i.nth \in Nat \ {0} /\ i.wait \in Nat
           /\ i.face \in CardType /\ i.meta \in CardType
           /\ i.page \in Nat \ {0} /\ i.page <= Len(i.face.rows)
BY DEF ItemType

(* A page keeps its type and its id under what the queue changes of it.    *)
LEMMA ItemChanges ==
    ASSUME NEW i \in ItemType
    PROVE  /\ \A w \in Nat : /\ [i EXCEPT !.wait = w] \in ItemType
                             /\ SameItem([i EXCEPT !.wait = w], i)
           /\ \A c \in CardType : c.rows # <<>> =>
                 /\ [i EXCEPT !.face = c, !.page = 1] \in ItemType
                 /\ SameItem([i EXCEPT !.face = c, !.page = 1], i)
<1>1. ASSUME NEW w \in Nat
      PROVE  [i EXCEPT !.wait = w] \in ItemType /\ SameItem([i EXCEPT !.wait = w], i)
    BY DEF ItemType, SameItem
<1>2. ASSUME NEW c \in CardType, c.rows # <<>>
      PROVE  /\ [i EXCEPT !.face = c, !.page = 1] \in ItemType
             /\ SameItem([i EXCEPT !.face = c, !.page = 1], i)
    <2>1. c.rows \in Seq(Layouts)
        BY CardFields
    <2>2. 1 <= Len(c.rows)
        BY <1>2, <2>1
    <2> DEFINE R == [batch : Nat, nth : Nat \ {0}, face : CardType, page : Nat \ {0},
                      meta : CardType, wait : Nat]
    <2>0. i \in R
        BY DEF ItemType
    <2> DEFINE new == [i EXCEPT !.face = c, !.page = 1]
    <2>3. new \in R
        <3>1. 1 \in Nat \ {0}
            OBVIOUS
        <3> QED BY <2>0, <3>1, Zenon
    <2>4. new.face = c /\ new.page = 1 /\ new.batch = i.batch /\ new.nth = i.nth
        BY <2>0
    <2> HIDE DEF new
    <2>5. new \in ItemType /\ SameItem(new, i)
        BY <2>2, <2>3, <2>4 DEF ItemType, SameItem
    <2> QED BY <2>5 DEF new
<1> QED BY <1>1, <1>2

(* A waiting page always has a layout to show.                             *)
LEMMA LayoutType ==
    ASSUME NEW i \in ItemType
    PROVE  LayoutOf(i) \in Layouts
<1>1. i.page \in 1..Len(i.face.rows) /\ i.face.rows \in Seq(Layouts)
    BY ItemFields, CardFields
<1> QED BY <1>1 DEF LayoutOf

-----------------------------------------------------------------------------
(* The line.                                                               *)

WellFormed(line, p) == line \in Seq(ItemType) /\ UniqueIds(line) /\ Agrees(line, p)

(* Sharing an id is an equivalence.                                        *)
LEMMA SameItemEquivalence ==
    /\ \A i : SameItem(i, i)
    /\ \A i, j : SameItem(i, j) => SameItem(j, i)
    /\ \A i, j, k : SameItem(i, j) /\ SameItem(j, k) => SameItem(i, k)
BY DEF SameItem

(* Taking pages out of a line.                                             *)
LEMMA WithoutWellFormed ==
    ASSUME NEW line, NEW p, WellFormed(line, p), NEW I
    PROVE  WellFormed(Without(line, I), p)
<1> DEFINE w == Without(line, I)
<1>1. line \in Seq(ItemType) /\ UniqueIds(line) /\ Agrees(line, p)
    BY DEF WellFormed
<1>2. /\ w \in Seq(ItemType)
      /\ \A k \in DOMAIN w : \E i \in (DOMAIN line) \ I : w[k] = line[i]
      /\ \A k, m \in DOMAIN w : k < m =>
            \E i, j \in (DOMAIN line) \ I : i < j /\ w[k] = line[i] /\ w[m] = line[j]
    BY <1>1, WithoutProperties
<1> HIDE DEF w
<1>3. DOMAIN w \subseteq Nat /\ DOMAIN line \subseteq Nat
    BY <1>1, <1>2
<1>4. ASSUME NEW k \in DOMAIN w, NEW m \in DOMAIN w, k < m, SameItem(w[k], w[m])
      PROVE  FALSE
    <2>1. PICK i \in DOMAIN line, j \in DOMAIN line :
              i < j /\ w[k] = line[i] /\ w[m] = line[j]
        BY <1>2, <1>4
    <2>2. i = j
        BY <1>1, <1>4, <2>1 DEF UniqueIds
    <2> QED BY <1>3, <2>1, <2>2
<1>5. UniqueIds(w)
    <2>1. SUFFICES ASSUME NEW k \in DOMAIN w, NEW m \in DOMAIN w, SameItem(w[k], w[m]), k # m
                   PROVE  FALSE
        BY DEF UniqueIds
    <2>2. CASE k < m
        BY <1>4, <2>1, <2>2
    <2>3. CASE m < k
        BY <1>4, <2>1, <2>3, SameItemEquivalence
    <2> QED BY <1>3, <2>1, <2>2, <2>3
<1>6. Agrees(w, p)
    BY <1>1, <1>2 DEF Agrees
<1> QED BY <1>2, <1>5, <1>6 DEF WellFormed, w

(* A line whose pages were changed in place, ids kept.                     *)
LEMMA ChangedUnique ==
    ASSUME NEW line \in Seq(ItemType), UniqueIds(line),
           NEW new, new = [i \in DOMAIN line |-> new[i]],
           \A i \in DOMAIN line : new[i] \in ItemType /\ SameItem(new[i], line[i])
    PROVE  new \in Seq(ItemType) /\ UniqueIds(new)
<1>1. DOMAIN line = 1..Len(line) /\ Len(line) \in Nat
    OBVIOUS
<1>2. DOMAIN new = DOMAIN line
    OBVIOUS
<1>3. new \in [1..Len(line) -> ItemType]
    BY <1>1, <1>2
<1>4. new \in Seq(ItemType)
    BY <1>1, <1>3
<1>5. UniqueIds(new)
    BY <1>2, SameItemEquivalence DEF UniqueIds
<1> QED BY <1>4, <1>5

(* The page in flight after a handler has changed the line.                *)
LEMMA TrackedWellFormed ==
    ASSUME posting \in PostType \cup {None},
           NEW line \in Seq(ItemType), UniqueIds(line)
    PROVE  /\ Tracked(line) \in PostType \cup {None}
           /\ (Tracked(line) = None) <=> (posting = None)
           /\ WellFormed(line, Tracked(line))
<1>1. CASE posting = None
    BY <1>1 DEF Tracked, WellFormed, Agrees
<1>2. CASE posting # None
    <2> DEFINE I == {i \in DOMAIN line : SameItem(line[i], posting.item)}
    <2>1. posting \in PostType
        BY <1>2
    <2>2. CASE I = {}
        <3>1. Tracked(line) = posting
            BY <1>2, <2>2 DEF Tracked
        <3>2. Agrees(line, posting)
            BY <2>2 DEF Agrees
        <3> QED BY <3>1, <3>2, <2>1 DEF WellFormed
    <2>3. CASE I # {}
        <3> DEFINE l == Least(I)
                   new == [posting EXCEPT !.item = line[l]]
        <3>1. I \subseteq DOMAIN line /\ DOMAIN line \subseteq Nat
            OBVIOUS
        <3>2. l \in I
            BY <3>1, <2>3, LeastMember
        <3>3. Tracked(line) = new
            BY <1>2, <2>3 DEF Tracked
        <3>4. line[l] \in ItemType
            BY <3>2
        <3> HIDE DEF l
        <3>5. new \in PostType
            BY <2>1, <3>4, Zenon DEF PostType
        <3>6. new.item = line[l]
            BY <2>1 DEF PostType
        <3> HIDE DEF new
        <3>7. new # None
            BY <3>5, NoneAssumption
        <3>8. Agrees(line, new)
            BY <3>2, <3>6, SameItemEquivalence DEF Agrees, UniqueIds
        <3> QED BY <3>3, <3>5, <3>7, <3>8, <1>2 DEF WellFormed
    <2> QED BY <2>2, <2>3
<1> QED BY <1>1, <1>2

(* The pages of one submission, and a line that has none of them yet.      *)
Submission(t, b) == \A n \in DOMAIN t : t[n].batch = b /\ t[n].nth = n

Unused(b, line, p) ==
    /\ \A i \in DOMAIN line : line[i].batch # b
    /\ p # None => p.item.batch # b

(* What submit queues are pages of one submission.                         *)
LEMMA PagesType ==
    ASSUME NEW c \in CardType, NEW b \in Nat, NEW w \in Nat
    PROVE  Pages(c, b, w) \in Seq(ItemType) /\ Submission(Pages(c, b, w), b)
<1> DEFINE item(n) == [batch |-> b, nth |-> n, face |-> c, page |-> n, meta |-> c, wait |-> w]
           len == Len(c.rows)
<1>1. DOMAIN c.rows = 1..len /\ len \in Nat
    BY CardFields
<1>2. ASSUME NEW n \in 1..len
      PROVE  item(n) \in ItemType /\ item(n).batch = b /\ item(n).nth = n
    BY <1>1 DEF ItemType
<1>3. Pages(c, b, w) = [n \in 1..len |-> item(n)]
    BY <1>1 DEF Pages
<1> HIDE DEF item, len
<1>4. Pages(c, b, w) \in [1..len -> ItemType]
    BY <1>2, <1>3
<1>5. Pages(c, b, w) \in Seq(ItemType)
    BY <1>1, <1>4
<1>6. Submission(Pages(c, b, w), b)
    BY <1>2, <1>3 DEF Submission
<1> QED BY <1>5, <1>6

(* Putting a new submission's pages into a line.                           *)
LEMMA InsertWellFormed ==
    ASSUME NEW line, NEW p, WellFormed(line, p), NEW n \in 0..Len(line),
           NEW t \in Seq(ItemType), NEW b, Submission(t, b), Unused(b, line, p)
    PROVE  WellFormed(Insert(line, n, t), p)
<1> DEFINE new == Insert(line, n, t)
           m == Len(t)
           old(i) == IF i <= n THEN i ELSE i - m
<1>1. line \in Seq(ItemType) /\ UniqueIds(line) /\ Agrees(line, p)
    BY DEF WellFormed
<1>2. /\ new \in Seq(ItemType) /\ Len(new) = Len(line) + m
      /\ \A i \in 1..(Len(line) + m) :
            new[i] = IF i <= n THEN line[i] ELSE IF i <= n + m THEN t[i - n] ELSE line[i - m]
    BY <1>1, InsertProperties
<1>3. n \in Nat /\ m \in Nat /\ Len(line) \in Nat /\ n <= Len(line)
    BY <1>1
<1>4. DOMAIN new = 1..(Len(line) + m) /\ DOMAIN line = 1..Len(line) /\ DOMAIN t = 1..m
    BY <1>1, <1>2
<1> HIDE DEF new, m
<1>5. ASSUME NEW i \in DOMAIN new, n < i, i <= n + m
      PROVE  /\ new[i] = t[i - n] /\ i - n \in DOMAIN t
             /\ new[i].batch = b /\ new[i].nth = i - n
    <2>1. i - n \in 1..m /\ ~(i <= n)
        BY <1>3, <1>4, <1>5
    <2> QED BY <2>1, <1>2, <1>4, <1>5 DEF Submission
<1>6. ASSUME NEW i \in DOMAIN new, ~(n < i /\ i <= n + m)
      PROVE  new[i] = line[old(i)] /\ old(i) \in DOMAIN line
    BY <1>2, <1>3, <1>4, <1>6
<1>7. ASSUME NEW i \in DOMAIN new, NEW j \in DOMAIN new, SameItem(new[i], new[j])
      PROVE  i = j
    <2>1. CASE (n < i /\ i <= n + m) /\ (n < j /\ j <= n + m)
        BY <2>1, <1>3, <1>4, <1>5, <1>7 DEF SameItem
    <2>2. CASE (n < i /\ i <= n + m) /\ ~(n < j /\ j <= n + m)
        BY <2>2, <1>5, <1>6, <1>7 DEF SameItem, Unused
    <2>3. CASE ~(n < i /\ i <= n + m) /\ (n < j /\ j <= n + m)
        BY <2>3, <1>5, <1>6, <1>7 DEF SameItem, Unused
    <2>4. CASE ~(n < i /\ i <= n + m) /\ ~(n < j /\ j <= n + m)
        <3>1. old(i) = old(j)
            BY <2>4, <1>1, <1>6, <1>7 DEF UniqueIds
        <3> QED BY <3>1, <2>4, <1>3, <1>4
    <2> QED BY <2>1, <2>2, <2>3, <2>4
<1>8. UniqueIds(new)
    BY <1>7 DEF UniqueIds
<1>9. ASSUME p # None, NEW i \in DOMAIN new, SameItem(new[i], p.item)
      PROVE  new[i] = p.item
    <2>1. CASE n < i /\ i <= n + m
        BY <2>1, <1>5, <1>9 DEF SameItem, Unused
    <2>2. CASE ~(n < i /\ i <= n + m)
        BY <2>2, <1>1, <1>6, <1>9 DEF Agrees
    <2> QED BY <2>1, <2>2
<1>10. Agrees(new, p)
    BY <1>9 DEF Agrees
<1> QED BY <1>2, <1>8, <1>10 DEF WellFormed, new

(* Where submit puts them.                                                 *)
LEMMA Places ==
    ASSUME NEW line \in Seq(ItemType), NEW I \in SUBSET DOMAIN line
    PROVE  Least(I \cup {Len(line) + 1}) - 1 \in 0..Len(line)
<1> DEFINE J == I \cup {Len(line) + 1}
<1>1. J \in SUBSET Nat /\ J # {} /\ J \subseteq 1..(Len(line) + 1)
    OBVIOUS
<1>2. Least(J) \in J
    BY <1>1, LeastMember
<1> HIDE DEF J
<1>3. Least(J) \in 1..(Len(line) + 1)
    BY <1>1, <1>2
<1> QED BY <1>3 DEF J

-----------------------------------------------------------------------------
(* submit.                                                                 *)

(* The clocks' types, one by one.                                          *)
LEMMA ClockFields ==
    ASSUME NEW k \in ClocksType
    PROVE  /\ k.sincePost \in Nat \cup {Never} /\ k.restore \in Nat \cup {Never}
           /\ k.sinceFlip \in Nat /\ k.hold \in Nat /\ k.dwell \in Nat /\ k.retry \in Nat
BY DEF ClocksType

(* What an offer leaves behind.                                            *)
OfferOK ==
    /\ WellFormed(items', posting')
    /\ posting' \in PostType \cup {None}
    /\ (posting' = None) <=> (posting = None)
    /\ lastSnapshot' \in FrameType \cup {None}
    /\ laneLock' \in LockType \cup {None}
    /\ schedulerPage' \in [key : Keys, boards : SUBSET Boards] \cup {None}
    /\ clocks' \in ClocksType
    /\ coalesceSeen' \in [Keys -> Nat]

(* What most handlers need of the invariant.                               *)
LEMMA InvariantParts ==
    ASSUME IInv
    PROVE  /\ items \in Seq(ItemType) /\ WellFormed(items, posting)
           /\ posting \in PostType \cup {None}
           /\ laneLock \in LockType \cup {None}
           /\ clocks \in ClocksType
BY DEF IInv, TypeOK, InFlightTracked, WellFormed

(* noteCoalesce keeps the ages of the keys.                                *)
LEMMA SeenType ==
    ASSUME IInv, NEW c \in CardType
    PROVE  SeenNow(c) \in [Keys -> Nat]
<1>1. KeyOf(c) \in Keys \cup {None} /\ coalesceSeen \in [Keys -> Nat]
    BY KeyOfType DEF IInv, TypeOK
<1> QED BY <1>1 DEF SeenNow

(* Nothing was queued.                                                     *)
LEMMA OfferDroppedOK ==
    ASSUME IInv, NEW c \in CardType, NEW k \in ClocksType,
           OfferTooSoon(c, k) \/ OfferQuiet(c, k)
    PROVE  OfferOK
<1>1. SeenNow(c) \in [Keys -> Nat]
    BY SeenType
<1>2. CASE OfferTooSoon(c, k)
    BY <1>2, InvariantParts DEF OfferTooSoon, OfferOK, IInv, TypeOK
<1>3. CASE OfferQuiet(c, k)
    BY <1>1, <1>3, InvariantParts DEF OfferQuiet, OfferOK, IInv, TypeOK
<1> QED BY <1>2, <1>3

(* A waiting page was replaced in its place.                               *)
LEMMA OfferCoalescedOK ==
    ASSUME IInv, NEW c \in CardType, c.rows # <<>>, NEW k \in ClocksType, OfferCoalesced(c, k)
    PROVE  OfferOK
<1> DEFINE first == Least(Replaceable(c))
           line == [items EXCEPT ![first] = [@ EXCEPT !.face = c, !.page = 1]]
           renews == /\ Lane(c) = "game"
                     /\ Live(c) \/ (LiveLock # None /\ LiveLock.source = c.source)
           gone == IF renews /\ laneLock # None /\ laneLock.source # c.source
                   THEN OwnedBy(line, laneLock) ELSE {}
<1>1. /\ Replaceable(c) # {}
      /\ items' = Without(line, gone)
      /\ laneLock' = IF renews THEN CardLock(c) ELSE laneLock
      /\ posting' = Tracked(line)
      /\ clocks' = k
      /\ coalesceSeen' = SeenNow(c)
      /\ UNCHANGED <<lastSnapshot, schedulerPage>>
    BY DEF OfferCoalesced, Coalesces
<1>2. first \in DOMAIN items
    <2>1. Replaceable(c) \subseteq DOMAIN items
        BY DEF Replaceable
    <2>2. DOMAIN items \subseteq Nat
        BY InvariantParts
    <2> QED BY <1>1, <2>1, <2>2, LeastMember
<1>3. \A i \in DOMAIN items : /\ items[i] \in ItemType
                              /\ [items[i] EXCEPT !.face = c, !.page = 1] \in ItemType
                              /\ SameItem([items[i] EXCEPT !.face = c, !.page = 1], items[i])
    <2>1. SUFFICES ASSUME NEW i \in DOMAIN items
                   PROVE  /\ items[i] \in ItemType
                          /\ [items[i] EXCEPT !.face = c, !.page = 1] \in ItemType
                          /\ SameItem([items[i] EXCEPT !.face = c, !.page = 1], items[i])
        OBVIOUS
    <2>2. items[i] \in ItemType
        BY InvariantParts
    <2> QED BY <2>2, ItemChanges
<1> HIDE DEF first
<1>4. /\ line = [i \in DOMAIN items |-> line[i]]
      /\ \A i \in DOMAIN items : line[i] \in ItemType /\ SameItem(line[i], items[i])
    BY <1>2, <1>3, SameItemEquivalence
<1> HIDE DEF line, renews, gone
<1>5. line \in Seq(ItemType) /\ UniqueIds(line)
    BY <1>4, InvariantParts, ChangedUnique DEF WellFormed
<1>6. /\ posting' \in PostType \cup {None}
      /\ (posting' = None) <=> (posting = None)
      /\ WellFormed(line, posting')
    BY <1>1, <1>5, InvariantParts, TrackedWellFormed
<1>7. WellFormed(items', posting')
    BY <1>1, <1>6, WithoutWellFormed
<1>8. laneLock' \in LockType \cup {None}
    BY <1>1, InvariantParts, LockTypes
<1>9. coalesceSeen' \in [Keys -> Nat]
    BY <1>1, SeenType
<1> QED BY <1>1, <1>6, <1>7, <1>8, <1>9 DEF OfferOK, IInv, TypeOK

(* A submission went into the line.                                        *)
LEMMA OfferQueuedOK ==
    ASSUME IInv, NEW c \in CardType, NEW k \in ClocksType,
           NEW heard \in BOOLEAN, OfferQueued(c, k, heard)
    PROVE  OfferOK
<1> DEFINE met == LockMet(c)
           ends == EndsHold(c, met)
           claims == ClaimsBoard(c, met)
           handed == heard /\ Preempts(c, met) /\ ~IsMine(c, met)
           lock == IF claims THEN CardLock(c) ELSE IF ends \/ handed THEN None ELSE met
           displaced == met # None /\ ~IsMine(c, met) /\ (ends \/ (claims /\ ~handed))
           gone == IF displaced THEN OwnedBy(items, met) ELSE {}
           line == Without(items, gone \cup ReplacedBy(c))
           breaks == c.takeover /\ TakesBoard(c, met)
           inFront == \/ IsAlert(c)
                      \/ breaks
                      \/ /\ ~IsMine(c, lock)
                         /\ Preempts(c, met) \/ (Jumps(c) /\ Lane(c) # "game")
           place == IF inFront THEN FrontOf(line)
                    ELSE IF IsMine(c, lock) THEN AfterHold(line, lock)
                    ELSE Len(line)
           wait == ClosingWait(c, k)
<1>1. PICK b \in 1..MaxBatch :
          FreshBatch(b) /\ items' = Insert(line, place, Pages(c, b, wait))
    BY DEF OfferQueued
<1>2. /\ laneLock' = lock
      /\ lastSnapshot' = IF ends /\ lastSnapshot # None
                            /\ lastSnapshot.card.source = met.source
                         THEN None ELSE lastSnapshot
      /\ schedulerPage' = IF breaks THEN None ELSE schedulerPage
      /\ clocks' = [k EXCEPT !.hold = IF breaks THEN 0 ELSE @,
                             !.restore = IF ends THEN Never ELSE @]
      /\ coalesceSeen' = SeenNow(c)
      /\ posting' = posting
    BY DEF OfferQueued
<1>3. /\ line \in Seq(ItemType) /\ WellFormed(line, posting)
      /\ \A i \in DOMAIN line : \E j \in DOMAIN items : line[i] = items[j]
    <2> DEFINE I == gone \cup ReplacedBy(c)
    <2> HIDE DEF gone
    <2>1. items \in Seq(ItemType) /\ WellFormed(items, posting)
        BY InvariantParts
    <2>2. line = Without(items, I)
        OBVIOUS
    <2> HIDE DEF line, I
    <2>3. WellFormed(line, posting)
        BY <2>1, <2>2, WithoutWellFormed
    <2>4. \A i \in DOMAIN line : \E j \in DOMAIN items : line[i] = items[j]
        BY <2>1, <2>2, WithoutProperties
    <2> QED BY <2>3, <2>4 DEF WellFormed
<1>4. place \in 0..Len(line)
    <2> HIDE DEF line, lock, inFront
    <2>1. FrontOf(line) \in 0..Len(line)
        BY <1>3, Places DEF FrontOf
    <2>2. AfterHold(line, lock) \in 0..Len(line)
        BY <1>3, Places DEF AfterHold
    <2>3. Len(line) \in 0..Len(line)
        BY <1>3
    <2> QED BY <2>1, <2>2, <2>3
<1>5. wait \in Nat
    BY CardFields, ClockFields DEF ClosingWait, Smaller
<1>6. lock \in LockType \cup {None}
    <2>1. met \in LockType \cup {None}
        BY InvariantParts DEF LockMet, LiveLock
    <2> HIDE DEF met
    <2> QED BY <2>1, LockTypes
<1>7. clocks' \in ClocksType
    <2> DEFINE h == IF breaks THEN 0 ELSE k.hold
               r == IF ends THEN Never ELSE k.restore
    <2> HIDE DEF breaks, ends
    <2>1. h \in Nat /\ r \in Nat \cup {Never}
        BY ClockFields
    <2>2. clocks' = [k EXCEPT !.hold = h, !.restore = r]
        BY <1>2 DEF ClocksType
    <2> HIDE DEF h, r
    <2> QED BY <2>1, <2>2, Zenon DEF ClocksType
<1> HIDE DEF met, ends, claims, lock, displaced, gone, line, breaks, inFront, place, wait
<1>8. /\ \A i \in DOMAIN items : items[i].batch # b
      /\ posting # None => posting.item.batch # b
    BY <1>1 DEF FreshBatch
<1>9. WellFormed(items', posting')
    <2>1. b \in Nat
        BY <1>1
    <2>2. Pages(c, b, wait) \in Seq(ItemType) /\ Submission(Pages(c, b, wait), b)
        BY <2>1, <1>5, PagesType
    <2>3. Unused(b, line, posting)
        BY <1>3, <1>8 DEF Unused
    <2> DEFINE pages == Pages(c, b, wait)
    <2> HIDE DEF pages
    <2>4. pages \in Seq(ItemType) /\ Submission(pages, b)
        BY <2>2 DEF pages
    <2>5. WellFormed(Insert(line, place, pages), posting)
        BY <2>3, <2>4, <1>3, <1>4, InsertWellFormed
    <2> QED BY <2>5, <1>1, <1>2 DEF pages
<1>10. coalesceSeen' \in [Keys -> Nat]
    BY <1>2, SeenType
<1>11. lastSnapshot' \in FrameType \cup {None}
    BY <1>2 DEF IInv, TypeOK
<1>12. schedulerPage' \in [key : Keys, boards : SUBSET Boards] \cup {None}
    BY <1>2 DEF IInv, TypeOK
<1> QED BY <1>2, <1>6, <1>7, <1>9, <1>10, <1>11, <1>12, InvariantParts DEF OfferOK

(* submit, whatever becomes of the offer.                                  *)
LEMMA OfferKeeps ==
    ASSUME IInv, NEW c \in CardType, c.rows # <<>>, NEW k \in ClocksType, NEW heard \in BOOLEAN,
           Offer(c, k, heard)
    PROVE  OfferOK
<1> DEFINE now == IF CutsInNow(c) THEN [k EXCEPT !.dwell = 0] ELSE k
<1>1. now \in ClocksType
    <2>1. [k EXCEPT !.dwell = 0] \in ClocksType
        BY DEF ClocksType
    <2> QED BY <2>1
<1>2. \/ OfferTooSoon(c, now) \/ OfferQuiet(c, now)
      \/ OfferCoalesced(c, now) \/ OfferQueued(c, now, heard)
    BY DEF Offer
<1> HIDE DEF now
<1> QED BY <1>1, <1>2, OfferDroppedOK, OfferCoalescedOK, OfferQueuedOK

(* What a tick offers to put back is a card.                               *)
LEMMA RestoredCardType ==
    ASSUME NEW f \in FrameType
    PROVE  RestoredCard(f) \in CardType /\ RestoredCard(f).rows # <<>>
<1> DEFINE rows == <<f.card.rows[f.page]>>
<1>1. f.card \in CardType /\ f.page \in 1..Len(f.card.rows)
    BY DEF FrameType
<1>2. f.card.rows \in Seq(Layouts)
    BY <1>1, CardFields
<1>3. rows \in Seq(Layouts) /\ rows # <<>>
    BY <1>1, <1>2
<1> HIDE DEF rows
<1>4. /\ TRUE \in BOOLEAN /\ FALSE \in BOOLEAN /\ None \in Keys \cup {None}
      /\ {} \in SUBSET Boards /\ 0 \in Nat /\ "nothing" \in {"nothing", "all", "phases"}
    OBVIOUS
<1>5. RestoredCard(f) \in CardType
    BY <1>1, <1>3, <1>4, Zenon DEF RestoredCard, CardType, rows
<1>6. RestoredCard(f).rows = rows
    BY <1>1 DEF RestoredCard, CardType, rows
<1> QED BY <1>3, <1>5, <1>6

(* An offer from outside.                                                  *)
LEMMA SubmitKeeps ==
    ASSUME IInv, NEW c \in Cards, Submit(c)
    PROVE  IInv'
<1>1. c \in CardType /\ c.rows # <<>> /\ Offer(c, clocks, FALSE)
    BY QueueAssumption DEF Submit
<1>2. OfferOK
    BY <1>1, OfferKeeps, InvariantParts
<1>3. UNCHANGED <<current, clearAfterHold, health, failures, ticking, quiet, flaps, persisted>>
    BY DEF Submit
<1> QED BY <1>2, <1>3 DEF OfferOK, WellFormed, IInv, TypeOK, InFlightTracked

-----------------------------------------------------------------------------
(* tickOnce.                                                               *)

(* The stages of a tick.                                                   *)
LEMMA StageType ==
    ASSUME IInv, NEW stage \in {"idle", "begun", "posting"}, NEW skip \in BOOLEAN
    PROVE  /\ Stage(stage, skip) \in [stage : {"idle", "begun", "posting"},
                                      skip : BOOLEAN, asked : BOOLEAN]
           /\ Stage(stage, skip).stage = stage
BY DEF Stage

(* Pages leave the line and nothing is in flight.                          *)
LEMMA LineCut ==
    ASSUME IInv, NEW I
    PROVE  WellFormed(Without(items, I), posting)
BY InvariantParts, WithoutWellFormed

(* A tick that may run has nothing in flight.                              *)
LEMMA NothingInFlight ==
    ASSUME IInv, NEW skip \in BOOLEAN, Ticking(skip)
    PROVE  posting = None
BY DEF Ticking, IInv, InFlightTracked

(* laneLockActive yields a lock or none.                                   *)
LEMMA LiveLockType ==
    ASSUME IInv
    PROVE  LiveLock \in LockType \cup {None}
BY InvariantParts DEF LiveLock

(* sweepSchedulerPending.                                                  *)
LEMMA TickSweepKeeps ==
    ASSUME IInv, NEW skip \in BOOLEAN, TickSweep(skip)
    PROVE  IInv'
<1>1. WellFormed(items', posting')
    BY LineCut DEF TickSweep
<1>2. posting = None /\ Stage("begun", skip).stage = "begun"
    BY NothingInFlight, StageType DEF TickSweep
<1>3. ticking' \in [stage : {"idle", "begun", "posting"}, skip : BOOLEAN, asked : BOOLEAN]
    BY StageType DEF TickSweep
<1> QED BY <1>1, <1>2, <1>3 DEF TickSweep, WellFormed, IInv, TypeOK, InFlightTracked

(* Putting back what an alert covered.                                     *)
LEMMA TickRestoreKeeps ==
    ASSUME IInv, NEW skip \in BOOLEAN, TickRestore(skip, FALSE)
    PROVE  IInv'
<1> DEFINE k == [clocks EXCEPT !.restore = Never]
<1>1. lastSnapshot \in FrameType
    BY DEF TickRestore, RestoreDue, IInv, TypeOK
<1>2. k \in ClocksType
    BY InvariantParts DEF ClocksType
<1>3. Offer(RestoredCard(lastSnapshot), k, FALSE)
    BY DEF TickRestore
<1> HIDE DEF k
<1>4. OfferOK
    BY <1>1, <1>2, <1>3, RestoredCardType, OfferKeeps
<1>5. posting = None
    BY NothingInFlight DEF TickRestore
<1>6. /\ ticking' \in [stage : {"idle", "begun", "posting"}, skip : BOOLEAN, asked : BOOLEAN]
      /\ ticking'.stage # "posting"
    BY StageType DEF TickRestore
<1>7. UNCHANGED <<current, clearAfterHold, health, failures, quiet, flaps, persisted>>
    BY DEF TickRestore
<1> QED BY <1>4, <1>5, <1>6, <1>7 DEF OfferOK, WellFormed, IInv, TypeOK, InFlightTracked

(* The head of the line may be told to wait no longer, or longer.          *)
LEMMA HeadWaits ==
    ASSUME NEW line \in Seq(ItemType), line # <<>>, UniqueIds(line), NEW w \in Nat
    PROVE  [line EXCEPT ![1].wait = w] \in Seq(ItemType)
           /\ UniqueIds([line EXCEPT ![1].wait = w])
<1> DEFINE new == [line EXCEPT ![1].wait = w]
<1>1. \A i \in DOMAIN line :
          /\ line[i] \in ItemType
          /\ [line[i] EXCEPT !.wait = w] \in ItemType
          /\ SameItem([line[i] EXCEPT !.wait = w], line[i])
    <2>1. SUFFICES ASSUME NEW i \in DOMAIN line
                   PROVE  /\ line[i] \in ItemType
                          /\ [line[i] EXCEPT !.wait = w] \in ItemType
                          /\ SameItem([line[i] EXCEPT !.wait = w], line[i])
        OBVIOUS
    <2>2. line[i] \in ItemType
        OBVIOUS
    <2> QED BY <2>2, ItemChanges
<1>2. /\ new = [i \in DOMAIN line |-> new[i]]
      /\ \A i \in DOMAIN line : new[i] \in ItemType /\ SameItem(new[i], line[i])
    BY <1>1, SameItemEquivalence
<1> HIDE DEF new
<1>3. new \in Seq(ItemType) /\ UniqueIds(new)
    BY <1>2, ChangedUnique
<1> QED BY <1>3 DEF new

(* Dropping a page the board shows already.                                *)
LEMMA TickDropDuplicateKeeps ==
    ASSUME IInv, NEW skip \in BOOLEAN, TickDropDuplicate(skip)
    PROVE  IInv'
<1>1. PICK i \in DOMAIN items :
          /\ Selecting(skip)
          /\ LET line == Without(items, {i})
             IN items' = IF skip /\ line # <<>> THEN [line EXCEPT ![1].wait = 0] ELSE line
    BY DEF TickDropDuplicate, Dedupes, Picks
<1>2. posting = None
    BY <1>1, NothingInFlight DEF Selecting
<1>3. items' \in Seq(ItemType) /\ UniqueIds(items')
    <2> DEFINE line == Without(items, {i})
    <2>1. line \in Seq(ItemType) /\ UniqueIds(line)
        BY LineCut DEF WellFormed
    <2> HIDE DEF line
    <2>2. items' = IF skip /\ line # <<>> THEN [line EXCEPT ![1].wait = 0] ELSE line
        BY <1>1 DEF line
    <2> QED BY <2>1, <2>2, HeadWaits
<1>4. clocks' \in ClocksType
    <2>1. 0 \in Nat /\ Never \in Nat \cup {Never}
        OBVIOUS
    <2>2. [clocks EXCEPT !.sincePost = Never, !.dwell = 0] \in ClocksType
        BY <2>1, InvariantParts, Zenon DEF ClocksType
    <2> QED BY <2>2, InvariantParts DEF TickDropDuplicate
<1>5. /\ ticking' \in [stage : {"idle", "begun", "posting"}, skip : BOOLEAN, asked : BOOLEAN]
      /\ ticking'.stage = "idle"
    <2> DEFINE old == Stage("idle", skip)
               asked == old.asked \/ (skip /\ items' # <<>>)
    <2>1. /\ old \in [stage : {"idle", "begun", "posting"}, skip : BOOLEAN, asked : BOOLEAN]
          /\ old.stage = "idle"
        BY StageType
    <2>2. ticking' = [old EXCEPT !.asked = asked] /\ asked \in BOOLEAN
        BY DEF TickDropDuplicate
    <2> HIDE DEF old, asked
    <2> QED BY <2>1, <2>2
<1>6. laneLock' \in LockType \cup {None}
    BY LiveLockType DEF TickDropDuplicate
<1>7. UNCHANGED <<current, lastSnapshot, schedulerPage, clearAfterHold, coalesceSeen,
                  health, failures, posting, quiet, flaps, persisted>>
    BY DEF TickDropDuplicate
<1>8. Agrees(items', posting')
    BY <1>2, <1>7 DEF Agrees
<1> QED BY <1>2, <1>3, <1>4, <1>5, <1>6, <1>7, <1>8 DEF IInv, TypeOK, InFlightTracked

(* Dropping a page in quiet hours.                                         *)
LEMMA TickDropQuietKeeps ==
    ASSUME IInv, NEW skip \in BOOLEAN, TickDropQuiet(skip)
    PROVE  IInv'
<1>1. WellFormed(items', posting')
    BY LineCut DEF TickDropQuiet
<1>2. posting = None
    BY NothingInFlight DEF TickDropQuiet, DropsQuiet, Picks, Selecting
<1>3. ticking' \in [stage : {"idle", "begun", "posting"}, skip : BOOLEAN, asked : BOOLEAN]
      /\ ticking'.stage = "idle"
    BY StageType DEF TickDropQuiet
<1>4. laneLock' \in LockType \cup {None}
    BY LiveLockType DEF TickDropQuiet
<1> QED BY <1>1, <1>2, <1>3, <1>4 DEF TickDropQuiet, WellFormed, IInv, TypeOK, InFlightTracked

(* The call of transport.post.                                             *)
LEMMA TickPostKeeps ==
    ASSUME IInv, NEW skip \in BOOLEAN, TickPost(skip)
    PROVE  IInv'
<1>1. PICK i \in DOMAIN items :
          posting' = [item |-> items[i], index |-> i, sent |-> LayoutOf(items[i]),
                      boards |-> items[i].face.boards]
    BY DEF TickPost
<1>2. items[i] \in ItemType /\ i \in Nat \ {0}
    BY InvariantParts
<1>3. LayoutOf(items[i]) \in Layouts /\ items[i].face.boards \in SUBSET Boards
    BY <1>2, LayoutType, ItemFields, CardFields
<1>4. posting' \in PostType /\ posting'.item = items[i]
    BY <1>1, <1>2, <1>3 DEF PostType
<1>5. posting' # None
    BY <1>4, NoneAssumption
<1>6. Agrees(items', posting')
    BY <1>4, InvariantParts DEF TickPost, Agrees, WellFormed, UniqueIds
<1>7. /\ ticking' \in [stage : {"idle", "begun", "posting"}, skip : BOOLEAN, asked : BOOLEAN]
      /\ ticking'.stage = "posting"
    BY StageType DEF TickPost
<1>8. laneLock' \in LockType \cup {None}
    BY LiveLockType DEF TickPost
<1> QED BY <1>4, <1>5, <1>6, <1>7, <1>8 DEF TickPost, IInv, TypeOK, InFlightTracked

(* A tick that finds nothing to do.                                        *)
LEMMA TickNothingKeeps ==
    ASSUME IInv, NEW skip \in BOOLEAN, TickNothing(skip)
    PROVE  IInv'
<1>1. posting = None
    BY NothingInFlight DEF TickNothing, Selecting
<1>2. ticking' \in [stage : {"idle", "begun", "posting"}, skip : BOOLEAN, asked : BOOLEAN]
      /\ ticking'.stage = "idle"
    BY StageType DEF TickNothing
<1>3. laneLock' \in LockType \cup {None}
    BY LiveLockType, InvariantParts DEF TickNothing
<1> QED BY <1>1, <1>2, <1>3 DEF TickNothing, IInv, TypeOK, InFlightTracked

(* A tick up to its await.                                                 *)
LEMMA TickKeeps ==
    ASSUME IInv, NEW skip \in BOOLEAN, Tick(skip)
    PROVE  IInv'
BY TickSweepKeeps, TickRestoreKeeps, TickDropDuplicateKeeps, TickDropQuietKeeps,
   TickPostKeeps, TickNothingKeeps DEF Tick

-----------------------------------------------------------------------------
(* The answers.                                                            *)

(* What every answer does to the tick.                                     *)
LEMMA AnsweredKeeps ==
    ASSUME IInv, Answered
    PROVE  /\ posting \in PostType /\ posting' = None
           /\ ticking' \in [stage : {"idle", "begun", "posting"}, skip : BOOLEAN,
                            asked : BOOLEAN]
           /\ ticking'.stage = "idle"
           /\ items' \in Seq(ItemType) /\ UniqueIds(items')
                 => ((ticking'.stage = "posting") <=> (posting' # None))
                    /\ UniqueIds(items') /\ Agrees(items', posting')
<1>1. posting \in PostType /\ posting' = None
    BY DEF Answered, IInv, TypeOK, InFlightTracked
<1>2. ticking \in [stage : {"idle", "begun", "posting"}, skip : BOOLEAN, asked : BOOLEAN]
    BY DEF IInv, TypeOK
<1>3. ticking' = [ticking EXCEPT !.stage = "idle", !.skip = FALSE]
    BY DEF Answered
<1>4. ticking' \in [stage : {"idle", "begun", "posting"}, skip : BOOLEAN, asked : BOOLEAN]
    <2>1. "idle" \in {"idle", "begun", "posting"} /\ FALSE \in BOOLEAN
        OBVIOUS
    <2> QED BY <1>2, <1>3, <2>1, Zenon
<1>5. ticking'.stage = "idle"
    BY <1>2, <1>3
<1> QED BY <1>1, <1>4, <1>5 DEF Agrees

(* The types of what is in flight.                                         *)
LEMMA PostFields ==
    ASSUME NEW p \in PostType
    PROVE  p.item \in ItemType /\ p.index \in Nat \ {0} /\ p.sent \in Layouts
BY DEF PostType

(* The boards show layouts, whoever took the page.                         *)
LEMMA FlippedType ==
    ASSUME IInv, posting \in PostType, NEW B
    PROVE  Flipped(B) \in [Boards -> Layouts \cup {None}]
<1>1. posting.sent \in Layouts /\ flaps \in [Boards -> Layouts \cup {None}]
    BY PostFields DEF IInv, TypeOK
<1> QED BY <1>1 DEF Flipped

(* onPosted.                                                               *)
LEMMA PostAcceptedKeeps ==
    ASSUME IInv, PostAccepted
    PROVE  IInv'
<1> DEFINE it == posting.item
           line == Without(items, AnsweredPages)
           turns == TakesItsTurn(it)
           owned == laneLock # None /\ BelongsTo(it, laneLock.source)
           hold == IF owned THEN 0 ELSE it.face.hold
           cutShort == line # <<>> /\ CutsIn(line[1])
           follows == line # <<>> /\ InSequence(it) /\ line[1].batch = it.batch
           wait == Larger(line[1].wait, Larger(it.face.reading, BoardDwell))
<1>1. /\ Answered /\ UNCHANGED <<laneLock, coalesceSeen, quiet>>
      /\ failures' = 0 /\ health' = "ok" /\ persisted' = 0
      /\ current' = [rows |-> LayoutOf(it), boards |-> it.face.boards]
      /\ lastSnapshot' = IF CutsIn(it) THEN lastSnapshot
                         ELSE [card |-> it.face, page |-> it.page]
      /\ schedulerPage' =
            IF ~turns THEN schedulerPage
            ELSE IF it.meta.scheduler /\ ~it.meta.closing /\ KeyOf(it.meta) # None
                 THEN [key |-> KeyOf(it.meta), boards |-> it.face.boards]
                 ELSE None
      /\ clearAfterHold' = IF turns THEN hold > 0 /\ it.meta.clears ELSE clearAfterHold
    BY DEF PostAccepted
<1>2. posting \in PostType /\ posting' = None
    BY <1>1, AnsweredKeeps
<1>3. /\ it \in ItemType /\ it.face \in CardType /\ it.meta \in CardType
      /\ it.face.boards \in SUBSET Boards /\ it.face.reading \in Nat /\ it.face.hold \in Nat
    BY <1>2, PostFields, ItemFields, CardFields
<1>4. current' \in [rows : Layouts, boards : SUBSET Boards] \cup {None}
    <2>1. LayoutOf(it) \in Layouts
        BY <1>3, LayoutType
    <2> QED BY <1>1, <1>3, <2>1
<1>5. lastSnapshot' \in FrameType \cup {None}
    <2>1. [card |-> it.face, page |-> it.page] \in FrameType
        BY <1>3, ItemFields DEF FrameType
    <2> QED BY <1>1, <2>1 DEF IInv, TypeOK
<1>6. schedulerPage' \in [key : Keys, boards : SUBSET Boards] \cup {None}
    <2>1. KeyOf(it.meta) \in Keys \cup {None}
        BY <1>3, KeyOfType
    <2>2. schedulerPage \in [key : Keys, boards : SUBSET Boards] \cup {None}
        BY DEF IInv, TypeOK
    <2> HIDE DEF it, turns
    <2> QED BY <1>1, <1>3, <2>1, <2>2
<1>7. clearAfterHold' \in BOOLEAN
    <2>1. it.meta.clears \in BOOLEAN /\ clearAfterHold \in BOOLEAN
        BY <1>3, CardFields DEF IInv, TypeOK
    <2> HIDE DEF it, turns, hold
    <2> QED BY <1>1, <2>1
<1>8. clocks' \in ClocksType
    <2> DEFINE restore == IF CutsIn(it) THEN it.face.reading ELSE Never
               sinceFlip == IF turns /\ it.meta.scheduler THEN 0 ELSE clocks.sinceFlip
               held == IF turns THEN hold ELSE clocks.hold
               dwell == IF CutsIn(it) \/ (turns /\ (cutShort \/ owned)) THEN 0
                        ELSE IF turns THEN BoardDwell ELSE clocks.dwell
    <2>1. clocks' = [clocks EXCEPT
                        !.sincePost = 0, !.retry = 0, !.restore = restore,
                        !.sinceFlip = sinceFlip, !.hold = held, !.dwell = dwell]
        BY DEF PostAccepted
    <2>2. clocks \in ClocksType
        BY InvariantParts
    <2>3. /\ 0 \in Nat /\ restore \in Nat \cup {Never} /\ sinceFlip \in Nat
          /\ held \in Nat /\ dwell \in Nat
        <3> HIDE DEF it, turns, cutShort, owned
        <3> QED BY <1>3, <2>2, ClockFields, QueueAssumption
    <2> HIDE DEF restore, sinceFlip, held, dwell
    <2> QED BY <2>1, <2>2, <2>3, Zenon DEF ClocksType
<1>9. items' \in Seq(ItemType) /\ UniqueIds(items')
    <2>1. line \in Seq(ItemType) /\ UniqueIds(line)
        BY LineCut DEF WellFormed
    <2>2. items' = IF follows THEN [line EXCEPT ![1].wait = wait] ELSE line
        BY DEF PostAccepted
    <2>3. follows => line # <<>>
        OBVIOUS
    <2> HIDE DEF line, follows
    <2>4. line # <<>> => wait \in Nat
        <3>1. ASSUME line # <<>> PROVE line[1].wait \in Nat
            <4>1. line[1] \in ItemType
                BY <2>1, <3>1
            <4> QED BY <4>1, ItemFields
        <3> HIDE DEF it
        <3> QED BY <3>1, <1>3, QueueAssumption DEF Larger
    <2> HIDE DEF wait
    <2> QED BY <2>1, <2>2, <2>3, <2>4, HeadWaits
<1>10. flaps' \in [Boards -> Layouts \cup {None}]
    BY <1>2, FlippedType DEF PostAccepted
<1> HIDE DEF it, line, turns, owned, hold, cutShort, follows, wait
<1>11. InFlightTracked'
    BY <1>1, <1>9, AnsweredKeeps DEF InFlightTracked
<1>12. TypeOK'
    <2>1. /\ failures' \in Nat /\ health' \in {"ok", "unhealthy", "degraded"}
          /\ persisted' \in Nat \cup {Never}
        BY <1>1
    <2>2. ticking' \in [stage : {"idle", "begun", "posting"}, skip : BOOLEAN, asked : BOOLEAN]
        BY <1>1, AnsweredKeeps
    <2> QED BY <1>1, <1>2, <1>4, <1>5, <1>6, <1>7, <1>8, <1>9, <1>10, <2>1, <2>2
            DEF IInv, TypeOK
<1> QED BY <1>11, <1>12 DEF IInv

(* Any wait may be set before the next attempt.                            *)
LEMMA RetryType ==
    ASSUME NEW k \in ClocksType, NEW n \in Nat
    PROVE  [k EXCEPT !.retry = n] \in ClocksType
BY Zenon DEF ClocksType

(* The flaps are still moving.                                             *)
LEMMA PostBusyKeeps ==
    ASSUME IInv, PostBusy
    PROVE  IInv'
<1> DEFINE n == IF clocks.sincePost = Never THEN RateWindow + 1
                ELSE Larger(0, RateWindow + 1 - clocks.sincePost)
<1>1. n \in Nat
    BY InvariantParts, ClockFields, QueueAssumption DEF Larger
<1>2. clocks' = [clocks EXCEPT !.retry = n]
    BY DEF PostBusy
<1> HIDE DEF n
<1>3. clocks' \in ClocksType
    BY <1>1, <1>2, InvariantParts, RetryType
<1> QED BY <1>3, AnsweredKeeps DEF PostBusy, IInv, TypeOK, InFlightTracked

(* onFailed.                                                               *)
LEMMA PostFailedKeeps ==
    ASSUME IInv, PostFailed
    PROVE  IInv'
<1> DEFINE n == IF failures + 1 \in DOMAIN RetryDelays THEN RetryDelays[failures + 1]
                ELSE UnhealthyRetry
<1>1. n \in Nat
    BY QueueAssumption
<1>2. clocks' = [clocks EXCEPT !.retry = n]
    BY DEF PostFailed
<1> HIDE DEF n
<1>3. clocks' \in ClocksType
    BY <1>1, <1>2, InvariantParts, RetryType
<1>4. failures' \in Nat
    BY QueueAssumption DEF PostFailed, Smaller, IInv, TypeOK
<1>5. flaps' \in [Boards -> Layouts \cup {None}]
    BY AnsweredKeeps, FlippedType DEF PostFailed
<1> QED BY <1>3, <1>4, <1>5, AnsweredKeeps DEF PostFailed, IInv, TypeOK, InFlightTracked

(* A tick from its await on.                                               *)
LEMMA AnswerKeeps ==
    ASSUME IInv, Answer
    PROVE  IInv'
<1>1. CASE PostAccepted
    BY <1>1, PostAcceptedKeeps
<1>2. CASE PostBusy
    BY <1>2, PostBusyKeeps
<1>3. CASE PostQuiet
    BY <1>3, AnsweredKeeps DEF PostQuiet, state, IInv, TypeOK, InFlightTracked
<1>4. CASE PostRejected
    <2>1. items' \in Seq(ItemType) /\ UniqueIds(items')
        BY <1>4, LineCut DEF PostRejected, WellFormed
    <2> QED BY <1>4, <2>1, AnsweredKeeps DEF PostRejected, IInv, TypeOK, InFlightTracked
<1>5. CASE PostRefused
    BY <1>5, AnsweredKeeps DEF PostRefused, IInv, TypeOK, InFlightTracked
<1>6. CASE PostFailed
    BY <1>6, PostFailedKeeps
<1> QED BY <1>1, <1>2, <1>3, <1>4, <1>5, <1>6 DEF Answer

-----------------------------------------------------------------------------
(* Sessions, people, settings, time and a restart.                         *)

(* Whatever takes pages out of the line and touches the lock at most.      *)
LEMMA CutKeeps ==
    ASSUME IInv, NEW I, items' = Without(items, I), laneLock' \in LockType \cup {None},
           UNCHANGED <<current, lastSnapshot, schedulerPage, clearAfterHold, clocks,
                       coalesceSeen, health, failures, ticking, posting, quiet, flaps,
                       persisted>>
    PROVE  IInv'
<1>1. WellFormed(items', posting')
    BY LineCut
<1> QED BY <1>1 DEF WellFormed, IInv, TypeOK, InFlightTracked

(* Clear, cancel and takeBoard.                                            *)
LEMMA DropPagesKeeps ==
    ASSUME IInv, NEW I, DropPages(I)
    PROVE  IInv'
BY CutKeeps, InvariantParts DEF DropPages

(* A close payload.                                                        *)
LEMMA SubmitCloseKeeps ==
    ASSUME IInv, NEW s \in Sources, SubmitClose(s)
    PROVE  IInv'
<1>1. laneLock' \in LockType \cup {None}
    BY InvariantParts DEF SubmitClose
<1> QED BY <1>1, CutKeeps DEF SubmitClose

(* acquireGameLock.                                                        *)
LEMMA AcquireLockKeeps ==
    ASSUME IInv, NEW s \in Sources, NEW joinWait \in BOOLEAN, AcquireLock(s, joinWait)
    PROVE  IInv'
<1>1. laneLock' \in LockType \cup {None}
    BY LockTypes DEF AcquireLock
<1>2. CASE laneLock # None /\ laneLock.source # s
    <2>1. items' = Without(items, OwnedBy(items, laneLock))
        BY <1>2 DEF AcquireLock
    <2> QED BY <1>1, <2>1, CutKeeps DEF AcquireLock
<1>3. CASE ~(laneLock # None /\ laneLock.source # s)
    BY <1>1, <1>3 DEF AcquireLock, IInv, TypeOK, InFlightTracked
<1> QED BY <1>2, <1>3

(* releaseGameLock, and a lock that runs out.                              *)
LEMMA LockReleasedKeeps ==
    ASSUME IInv, (\E s \in Sources : ReleaseLock(s)) \/ LockExpires
    PROVE  IInv'
BY DEF ReleaseLock, LockExpires, IInv, TypeOK, InFlightTracked

(* The Release hold button.                                                *)
LEMMA ReleaseHoldsKeeps ==
    ASSUME IInv, ReleaseHolds
    PROVE  IInv'
<1>1. [clocks EXCEPT !.hold = 0] \in ClocksType
    BY InvariantParts DEF ClocksType
<1> QED BY <1>1 DEF ReleaseHolds, IInv, TypeOK, InFlightTracked

(* Every page's wait changes at once.                                      *)
LEMMA WaitsChange ==
    ASSUME NEW line \in Seq(ItemType), UniqueIds(line),
           NEW w, \A i \in DOMAIN line : w[i] \in Nat
    PROVE  /\ [i \in DOMAIN line |-> [line[i] EXCEPT !.wait = w[i]]] \in Seq(ItemType)
           /\ UniqueIds([i \in DOMAIN line |-> [line[i] EXCEPT !.wait = w[i]]])
<1> DEFINE new == [i \in DOMAIN line |-> [line[i] EXCEPT !.wait = w[i]]]
<1>1. \A i \in DOMAIN line : new[i] \in ItemType /\ SameItem(new[i], line[i])
    <2>1. SUFFICES ASSUME NEW i \in DOMAIN line
                   PROVE  /\ [line[i] EXCEPT !.wait = w[i]] \in ItemType
                          /\ SameItem([line[i] EXCEPT !.wait = w[i]], line[i])
        OBVIOUS
    <2>2. line[i] \in ItemType /\ w[i] \in Nat
        OBVIOUS
    <2> QED BY <2>2, ItemChanges
<1>2. new = [i \in DOMAIN line |-> new[i]]
    OBVIOUS
<1> HIDE DEF new
<1>3. new \in Seq(ItemType) /\ UniqueIds(new)
    BY <1>1, <1>2, ChangedUnique
<1> QED BY <1>3 DEF new

(* skipToNext, up to its tick.                                             *)
LEMMA SkipToNextKeeps ==
    ASSUME IInv, SkipToNext
    PROVE  IInv'
<1> DEFINE shown == {i \in DOMAIN items : \A j \in 1..i : AlreadyShowing(items[j])}
           left == Without(items, shown)
           line == [i \in DOMAIN left |-> [left[i] EXCEPT !.wait = 0]]
<1>1. /\ Free /\ items' = line /\ posting' = Tracked(line)
      /\ laneLock' = IF line # <<>> /\ Lane(line[1].face) = "game"
                     THEN [PolicyLock(line[1].meta.source, FALSE)
                              EXCEPT !.rank = Rank(line[1].face)]
                     ELSE None
      /\ ticking' = [ticking EXCEPT !.asked = line # <<>>]
      /\ clocks' = [clocks EXCEPT !.hold = 0, !.dwell = 0, !.retry = 0, !.restore = Never,
                                  !.sincePost = Never]
      /\ clearAfterHold' = FALSE /\ schedulerPage' = None
      /\ UNCHANGED <<current, lastSnapshot, coalesceSeen, health, failures, quiet, flaps,
                     persisted>>
    BY DEF SkipToNext
<1>2. left \in Seq(ItemType) /\ UniqueIds(left)
    BY LineCut DEF WellFormed
<1> HIDE DEF left
<1>3. line \in Seq(ItemType) /\ UniqueIds(line)
    <2> DEFINE w == [i \in DOMAIN left |-> 0]
    <2>1. \A i \in DOMAIN left : w[i] \in Nat
        OBVIOUS
    <2>2. line = [i \in DOMAIN left |-> [left[i] EXCEPT !.wait = w[i]]]
        OBVIOUS
    <2> HIDE DEF w
    <2> QED BY <1>2, <2>1, <2>2, WaitsChange
<1> HIDE DEF line
<1>4. /\ posting' \in PostType \cup {None}
      /\ (posting' = None) <=> (posting = None)
      /\ Agrees(items', posting')
    BY <1>1, <1>3, InvariantParts, TrackedWellFormed DEF WellFormed
<1>5. laneLock' \in LockType \cup {None}
    <2>1. SUFFICES ASSUME line # <<>>
                   PROVE  [PolicyLock(line[1].meta.source, FALSE)
                              EXCEPT !.rank = Rank(line[1].face)] \in LockType
        BY <1>1
    <2>2. line[1] \in ItemType
        BY <1>3, <2>1
    <2>3. line[1].meta.source \in Sources /\ line[1].face.source \in Sources
        BY <2>2, ItemFields, CardFields
    <2>4. PolicyLock(line[1].meta.source, FALSE) \in LockType
        BY <2>3, LockTypes
    <2>5. Rank(line[1].face) \in Nat
        BY <2>3, RuleFields DEF Rank
    <2> QED BY <2>4, <2>5 DEF LockType
<1>6. clocks' \in ClocksType
    <2>1. 0 \in Nat /\ Never \in Nat \cup {Never}
        OBVIOUS
    <2> QED BY <1>1, <2>1, InvariantParts, Zenon DEF ClocksType
<1>7. /\ ticking' \in [stage : {"idle", "begun", "posting"}, skip : BOOLEAN, asked : BOOLEAN]
      /\ ticking'.stage = ticking.stage
    <2> DEFINE some == line # <<>>
    <2>1. some \in BOOLEAN
        OBVIOUS
    <2>2. ticking' = [ticking EXCEPT !.asked = some]
        BY <1>1
    <2>3. ticking \in [stage : {"idle", "begun", "posting"}, skip : BOOLEAN, asked : BOOLEAN]
        BY DEF IInv, TypeOK
    <2> HIDE DEF some
    <2> QED BY <2>1, <2>2, <2>3
<1>8. InFlightTracked'
    BY <1>1, <1>3, <1>4, <1>7 DEF IInv, InFlightTracked
<1>9. TypeOK'
    BY <1>1, <1>3, <1>4, <1>5, <1>6, <1>7 DEF IInv, TypeOK
<1> QED BY <1>8, <1>9 DEF IInv

(* reorder: a permutation of the line.                                     *)
LEMMA ReorderKeeps ==
    ASSUME IInv, Reorder
    PROVE  IInv'
<1>1. PICK p \in [DOMAIN items -> DOMAIN items] :
          /\ \A k, m \in DOMAIN items : k < m => p[k] # p[m]
          /\ items' = [k \in DOMAIN items |-> items[p[k]]]
    BY DEF Reorder, Reorders
<1>2. /\ items \in Seq(ItemType) /\ UniqueIds(items) /\ Agrees(items, posting)
      /\ DOMAIN items = 1..Len(items) /\ Len(items) \in Nat
    BY InvariantParts DEF WellFormed
<1>3. items' \in Seq(ItemType) /\ DOMAIN items' = DOMAIN items
    <2>1. items' \in [1..Len(items) -> ItemType]
        BY <1>1, <1>2
    <2> QED BY <1>2, <2>1
<1>4. UniqueIds(items')
    <2>1. SUFFICES ASSUME NEW k \in DOMAIN items, NEW m \in DOMAIN items,
                          SameItem(items'[k], items'[m])
                   PROVE  k = m
        BY <1>3 DEF UniqueIds
    <2>2. p[k] = p[m]
        BY <1>1, <1>2, <2>1 DEF UniqueIds
    <2>3. k \in Nat /\ m \in Nat
        BY <1>2
    <2> QED BY <1>1, <2>2, <2>3
<1>5. Agrees(items', posting')
    BY <1>1, <1>2, <1>3 DEF Reorder, Agrees
<1> QED BY <1>3, <1>4, <1>5 DEF Reorder, IInv, TypeOK, InFlightTracked

(* A new key, and the quiet window.                                        *)
LEMMA SettingsKeep ==
    ASSUME IInv, NewKey \/ SetQuiet
    PROVE  IInv'
<1>1. CASE NewKey
    <2>1. clocks' \in ClocksType
        BY <1>1, InvariantParts, RetryType DEF NewKey
    <2> QED BY <1>1, <2>1 DEF NewKey, IInv, TypeOK, InFlightTracked
<1>2. CASE SetQuiet
    BY <1>2 DEF SetQuiet, state, IInv, TypeOK, InFlightTracked
<1> QED BY <1>1, <1>2

(* A restart.                                                              *)
LEMMA RestartKeeps ==
    ASSUME IInv, Restart
    PROVE  IInv'
<1>1. clocks' \in ClocksType
    BY QueueAssumption DEF Restart, SeededClocks, FreshClocks, ClocksType, IInv, TypeOK
<1>2. coalesceSeen' \in [Keys -> Nat]
    BY QueueAssumption DEF Restart
<1>3. flaps' \in [Boards -> Layouts \cup {None}]
    BY FlippedType DEF Restart, IInv, TypeOK
<1>4. items' \in Seq(ItemType) /\ UniqueIds(items') /\ Agrees(items', posting')
    BY DEF Restart, UniqueIds, Agrees
<1> QED BY <1>1, <1>2, <1>3, <1>4 DEF Restart, Idle, IInv, TypeOK, InFlightTracked

(* Countdowns stop at zero and ages grow; null stays null.                 *)
LEMMA Ages ==
    /\ \A n \in Nat : Sooner(n) \in Nat
    /\ Sooner(Never) = Never
    /\ \A n, cap \in Nat : Older(n, cap) \in Nat
    /\ \A cap : Older(Never, cap) = Never
BY DEF Sooner, Older, Smaller, Never

(* One unit of time.                                                       *)
LEMMA TimePassesKeeps ==
    ASSUME IInv, TimePasses
    PROVE  IInv'
<1>1. items' \in Seq(ItemType) /\ UniqueIds(items')
    <2> DEFINE w == [i \in DOMAIN items |-> Sooner(items[i].wait)]
    <2>1. items \in Seq(ItemType) /\ UniqueIds(items)
        BY InvariantParts DEF WellFormed
    <2>2. \A i \in DOMAIN items : w[i] \in Nat
        <3>1. SUFFICES ASSUME NEW i \in DOMAIN items PROVE Sooner(items[i].wait) \in Nat
            OBVIOUS
        <3>2. items[i] \in ItemType
            BY <2>1
        <3> QED BY <3>2, ItemFields, Ages
    <2>3. items' = [i \in DOMAIN items |-> [items[i] EXCEPT !.wait = w[i]]]
        BY DEF TimePasses
    <2> HIDE DEF w
    <2> QED BY <2>1, <2>2, <2>3, WaitsChange
<1>2. /\ posting' \in PostType \cup {None}
      /\ (posting' = None) <=> (posting = None)
      /\ Agrees(items', posting')
    BY <1>1, InvariantParts, TrackedWellFormed DEF TimePasses, WellFormed
<1>3. clocks' \in ClocksType
    <2>1. /\ clocks.sincePost \in Nat \cup {Never} /\ clocks.restore \in Nat \cup {Never}
          /\ clocks.sinceFlip \in Nat /\ clocks.hold \in Nat /\ clocks.dwell \in Nat
          /\ clocks.retry \in Nat /\ RateWindow + 1 \in Nat /\ RotationGap \in Nat
        BY InvariantParts, ClockFields, QueueAssumption
    <2>2. /\ Older(clocks.sincePost, RateWindow + 1) \in Nat \cup {Never}
          /\ Older(clocks.sinceFlip, RotationGap) \in Nat
          /\ Sooner(clocks.hold) \in Nat /\ Sooner(clocks.dwell) \in Nat
          /\ Sooner(clocks.retry) \in Nat /\ Sooner(clocks.restore) \in Nat \cup {Never}
        BY <2>1, Ages
    <2> QED BY <2>2 DEF TimePasses, ClocksType
<1>4. laneLock' \in LockType \cup {None}
    <2>1. CASE laneLock = None
        BY <2>1 DEF TimePasses
    <2>2. CASE laneLock # None
        <3>1. laneLock \in LockType
            BY <2>2, InvariantParts
        <3>2. Sooner(laneLock.left) \in Nat
            BY <3>1, Ages DEF LockType
        <3>3. laneLock' = [laneLock EXCEPT !.left = Sooner(laneLock.left)]
            BY <2>2 DEF TimePasses
        <3> QED BY <3>1, <3>2, <3>3 DEF LockType
    <2> QED BY <2>1, <2>2
<1>5. coalesceSeen' \in [Keys -> Nat]
    BY QueueAssumption, Ages DEF TimePasses, IInv, TypeOK
<1>6. persisted' \in Nat \cup {Never}
    <2>1. RateWindow + 1 \in Nat /\ persisted \in Nat \cup {Never}
        BY QueueAssumption DEF IInv, TypeOK
    <2>2. persisted' = Older(persisted, RateWindow + 1)
        BY DEF TimePasses
    <2> QED BY <2>1, <2>2, Ages
<1> QED BY <1>1, <1>2, <1>3, <1>4, <1>5, <1>6 DEF TimePasses, IInv, TypeOK, InFlightTracked

-----------------------------------------------------------------------------

(* The queue starts in the invariant.                                      *)
LEMMA InitEstablishes == Init => IInv
<1> SUFFICES ASSUME Init PROVE IInv
    OBVIOUS
<1>1. FreshClocks \in ClocksType
    BY QueueAssumption DEF FreshClocks, ClocksType
<1>2. coalesceSeen \in [Keys -> Nat]
    BY QueueAssumption DEF Init
<1>3. items \in Seq(ItemType) /\ UniqueIds(items) /\ Agrees(items, posting)
    BY DEF Init, UniqueIds, Agrees
<1> QED BY <1>1, <1>2, <1>3 DEF Init, Idle, IInv, TypeOK, InFlightTracked

(* No step leaves it.                                                      *)
LEMMA StepKeeps == IInv /\ [Next]_vars => IInv'
<1> SUFFICES ASSUME IInv, [Next]_vars PROVE IInv'
    OBVIOUS
<1>1. CASE \E c \in Cards : Submit(c)
    BY <1>1, SubmitKeeps
<1>2. CASE \E s \in Sources : SubmitClose(s)
    BY <1>2, SubmitCloseKeeps
<1>3. CASE (\E s \in Sources : ReleaseLock(s)) \/ LockExpires
    BY <1>3, LockReleasedKeeps
<1>4. CASE \E s \in Sources : TakeBoard(s)
    BY <1>4, DropPagesKeeps DEF TakeBoard
<1>5. CASE \E s \in Sources, joinWait \in BOOLEAN : AcquireLock(s, joinWait)
    BY <1>5, AcquireLockKeeps
<1>6. CASE \E skip \in BOOLEAN : Tick(skip)
    BY <1>6, TickKeeps
<1>7. CASE Answer
    BY <1>7, AnswerKeeps
<1>8. CASE ReleaseHolds
    BY <1>8, ReleaseHoldsKeeps
<1>9. CASE SkipToNext
    BY <1>9, SkipToNextKeeps
<1>10. CASE Clear \/ \E i \in 1..MaxItems + 1 : Cancel(i)
    BY <1>10, DropPagesKeeps DEF Clear, Cancel
<1>11. CASE Reorder
    BY <1>11, ReorderKeeps
<1>12. CASE NewKey \/ SetQuiet
    BY <1>12, SettingsKeep
<1>13. CASE Restart
    BY <1>13, RestartKeeps
<1>14. CASE TimePasses
    BY <1>14, TimePassesKeeps
<1>15. CASE UNCHANGED vars
    BY <1>15 DEF vars, IInv, TypeOK, InFlightTracked, UniqueIds, Agrees, SameItem
<1> QED BY <1>1, <1>2, <1>3, <1>4, <1>5, <1>6, <1>7, <1>8, <1>9, <1>10, <1>11, <1>12,
           <1>13, <1>14, <1>15 DEF Next

(* The two together hold of every state of every house: the inductive      *)
(* invariant.                                                              *)
THEOREM QueueInvariant == Spec => []IInv
BY InitEstablishes, StepKeeps, PTL DEF Spec

(* Every handler leaves the queue's state well typed: no waiting page      *)
(* without a frame, no clock below zero, whatever the cards and boards.    *)
THEOREM QueueTypeCorrect == Spec => []TypeOK
<1>1. IInv => TypeOK
    BY DEF IInv
<1> QED BY <1>1, QueueInvariant, PTL

(* One page, one object: no two waiting pages share an id, and the page in *)
(* flight and its entry in the line never come apart, whatever is offered, *)
(* skipped, cancelled or reordered during the await.                       *)
THEOREM PageInFlightIsTracked == Spec => []InFlightTracked
<1>1. IInv => InFlightTracked
    BY DEF IInv
<1> QED BY <1>1, QueueInvariant, PTL

-----------------------------------------------------------------------------
(* The order of a card's pages.                                            *)

(* The two pages of one submission that wear one label.                    *)
Alike(i, j) == i.batch = j.batch /\ LabelOf[LayoutOf(i)] = LabelOf[LayoutOf(j)]

(* A page no later offer can replace.                                      *)
Unkeyed(i) == KeyOf(i.meta) = None

(* What can be offered: the house's cards, and a frame that is put back.   *)
Offered == Cards \cup {c \in CardType : Len(c.rows) = 1}

(* The pages of one submission are of one card.                            *)
OneCard(line) ==
    /\ \A i \in DOMAIN line : line[i].meta \in Offered
    /\ \A i, j \in DOMAIN line : line[i].batch = line[j].batch => line[i].meta = line[j].meta

InOrder(line) ==
    \A i, j \in DOMAIN line :
        i < j /\ InSequence(line[i]) /\ Unkeyed(line[i]) /\ Alike(line[i], line[j])
            => line[i].nth < line[j].nth

(* The same page, however long it has yet to wait.                         *)
SamePage(i, j) ==
    /\ i.batch = j.batch /\ i.nth = j.nth
    /\ i.meta = j.meta /\ i.face = j.face /\ i.page = j.page

(* What is left of a line that only loses pages.                           *)
Thinned(new, line) ==
    /\ \A k \in DOMAIN new : \E i \in DOMAIN line : SamePage(new[k], line[i])
    /\ \A k, m \in DOMAIN new : k < m =>
          \E i, j \in DOMAIN line :
              i < j /\ SamePage(new[k], line[i]) /\ SamePage(new[m], line[j])

(* What is left of a line in order is in order.                            *)
LEMMA ThinnedKeepsOrder ==
    ASSUME NEW line, NEW new, OneCard(line), InOrder(line), Thinned(new, line)
    PROVE  OneCard(new) /\ InOrder(new)
<1>1. OneCard(new)
    BY DEF OneCard, Thinned, SamePage
<1>2. ASSUME NEW k \in DOMAIN new, NEW m \in DOMAIN new, k < m,
             InSequence(new[k]), Unkeyed(new[k]), Alike(new[k], new[m])
      PROVE  new[k].nth < new[m].nth
    <2>1. PICK i \in DOMAIN line, j \in DOMAIN line :
              i < j /\ SamePage(new[k], line[i]) /\ SamePage(new[m], line[j])
        BY <1>2 DEF Thinned
    <2>2. InSequence(line[i]) /\ Unkeyed(line[i]) /\ Alike(line[i], line[j])
        BY <1>2, <2>1 DEF SamePage, InSequence, Unkeyed, Alike, LayoutOf
    <2>3. line[i].nth < line[j].nth
        BY <2>1, <2>2 DEF InOrder
    <2> QED BY <2>1, <2>3 DEF SamePage
<1> QED BY <1>1, <1>2 DEF InOrder

(* Pages that leave a line, and pages that wait longer or shorter.         *)
LEMMA WithoutThins ==
    ASSUME NEW line \in Seq(ItemType), NEW I
    PROVE  Thinned(Without(line, I), line)
<1> DEFINE w == Without(line, I)
<1>1. /\ \A k \in DOMAIN w : \E i \in (DOMAIN line) \ I : w[k] = line[i]
      /\ \A k, m \in DOMAIN w : k < m =>
            \E i, j \in (DOMAIN line) \ I : i < j /\ w[k] = line[i] /\ w[m] = line[j]
    BY WithoutProperties
<1> HIDE DEF w
<1>2. Thinned(w, line)
    BY <1>1 DEF Thinned, SamePage
<1> QED BY <1>2 DEF w

LEMMA WaitsThin ==
    ASSUME NEW line \in Seq(ItemType), NEW old, Thinned(line, old), NEW w
    PROVE  Thinned([i \in DOMAIN line |-> [line[i] EXCEPT !.wait = w[i]]], old)
<1> DEFINE new == [i \in DOMAIN line |-> [line[i] EXCEPT !.wait = w[i]]]
<1>1. DOMAIN new = DOMAIN line
    OBVIOUS
<1>2. ASSUME NEW i \in DOMAIN line PROVE SamePage(new[i], line[i])
    <2>1. line[i] \in ItemType /\ new[i] = [line[i] EXCEPT !.wait = w[i]]
        OBVIOUS
    <2> HIDE DEF new
    <2> QED BY <2>1 DEF SamePage, ItemType
<1> HIDE DEF new
<1>3. Thinned(new, old)
    BY <1>1, <1>2 DEF Thinned, SamePage
<1> QED BY <1>3 DEF new

Delayed(line, w) == [line EXCEPT ![1].wait = w]

LEMMA HeadWaitThins ==
    ASSUME NEW line \in Seq(ItemType), NEW old, Thinned(line, old), NEW w
    PROVE  Thinned(Delayed(line, w), old)
<1> DEFINE new == [line EXCEPT ![1].wait = w]
<1>1. DOMAIN new = DOMAIN line
    OBVIOUS
<1>2. ASSUME NEW i \in DOMAIN line PROVE SamePage(new[i], line[i])
    BY DEF SamePage
<1> HIDE DEF new
<1>3. Thinned(new, old)
    BY <1>1, <1>2 DEF Thinned, SamePage
<1> QED BY <1>3 DEF new, Delayed

(* A new submission's pages among the others.                              *)
LEMMA InsertKeepsOrder ==
    ASSUME NEW line \in Seq(ItemType), OneCard(line), InOrder(line), NEW n \in 0..Len(line),
           NEW c \in Offered, NEW t \in Seq(ItemType), NEW b, Submission(t, b),
           \A i \in DOMAIN t : t[i].meta = c,
           \A i \in DOMAIN line : line[i].batch # b
    PROVE  OneCard(Insert(line, n, t)) /\ InOrder(Insert(line, n, t))
<1> DEFINE new == Insert(line, n, t)
           m == Len(t)
           old(i) == IF i <= n THEN i ELSE i - m
           fresh(i) == n < i /\ i <= n + m
<1>1. /\ new \in Seq(ItemType) /\ Len(new) = Len(line) + m
      /\ \A i \in 1..(Len(line) + m) :
            new[i] = IF i <= n THEN line[i] ELSE IF i <= n + m THEN t[i - n] ELSE line[i - m]
    BY InsertProperties
<1>2. n \in Nat /\ m \in Nat /\ Len(line) \in Nat /\ n <= Len(line)
    OBVIOUS
<1>3. DOMAIN new = 1..(Len(line) + m) /\ DOMAIN line = 1..Len(line) /\ DOMAIN t = 1..m
    BY <1>1
<1> HIDE DEF new, m
<1>4. ASSUME NEW i \in DOMAIN new, fresh(i)
      PROVE  new[i].batch = b /\ new[i].nth = i - n /\ new[i].meta = c
    <2>1. i - n \in DOMAIN t /\ ~(i <= n)
        BY <1>2, <1>3, <1>4
    <2> QED BY <2>1, <1>1, <1>3, <1>4 DEF Submission
<1>5. ASSUME NEW i \in DOMAIN new, ~fresh(i)
      PROVE  new[i] = line[old(i)] /\ old(i) \in DOMAIN line
    BY <1>1, <1>2, <1>3, <1>5
<1>6. ASSUME NEW i \in DOMAIN new, NEW j \in DOMAIN new, new[i].batch = new[j].batch
      PROVE  \/ fresh(i) /\ fresh(j)
             \/ ~fresh(i) /\ ~fresh(j)
    BY <1>4, <1>5, <1>6
<1>7. OneCard(new)
    <2>0. ASSUME NEW i \in DOMAIN new PROVE new[i].meta \in Offered
        BY <1>4, <1>5 DEF OneCard
    <2>1. SUFFICES ASSUME NEW i \in DOMAIN new, NEW j \in DOMAIN new,
                          new[i].batch = new[j].batch
                   PROVE  new[i].meta = new[j].meta
        BY <2>0 DEF OneCard
    <2>2. CASE fresh(i) /\ fresh(j)
        BY <2>2, <1>4
    <2>3. CASE ~fresh(i) /\ ~fresh(j)
        BY <2>1, <2>3, <1>5 DEF OneCard
    <2> QED BY <1>6, <2>1, <2>2, <2>3
<1>8. InOrder(new)
    <2>1. SUFFICES ASSUME NEW i \in DOMAIN new, NEW j \in DOMAIN new, i < j,
                          InSequence(new[i]), Unkeyed(new[i]), Alike(new[i], new[j])
                   PROVE  new[i].nth < new[j].nth
        BY DEF InOrder
    <2>2. CASE fresh(i) /\ fresh(j)
        BY <2>1, <2>2, <1>2, <1>3, <1>4
    <2>3. CASE ~fresh(i) /\ ~fresh(j)
        <3>1. old(i) < old(j)
            BY <2>1, <2>3, <1>2, <1>3
        <3>2. /\ new[i] = line[old(i)] /\ old(i) \in DOMAIN line
              /\ new[j] = line[old(j)] /\ old(j) \in DOMAIN line
            BY <2>3, <1>5
        <3> HIDE DEF old
        <3> QED BY <2>1, <3>1, <3>2 DEF InOrder
    <2> QED BY <1>6, <2>1, <2>2, <2>3 DEF Alike
<1> QED BY <1>7, <1>8 DEF new

(* A page that shows another card from now on.                             *)
Showing(i, c) == [i EXCEPT !.face = c, !.page = 1]

Shows(line, n, c) == [line EXCEPT ![n] = Showing(line[n], c)]

LEMMA ShowingType ==
    ASSUME NEW i \in ItemType, NEW c \in CardType, c.rows # <<>>
    PROVE  Showing(i, c) \in ItemType
<1>1. \A d \in CardType : d.rows # <<>> => Showing(i, d) \in ItemType
    BY ItemChanges, Zenon DEF Showing
<1> QED BY <1>1

LEMMA ReplacedKeepsOrder ==
    ASSUME NEW line \in Seq(ItemType), OneCard(line), InOrder(line),
           NEW first \in DOMAIN line, ~Unkeyed(line[first]), NEW c
    PROVE  OneCard(Shows(line, first, c)) /\ InOrder(Shows(line, first, c))
<1> DEFINE new == Shows(line, first, c)
<1>1. DOMAIN new = DOMAIN line
    BY DEF Shows
<1>2. ASSUME NEW i \in DOMAIN line
      PROVE  /\ new[i].batch = line[i].batch /\ new[i].meta = line[i].meta
             /\ i # first => new[i] = line[i]
    <2>1. line[i] \in ItemType
        OBVIOUS
    <2>2. new[i] = IF i = first THEN [line[i] EXCEPT !.face = c, !.page = 1] ELSE line[i]
        BY DEF Shows, Showing
    <2> HIDE DEF new
    <2> QED BY <2>1, <2>2 DEF ItemType
<1> HIDE DEF new
<1>3. OneCard(new)
    BY <1>1, <1>2 DEF OneCard
<1>4. ASSUME NEW i \in DOMAIN new, NEW j \in DOMAIN new, i < j,
             InSequence(new[i]), Unkeyed(new[i]), Alike(new[i], new[j])
      PROVE  new[i].nth < new[j].nth
    <2>1. Unkeyed(line[i]) /\ Unkeyed(line[j])
        BY <1>1, <1>2, <1>4 DEF Unkeyed, Alike, OneCard
    <2>2. new[i] = line[i] /\ new[j] = line[j]
        BY <1>1, <1>2, <2>1
    <2> QED BY <1>1, <1>4, <2>2 DEF InOrder
<1>5. InOrder(new)
    BY <1>4 DEF InOrder
<1> QED BY <1>3, <1>5 DEF new

(* A line that people put in another order.                                *)
LEMMA ReorderKeepsOrder ==
    ASSUME IInv, OneCard(items), InOrder(items), Reorder
    PROVE  OneCard(items') /\ InOrder(items')
<1>1. PICK p \in [DOMAIN items -> DOMAIN items], n \in 0..Len(items) :
          Reorders(p, n) /\ items' = [k \in DOMAIN items |-> items[p[k]]]
    BY DEF Reorder
<1>2. /\ DOMAIN items' = DOMAIN items
      /\ \A k \in DOMAIN items : items'[k] = items[p[k]] /\ p[k] \in DOMAIN items
    BY <1>1
<1>3. OneCard(items')
    BY <1>2 DEF OneCard
<1>4. ASSUME NEW k \in DOMAIN items, NEW m \in DOMAIN items, k < m,
             InSequence(items'[k]), Unkeyed(items'[k]), Alike(items'[k], items'[m])
      PROVE  items'[k].nth < items'[m].nth
    <2>1. SameCard(items[p[k]], items[p[m]])
        BY <1>2, <1>4 DEF SameCard, Alike
    <2>2. p[k] < p[m]
        BY <1>1, <1>4, <2>1 DEF Reorders
    <2> QED BY <1>2, <1>4, <2>2 DEF InOrder
<1>5. InOrder(items')
    BY <1>2, <1>4 DEF InOrder
<1> QED BY <1>3, <1>5

CardsInOrder == OneCard(items) /\ InOrder(items)

(* An offer that shows itself in a waiting page's place.                   *)
LEMMA OfferCoalescedKeepsOrder ==
    ASSUME IInv, CardsInOrder, NEW c \in CardType, c.rows # <<>>, NEW k, OfferCoalesced(c, k)
    PROVE  CardsInOrder'
<1> DEFINE first == Least(Replaceable(c))
           line == Shows(items, first, c)
<1>1. Replaceable(c) # {} /\ \E gone : items' = Without(line, gone)
    BY DEF OfferCoalesced, Coalesces, Shows, Showing
<1>2. first \in DOMAIN items /\ first \in Replaceable(c)
    <2>1. Replaceable(c) \subseteq DOMAIN items
        BY DEF Replaceable
    <2>2. DOMAIN items \subseteq Nat
        BY InvariantParts
    <2> QED BY <1>1, <2>1, <2>2, LeastMember
<1>3. ~Unkeyed(items[first])
    BY <1>2 DEF Replaceable, Unkeyed
<1> HIDE DEF first
<1>4. items \in Seq(ItemType)
    BY InvariantParts
<1>5. line \in Seq(ItemType)
    <2>1. items[first] \in ItemType
        BY <1>2, <1>4
    <2>2. Showing(items[first], c) \in ItemType
        BY <2>1, ShowingType
    <2> QED BY <1>2, <1>4, <2>2 DEF Shows
<1>6. OneCard(line) /\ InOrder(line)
    BY <1>2, <1>3, <1>4, ReplacedKeepsOrder DEF CardsInOrder
<1> HIDE DEF line
<1> QED BY <1>1, <1>5, <1>6, WithoutThins, ThinnedKeepsOrder DEF CardsInOrder

(* A submission that went into the line.                                   *)
LEMMA OfferQueuedKeepsOrder ==
    ASSUME IInv, CardsInOrder, NEW c \in CardType, c \in Offered, NEW k \in ClocksType,
           NEW heard \in BOOLEAN, OfferQueued(c, k, heard)
    PROVE  CardsInOrder'
<1> DEFINE met == LockMet(c)
           ends == EndsHold(c, met)
           claims == ClaimsBoard(c, met)
           handed == heard /\ Preempts(c, met) /\ ~IsMine(c, met)
           lock == IF claims THEN CardLock(c) ELSE IF ends \/ handed THEN None ELSE met
           displaced == met # None /\ ~IsMine(c, met) /\ (ends \/ (claims /\ ~handed))
           gone == (IF displaced THEN OwnedBy(items, met) ELSE {}) \cup ReplacedBy(c)
           line == Without(items, gone)
           breaks == c.takeover /\ TakesBoard(c, met)
           inFront == \/ IsAlert(c)
                      \/ breaks
                      \/ /\ ~IsMine(c, lock)
                         /\ Preempts(c, met) \/ (Jumps(c) /\ Lane(c) # "game")
           place == IF inFront THEN FrontOf(line)
                    ELSE IF IsMine(c, lock) THEN AfterHold(line, lock)
                    ELSE Len(line)
           wait == ClosingWait(c, k)
<1>1. PICK b \in 1..MaxBatch :
          FreshBatch(b) /\ items' = Insert(line, place, Pages(c, b, wait))
    BY DEF OfferQueued
<1> HIDE DEF gone, lock, inFront, wait
<1>2. line \in Seq(ItemType) /\ \A i \in DOMAIN line : \E j \in DOMAIN items : line[i] = items[j]
    BY InvariantParts, WithoutProperties
<1>3. OneCard(line) /\ InOrder(line)
    BY InvariantParts, WithoutThins, ThinnedKeepsOrder DEF CardsInOrder
<1> HIDE DEF line
<1>4. place \in 0..Len(line)
    <2>1. FrontOf(line) \in 0..Len(line)
        BY <1>2, Places DEF FrontOf
    <2>2. AfterHold(line, lock) \in 0..Len(line)
        BY <1>2, Places DEF AfterHold
    <2>3. Len(line) \in 0..Len(line)
        BY <1>2
    <2> QED BY <2>1, <2>2, <2>3
<1>5. wait \in Nat /\ b \in Nat
    BY <1>1, CardFields, ClockFields DEF ClosingWait, Smaller, wait
<1> DEFINE pages == Pages(c, b, wait)
<1>6. pages \in Seq(ItemType) /\ Submission(pages, b) /\ \A i \in DOMAIN pages : pages[i].meta = c
    BY <1>5, PagesType DEF Pages
<1>7. \A i \in DOMAIN line : line[i].batch # b
    BY <1>1, <1>2 DEF FreshBatch
<1> HIDE DEF place, pages
<1>8. OneCard(Insert(line, place, pages)) /\ InOrder(Insert(line, place, pages))
    BY <1>2, <1>3, <1>4, <1>6, <1>7, InsertKeepsOrder
<1> QED BY <1>1, <1>8 DEF CardsInOrder, pages

(* submit, whatever becomes of the offer.                                  *)
LEMMA OfferKeepsOrder ==
    ASSUME IInv, CardsInOrder, NEW c \in CardType, c \in Offered, c.rows # <<>>,
           NEW k \in ClocksType, NEW heard \in BOOLEAN, Offer(c, k, heard)
    PROVE  CardsInOrder'
<1> DEFINE now == IF CutsInNow(c) THEN [k EXCEPT !.dwell = 0] ELSE k
<1>1. now \in ClocksType
    <2>1. [k EXCEPT !.dwell = 0] \in ClocksType
        BY DEF ClocksType
    <2> QED BY <2>1
<1>2. \/ OfferTooSoon(c, now) \/ OfferQuiet(c, now)
      \/ OfferCoalesced(c, now) \/ OfferQueued(c, now, heard)
    BY DEF Offer
<1> HIDE DEF now
<1>3. CASE OfferTooSoon(c, now) \/ OfferQuiet(c, now)
    BY <1>3 DEF OfferTooSoon, OfferQuiet, CardsInOrder
<1> QED BY <1>1, <1>2, <1>3, OfferCoalescedKeepsOrder, OfferQueuedKeepsOrder

(* The steps that only take pages out, or let them wait.                   *)
LEMMA OthersThin ==
    ASSUME IInv,
           \/ \E skip \in BOOLEAN : \/ TickSweep(skip) \/ TickDropDuplicate(skip)
                                    \/ TickDropQuiet(skip)
           \/ PostAccepted \/ PostRejected
           \/ \E s \in Sources : SubmitClose(s) \/ TakeBoard(s)
           \/ \E s \in Sources, joinWait \in BOOLEAN : AcquireLock(s, joinWait)
           \/ SkipToNext \/ Clear \/ \E i \in 1..MaxItems + 1 : Cancel(i)
           \/ TimePasses
    PROVE  items' = items \/ Thinned(items', items)
<1>1. items \in Seq(ItemType)
    BY InvariantParts
<1>2. ASSUME NEW I PROVE Without(items, I) \in Seq(ItemType) /\ Thinned(Without(items, I), items)
    BY <1>1, WithoutThins, WithoutProperties
<1>3. ASSUME NEW I, NEW w
      PROVE  Thinned(Delayed(Without(items, I), w), items)
    BY <1>2, HeadWaitThins
<1>4. CASE \E skip \in BOOLEAN : TickSweep(skip) \/ TickDropQuiet(skip)
    BY <1>2, <1>4 DEF TickSweep, TickDropQuiet
<1>5. CASE \E skip \in BOOLEAN : TickDropDuplicate(skip)
    <2>1. PICK i : \/ items' = Without(items, {i})
                   \/ \E w : items' = Delayed(Without(items, {i}), w)
        BY <1>5 DEF TickDropDuplicate, Delayed
    <2> QED BY <1>2, <1>3, <2>1
<1>6. CASE PostAccepted
    <2>1. \/ items' = Without(items, AnsweredPages)
          \/ \E w : items' = Delayed(Without(items, AnsweredPages), w)
        BY <1>6 DEF PostAccepted, Delayed
    <2> QED BY <1>2, <1>3, <2>1
<1>7. CASE PostRejected
    BY <1>2, <1>7 DEF PostRejected
<1>8. CASE \E s \in Sources : SubmitClose(s) \/ TakeBoard(s)
    BY <1>2, <1>8 DEF SubmitClose, TakeBoard, DropPages
<1>9. CASE \E s \in Sources, joinWait \in BOOLEAN : AcquireLock(s, joinWait)
    BY <1>2, <1>9 DEF AcquireLock
<1>10. CASE SkipToNext
    <2> DEFINE left == Without(items, {i \in DOMAIN items :
                                           \A j \in 1..i : AlreadyShowing(items[j])})
               w == [i \in DOMAIN left |-> 0]
    <2>1. items' = [i \in DOMAIN left |-> [left[i] EXCEPT !.wait = w[i]]]
        BY <1>10 DEF SkipToNext
    <2>2. left \in Seq(ItemType) /\ Thinned(left, items)
        BY <1>2
    <2> HIDE DEF left, w
    <2> QED BY <2>1, <2>2, WaitsThin
<1>11. CASE Clear \/ \E i \in 1..MaxItems + 1 : Cancel(i)
    BY <1>2, <1>11 DEF Clear, Cancel, DropPages
<1>12. CASE TimePasses
    <2> DEFINE w == [i \in DOMAIN items |-> Sooner(items[i].wait)]
    <2>1. items' = [i \in DOMAIN items |-> [items[i] EXCEPT !.wait = w[i]]]
        BY <1>12 DEF TimePasses
    <2>2. Thinned(items, items)
        BY <1>1 DEF Thinned, SamePage
    <2> HIDE DEF w
    <2> QED BY <1>1, <2>1, <2>2, WaitsThin
<1> QED BY <1>4, <1>5, <1>6, <1>7, <1>8, <1>9, <1>10, <1>11, <1>12

(* What is put back is one frame.                                          *)
LEMMA RestoredIsOneFrame ==
    ASSUME NEW f \in FrameType
    PROVE  Len(RestoredCard(f).rows) = 1
<1>1. f.card \in CardType
    BY DEF FrameType
<1>2. RestoredCard(f).rows = <<f.card.rows[f.page]>>
    BY <1>1 DEF RestoredCard, CardType
<1> QED BY <1>2

LEMMA LongCardsOffered ==
    ASSUME NEW c \in CardType, c \in Offered, Len(c.rows) > 1
    PROVE  c \in Cards
<1> DEFINE n == Len(c.rows)
<1>1. n \in Nat /\ n > 1
    BY CardFields
<1> HIDE DEF n
<1>2. n # 1
    BY <1>1
<1> QED BY <1>2 DEF Offered, n

(* Every step leaves the pages of a card in their order.                   *)
LEMMA StepKeepsOrder ==
    ASSUME IInv, CardsInOrder, [Next]_vars
    PROVE  CardsInOrder'
<1>1. ASSUME items' = items \/ Thinned(items', items)
      PROVE  CardsInOrder'
    BY <1>1, ThinnedKeepsOrder DEF CardsInOrder
<1>2. CASE \E c \in Cards : Submit(c)
    BY <1>2, InvariantParts, OfferKeepsOrder, QueueAssumption DEF Submit, Offered
<1>3. CASE \E skip \in BOOLEAN : Tick(skip)
    <2>1. PICK skip \in BOOLEAN : Tick(skip)
        BY <1>3
    <2>2. CASE TickRestore(skip, FALSE)
        <3> DEFINE k == [clocks EXCEPT !.restore = Never]
        <3>1. lastSnapshot \in FrameType /\ Offer(RestoredCard(lastSnapshot), k, FALSE)
            BY <2>2 DEF TickRestore, RestoreDue, IInv, TypeOK
        <3>2. k \in ClocksType
            BY InvariantParts DEF ClocksType
        <3>3. /\ RestoredCard(lastSnapshot) \in CardType
              /\ RestoredCard(lastSnapshot).rows # <<>>
            BY <3>1, RestoredCardType
        <3>4. RestoredCard(lastSnapshot) \in Offered
            BY <3>1, <3>3, RestoredIsOneFrame DEF Offered
        <3> HIDE DEF k
        <3> QED BY <3>1, <3>2, <3>3, <3>4, OfferKeepsOrder
    <2>3. CASE TickPost(skip) \/ TickNothing(skip)
        BY <1>1, <2>3 DEF TickPost, TickNothing
    <2> QED BY <1>1, <2>1, <2>2, <2>3, OthersThin DEF Tick
<1>4. CASE Answer
    <2>1. CASE PostBusy \/ PostQuiet \/ PostRefused \/ PostFailed
        BY <1>1, <2>1 DEF PostBusy, PostQuiet, PostRefused, PostFailed, state
    <2> QED BY <1>1, <1>4, <2>1, OthersThin DEF Answer
<1>5. CASE \/ \E s \in Sources : SubmitClose(s) \/ TakeBoard(s)
           \/ \E s \in Sources, joinWait \in BOOLEAN : AcquireLock(s, joinWait)
           \/ SkipToNext \/ Clear \/ \E i \in 1..MaxItems + 1 : Cancel(i)
           \/ TimePasses
    BY <1>1, <1>5, OthersThin
<1>6. CASE \/ \E s \in Sources : ReleaseLock(s)
           \/ LockExpires \/ ReleaseHolds \/ NewKey \/ SetQuiet \/ UNCHANGED vars
    BY <1>1, <1>6 DEF ReleaseLock, LockExpires, ReleaseHolds, NewKey, SetQuiet, state, vars
<1>7. CASE Reorder
    BY <1>7, ReorderKeepsOrder DEF CardsInOrder
<1>8. CASE Restart
    BY <1>8 DEF Restart, CardsInOrder, OneCard, InOrder
<1> QED BY <1>2, <1>3, <1>4, <1>5, <1>6, <1>7, <1>8 DEF Next

(* A card with several pages has no coalesce key in this house.            *)
LongCardsUnkeyed == \A c \in Cards : Len(c.rows) > 1 => KeyOf(c) = None

(* Whoever reorders the line, cuts in front of it or cuts it short: the    *)
(* pages of a card that no later offer can replace wait, and so flip, in   *)
(* their order.                                                            *)
THEOREM UnkeyedPagesStayInOrder == Spec => []CardsInOrder
<1>1. Init => CardsInOrder
    BY DEF Init, CardsInOrder, OneCard, InOrder
<1>2. IInv /\ CardsInOrder /\ [Next]_vars => CardsInOrder'
    BY StepKeepsOrder
<1> QED BY <1>1, <1>2, QueueInvariant, PTL DEF Spec

(* In a house where only single pages are coalesced, that is every page.   *)
(* (A coalescing offer gives one page of a longer card a new layout, and   *)
(* with it the label of a page it may already stand in front of.)          *)
THEOREM PagesStayInOrder == LongCardsUnkeyed /\ Spec => []PagesInOrder
<1>1. IInv /\ CardsInOrder /\ LongCardsUnkeyed => PagesInOrder
    <2>1. SUFFICES ASSUME IInv, CardsInOrder, LongCardsUnkeyed,
                          NEW i \in DOMAIN items, NEW j \in DOMAIN items, i < j,
                          InSequence(items[i]), SameCard(items[i], items[j])
                   PROVE  items[i].nth < items[j].nth
        BY DEF PagesInOrder
    <2>2. Unkeyed(items[i])
        <3>1. items[i].meta \in Offered /\ Len(items[i].meta.rows) > 1
            BY <2>1 DEF CardsInOrder, OneCard, InSequence
        <3>2. items[i].meta \in CardType
            BY <2>1, InvariantParts, ItemFields
        <3>3. items[i].meta \in Cards
            BY <3>1, <3>2, LongCardsOffered
        <3> QED BY <2>1, <3>1, <3>3 DEF LongCardsUnkeyed, Unkeyed
    <2>3. ~SameItem(items[i], items[j])
        <3>1. UniqueIds(items) /\ i \in Nat /\ j \in Nat
            BY <2>1, InvariantParts DEF WellFormed
        <3> QED BY <2>1, <3>1 DEF UniqueIds
    <2> QED BY <2>1, <2>2, <2>3 DEF SameCard, Alike, CardsInOrder, InOrder
<1>2. LongCardsUnkeyed => LongCardsUnkeyed'
    OBVIOUS
<1> QED BY <1>1, <1>2, QueueInvariant, UnkeyedPagesStayInOrder, PTL

-----------------------------------------------------------------------------
(* What an answer takes out of the line.                                   *)

(* Where dropAt looks for it, the line still has the page in flight, or    *)
(* nothing at all.                                                         *)
IndexStillHolds ==
    posting.index \in DOMAIN items => SameItem(items[posting.index], posting.item)

(* An answer that finds the page where it was takes no other page.         *)
LEMMA AnswerTakesOne ==
    ASSUME IInv, Answer, PostRejected => IndexStillHolds,
           NEW i \in DOMAIN items, ~SameItem(items[i], posting.item)
    PROVE  \E j \in DOMAIN items' : SameItem(items'[j], items[i])
<1>1. items \in Seq(ItemType)
    BY InvariantParts
<1>2. ASSUME NEW I, i \notin I
      PROVE  \E j \in DOMAIN Without(items, I) : Without(items, I)[j] = items[i]
    BY <1>1, <1>2, WithoutProperties
<1>3. ASSUME items' = items
      PROVE  \E j \in DOMAIN items' : SameItem(items'[j], items[i])
    BY <1>3, SameItemEquivalence
<1>4. CASE PostAccepted
    <2> DEFINE line == Without(items, AnsweredPages)
    <2>1. PICK j \in DOMAIN line : line[j] = items[i]
        BY <1>2 DEF AnsweredPages
    <2>2. line \in Seq(ItemType)
        BY <1>1, WithoutProperties
    <2>3. items' = line \/ \E w : items' = Delayed(line, w)
        BY <1>4 DEF PostAccepted, Delayed
    <2> HIDE DEF line
    <2>4. j \in DOMAIN items' /\ SameItem(items'[j], line[j])
        <3>1. CASE items' = line
            BY <3>1, SameItemEquivalence
        <3>2. CASE \E w : items' = Delayed(line, w)
            <4>1. PICK w : items' = Delayed(line, w)
                BY <3>2
            <4>2. line[j] \in ItemType
                BY <2>2
            <4> QED BY <2>2, <4>1, <4>2 DEF Delayed, SameItem, ItemType
        <3> QED BY <2>3, <3>1, <3>2
    <2> QED BY <2>1, <2>4
<1>5. CASE PostRejected
    <2>1. i # posting.index
        BY <1>5 DEF IndexStillHolds
    <2>2. \E j \in DOMAIN items' : items'[j] = items[i]
        BY <1>2, <1>5, <2>1 DEF PostRejected
    <2> QED BY <2>2, SameItemEquivalence
<1>6. CASE PostBusy \/ PostQuiet \/ PostRefused \/ PostFailed
    BY <1>3, <1>6 DEF PostBusy, PostQuiet, PostRefused, PostFailed, state
<1> QED BY <1>4, <1>5, <1>6 DEF Answer

(* An answer takes no page out of the line but the one it is about,        *)
(* wherever that has moved meanwhile and whatever the answer is; a refused *)
(* layout's, provided nothing has moved where dropAt will look for it.     *)
THEOREM AnswersTakeTheirPage ==
    Spec => [][Answer /\ (PostRejected => IndexStillHolds) =>
                  \A i \in DOMAIN items :
                      ~SameItem(items[i], posting.item) =>
                          \E j \in DOMAIN items' : SameItem(items'[j], items[i])]_vars
<1>1. IInv /\ [Next]_vars =>
          (Answer /\ (PostRejected => IndexStillHolds) =>
              \A i \in DOMAIN items :
                  ~SameItem(items[i], posting.item) =>
                      \E j \in DOMAIN items' : SameItem(items'[j], items[i]))
    BY AnswerTakesOne
<1> QED BY <1>1, QueueInvariant, PTL DEF Spec

=============================================================================
