-------------------------- MODULE BoardFlipProofs --------------------------
(***************************************************************************)
(* What may leave the hub, for every house.  A page goes out in one step   *)
(* only, the one before tickOnce's await; whatever else runs meanwhile can *)
(* change what the answer will meet but never sends a page.  The gates of  *)
(* that step then give three properties of the whole queue; two more are   *)
(* about the deadlines of a rotation and about a hold that changes hands.  *)
(***************************************************************************)
EXTENDS BoardQueueProofs

(* An offer sends nothing.                                                 *)
LEMMA OfferSendsNothing ==
    ASSUME IInv, NEW c \in CardType, c.rows # <<>>, NEW k \in ClocksType, NEW heard \in BOOLEAN,
           Offer(c, k, heard),
           posting = None
    PROVE  posting' = None
BY OfferKeeps DEF OfferOK

(* The one step a page leaves in.                                          *)
LEMMA OnlyAPostLeaves ==
    ASSUME IInv, [Next]_vars, Leaves
    PROVE  \E skip \in BOOLEAN : TickPost(skip)
<1>1. posting = None /\ posting' # None
    BY DEF Leaves
<1>2. ASSUME NEW c \in Cards, Submit(c) PROVE FALSE
    <2>1. c \in CardType /\ c.rows # <<>> /\ Offer(c, clocks, FALSE)
        BY <1>2, QueueAssumption DEF Submit
    <2> QED BY <1>1, <2>1, OfferSendsNothing, InvariantParts
<1>3. ASSUME NEW skip \in BOOLEAN, TickRestore(skip, FALSE) PROVE FALSE
    <2> DEFINE k == [clocks EXCEPT !.restore = Never]
    <2>1. lastSnapshot \in FrameType /\ Offer(RestoredCard(lastSnapshot), k, FALSE)
        BY <1>3 DEF TickRestore, RestoreDue, IInv, TypeOK
    <2>2. k \in ClocksType
        BY InvariantParts DEF ClocksType
    <2> HIDE DEF k
    <2> QED BY <1>1, <2>1, <2>2, RestoredCardType, OfferSendsNothing
<1>4. ASSUME NEW skip \in BOOLEAN, Tick(skip) PROVE TickPost(skip)
    BY <1>1, <1>3, <1>4 DEF Tick, TickSweep, TickDropDuplicate, TickDropQuiet, TickNothing
<1>5. ~Answer
    BY <1>1 DEF Answer, PostAccepted, PostBusy, PostQuiet, PostRejected, PostRefused,
               PostFailed, Answered
<1>6. ~SkipToNext /\ ~TimePasses
    BY <1>1 DEF SkipToNext, TimePasses, Tracked
<1>7. /\ ~\E s \in Sources : SubmitClose(s) \/ ReleaseLock(s) \/ TakeBoard(s)
      /\ ~\E s \in Sources, joinWait \in BOOLEAN : AcquireLock(s, joinWait)
    BY <1>1 DEF SubmitClose, ReleaseLock, TakeBoard, DropPages, AcquireLock
<1>8. /\ ~ReleaseHolds /\ ~Clear /\ ~Reorder /\ ~\E i \in 1..MaxItems + 1 : Cancel(i)
      /\ ~NewKey /\ ~SetQuiet /\ ~LockExpires /\ ~Restart
    BY <1>1 DEF ReleaseHolds, Clear, Cancel, DropPages, Reorder, NewKey, SetQuiet,
               LockExpires, Restart
<1>9. ~UNCHANGED vars
    BY <1>1 DEF vars
<1> QED BY <1>2, <1>4, <1>5, <1>6, <1>7, <1>8, <1>9 DEF Next

(* What is known of the page that leaves.                                  *)
LEMMA WhatLeaves ==
    ASSUME IInv, [Next]_vars, Leaves
    PROVE  \E skip \in BOOLEAN, i \in DOMAIN items :
              /\ skip = ticking'.skip
              /\ posting'.item = items[i] /\ items[i] \in ItemType
              /\ skip \/ (~Held(items[i]) /\ Due(items[i]))
              /\ ~quiet \/ skip \/ IsExempt(items[i].face)
<1>1. PICK skip \in BOOLEAN : TickPost(skip)
    BY OnlyAPostLeaves
<1>2. PICK i \in DOMAIN items :
          /\ Picks(skip, i) /\ ~Dedupes(skip, i) /\ ~DropsQuiet(skip, i)
          /\ posting' = [item |-> items[i], index |-> i, sent |-> LayoutOf(items[i]),
                         boards |-> items[i].face.boards]
    BY <1>1 DEF TickPost
<1>3. ticking' = Stage("posting", skip)
    BY <1>1 DEF TickPost
<1>4. skip = ticking'.skip
    BY <1>3 DEF Stage
<1>5. posting'.item = items[i] /\ items[i] \in ItemType
    BY <1>2, InvariantParts
<1>6. skip \/ (~Held(items[i]) /\ Due(items[i]))
    BY <1>2 DEF Picks
<1>7. ~quiet \/ skip \/ IsExempt(items[i].face)
    BY <1>2 DEF DropsQuiet
<1> QED BY <1>4, <1>5, <1>6, <1>7

-----------------------------------------------------------------------------
(* The rate window.  lastPostAt in memory and the one on disk agree until  *)
(* a Skip gives the window away.                                           *)

ClocksAgree == clocks.sincePost = Never \/ clocks.sincePost = persisted

(* The changes to the other clocks.                                        *)
LEMMA SincePostKept ==
    ASSUME NEW k \in ClocksType
    PROVE  /\ \A n \in Nat : [k EXCEPT !.retry = n].sincePost = k.sincePost
           /\ [k EXCEPT !.hold = 0].sincePost = k.sincePost
           /\ [k EXCEPT !.dwell = 0].sincePost = k.sincePost
           /\ [k EXCEPT !.restore = Never].sincePost = k.sincePost
BY DEF ClocksType

(* An offer never moves lastPostAt.                                        *)
LEMMA OfferKeepsSincePost ==
    ASSUME NEW c \in CardType, NEW k \in ClocksType, NEW heard \in BOOLEAN,
           Offer(c, k, heard)
    PROVE  clocks'.sincePost = k.sincePost
<1> DEFINE now == IF CutsInNow(c) THEN [k EXCEPT !.dwell = 0] ELSE k
<1>1. now \in ClocksType /\ now.sincePost = k.sincePost
    BY SincePostKept DEF ClocksType
<1>2. \/ OfferTooSoon(c, now) \/ OfferQuiet(c, now)
      \/ OfferCoalesced(c, now) \/ OfferQueued(c, now, heard)
    BY DEF Offer
<1> HIDE DEF now
<1>3. CASE OfferTooSoon(c, now) \/ OfferQuiet(c, now) \/ OfferCoalesced(c, now)
    BY <1>1, <1>3 DEF OfferTooSoon, OfferQuiet, OfferCoalesced
<1>4. CASE OfferQueued(c, now, heard)
    <2>1. PICK h, r : clocks' = [now EXCEPT !.hold = h, !.restore = r]
        BY <1>1, <1>4 DEF OfferQueued, ClocksType
    <2> QED BY <1>1, <2>1 DEF ClocksType
<1> QED BY <1>2, <1>3, <1>4

(* A page that was taken starts the window.                                *)
LEMMA AcceptedClocks ==
    ASSUME clocks \in ClocksType, PostAccepted
    PROVE  clocks'.sincePost = 0
<1>1. PICK a, b, c, d : clocks' = [clocks EXCEPT
          !.sincePost = 0, !.retry = 0, !.restore = a, !.sinceFlip = b,
          !.hold = c, !.dwell = d]
    BY DEF PostAccepted, TakesItsTurn, ClocksType
<1> QED BY <1>1 DEF ClocksType

(* What a step may do to the two.                                          *)
PostTimesMove ==
    \/ clocks'.sincePost = clocks.sincePost /\ persisted' = persisted
    \/ clocks'.sincePost = Never /\ (SkipToNext \/ TickDropDuplicate(TRUE))
    \/ clocks'.sincePost = 0 /\ persisted' = 0
    \/ clocks'.sincePost = persisted /\ persisted' = persisted
    \/ /\ clocks'.sincePost = Older(clocks.sincePost, RateWindow + 1)
       /\ persisted' = Older(persisted, RateWindow + 1)

(* Every step does one of these.                                           *)
LEMMA EveryStepMovesThem ==
    ASSUME IInv, [Next]_vars
    PROVE  PostTimesMove
<1>1. clocks \in ClocksType
    BY InvariantParts
<1>2. CASE \E c \in Cards : Submit(c)
    BY <1>1, <1>2, OfferKeepsSincePost, QueueAssumption DEF Submit, PostTimesMove
<1>3. CASE \E skip \in BOOLEAN : Tick(skip)
    <2>1. PICK skip \in BOOLEAN : Tick(skip)
        BY <1>3
    <2>2. CASE TickRestore(skip, FALSE)
        <3> DEFINE k == [clocks EXCEPT !.restore = Never]
        <3>1. /\ lastSnapshot \in FrameType /\ Offer(RestoredCard(lastSnapshot), k, FALSE)
              /\ persisted' = persisted
            BY <2>2 DEF TickRestore, RestoreDue, IInv, TypeOK
        <3>2. k \in ClocksType /\ k.sincePost = clocks.sincePost
            BY <1>1, SincePostKept DEF ClocksType
        <3> HIDE DEF k
        <3> QED BY <3>1, <3>2, RestoredCardType, OfferKeepsSincePost DEF PostTimesMove
    <2>3. CASE TickDropDuplicate(skip)
        <3>1. [clocks EXCEPT !.sincePost = Never, !.dwell = 0].sincePost = Never
            BY <1>1 DEF ClocksType
        <3>2. persisted' = persisted
            BY <2>3 DEF TickDropDuplicate
        <3>3. CASE skip = FALSE
            BY <2>3, <3>2, <3>3 DEF TickDropDuplicate, PostTimesMove
        <3>4. CASE skip = TRUE
            <4>1. clocks'.sincePost \in {clocks.sincePost, Never}
                BY <2>3, <3>1 DEF TickDropDuplicate
            <4> QED BY <2>3, <3>2, <3>4, <4>1 DEF PostTimesMove
        <3> QED BY <3>3, <3>4
    <2>4. CASE ~TickRestore(skip, FALSE) /\ ~TickDropDuplicate(skip)
        BY <2>1, <2>4 DEF Tick, TickSweep, TickDropQuiet, TickPost, TickNothing, PostTimesMove
    <2> QED BY <2>2, <2>3, <2>4
<1>4. CASE Answer
    <2>1. CASE PostAccepted
        <3>1. persisted' = 0
            BY <2>1 DEF PostAccepted
        <3>2. clocks'.sincePost = 0
            BY <1>1, <2>1, AcceptedClocks
        <3> QED BY <3>1, <3>2 DEF PostTimesMove
    <2>2. CASE PostBusy
        <3>1. PICK n : clocks' = [clocks EXCEPT !.retry = n]
            BY <2>2 DEF PostBusy
        <3> QED BY <1>1, <2>2, <3>1 DEF PostBusy, PostTimesMove, ClocksType
    <2>3. CASE PostFailed
        <3>1. PICK n : clocks' = [clocks EXCEPT !.retry = n]
            BY <2>3 DEF PostFailed
        <3> QED BY <1>1, <2>3, <3>1 DEF PostFailed, PostTimesMove, ClocksType
    <2>4. CASE PostQuiet \/ PostRejected \/ PostRefused
        BY <2>4 DEF PostQuiet, PostRejected, PostRefused, state, PostTimesMove
    <2> QED BY <1>4, <2>1, <2>2, <2>3, <2>4 DEF Answer
<1>5. CASE \/ \E s \in Sources : SubmitClose(s) \/ ReleaseLock(s) \/ TakeBoard(s)
           \/ \E s \in Sources, joinWait \in BOOLEAN : AcquireLock(s, joinWait)
           \/ Clear \/ Reorder \/ \E i \in 1..MaxItems + 1 : Cancel(i)
           \/ SetQuiet \/ LockExpires
    BY <1>5 DEF SubmitClose, ReleaseLock, TakeBoard, DropPages, AcquireLock, Clear, Reorder,
               Cancel, SetQuiet, LockExpires, state, PostTimesMove
<1>6. CASE ReleaseHolds
    <2>1. clocks' = clocks \/ clocks' = [clocks EXCEPT !.hold = 0]
        BY <1>6 DEF ReleaseHolds
    <2> QED BY <1>1, <1>6, <2>1, SincePostKept DEF ReleaseHolds, PostTimesMove
<1>7. CASE NewKey
    <2>1. clocks' = [clocks EXCEPT !.retry = 0] /\ 0 \in Nat
        BY <1>7 DEF NewKey
    <2> QED BY <1>1, <1>7, <2>1, SincePostKept DEF NewKey, PostTimesMove
<1>8. CASE SkipToNext
    <2>1. clocks'.sincePost = Never
        BY <1>1, <1>8 DEF SkipToNext, ClocksType
    <2> QED BY <1>8, <2>1 DEF PostTimesMove
<1>9. CASE Restart
    <2>1. clocks'.sincePost = persisted /\ persisted' = persisted
        BY <1>9 DEF Restart, SeededClocks, FreshClocks
    <2> QED BY <2>1 DEF PostTimesMove
<1>10. CASE TimePasses
    BY <1>10 DEF TimePasses, PostTimesMove
<1>11. CASE UNCHANGED vars
    BY <1>11 DEF vars, PostTimesMove
<1> QED BY <1>2, <1>3, <1>4, <1>5, <1>6, <1>7, <1>8, <1>9, <1>10, <1>11 DEF Next

(* No unattended flip inside the flaps' rate window, counted from the last *)
(* page a board took, over restarts and whatever failed in between.        *)
THEOREM RateWindowIsKept == Spec => RateWindowKept
<1>1. Init => ClocksAgree
    BY DEF Init, FreshClocks, ClocksAgree
<1>2. ASSUME IInv, ClocksAgree, [Next]_vars
      PROVE  ClocksAgree'
    BY <1>2, EveryStepMovesThem, Ages DEF PostTimesMove, ClocksAgree
<1>3. ASSUME IInv, ClocksAgree, [Next]_vars
      PROVE  /\ Leaves /\ ~ticking'.skip /\ clocks.sincePost # Never
                    => persisted >= RateWindow
             /\ clocks.sincePost # Never /\ clocks'.sincePost = Never
                    => SkipToNext \/ TickDropDuplicate(TRUE)
    <2>1. Leaves /\ ~ticking'.skip /\ clocks.sincePost # Never => persisted >= RateWindow
        BY <1>3, WhatLeaves DEF Due, ClocksAgree
    <2>2. ASSUME clocks.sincePost # Never, clocks'.sincePost = Never
          PROVE  SkipToNext \/ TickDropDuplicate(TRUE)
        <3>1. clocks \in ClocksType /\ Never \notin Nat /\ RateWindow + 1 \in Nat
            BY <1>3, InvariantParts, QueueAssumption DEF Never
        <3>2. clocks.sincePost \in Nat /\ clocks.sincePost = persisted
            BY <1>3, <2>2, <3>1, ClockFields DEF ClocksAgree
        <3>3. Older(clocks.sincePost, RateWindow + 1) \in Nat
            BY <3>1, <3>2, Ages
        <3>4. PostTimesMove
            BY <1>3, EveryStepMovesThem
        <3>5. /\ clocks'.sincePost # clocks.sincePost /\ clocks'.sincePost # 0
              /\ clocks'.sincePost # persisted
              /\ clocks'.sincePost # Older(clocks.sincePost, RateWindow + 1)
            BY <2>2, <3>1, <3>2, <3>3
        <3> QED BY <3>4, <3>5, Zenon DEF PostTimesMove
    <2> QED BY <2>1, <2>2
<1>4. IInv /\ ClocksAgree /\ [Next]_vars => ClocksAgree'
    BY <1>2
<1>5. IInv /\ ClocksAgree /\ [Next]_vars =>
          /\ Leaves /\ ~ticking'.skip /\ clocks.sincePost # Never
                => persisted >= RateWindow
          /\ clocks.sincePost # Never /\ clocks'.sincePost = Never
                => SkipToNext \/ TickDropDuplicate(TRUE)
    BY <1>3
<1> QED BY <1>1, <1>4, <1>5, QueueInvariant, PTL DEF Spec, RateWindowKept

(* In quiet hours only exempt pages leave, unless a person skips.          *)
THEOREM QuietHoursAreKept == Spec => QuietHoursKept
<1>1. IInv /\ [Next]_vars
          => (Leaves /\ quiet => ticking'.skip \/ IsExempt(posting'.item.face))
    BY WhatLeaves
<1> QED BY <1>1, QueueInvariant, PTL DEF Spec, QuietHoursKept

(* While a source holds the board only its own pages leave, and jumpers    *)
(* the house lists above it, wherever in the line they stand.              *)
THEOREM TheHolderKeepsTheBoard == Spec => OnlyTheHolderFlips
<1>1. ASSUME IInv, [Next]_vars, Leaves, ~ticking'.skip, LiveLock # None
      PROVE  \/ LiveLock.source \in {posting'.item.face.source, posting'.item.meta.source}
             \/ /\ Policy[posting'.item.face.source].jump
                /\ Policy[posting'.item.face.source].rank > LiveLock.rank
    <2>1. PICK i \in DOMAIN items : posting'.item = items[i] /\ ~Held(items[i])
        BY <1>1, WhatLeaves
    <2>2. BelongsTo(items[i], LiveLock.source) \/ Outranks(items[i], LiveLock)
        BY <1>1, <2>1 DEF Held
    <2>3. ASSUME Outranks(items[i], LiveLock)
          PROVE  /\ Policy[items[i].face.source].jump
                 /\ Policy[items[i].face.source].rank > LiveLock.rank
        BY <2>3 DEF Outranks, Lane, Jumps, Holds, Rank
    <2> QED BY <2>1, <2>2, <2>3 DEF BelongsTo
<1>2. IInv /\ [Next]_vars =>
          (Leaves /\ ~ticking'.skip /\ LiveLock # None =>
              LET i == posting'.item
              IN \/ LiveLock.source \in {i.face.source, i.meta.source}
                 \/ Policy[i.face.source].jump /\ Policy[i.face.source].rank > LiveLock.rank)
    BY <1>1
<1> QED BY <1>2, QueueInvariant, PTL DEF Spec, OnlyTheHolderFlips

-----------------------------------------------------------------------------
(* The clocks of the rotation: the time the page on the flaps has left, and*)
(* how long ago the rotation flipped.                                      *)

SinceFlipInGap == clocks.sinceFlip <= RotationGap

(* What a step may do to them.  While the page on the flaps stays and has  *)
(* its hold, the hold runs down or ends and the last flip recedes.         *)
RotationTimesMove ==
    /\ clocks'.sinceFlip \in {clocks.sinceFlip, 0, RotationGap,
                              Older(clocks.sinceFlip, RotationGap)}
    /\ schedulerPage # None /\ schedulerPage' = schedulerPage /\ clocks.hold > 0 =>
          /\ clocks'.hold \in {clocks.hold, 0, Sooner(clocks.hold)}
          /\ clocks'.sinceFlip \in {clocks.sinceFlip, Older(clocks.sinceFlip, RotationGap)}

(* The changes to the other clocks.                                        *)
LEMMA RotationTimesKept ==
    ASSUME NEW k \in ClocksType
    PROVE  /\ \A n \in Nat : /\ [k EXCEPT !.retry = n].hold = k.hold
                             /\ [k EXCEPT !.retry = n].sinceFlip = k.sinceFlip
           /\ [k EXCEPT !.hold = 0].hold = 0
           /\ [k EXCEPT !.hold = 0].sinceFlip = k.sinceFlip
           /\ [k EXCEPT !.dwell = 0].hold = k.hold
           /\ [k EXCEPT !.dwell = 0].sinceFlip = k.sinceFlip
           /\ [k EXCEPT !.restore = Never].hold = k.hold
           /\ [k EXCEPT !.restore = Never].sinceFlip = k.sinceFlip
BY DEF ClocksType

(* An offer ends the hold or leaves both alone.                            *)
LEMMA OfferKeepsRotationTimes ==
    ASSUME NEW c \in CardType, NEW k \in ClocksType, NEW heard \in BOOLEAN,
           Offer(c, k, heard)
    PROVE  clocks'.sinceFlip = k.sinceFlip /\ clocks'.hold \in {k.hold, 0}
<1> DEFINE now == IF CutsInNow(c) THEN [k EXCEPT !.dwell = 0] ELSE k
<1>1. now \in ClocksType /\ now.sinceFlip = k.sinceFlip /\ now.hold = k.hold
    BY RotationTimesKept DEF ClocksType
<1>2. \/ OfferTooSoon(c, now) \/ OfferQuiet(c, now)
      \/ OfferCoalesced(c, now) \/ OfferQueued(c, now, heard)
    BY DEF Offer
<1> HIDE DEF now
<1>3. CASE OfferTooSoon(c, now) \/ OfferQuiet(c, now) \/ OfferCoalesced(c, now)
    BY <1>1, <1>3 DEF OfferTooSoon, OfferQuiet, OfferCoalesced
<1>4. CASE OfferQueued(c, now, heard)
    <2> DEFINE h == IF c.takeover /\ TakesBoard(c, LockMet(c)) THEN 0 ELSE now.hold
               r == IF EndsHold(c, LockMet(c)) THEN Never ELSE now.restore
    <2>1. clocks' = [now EXCEPT !.hold = h, !.restore = r]
        BY <1>4 DEF OfferQueued
    <2>2. h \in {now.hold, 0}
        OBVIOUS
    <2> HIDE DEF h, r
    <2> QED BY <1>1, <2>1, <2>2 DEF ClocksType
<1> QED BY <1>2, <1>3, <1>4

(* A page that was taken: one that keeps the flaps' page and its hold does *)
(* so because it refreshes it, and a refresh takes no turn.                *)
LEMMA AcceptedKeepsRotationTimes ==
    ASSUME IInv, PostAccepted
    PROVE  RotationTimesMove
<1> DEFINE it == posting.item
           turns == TakesItsTurn(it)
           owned == laneLock # None /\ BelongsTo(it, laneLock.source)
           line == Without(items, AnsweredPages)
           cutShort == line # <<>> /\ CutsIn(line[1])
           restore == IF CutsIn(it) THEN it.face.reading ELSE Never
           flip == IF turns /\ it.meta.scheduler THEN 0 ELSE clocks.sinceFlip
           hold == IF turns THEN (IF owned THEN 0 ELSE it.face.hold) ELSE clocks.hold
           dwell == IF CutsIn(it) \/ (turns /\ (cutShort \/ owned)) THEN 0
                    ELSE IF turns THEN BoardDwell ELSE clocks.dwell
<1>1. clocks' = [clocks EXCEPT !.sincePost = 0, !.retry = 0, !.restore = restore,
                    !.sinceFlip = flip, !.hold = hold, !.dwell = dwell]
    BY DEF PostAccepted
<1>2. /\ clocks'.sinceFlip \in {clocks.sinceFlip, 0}
      /\ ~turns => clocks'.sinceFlip = clocks.sinceFlip /\ clocks'.hold = clocks.hold
    <2>1. clocks \in ClocksType
        BY InvariantParts
    <2>2. /\ flip \in {clocks.sinceFlip, 0}
          /\ ~turns => flip = clocks.sinceFlip /\ hold = clocks.hold
        OBVIOUS
    <2> HIDE DEF restore, flip, hold, dwell, turns
    <2>3. clocks'.sinceFlip = flip /\ clocks'.hold = hold
        BY <1>1, <2>1 DEF ClocksType
    <2> QED BY <2>2, <2>3
<1>3. schedulerPage' =
          IF ~turns THEN schedulerPage
          ELSE IF it.meta.scheduler /\ ~it.meta.closing /\ KeyOf(it.meta) # None
               THEN [key |-> KeyOf(it.meta), boards |-> it.face.boards]
               ELSE None
    BY DEF PostAccepted
<1>4. ASSUME schedulerPage # None, schedulerPage' = schedulerPage, clocks.hold > 0, turns
      PROVE  FALSE
    <2>1. /\ it.meta.scheduler /\ ~it.meta.closing
          /\ schedulerPage = [key |-> KeyOf(it.meta), boards |-> it.face.boards]
        BY <1>3, <1>4
    <2>2. Refreshes(it.meta, it.face.boards, clocks)
        BY <1>4, <2>1 DEF Refreshes
    <2> QED BY <1>4, <2>1, <2>2 DEF TakesItsTurn, ItemRefreshes
<1> HIDE DEF turns
<1> QED BY <1>2, <1>4 DEF RotationTimesMove

(* Every step does one of these.                                           *)
LEMMA EveryStepMovesTheRotation ==
    ASSUME IInv, [Next]_vars
    PROVE  RotationTimesMove
<1>1. clocks \in ClocksType /\ Never \notin Nat
    BY InvariantParts DEF Never
<1>2. ASSUME clocks' = clocks
      PROVE  RotationTimesMove
    BY <1>2 DEF RotationTimesMove
<1>3. ASSUME NEW n \in Nat, clocks' = [clocks EXCEPT !.retry = n]
      PROVE  RotationTimesMove
    BY <1>1, <1>3, RotationTimesKept DEF RotationTimesMove
<1>4. CASE \E c \in Cards : Submit(c)
    BY <1>1, <1>4, OfferKeepsRotationTimes, QueueAssumption DEF Submit, RotationTimesMove
<1>5. CASE \E skip \in BOOLEAN : Tick(skip)
    <2>1. PICK skip \in BOOLEAN : Tick(skip)
        BY <1>5
    <2>2. CASE TickRestore(skip, FALSE)
        <3> DEFINE k == [clocks EXCEPT !.restore = Never]
        <3>1. lastSnapshot \in FrameType /\ Offer(RestoredCard(lastSnapshot), k, FALSE)
            BY <2>2 DEF TickRestore, RestoreDue, IInv, TypeOK
        <3>2. k \in ClocksType /\ k.hold = clocks.hold /\ k.sinceFlip = clocks.sinceFlip
            BY <1>1, RotationTimesKept DEF ClocksType
        <3> HIDE DEF k
        <3> QED BY <3>1, <3>2, RestoredCardType, OfferKeepsRotationTimes
                DEF RotationTimesMove
    <2>3. CASE TickDropDuplicate(skip)
        <3> DEFINE k == [clocks EXCEPT !.sincePost = Never, !.dwell = 0]
        <3>1. k.hold = clocks.hold /\ k.sinceFlip = clocks.sinceFlip
            BY <1>1 DEF ClocksType
        <3>2. clocks' = k \/ clocks' = clocks
            BY <2>3 DEF TickDropDuplicate
        <3> HIDE DEF k
        <3> QED BY <1>2, <3>1, <3>2 DEF RotationTimesMove
    <2>4. CASE ~TickRestore(skip, FALSE) /\ ~TickDropDuplicate(skip)
        BY <1>2, <2>1, <2>4 DEF Tick, TickSweep, TickDropQuiet, TickPost, TickNothing
    <2> QED BY <2>2, <2>3, <2>4
<1>6. CASE Answer
    <2>1. CASE PostAccepted
        BY <2>1, AcceptedKeepsRotationTimes
    <2>2. CASE PostBusy
        <3> DEFINE n == IF clocks.sincePost = Never THEN RateWindow + 1
                        ELSE Larger(0, RateWindow + 1 - clocks.sincePost)
        <3>1. n \in Nat
            BY <1>1, ClockFields, QueueAssumption DEF Larger
        <3>2. clocks' = [clocks EXCEPT !.retry = n]
            BY <2>2 DEF PostBusy
        <3> HIDE DEF n
        <3> QED BY <1>3, <3>1, <3>2
    <2>3. CASE PostFailed
        <3> DEFINE n == IF failures + 1 \in DOMAIN RetryDelays THEN RetryDelays[failures + 1]
                        ELSE UnhealthyRetry
        <3>1. n \in Nat
            BY QueueAssumption
        <3>2. clocks' = [clocks EXCEPT !.retry = n]
            BY <2>3 DEF PostFailed
        <3> HIDE DEF n
        <3> QED BY <1>3, <3>1, <3>2
    <2>4. CASE PostQuiet \/ PostRejected \/ PostRefused
        BY <1>2, <2>4 DEF PostQuiet, PostRejected, PostRefused, state
    <2> QED BY <1>6, <2>1, <2>2, <2>3, <2>4 DEF Answer
<1>7. CASE \/ \E s \in Sources : SubmitClose(s) \/ ReleaseLock(s) \/ TakeBoard(s)
           \/ \E s \in Sources, joinWait \in BOOLEAN : AcquireLock(s, joinWait)
           \/ Clear \/ Reorder \/ \E i \in 1..MaxItems + 1 : Cancel(i)
           \/ SetQuiet \/ LockExpires
    BY <1>2, <1>7 DEF SubmitClose, ReleaseLock, TakeBoard, DropPages, AcquireLock, Clear,
                      Reorder, Cancel, SetQuiet, LockExpires, state
<1>8. CASE ReleaseHolds
    <2>1. clocks' = clocks \/ clocks' = [clocks EXCEPT !.hold = 0]
        BY <1>8 DEF ReleaseHolds
    <2> QED BY <1>1, <1>2, <2>1, RotationTimesKept DEF RotationTimesMove
<1>9. CASE NewKey
    <2>1. clocks' = [clocks EXCEPT !.retry = 0] /\ 0 \in Nat
        BY <1>9 DEF NewKey
    <2> QED BY <1>3, <2>1
<1>10. CASE SkipToNext
    <2>1. clocks'.sinceFlip = clocks.sinceFlip /\ schedulerPage' = None
        BY <1>1, <1>10 DEF SkipToNext, ClocksType
    <2> QED BY <2>1 DEF RotationTimesMove
<1>11. CASE Restart
    <2>1. clocks'.sinceFlip = RotationGap /\ schedulerPage' = None
        BY <1>11 DEF Restart, SeededClocks, FreshClocks
    <2> QED BY <2>1 DEF RotationTimesMove
<1>12. CASE TimePasses
    BY <1>12 DEF TimePasses, RotationTimesMove
<1>13. CASE UNCHANGED vars
    BY <1>2, <1>13 DEF vars
<1> QED BY <1>4, <1>5, <1>6, <1>7, <1>8, <1>9, <1>10, <1>11, <1>12, <1>13 DEF Next

(* A page that refreshes itself on the flaps is not given its time again:  *)
(* as long as it stays there, its hold only shrinks and the rotation's     *)
(* last flip only recedes, whatever is offered and posted meanwhile.       *)
THEOREM ARefreshBuysNoTime == Spec => RefreshBuysNoTime
<1>1. Init => SinceFlipInGap
    BY QueueAssumption DEF Init, FreshClocks, SinceFlipInGap
<1>2. ASSUME IInv, SinceFlipInGap, [Next]_vars
      PROVE  /\ SinceFlipInGap'
             /\ schedulerPage # None /\ schedulerPage' = schedulerPage /\ clocks.hold > 0
                    => clocks'.hold <= clocks.hold /\ clocks'.sinceFlip >= clocks.sinceFlip
    <2>1. RotationTimesMove
        BY <1>2, EveryStepMovesTheRotation
    <2>2. /\ clocks.sinceFlip \in Nat /\ clocks.hold \in Nat
          /\ RotationGap \in Nat /\ clocks.sinceFlip <= RotationGap
        BY <1>2, InvariantParts, ClockFields, QueueAssumption DEF SinceFlipInGap
    <2>3. /\ Older(clocks.sinceFlip, RotationGap) \in clocks.sinceFlip..RotationGap
          /\ clocks.hold > 0 => Sooner(clocks.hold) <= clocks.hold
        BY <2>2 DEF Older, Smaller, Sooner, Never
    <2> QED BY <2>1, <2>2, <2>3 DEF RotationTimesMove, SinceFlipInGap
<1>3. IInv /\ SinceFlipInGap /\ [Next]_vars => SinceFlipInGap'
    BY <1>2
<1>4. IInv /\ SinceFlipInGap /\ [Next]_vars =>
          (schedulerPage # None /\ schedulerPage' = schedulerPage /\ clocks.hold > 0
              => clocks'.hold <= clocks.hold /\ clocks'.sinceFlip >= clocks.sinceFlip)
    BY <1>2
<1> QED BY <1>1, <1>3, <1>4, QueueInvariant, PTL DEF Spec, RefreshBuysNoTime

-----------------------------------------------------------------------------
(* How a live hold changes hands.                                          *)

ChangesHands ==
    LiveLock # None /\ laneLock' # None /\ laneLock'.source # LiveLock.source

LoserIsGone == \A i \in DOMAIN items' : ~BelongsTo(items'[i], LiveLock.source)

(* The pages of a lock's owner leave a line, and a new card's pages join.  *)
LEMMA OwnersLeave ==
    ASSUME NEW line \in Seq(ItemType), NEW lock, NEW I
    PROVE  \A k \in DOMAIN Without(line, OwnedBy(line, lock) \cup I) :
               ~BelongsTo(Without(line, OwnedBy(line, lock) \cup I)[k], lock.source)
<1> DEFINE gone == OwnedBy(line, lock) \cup I
<1>1. \A k \in DOMAIN Without(line, gone) :
          \E i \in (DOMAIN line) \ gone : Without(line, gone)[k] = line[i]
    BY WithoutProperties
<1>2. \A i \in (DOMAIN line) \ gone : ~BelongsTo(line[i], lock.source)
    BY DEF OwnedBy
<1> HIDE DEF gone
<1>3. \A k \in DOMAIN Without(line, gone) : ~BelongsTo(Without(line, gone)[k], lock.source)
    BY <1>1, <1>2
<1> QED BY <1>3 DEF gone

LEMMA StrangersJoin ==
    ASSUME NEW line \in Seq(ItemType), NEW t \in Seq(ItemType), NEW n \in 0..Len(line), NEW s,
           \A i \in DOMAIN line : ~BelongsTo(line[i], s),
           \A i \in DOMAIN t : ~BelongsTo(t[i], s)
    PROVE  \A k \in DOMAIN Insert(line, n, t) : ~BelongsTo(Insert(line, n, t)[k], s)
<1> DEFINE new == Insert(line, n, t)
<1>1. /\ new \in Seq(ItemType) /\ Len(new) = Len(line) + Len(t)
      /\ \A i \in 1..(Len(line) + Len(t)) :
            new[i] = IF i <= n THEN line[i]
                     ELSE IF i <= n + Len(t) THEN t[i - n] ELSE line[i - Len(t)]
    BY InsertProperties
<1> HIDE DEF new
<1>2. ASSUME NEW k \in DOMAIN new PROVE ~BelongsTo(new[k], s)
    <2>1. k \in 1..(Len(line) + Len(t)) /\ n \in Nat /\ Len(line) \in Nat /\ Len(t) \in Nat
        BY <1>1
    <2>2. CASE k <= n
        BY <1>1, <2>1, <2>2
    <2>3. CASE ~(k <= n) /\ k <= n + Len(t)
        <3>1. k - n \in DOMAIN t /\ new[k] = t[k - n]
            BY <1>1, <2>1, <2>3
        <3> QED BY <3>1
    <2>4. CASE ~(k <= n) /\ ~(k <= n + Len(t))
        <3>1. k - Len(t) \in DOMAIN line /\ new[k] = line[k - Len(t)]
            BY <1>1, <2>1, <2>4
        <3> QED BY <3>1
    <2> QED BY <2>2, <2>3, <2>4
<1> QED BY <1>2 DEF new

(* A page that shows another card changes the line in one place.           *)
LEMMA CoalescedHandsOver ==
    ASSUME IInv, NEW c \in CardType, c.rows # <<>>, NEW k, OfferCoalesced(c, k), ChangesHands
    PROVE  LoserIsGone /\ Coalesces(c) /\ c.source = laneLock'.source
<1> DEFINE first == Least(Replaceable(c))
           line == Shows(items, first, c)
<1>1. LiveLock = laneLock /\ laneLock # None
    BY DEF ChangesHands, LiveLock
<1>2. /\ Coalesces(c) /\ Replaceable(c) # {}
      /\ laneLock' = CardLock(c) /\ laneLock.source # c.source
      /\ items' = Without(line, OwnedBy(line, laneLock))
    BY <1>1 DEF OfferCoalesced, Coalesces, ChangesHands, Shows, Showing, CardLock
<1>3. first \in DOMAIN items
    <2>1. Replaceable(c) \subseteq DOMAIN items
        BY DEF Replaceable
    <2>2. DOMAIN items \subseteq Nat
        BY InvariantParts
    <2> QED BY <1>2, <2>1, <2>2, LeastMember
<1> HIDE DEF first
<1>4. line \in Seq(ItemType)
    <2>1. items \in Seq(ItemType) /\ items[first] \in ItemType
        BY <1>3, InvariantParts
    <2>2. Showing(items[first], c) \in ItemType
        BY <2>1, ShowingType
    <2> QED BY <1>3, <2>1, <2>2 DEF Shows
<1> HIDE DEF line
<1>5. OwnedBy(line, laneLock) \cup {} = OwnedBy(line, laneLock)
    OBVIOUS
<1>6. \A i \in DOMAIN items' : ~BelongsTo(items'[i], laneLock.source)
    BY <1>2, <1>4, <1>5, OwnersLeave
<1> QED BY <1>1, <1>2, <1>6 DEF LoserIsGone, CardLock

(* A submission takes the board from nobody the house lists higher.        *)
LEMMA QueuedHandsOver ==
    ASSUME IInv, NEW c \in CardType, NEW k \in ClocksType, OfferQueued(c, k, FALSE),
           ChangesHands
    PROVE  LoserIsGone /\ laneLock'.rank >= LiveLock.rank
<1> DEFINE met == LockMet(c)
           ends == EndsHold(c, met)
           claims == ClaimsBoard(c, met)
           handed == FALSE /\ Preempts(c, met) /\ ~IsMine(c, met)
           lock == IF claims THEN CardLock(c) ELSE IF ends \/ handed THEN None ELSE met
           displaced == met # None /\ ~IsMine(c, met) /\ (ends \/ (claims /\ ~handed))
           gone == IF displaced THEN OwnedBy(items, met) ELSE {}
           line == Without(items, gone \cup ReplacedBy(c))
           breaks == c.takeover /\ TakesBoard(c, met)
           inFront == \/ IsAlert(c)
                      \/ breaks
                      \/ /\ ~IsMine(c, lock)
                         /\ Preempts(c, met) \/ (Jumps(c) /\ Lane(c) # "game")
           place == IF inFront THEN FrontOf(line)
                    ELSE IF IsMine(c, lock) THEN AfterHold(line, lock)
                    ELSE Len(line)
           wait == ClosingWait(c, k)
<1>1. PICK b \in 1..MaxBatch :
          FreshBatch(b) /\ items' = Insert(line, place, Pages(c, b, wait))
    BY DEF OfferQueued
<1>2. laneLock' = lock
    BY DEF OfferQueued
<1> HIDE DEF inFront, wait
<1>3. claims /\ laneLock' = CardLock(c) /\ c.source # LiveLock.source
    <2>1. met = LiveLock \/ (met = None /\ LiveLock.source = c.source)
        BY DEF LockMet
    <2> HIDE DEF met, claims, ends
    <2> QED BY <1>2, <2>1 DEF ChangesHands, CardLock
<1>4. met = LiveLock /\ met # None /\ ~IsMine(c, met)
    BY <1>3 DEF LockMet, ChangesHands, IsMine
<1>5. gone = OwnedBy(items, LiveLock)
    BY <1>3, <1>4
<1>6. Preempts(c, met)
    BY <1>3, <1>4 DEF ClaimsBoard, TakesBoard
<1>7. laneLock'.rank >= LiveLock.rank
    <2>1. laneLock'.rank = Rank(c)
        BY <1>3 DEF CardLock
    <2>2. Rank(c) \in Nat /\ LiveLock.rank \in Nat
        BY <1>4, CardFields, RuleFields, LiveLockType DEF Rank, LockType
    <2>3. Rank(c) > LiveLock.rank \/ Rank(c) = LiveLock.rank
        BY <1>4, <1>6 DEF Preempts
    <2> QED BY <2>1, <2>2, <2>3
<1>8. line \in Seq(ItemType) /\ \A i \in DOMAIN line : ~BelongsTo(line[i], LiveLock.source)
    <2> HIDE DEF gone
    <2>1. items \in Seq(ItemType)
        BY InvariantParts
    <2>2. line = Without(items, OwnedBy(items, LiveLock) \cup ReplacedBy(c))
        BY <1>5
    <2> HIDE DEF line
    <2> QED BY <2>1, <2>2, OwnersLeave, WithoutProperties
<1> HIDE DEF line, lock
<1>9. place \in 0..Len(line)
    <2>1. FrontOf(line) \in 0..Len(line)
        BY <1>8, Places DEF FrontOf
    <2>2. AfterHold(line, lock) \in 0..Len(line)
        BY <1>8, Places DEF AfterHold
    <2>3. Len(line) \in 0..Len(line)
        BY <1>8
    <2> QED BY <2>1, <2>2, <2>3
<1> DEFINE pages == Pages(c, b, wait)
<1>10. pages \in Seq(ItemType) /\ \A i \in DOMAIN pages : ~BelongsTo(pages[i], LiveLock.source)
    <2>1. wait \in Nat /\ b \in Nat
        BY <1>1, CardFields, ClockFields DEF ClosingWait, Smaller, wait
    <2>2. pages \in Seq(ItemType)
        BY <2>1, PagesType
    <2> QED BY <1>3, <2>2 DEF Pages, BelongsTo
<1> HIDE DEF place, pages
<1>11. LoserIsGone
    <2>1. \A i \in DOMAIN Insert(line, place, pages) :
              ~BelongsTo(Insert(line, place, pages)[i], LiveLock.source)
        BY <1>8, <1>9, <1>10, StrangersJoin
    <2> QED BY <1>1, <2>1 DEF LoserIsGone, pages
<1> QED BY <1>7, <1>11

ByCoalescing == \E c \in Offered : Coalesces(c) /\ c.source = laneLock'.source

ByASession == \E joinWait \in BOOLEAN : AcquireLock(laneLock'.source, joinWait)

(* submit, whatever becomes of the offer.                                  *)
LEMMA OfferHandsOver ==
    ASSUME IInv, NEW c \in CardType, c \in Offered, c.rows # <<>>, NEW k \in ClocksType,
           Offer(c, k, FALSE), ChangesHands
    PROVE  LoserIsGone /\ (laneLock'.rank >= LiveLock.rank \/ ByCoalescing)
<1> DEFINE now == IF CutsInNow(c) THEN [k EXCEPT !.dwell = 0] ELSE k
<1>1. now \in ClocksType
    <2>1. [k EXCEPT !.dwell = 0] \in ClocksType
        BY DEF ClocksType
    <2> QED BY <2>1
<1>2. \/ OfferTooSoon(c, now) \/ OfferQuiet(c, now)
      \/ OfferCoalesced(c, now) \/ OfferQueued(c, now, FALSE)
    BY DEF Offer
<1> HIDE DEF now
<1>3. ~OfferTooSoon(c, now) /\ ~OfferQuiet(c, now)
    BY DEF OfferTooSoon, OfferQuiet, ChangesHands, LiveLock
<1> QED BY <1>1, <1>2, <1>3, CoalescedHandsOver, QueuedHandsOver DEF ByCoalescing

(* The steps a hold changes hands in.                                      *)
LEMMA EveryHandOver ==
    ASSUME IInv, [Next]_vars, ChangesHands
    PROVE  \/ SkipToNext
           \/ LoserIsGone /\ (laneLock'.rank >= LiveLock.rank \/ ByCoalescing \/ ByASession)
<1>1. laneLock # None /\ LiveLock = laneLock /\ laneLock'.source # laneLock.source
    BY DEF ChangesHands, LiveLock
<1>2. CASE \E c \in Cards : Submit(c)
    BY <1>2, InvariantParts, OfferHandsOver, QueueAssumption DEF Submit, Offered
<1>3. CASE \E skip \in BOOLEAN : Tick(skip)
    <2>1. PICK skip \in BOOLEAN : TickRestore(skip, FALSE)
        BY <1>1, <1>3 DEF Tick, TickSweep, TickDropDuplicate, TickDropQuiet, TickPost,
                          TickNothing, ChangesHands
    <2> DEFINE k == [clocks EXCEPT !.restore = Never]
    <2>2. lastSnapshot \in FrameType /\ Offer(RestoredCard(lastSnapshot), k, FALSE)
        BY <2>1 DEF TickRestore, RestoreDue, IInv, TypeOK
    <2>3. k \in ClocksType
        BY InvariantParts DEF ClocksType
    <2>4. /\ RestoredCard(lastSnapshot) \in CardType
          /\ RestoredCard(lastSnapshot).rows # <<>>
        BY <2>2, RestoredCardType
    <2>5. RestoredCard(lastSnapshot) \in Offered
        BY <2>2, <2>4, RestoredIsOneFrame DEF Offered
    <2> HIDE DEF k
    <2> QED BY <2>2, <2>3, <2>4, <2>5, OfferHandsOver
<1>4. CASE \E s \in Sources, joinWait \in BOOLEAN : AcquireLock(s, joinWait)
    <2>1. PICK s \in Sources, joinWait \in BOOLEAN : AcquireLock(s, joinWait)
        BY <1>4
    <2>2. laneLock'.source = s /\ items' = Without(items, OwnedBy(items, laneLock))
        BY <1>1, <2>1 DEF AcquireLock, PolicyLock
    <2>3. OwnedBy(items, laneLock) \cup {} = OwnedBy(items, laneLock)
        OBVIOUS
    <2>4. LoserIsGone
        BY <1>1, <2>2, <2>3, InvariantParts, OwnersLeave DEF LoserIsGone
    <2> QED BY <2>1, <2>2, <2>4 DEF ByASession
<1>5. ~Answer
    BY <1>1 DEF Answer, PostAccepted, PostBusy, PostQuiet, PostRejected, PostRefused,
               PostFailed, state
<1>6. /\ ~\E s \in Sources : SubmitClose(s) \/ ReleaseLock(s) \/ TakeBoard(s)
      /\ ~Clear /\ ~Reorder /\ ~\E i \in 1..MaxItems + 1 : Cancel(i)
    BY <1>1 DEF SubmitClose, ReleaseLock, TakeBoard, DropPages, Clear, Reorder, Cancel,
               ChangesHands
<1>7. ~ReleaseHolds /\ ~NewKey /\ ~SetQuiet /\ ~LockExpires /\ ~Restart /\ ~UNCHANGED vars
    BY <1>1 DEF ReleaseHolds, NewKey, SetQuiet, LockExpires, Restart, state, vars, ChangesHands
<1>8. ~TimePasses
    <2>1. laneLock \in LockType
        BY <1>1, InvariantParts
    <2>2. ASSUME TimePasses PROVE laneLock' = [laneLock EXCEPT !.left = Sooner(laneLock.left)]
        BY <1>1, <2>2 DEF TimePasses
    <2> QED BY <1>1, <2>1, <2>2 DEF LockType
<1> QED BY <1>2, <1>3, <1>4, <1>5, <1>6, <1>7, <1>8 DEF Next

(* Unless a person skips, a live hold changes hands cleanly: the source    *)
(* that loses the board leaves no page in the line, and it loses it to a   *)
(* source the house ranks at least as high, to a session that takes the    *)
(* board outright, or to a card that shows itself in the place of a page   *)
(* it already has in the line (queue.js does not compare ranks there).     *)
THEOREM HoldsChangeHandsCleanly ==
    Spec => [][ChangesHands =>
                  \/ SkipToNext
                  \/ /\ LoserIsGone
                     /\ laneLock'.rank >= LiveLock.rank \/ ByCoalescing \/ ByASession]_vars
<1>1. IInv /\ [Next]_vars =>
          (ChangesHands =>
              \/ SkipToNext
              \/ /\ LoserIsGone
                 /\ laneLock'.rank >= LiveLock.rank \/ ByCoalescing \/ ByASession)
    BY EveryHandOver
<1> QED BY <1>1, QueueInvariant, PTL DEF Spec

=============================================================================
