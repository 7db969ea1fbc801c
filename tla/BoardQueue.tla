---------------------------- MODULE BoardQueue ----------------------------
(***************************************************************************)
(* The house queue in front of the Vestaboards (vestaboard/queue.js): one  *)
(* line of pages, paced by the flaps' rate window, the house dwell, holds  *)
(* and quiet hours, and posted one page at a time.                         *)
(*                                                                         *)
(* JavaScript runs each handler to completion.  The only wait is the       *)
(* `await transport.post` inside tickOnce: every other operation can run   *)
(* while a page is in flight, and the answer is applied to whatever state  *)
(* it finds.  A tick is therefore cut where the code awaits (TickPost, then*)
(* one of the Post... actions); when it sweeps or restores a page first,   *)
(* these are steps of their own and nothing else is enabled before the     *)
(* tick has gone on (stage begun).                                         *)
(*                                                                         *)
(* A deadline is a countdown to it and a past instant is an age, so a      *)
(* behaviour needs no clock: 0 is "due", and null where the code cannot    *)
(* tell it from a deadline that has passed.                                *)
(*                                                                         *)
(* A definition marked Slip is no part of the model.  It is a mistake the  *)
(* code could plausibly make in the definition below it, kept here to show *)
(* which property notices.                                                 *)
(***************************************************************************)
EXTENDS HoldPolicy, Lines

CONSTANTS
    Cards,            \* the cards offered to the queue
    LabelOf,          \* the label a formatter gives a layout
    RateWindow,       \* rateWindowSeconds: how long the flaps refuse a flip
    BoardDwell,       \* house Settings: Dwell
    RotationGap,      \* minRotationGapSeconds
    CoalesceWindow,   \* COALESCE_WINDOW_MS
    RetryDelays,      \* RETRY_DELAYS_MS
    UnhealthyRetry,   \* UNHEALTHY_RETRY_MS
    FailuresBeforeUnhealthy,
    MaxItems,         \* bound: callers offer no page to a line this long
    MaxBatch          \* bound: submissions that have an item waiting or in flight

ASSUME QueueAssumption ==
    /\ Cards \subseteq CardType
    /\ DOMAIN LabelOf = Layouts
    /\ RateWindow \in Nat \ {0}
    /\ BoardDwell \in Nat
    /\ RotationGap \in Nat
    /\ CoalesceWindow \in Nat \ {0}
    /\ RetryDelays \in Seq(Nat \ {0})
    /\ UnhealthyRetry \in Nat \ {0}
    /\ FailuresBeforeUnhealthy \in Nat \ {0}
    /\ Len(RetryDelays) < FailuresBeforeUnhealthy
    /\ MaxItems \in Nat
    /\ MaxBatch \in Nat

VARIABLES
    items,            \* the waiting pages, first to post first
    current,          \* state.current and currentBoardIds, or None
    lastSnapshot,     \* the last page that was no alert, or None
    laneLock,         \* the live hold: owner, rank and time left, or None
    schedulerPage,    \* the rotation page on the flaps: key and boards, or None
    clearAfterHold,   \* state.clearSchedulerAfterHold
    clocks,           \* every other deadline and age
    coalesceSeen,     \* age of the last offer with each key
    health,           \* "degraded" always has reason auth
    failures,
    ticking,          \* where the running tick is, and whether it is a Skip
    posting,          \* the page in flight, or None
    quiet,            \* is the board's quiet window open
    flaps,            \* the boards themselves: the layout each last accepted
    persisted         \* age of lastPostAt in data/vestaboard-runtime.json

state == <<items, current, lastSnapshot, laneLock, schedulerPage, clearAfterHold,
           clocks, coalesceSeen, health, failures>>
vars == <<items, current, lastSnapshot, laneLock, schedulerPage, clearAfterHold,
          clocks, coalesceSeen, health, failures, ticking, posting, quiet, flaps,
          persisted>>

Never == -1                    \* the instant is null

(* A waiting page.  batch and nth make its id and its sequenceId; meta is  *)
(* the card it was submitted with and face the card it now shows, which a  *)
(* coalescing offer replaces; page is the page of face it shows.           *)
ItemType ==
    {i \in [batch : Nat, nth : Nat \ {0}, face : CardType, page : Nat \ {0},
            meta : CardType, wait : Nat] : i.page <= Len(i.face.rows)}

(* A frame that was posted: the card and which of its pages.               *)
FrameType == {f \in [card : CardType, page : Nat \ {0}] : f.page <= Len(f.card.rows)}

LockType == [source : Sources, rank : Nat, left : Nat]

ClocksType ==
    [sincePost : Nat \cup {Never},     \* lastPostAt
     sinceFlip : Nat,                  \* lastSchedulerFlipAt
     hold : Nat,                       \* holdUntil
     dwell : Nat,                      \* snapshotUntil
     retry : Nat,                      \* retryNotBefore
     restore : Nat \cup {Never}]       \* restoreAfter

PostType == [item : ItemType, index : Nat \ {0}, sent : Layouts, boards : SUBSET Boards]

ASSUME NoneAssumption == None \notin PostType

TypeOK ==
    /\ items \in Seq(ItemType)
    /\ current \in [rows : Layouts, boards : SUBSET Boards] \cup {None}
    /\ lastSnapshot \in FrameType \cup {None}
    /\ laneLock \in LockType \cup {None}
    /\ schedulerPage \in [key : Keys, boards : SUBSET Boards] \cup {None}
    /\ clearAfterHold \in BOOLEAN
    /\ clocks \in ClocksType
    /\ coalesceSeen \in [Keys -> Nat]
    /\ health \in {"ok", "unhealthy", "degraded"}
    /\ failures \in Nat
    /\ ticking \in [stage : {"idle", "begun", "posting"}, skip : BOOLEAN, asked : BOOLEAN]
    /\ posting \in PostType \cup {None}
    /\ quiet \in BOOLEAN
    /\ flaps \in [Boards -> Layouts \cup {None}]
    /\ persisted \in Nat \cup {Never}

FreshClocks == [sincePost |-> Never, sinceFlip |-> RotationGap, hold |-> 0, dwell |-> 0,
                retry |-> 0, restore |-> Never]

Idle == [stage |-> "idle", skip |-> FALSE, asked |-> FALSE]

Init ==
    /\ items = <<>>
    /\ current = None
    /\ lastSnapshot = None
    /\ laneLock = None
    /\ schedulerPage = None
    /\ clearAfterHold = FALSE
    /\ clocks = FreshClocks
    /\ coalesceSeen = [k \in Keys |-> CoalesceWindow]
    /\ health = "ok"
    /\ failures = 0
    /\ ticking = Idle
    /\ posting = None
    /\ quiet = FALSE
    /\ flaps = [b \in Boards |-> None]
    /\ persisted = Never

-----------------------------------------------------------------------------
(* Pages.                                                                  *)

SameItem(i, j) == i.batch = j.batch /\ i.nth = j.nth

(* A submission of several frames is a sequence.                           *)
InSequence(i) == Len(i.meta.rows) > 1

LayoutOf(i) == i.face.rows[i.page]

BelongsTo(i, s) == i.face.source = s \/ i.meta.source = s

CutsIn(i) == IsAlert(i.face)

(* cardKeyOf: pages of one sequence with one label are one card.           *)
SameCard(i, j) ==
    \/ SameItem(i, j)
    \/ /\ InSequence(i)
       /\ i.batch = j.batch
       /\ LabelOf[LayoutOf(i)] = LabelOf[LayoutOf(j)]

-----------------------------------------------------------------------------
(* What the clocks and the lock say of a page.                             *)

(* Slip: a lock that never expires.                                        *)
EndlessLock == laneLock

(* laneLockActive: an expired lock counts as none.                         *)
LiveLock == IF laneLock # None /\ laneLock.left > 0 THEN laneLock ELSE None

AlreadyShowing(i) ==
    current # None /\ current.rows = LayoutOf(i) /\ current.boards = i.face.boards

(* Slip: any rotation page refreshes the one on the flaps.                 *)
RefreshesAny(c, boards, k) ==
    schedulerPage # None /\ boards = schedulerPage.boards /\ (k.hold > 0 \/ k.dwell > 0)

(* refreshesSchedulerPage, at the clocks k: the page on the flaps updates  *)
(* itself while it still has its time, its own hold or the board's dwell.  *)
Refreshes(c, boards, k) ==
    /\ schedulerPage # None
    /\ KeyOf(c) = schedulerPage.key
    /\ boards = schedulerPage.boards
    /\ k.hold > 0 \/ k.dwell > 0

ItemRefreshes(i) ==
    /\ i.meta.scheduler /\ ~i.meta.closing /\ ~CutsIn(i)
    /\ Refreshes(i.meta, i.face.boards, clocks)

ClosingPending(i) == i.meta.closing /\ i.wait > 0

(* Slip: a jumper gets past any hold.                                      *)
OutranksUnasked(i, lock) == Lane(i.face) = "alert"

(* A jumper gets past a live hold only when the house list puts it higher. *)
Outranks(i, lock) == Lane(i.face) = "alert" /\ Rank(i.face) > lock.rank

Held(i) ==
    IF LiveLock # None
    THEN ~BelongsTo(i, LiveLock.source) /\ ~Outranks(i, LiveLock)
    ELSE /\ ~CutsIn(i)
         /\ \/ ClosingPending(i)
            \/ clocks.hold > 0 /\ i.meta.scheduler /\ ~ItemRefreshes(i)

(* policyFor: what acquireGameLock and Skip give a source.                 *)
PolicyLock(s, joinWait) ==
    [source |-> s,
     rank |-> IF Policy[s].listed THEN Policy[s].rank ELSE 2,      \* LANES.game
     left |-> IF ~(Policy[s].listed /\ Policy[s].hold) THEN LockTtl
              ELSE IF joinWait THEN Policy[s].minutes
              ELSE Larger(Policy[s].minutes, LockTtl)]

(* submit: the lock a card classified as a hold takes.                     *)
CardLock(c) == [source |-> c.source, rank |-> Rank(c), left |-> HoldTtl(c.source, c.join)]

(* Slip: the loser of the board keeps its pages in the line.               *)
OwnedByNobody(line, lock) == {}

(* Where the pages of a lock's owner stand in a line.                      *)
OwnedBy(line, lock) == {i \in DOMAIN line : BelongsTo(line[i], lock.source)}

(* The page in flight is one object with its entry in the line: a handler  *)
(* that changes the entry changes what the answer will be applied to.      *)
Tracked(line) ==
    IF posting = None THEN None
    ELSE LET I == {i \in DOMAIN line : SameItem(line[i], posting.item)}
         IN IF I = {} THEN posting ELSE [posting EXCEPT !.item = line[Least(I)]]

(* Everything runs between two of the tick's synchronous steps but those.  *)
Free == ticking.stage # "begun"

-----------------------------------------------------------------------------
(* submit.  k are the clocks it runs at: a card that cuts in has already   *)
(* ended the dwell, a restore has already cleared restoreAfter.            *)

TooSoon(c, k) ==
    /\ c.scheduler /\ ~c.closing /\ ~IsAlert(c)
    /\ ~Refreshes(c, c.boards, k)
    /\ k.sinceFlip < RotationGap

(* The waiting pages a coalescing offer may replace: the first one is.     *)
Replaceable(c) ==
    {i \in DOMAIN items : /\ KeyOf(c) # None
                          /\ KeyOf(items[i].meta) = KeyOf(c)
                          /\ items[i].face.boards = c.boards}

Coalesces(c) ==
    /\ Replaceable(c) # {}
    /\ Lane(c) \in {"game", "alert"} \/ coalesceSeen[KeyOf(c)] < CoalesceWindow

SeenNow(c) ==
    IF KeyOf(c) = None THEN coalesceSeen ELSE [coalesceSeen EXCEPT ![KeyOf(c)] = 0]

OfferTooSoon(c, k) ==
    /\ TooSoon(c, k)
    /\ clocks' = k
    /\ UNCHANGED <<items, lastSnapshot, laneLock, schedulerPage, coalesceSeen, posting>>

(* The waiting page shows the new card from now on, in its old place.      *)
OfferCoalesced(c, k) ==
    /\ ~TooSoon(c, k) /\ Coalesces(c)
    /\ LET first == Least(Replaceable(c))
           line == [items EXCEPT ![first] = [@ EXCEPT !.face = c, !.page = 1]]
           renews == /\ Lane(c) = "game"
                     /\ Live(c) \/ (LiveLock # None /\ LiveLock.source = c.source)
           gone == IF renews /\ laneLock # None /\ laneLock.source # c.source
                   THEN OwnedBy(line, laneLock) ELSE {}
       IN /\ items' = Without(line, gone)
          /\ laneLock' = IF renews THEN CardLock(c) ELSE laneLock
          /\ posting' = Tracked(line)
    /\ clocks' = k
    /\ coalesceSeen' = SeenNow(c)
    /\ UNCHANGED <<lastSnapshot, schedulerPage>>

OfferQuiet(c, k) ==
    /\ ~TooSoon(c, k) /\ ~Coalesces(c)
    /\ quiet /\ ~IsExempt(c)
    /\ clocks' = k
    /\ coalesceSeen' = SeenNow(c)
    /\ UNCHANGED <<items, lastSnapshot, laneLock, schedulerPage, posting>>

(* The lock once a non-live card of the lock's own source handed it back.  *)
LockMet(c) ==
    IF LiveLock # None /\ LiveLock.source = c.source /\ Lane(c) = "rotation"
    THEN None ELSE LiveLock

IsMine(c, lock) == lock # None /\ lock.source = c.source

(* Slip: whoever jumps displaces the hold.                                 *)
PreemptsUnasked(c, lock) == lock # None /\ ~IsMine(c, lock) /\ Jumps(c)

Preempts(c, lock) ==
    /\ lock # None
    /\ \/ Rank(c) > lock.rank
       \/ Rank(c) = lock.rank /\ ~IsMine(c, lock) /\ Jumps(c)

TakesBoard(c, lock) == lock = None \/ IsMine(c, lock) \/ Preempts(c, lock)

(* A jumper that does not hold ends the hold it displaces.                 *)
EndsHold(c, lock) == Preempts(c, lock) /\ ~IsMine(c, lock) /\ ~Holds(c)

ClaimsBoard(c, lock) ==
    Lane(c) = "game" /\ TakesBoard(c, lock) /\ (Live(c) \/ IsMine(c, lock))

(* A closing artwork waits for the page it clears.                         *)
ClosingWait(c, k) ==
    IF ~c.closing THEN 0
    ELSE IF schedulerPage # None /\ k.hold > 0 THEN Smaller(c.after, k.hold)
    ELSE c.after

FreshBatch(b) ==
    LET used == {items[i].batch : i \in DOMAIN items}
                \cup (IF posting = None THEN {} ELSE {posting.item.batch})
    IN b \notin used /\ \A a \in 1..(b - 1) : a \in used

Pages(c, b, wait) ==
    [n \in DOMAIN c.rows |->
        [batch |-> b, nth |-> n, face |-> c, page |-> n, meta |-> c, wait |-> wait]]

(* queueInFront: before the first page that does not cut in.               *)
FrontOf(line) ==
    Least({i \in DOMAIN line : ~CutsIn(line[i])} \cup {Len(line) + 1}) - 1

(* queueAfterHold: behind the lock's own pages at the head of the line.    *)
AfterHold(line, lock) ==
    Least({i \in DOMAIN line : ~CutsIn(line[i]) /\ ~BelongsTo(line[i], lock.source)}
          \cup {Len(line) + 1}) - 1

(* Slip: the phases of every source are compared.                          *)
ReplacedByPhase(c) ==
    {i \in DOMAIN items : c.replaces # "nothing" /\ items[i].face.phase <= c.phase}

(* What a game's next card clears out of the line: replaceSource with no   *)
(* card drops the game's pages, with a card those of no later phase.       *)
ReplacedBy(c) ==
    {i \in DOMAIN items : /\ c.replaces # "nothing"
                          /\ BelongsTo(items[i], c.source)
                          /\ c.replaces = "all" \/ items[i].face.phase <= c.phase}

(* heard: a session listens, and when the queue tells it that its hold is  *)
(* displaced, in the middle of the offer, it ends and hands the hold back: *)
(* the jumper then finds a free board, and a dead session's pages in line. *)
OfferQueued(c, k, heard) ==
    /\ ~TooSoon(c, k) /\ ~Coalesces(c)
    /\ ~quiet \/ IsExempt(c)
    /\ LET met == LockMet(c)
           ends == EndsHold(c, met)
           claims == ClaimsBoard(c, met)
           handed == heard /\ Preempts(c, met) /\ ~IsMine(c, met)
           lock == IF claims THEN CardLock(c) ELSE IF ends \/ handed THEN None ELSE met
           displaced == met # None /\ ~IsMine(c, met) /\ (ends \/ (claims /\ ~handed))
           gone == IF displaced THEN OwnedBy(items, met) ELSE {}
           line == Without(items, gone \cup ReplacedBy(c))
           breaks == c.takeover /\ TakesBoard(c, met)
           inFront == \/ IsAlert(c)
                      \/ breaks
                      \/ /\ ~IsMine(c, lock)
                         /\ Preempts(c, met) \/ (Jumps(c) /\ Lane(c) # "game")
           place == IF inFront THEN FrontOf(line)
                    ELSE IF IsMine(c, lock) THEN AfterHold(line, lock)
                    ELSE Len(line)
       IN /\ \E b \in 1..MaxBatch :
                /\ FreshBatch(b)
                /\ items' = Insert(line, place, Pages(c, b, ClosingWait(c, k)))
          /\ laneLock' = lock
          /\ lastSnapshot' = IF ends /\ lastSnapshot # None
                                /\ lastSnapshot.card.source = met.source
                             THEN None ELSE lastSnapshot
          /\ schedulerPage' = IF breaks THEN None ELSE schedulerPage
          /\ clocks' = [k EXCEPT !.hold = IF breaks THEN 0 ELSE @,
                                 !.restore = IF ends THEN Never ELSE @]
    /\ coalesceSeen' = SeenNow(c)
    /\ UNCHANGED posting

(* One call of queue.submit.  clearAfterHold, current and the health are   *)
(* never its business.                                                     *)
Offer(c, k, heard) ==
    LET now == IF CutsInNow(c) THEN [k EXCEPT !.dwell = 0] ELSE k
    IN \/ OfferTooSoon(c, now)
       \/ OfferCoalesced(c, now)
       \/ OfferQuiet(c, now)
       \/ OfferQueued(c, now, heard)

Submit(c) ==
    /\ Free
    /\ c.kind # "close"
    /\ c.rows # <<>>
    /\ Len(items) + Len(c.rows) <= MaxItems
    /\ Offer(c, clocks, FALSE)
    /\ UNCHANGED <<current, clearAfterHold, health, failures, ticking, quiet, flaps, persisted>>

(* A close payload has no frames: it hands the board back and takes its    *)
(* source's pages out of the line.                                         *)
SubmitClose(s) ==
    /\ Free
    /\ laneLock' = IF laneLock # None /\ laneLock.source = s THEN None ELSE laneLock
    /\ items' = Without(items, {i \in DOMAIN items : BelongsTo(items[i], s)})
    /\ UNCHANGED <<current, lastSnapshot, schedulerPage, clearAfterHold, clocks, coalesceSeen,
                   health, failures, ticking, posting, quiet, flaps, persisted>>

-----------------------------------------------------------------------------
(* tickOnce, up to its await.                                              *)

(* A tick is under way once it left idle; skipToNext asks for one of its   *)
(* own, which takes its turn behind a tick that is already running.        *)
Ticking(skip) ==
    \/ ticking.stage = "idle" /\ (skip => ticking.asked)
    \/ ticking.stage = "begun" /\ skip = ticking.skip

Stage(stage, skip) ==
    [stage |-> stage,
     skip |-> skip /\ stage # "idle",
     asked |-> ticking.asked /\ ~(skip /\ ticking.stage = "idle")]

SweepDue == clearAfterHold /\ clocks.hold = 0

(* Slip: only keyed pages are swept.                                       *)
PiledUpKeyed == {i \in DOMAIN items : items[i].meta.scheduler /\ ~CutsIn(items[i])
                                      /\ KeyOf(items[i].meta) # None}

(* sweepSchedulerPending: what piled up behind a clean-up artwork.         *)
PiledUp == {i \in DOMAIN items : items[i].meta.scheduler /\ ~CutsIn(items[i])
                                 /\ ~items[i].meta.closing}

TickSweep(skip) ==
    /\ Ticking(skip) /\ SweepDue
    /\ clearAfterHold' = FALSE
    /\ items' = Without(items, PiledUp)
    /\ ticking' = Stage("begun", skip)
    /\ UNCHANGED <<current, lastSnapshot, laneLock, schedulerPage, clocks, coalesceSeen,
                   health, failures, posting, quiet, flaps, persisted>>

(* Slip: put back only onto a board that shows nothing.                    *)
RestoreDueWhenBlank ==
    clocks.restore = 0 /\ lastSnapshot # None /\ current = None /\ items = <<>>

(* An alert has had its time: what it covered is put back when nothing     *)
(* else is ready for the board.                                            *)
RestoreDue ==
    /\ clocks.restore = 0
    /\ lastSnapshot # None
    /\ current = None \/ lastSnapshot.card.rows[lastSnapshot.page] # current.rows
    /\ items = <<>> \/ (LiveLock # None /\ \A i \in DOMAIN items : Held(items[i]))

(* submit([lastSnapshot], {priority: 'snapshot'}): all that is left of the *)
(* card is its frame; it is classified again from an empty payload.        *)
RestoredCard(f) ==
    [f.card EXCEPT !.rows = <<f.card.rows[f.page]>>, !.live = TRUE, !.join = FALSE,
                   !.device = None, !.boards = {}, !.exempt = FALSE,
                   !.scheduler = FALSE, !.closing = FALSE, !.after = 0, !.clears = FALSE,
                   !.takeover = FALSE, !.replaces = "nothing"]

TickRestore(skip, heard) ==
    /\ Ticking(skip) /\ ~SweepDue /\ RestoreDue
    /\ Offer(RestoredCard(lastSnapshot), [clocks EXCEPT !.restore = Never], heard)
    /\ ticking' = IF items = <<>> THEN Stage("idle", skip) ELSE Stage("begun", skip)
    /\ UNCHANGED <<current, clearAfterHold, health, failures, quiet, flaps, persisted>>

(* The positions at which the search for a page to post stops: a page that *)
(* is not held, one the board already shows, and without a lock any page   *)
(* but a closing artwork biding its time.                                  *)
Stops(skip) ==
    {i \in DOMAIN items : \/ ~Held(items[i])
                          \/ AlreadyShowing(items[i])
                          \/ skip
                          \/ LiveLock = None /\ ~ClosingPending(items[i])}

Selecting(skip) == Ticking(skip) /\ ~SweepDue /\ ~RestoreDue

Sends == health # "degraded" /\ items # <<>>

OwnedNow(i) == LiveLock # None /\ BelongsTo(i, LiveLock.source)

(* The page's own wait, a retry, the flaps' window and the dwell.          *)
Due(i) ==
    /\ i.wait = 0
    /\ clocks.retry = 0
    /\ clocks.sincePost = Never \/ clocks.sincePost >= RateWindow
    /\ CutsIn(i) \/ OwnedNow(i) \/ clocks.dwell = 0 \/ ItemRefreshes(i)

(* The page the tick is about, when it gets to one it may post.            *)
Picks(skip, i) ==
    /\ Selecting(skip) /\ Sends
    /\ Stops(skip) # {} /\ i = Least(Stops(skip))
    /\ skip \/ (~Held(items[i]) /\ Due(items[i]))

Dedupes(skip, i) ==
    /\ Selecting(skip) /\ Sends
    /\ Stops(skip) # {} /\ i = Least(Stops(skip))
    /\ Held(items[i]) /\ AlreadyShowing(items[i])

(* Slip: quiet hours are only asked about when a page is offered.          *)
DropsQuietNever(skip, i) == FALSE

DropsQuiet(skip, i) ==
    Picks(skip, i) /\ ~Dedupes(skip, i) /\ quiet /\ ~skip /\ ~IsExempt(items[i].face)

(* A skip that found a duplicate clears the way again and ticks once more. *)
TickDropDuplicate(skip) ==
    /\ \E i \in DOMAIN items :
          /\ \/ Dedupes(skip, i)
             \/ Picks(skip, i) /\ ~DropsQuiet(skip, i) /\ AlreadyShowing(items[i])
          /\ LET line == Without(items, {i})
             IN items' = IF skip /\ line # <<>> THEN [line EXCEPT ![1].wait = 0] ELSE line
    /\ clocks' = IF skip /\ items' # <<>>
                 THEN [clocks EXCEPT !.sincePost = Never, !.dwell = 0] ELSE clocks
    /\ ticking' = [Stage("idle", skip) EXCEPT !.asked = @ \/ (skip /\ items' # <<>>)]
    /\ laneLock' = LiveLock
    /\ UNCHANGED <<current, lastSnapshot, schedulerPage, clearAfterHold, coalesceSeen,
                   health, failures, posting, quiet, flaps, persisted>>

TickDropQuiet(skip) ==
    /\ \E i \in DOMAIN items : DropsQuiet(skip, i) /\ items' = Without(items, {i})
    /\ ticking' = Stage("idle", skip)
    /\ laneLock' = LiveLock
    /\ UNCHANGED <<current, lastSnapshot, schedulerPage, clearAfterHold, clocks, coalesceSeen,
                   health, failures, posting, quiet, flaps, persisted>>

(* transport.post is called: the layout leaves the hub now.                *)
TickPost(skip) ==
    /\ \E i \in DOMAIN items :
          /\ Picks(skip, i) /\ ~Dedupes(skip, i) /\ ~DropsQuiet(skip, i)
          /\ ~AlreadyShowing(items[i])
          /\ posting' = [item |-> items[i], index |-> i, sent |-> LayoutOf(items[i]),
                         boards |-> items[i].face.boards]
    /\ ticking' = Stage("posting", skip)
    /\ laneLock' = LiveLock
    /\ UNCHANGED <<items, current, lastSnapshot, schedulerPage, clearAfterHold, clocks,
                   coalesceSeen, health, failures, quiet, flaps, persisted>>

TickNothing(skip) ==
    /\ Selecting(skip)
    /\ ~\E i \in DOMAIN items : Picks(skip, i) \/ Dedupes(skip, i)
    /\ ticking' = Stage("idle", skip)
    /\ laneLock' = IF Sends THEN LiveLock ELSE laneLock
    /\ UNCHANGED <<items, current, lastSnapshot, schedulerPage, clearAfterHold, clocks,
                   coalesceSeen, health, failures, posting, quiet, flaps, persisted>>

Tick(skip) ==
    \/ TickSweep(skip)
    \/ TickRestore(skip, FALSE)
    \/ TickDropDuplicate(skip)
    \/ TickDropQuiet(skip)
    \/ TickPost(skip)
    \/ TickNothing(skip)

-----------------------------------------------------------------------------
(* tickOnce, from the answer on.  transport.post goes out to every aimed   *)
(* board and answers ok when one of them took the page; a post that fails  *)
(* on the wire may still have flipped some flaps.                          *)

Aimed(boards) == IF boards = {} THEN Boards ELSE boards

Flipped(B) == [b \in Boards |-> IF b \in B THEN posting.sent ELSE flaps[b]]

Answered ==
    /\ ticking.stage = "posting"
    /\ ticking' = [ticking EXCEPT !.stage = "idle", !.skip = FALSE]
    /\ posting' = None

(* Slip: the place the page had before the await.                          *)
AnsweredPlace == {posting.index} \cap DOMAIN items

(* Where the line has the page in flight, if it still has it.              *)
AnsweredPages == {i \in DOMAIN items : SameItem(items[i], posting.item)}

(* Slip: a refresh counts as a flip of the rotation.                       *)
TakesTurnAgain(i) == ~CutsIn(i)

(* An alert leaves the rotation's bookkeeping alone, a page that refreshes *)
(* the one on the flaps leaves its clocks alone.                           *)
TakesItsTurn(i) == ~CutsIn(i) /\ ~ItemRefreshes(i)

(* onPosted.                                                               *)
PostAccepted ==
    /\ Answered
    /\ \E B \in SUBSET Aimed(posting.boards) : B # {} /\ flaps' = Flipped(B)
    /\ LET it == posting.item
           line == Without(items, AnsweredPages)
           turns == TakesItsTurn(it)
           owned == laneLock # None /\ BelongsTo(it, laneLock.source)
           hold == IF owned THEN 0 ELSE it.face.hold
           cutShort == line # <<>> /\ CutsIn(line[1])
           follows == line # <<>> /\ InSequence(it) /\ line[1].batch = it.batch
       IN /\ current' = [rows |-> LayoutOf(it), boards |-> it.face.boards]
          /\ lastSnapshot' = IF CutsIn(it) THEN lastSnapshot
                             ELSE [card |-> it.face, page |-> it.page]
          /\ schedulerPage' =
                IF ~turns THEN schedulerPage
                ELSE IF it.meta.scheduler /\ ~it.meta.closing /\ KeyOf(it.meta) # None
                     THEN [key |-> KeyOf(it.meta), boards |-> it.face.boards]
                     ELSE None
          /\ clearAfterHold' = IF turns THEN hold > 0 /\ it.meta.clears ELSE clearAfterHold
          /\ clocks' = [clocks EXCEPT
                !.sincePost = 0,
                !.retry = 0,
                !.restore = IF CutsIn(it) THEN it.face.reading ELSE Never,
                !.sinceFlip = IF turns /\ it.meta.scheduler THEN 0 ELSE @,
                !.hold = IF turns THEN hold ELSE @,
                !.dwell = IF CutsIn(it) \/ (turns /\ (cutShort \/ owned)) THEN 0
                          ELSE IF turns THEN BoardDwell ELSE @]
          /\ items' = IF follows
                      THEN [line EXCEPT ![1].wait =
                               Larger(@, Larger(it.face.reading, BoardDwell))]
                      ELSE line
    /\ failures' = 0
    /\ health' = "ok"
    /\ persisted' = 0
    /\ UNCHANGED <<laneLock, coalesceSeen, quiet>>

(* The flaps are still moving: the very same page goes again.              *)
PostBusy ==
    /\ Answered
    /\ clocks' = [clocks EXCEPT !.retry =
                     IF clocks.sincePost = Never THEN RateWindow + 1
                     ELSE Larger(0, RateWindow + 1 - clocks.sincePost)]
    /\ UNCHANGED <<items, current, lastSnapshot, laneLock, schedulerPage, clearAfterHold,
                   coalesceSeen, health, failures, quiet, flaps, persisted>>

(* Every aimed board is in its own quiet hours.                            *)
PostQuiet ==
    /\ Answered /\ ~ticking.skip
    /\ UNCHANGED <<state, quiet, flaps, persisted>>

(* Board gone, or a layout it refuses: dropAt(index) with the index the    *)
(* page had before the await.                                              *)
PostRejected ==
    /\ Answered
    /\ items' = Without(items, {posting.index} \cap DOMAIN items)
    /\ UNCHANGED <<current, lastSnapshot, laneLock, schedulerPage, clearAfterHold, clocks,
                   coalesceSeen, health, failures, quiet, flaps, persisted>>

PostRefused ==
    /\ Answered
    /\ health' = "degraded"
    /\ UNCHANGED <<items, current, lastSnapshot, laneLock, schedulerPage, clearAfterHold,
                   clocks, coalesceSeen, failures, quiet, flaps, persisted>>

(* The count is capped where one more failure changes nothing.             *)
PostFailed ==
    /\ Answered
    /\ \E B \in SUBSET Aimed(posting.boards) : flaps' = Flipped(B)
    /\ failures' = Smaller(failures + 1, FailuresBeforeUnhealthy)
    /\ clocks' = [clocks EXCEPT !.retry =
                     IF failures + 1 \in DOMAIN RetryDelays THEN RetryDelays[failures + 1]
                     ELSE UnhealthyRetry]
    /\ health' = IF failures + 1 >= FailuresBeforeUnhealthy THEN "unhealthy" ELSE health
    /\ UNCHANGED <<items, current, lastSnapshot, laneLock, schedulerPage, clearAfterHold,
                   coalesceSeen, quiet, persisted>>

Answer == PostAccepted \/ PostBusy \/ PostQuiet \/ PostRejected \/ PostRefused \/ PostFailed

-----------------------------------------------------------------------------
(* What sessions, people and settings do to the line.                      *)

AcquireLock(s, joinWait) ==
    /\ Free
    /\ laneLock' = PolicyLock(s, joinWait)
    /\ items' = IF laneLock # None /\ laneLock.source # s
                THEN Without(items, OwnedBy(items, laneLock)) ELSE items
    /\ UNCHANGED <<current, lastSnapshot, schedulerPage, clearAfterHold, clocks, coalesceSeen,
                   health, failures, ticking, posting, quiet, flaps, persisted>>

ReleaseLock(s) ==
    /\ Free
    /\ laneLock # None /\ laneLock.source = s
    /\ laneLock' = None
    /\ UNCHANGED <<items, current, lastSnapshot, schedulerPage, clearAfterHold, clocks,
                   coalesceSeen, health, failures, ticking, posting, quiet, flaps, persisted>>

(* The hub's Release hold button: whoever owns the board, and a guest hold.*)
ReleaseHolds ==
    /\ Free
    /\ laneLock' = None
    /\ IF clocks.hold > 0
       THEN /\ clocks' = [clocks EXCEPT !.hold = 0]
            /\ clearAfterHold' = FALSE
            /\ schedulerPage' = None
       ELSE UNCHANGED <<clocks, clearAfterHold, schedulerPage>>
    /\ UNCHANGED <<items, current, lastSnapshot, coalesceSeen, health, failures, ticking,
                   posting, quiet, flaps, persisted>>

(* skipToNext, up to the tick it asks for.  A page of the lock's own game  *)
(* renews the lock, any other page ends it.                                *)
SkipToNext ==
    /\ Free /\ ~ticking.asked
    /\ items # <<>>
    /\ LET shown == {i \in DOMAIN items : \A j \in 1..i : AlreadyShowing(items[j])}
           left == Without(items, shown)
           line == [i \in DOMAIN left |-> [left[i] EXCEPT !.wait = 0]]
       IN /\ items' = line
          /\ posting' = Tracked(line)
          /\ laneLock' = IF line # <<>> /\ Lane(line[1].face) = "game"
                         THEN [PolicyLock(line[1].meta.source, FALSE)
                                  EXCEPT !.rank = Rank(line[1].face)]
                         ELSE None
          /\ ticking' = [ticking EXCEPT !.asked = line # <<>>]
    /\ clocks' = [clocks EXCEPT !.hold = 0, !.dwell = 0, !.retry = 0, !.restore = Never,
                                !.sincePost = Never]
    /\ clearAfterHold' = FALSE
    /\ schedulerPage' = None
    /\ UNCHANGED <<current, lastSnapshot, coalesceSeen, health, failures, quiet, flaps,
                   persisted>>

(* Operations that only take pages out of the line.                        *)
DropPages(I) ==
    /\ Free
    /\ I # {}
    /\ items' = Without(items, I)
    /\ UNCHANGED <<current, lastSnapshot, laneLock, schedulerPage, clearAfterHold, clocks,
                   coalesceSeen, health, failures, ticking, posting, quiet, flaps, persisted>>

Clear == DropPages(DOMAIN items)

(* A row of the board's page stands for every page of its card.            *)
Cancel(i) == i \in DOMAIN items /\ DropPages({j \in DOMAIN items : SameCard(items[i], items[j])})

(* A game taking the board drops every other multi-page card.              *)
ForeignRuns(s) == {i \in DOMAIN items : /\ ~CutsIn(items[i])
                                        /\ items[i].face.source # s
                                        /\ InSequence(items[i])}

TakeBoard(s) == DropPages(ForeignRuns(s))

(* Slip: the listed pages go where they are put, one by one.               *)
ReordersFreely(p, n) ==
    \A k, m \in DOMAIN items : k < m => p[k] # p[m] /\ (k > n => p[k] < p[m])

(* p gives each place the position its page had; the first n are listed.   *)
Reorders(p, n) ==
    \A k, m \in DOMAIN items : k < m =>
        /\ p[k] # p[m]
        /\ k > n \/ SameCard(items[p[k]], items[p[m]]) => p[k] < p[m]
        /\ k <= n /\ SameCard(items[p[k]], items[p[m]])
              => m <= n /\ \A l \in k..m : SameCard(items[p[k]], items[p[l]])

Reorder ==
    /\ Free
    /\ \E p \in {q \in [DOMAIN items -> DOMAIN items] :
                       \E n \in 0..Len(items) : Reorders(q, n)} :
          items' = [k \in DOMAIN items |-> items[p[k]]]
    /\ UNCHANGED <<current, lastSnapshot, laneLock, schedulerPage, clearAfterHold, clocks,
                   coalesceSeen, health, failures, ticking, posting, quiet, flaps, persisted>>

(* A new key or transport deserves a fresh attempt.                        *)
NewKey ==
    /\ Free
    /\ health = "degraded"
    /\ health' = "ok"
    /\ failures' = 0
    /\ clocks' = [clocks EXCEPT !.retry = 0]
    /\ UNCHANGED <<items, current, lastSnapshot, laneLock, schedulerPage, clearAfterHold,
                   coalesceSeen, ticking, posting, quiet, flaps, persisted>>

SetQuiet ==
    /\ Free
    /\ quiet' = ~quiet
    /\ UNCHANGED <<state, ticking, posting, flaps, persisted>>

(* laneLockActive, called by whoever looks at the line.                    *)
LockExpires ==
    /\ Free
    /\ laneLock # None /\ laneLock.left = 0
    /\ laneLock' = None
    /\ UNCHANGED <<items, current, lastSnapshot, schedulerPage, clearAfterHold, clocks,
                   coalesceSeen, health, failures, ticking, posting, quiet, flaps, persisted>>

(* Slip: the hub starts without looking at when it last posted.            *)
UnseededClocks == FreshClocks

(* All that is kept over a restart is when the hub last posted.            *)
SeededClocks == [FreshClocks EXCEPT !.sincePost = persisted]

(* The hub stops and starts again.  A page in flight may or may not get    *)
(* through.                                                                *)
Restart ==
    /\ Free
    /\ items' = <<>>
    /\ current' = None
    /\ lastSnapshot' = None
    /\ laneLock' = None
    /\ schedulerPage' = None
    /\ clearAfterHold' = FALSE
    /\ clocks' = SeededClocks
    /\ coalesceSeen' = [k \in Keys |-> CoalesceWindow]
    /\ health' = "ok"
    /\ failures' = 0
    /\ ticking' = Idle
    /\ posting' = None
    /\ IF posting = None THEN flaps' = flaps
       ELSE \E B \in SUBSET Aimed(posting.boards) : flaps' = Flipped(B)
    /\ UNCHANGED <<quiet, persisted>>

(* Slip: a deadline that has come keeps counting.                          *)
SoonerAndSooner(n) == IF n # Never THEN n - 1 ELSE n

(* One unit of time.  Ages are capped where they make no more difference.  *)
Sooner(n) == IF n > 0 THEN n - 1 ELSE n

Older(n, cap) == IF n = Never THEN Never ELSE Smaller(n + 1, cap)

TimePasses ==
    /\ Free
    /\ items' = [i \in DOMAIN items |-> [items[i] EXCEPT !.wait = Sooner(@)]]
    /\ posting' = Tracked(items')
    /\ laneLock' = IF laneLock = None THEN None ELSE [laneLock EXCEPT !.left = Sooner(@)]
    /\ clocks' = [sincePost |-> Older(clocks.sincePost, RateWindow + 1),
                  sinceFlip |-> Older(clocks.sinceFlip, RotationGap),
                  hold |-> Sooner(clocks.hold),
                  dwell |-> Sooner(clocks.dwell),
                  retry |-> Sooner(clocks.retry),
                  restore |-> Sooner(clocks.restore)]
    /\ coalesceSeen' = [k \in Keys |-> Older(coalesceSeen[k], CoalesceWindow)]
    /\ persisted' = Older(persisted, RateWindow + 1)
    /\ UNCHANGED <<current, lastSnapshot, schedulerPage, clearAfterHold, health, failures,
                   ticking, quiet, flaps>>

-----------------------------------------------------------------------------

Next ==
    \/ \E c \in Cards : Submit(c)
    \/ \E s \in Sources : SubmitClose(s) \/ ReleaseLock(s) \/ TakeBoard(s)
    \/ \E s \in Sources, joinWait \in BOOLEAN : AcquireLock(s, joinWait)
    \/ \E skip \in BOOLEAN : Tick(skip)
    \/ Answer
    \/ ReleaseHolds \/ SkipToNext \/ Clear \/ Reorder
    \/ \E i \in 1..MaxItems + 1 : Cancel(i)
    \/ NewKey \/ SetQuiet \/ LockExpires \/ Restart \/ TimePasses

Spec == Init /\ [][Next]_vars

-----------------------------------------------------------------------------
(* What the boards see of all this.                                        *)

Out ==
    IF posting = None THEN {} ELSE {[sent |-> posting.sent, boards |-> Aimed(posting.boards)]}

Promise == INSTANCE PacedBoards WITH
    Window <- RateWindow, out <- Out, since <- clocks.sincePost,
    remembered <- persisted, hurried <- ticking.asked \/ ticking.skip

(* The queue implements its abstract specification: whatever is offered,   *)
(* moved, skipped, refused or restarted, the boards see one post at a time,*)
(* change by what was sent alone, and are given their time.                *)
PacesTheBoards == Promise!Spec

-----------------------------------------------------------------------------
(* Safety.                                                                 *)

UniqueIds(line) == \A i, j \in DOMAIN line : SameItem(line[i], line[j]) => i = j

Agrees(line, p) ==
    p # None => \A i \in DOMAIN line : SameItem(line[i], p.item) => line[i] = p.item

(* One page, one object: ids are never shared, and while a post is out the *)
(* queue's copy of the page in flight is the one the answer will be        *)
(* applied to, whatever was replaced, skipped or moved meanwhile.          *)
InFlightTracked ==
    /\ (ticking.stage = "posting") <=> (posting # None)
    /\ UniqueIds(items)
    /\ Agrees(items, posting)

(* Pages of one card stand, and so flip, in their order: nothing a person  *)
(* drags, a game drops or an alert cuts in front of puts page two first.   *)
PagesInOrder ==
    \A i, j \in DOMAIN items :
        i < j /\ InSequence(items[i]) /\ SameCard(items[i], items[j])
            => items[i].nth < items[j].nth

Leaves == posting = None /\ posting' # None      \* a post goes out

Lands == current' # current /\ current' # None     \* a page is on the flaps

(* The answer to a post takes the page it is about out of the line and no  *)
(* other, even when the line was reordered, cut short or refilled while the*)
(* page was in flight.  (A restart, which empties the line, is no answer.) *)
AnswerTakesOnlyItsPage ==
    [][Answer =>
          \A i \in DOMAIN items :
              ~SameItem(items[i], posting.item) =>
                  \E j \in DOMAIN items' : SameItem(items'[j], items[i])]_vars

(* What the queue takes to be showing, and drops duplicates of, really is  *)
(* on the flaps of a board it was meant for.                               *)
CurrentIsOnABoard ==
    current # None => \E b \in Aimed(current.boards) : flaps[b] = current.rows

(* A board shows no page that was offered for other boards only.           *)
PagesStayOnTheirBoards ==
    \A b \in Boards : flaps[b] # None =>
        \E c \in Cards : b \in Aimed(c.boards) /\ \E n \in DOMAIN c.rows : c.rows[n] = flaps[b]

(* No unattended flip inside the flaps' rate window, not even the first    *)
(* one after a restart: only a Skip makes the queue forget its last post.  *)
RateWindowKept ==
    [][/\ Leaves /\ ~ticking'.skip /\ clocks.sincePost # Never => persisted >= RateWindow
       /\ clocks.sincePost # Never /\ clocks'.sincePost = Never
             => SkipToNext \/ TickDropDuplicate(TRUE)]_vars

HandedTo(s) ==
    /\ LiveLock # None /\ LiveLock.source # s
    /\ laneLock' # None /\ laneLock'.source = s

(* What submit says of itself: a live hold keeps the board until it ends,  *)
(* a higher-ranked jumper arrives or it times out (a session that takes    *)
(* the board outright, acquireGameLock, is no submission).                 *)
LockYieldsToRank ==
    [][\A s \in Sources : HandedTo(s) =>
          \/ laneLock'.rank > LiveLock.rank
          \/ \E joinWait \in BOOLEAN : AcquireLock(s, joinWait)]_vars

(* Who takes a live hold over: a source the house lists higher, a session, *)
(* or a source that the house let wait in the line behind that hold, by an *)
(* update of its waiting page.  Nobody that comes to the line anew takes   *)
(* the board from a game that is listed above it.                          *)
NewcomersYieldToRank ==
    [][\A s \in Sources : HandedTo(s) =>
          \/ laneLock'.rank > LiveLock.rank
          \/ \E joinWait \in BOOLEAN : AcquireLock(s, joinWait)
          \/ \E i \in DOMAIN items : items[i].meta.source = s /\ KeyOf(items[i].meta) # None]_vars

(* The source that loses the board leaves no page behind that would show   *)
(* up in the middle of the game that took it.                              *)
LoserLeavesNoPage ==
    [][LiveLock # None /\ laneLock' # None /\ laneLock'.source # LiveLock.source
          => \A i \in DOMAIN items' : ~BelongsTo(items'[i], LiveLock.source)]_vars

(* While a source holds the board, nothing goes out but its own pages and  *)
(* jumpers the house lists above it, wherever they stand in the line.      *)
OnlyTheHolderFlips ==
    [][Leaves /\ ~ticking'.skip /\ LiveLock # None =>
          LET i == posting'.item
          IN \/ LiveLock.source \in {i.face.source, i.meta.source}
             \/ Policy[i.face.source].jump /\ Policy[i.face.source].rank > LiveLock.rank]_vars

(* A scheduler page that is no clean-up artwork.                           *)
OfRotation(i) == i.meta.scheduler /\ ~i.meta.closing /\ ~CutsIn(i)

(* A page nobody's game owns is never lost to the games and alerts that    *)
(* come and go while it waits: it leaves the line by landing, because the  *)
(* board shows it already, or, a page of the rotation, because an artwork  *)
(* has had its time and sweeps what piled up behind it.                    *)
ParkedPagesSurvive ==
    [][\A i \in DOMAIN items :
          \/ Policy[items[i].meta.source].hold
          \/ \E j \in DOMAIN items' : SameItem(items'[j], items[i])
          \/ posting # None /\ SameItem(posting.item, items[i])
          \/ AlreadyShowing(items[i])
          \/ clearAfterHold /\ OfRotation(items[i])]_vars

(* A scheduler page with a hold has the board to itself: what lands before *)
(* the hold is over is no other rotation page, except from a Skip.         *)
HoldKeepsRotationAway ==
    [][Lands /\ clocks.hold > 0 /\ posting.item.meta.scheduler /\ ~CutsIn(posting.item)
          /\ ~ticking.skip
          => schedulerPage # None /\ schedulerPage.key = KeyOf(posting.item.meta)]_vars

(* A page that refreshes itself is not given its time a second time.       *)
RefreshBuysNoTime ==
    [][schedulerPage # None /\ schedulerPage' = schedulerPage /\ clocks.hold > 0
          => clocks'.hold <= clocks.hold /\ clocks'.sinceFlip >= clocks.sinceFlip]_vars

(* From the moment a clean-up artwork lands, the rotation pages that pile  *)
(* up behind it never go out, and when a tick ends the clean-up none of    *)
(* them is left in the line to go out later.  (A Skip, a Release hold and  *)
(* any other page that lands meanwhile end the clean-up as well, and let   *)
(* what waits go.)                                                         *)
PileUpIsSwept ==
    [][clearAfterHold =>
          /\ Leaves /\ ~ticking'.skip => ~OfRotation(posting'.item)
          /\ ~clearAfterHold' /\ ticking'.stage = "begun"
                => \A i \in DOMAIN items' : ~OfRotation(items'[i])]_vars

(* Nothing but an exempt page goes out in quiet hours, unless a person at  *)
(* the board asked for it.                                                 *)
QuietHoursKept ==
    [][Leaves /\ quiet => ticking'.skip \/ IsExempt(posting'.item.face)]_vars

-----------------------------------------------------------------------------
(* Liveness.                                                               *)

(* Once nobody offers anything more, the line runs empty.                  *)
LineDrains == <>[](items = <<>> /\ posting = None)

(* The board never stays on an alert: when it has had its time, what it    *)
(* covered (or another page) is put up.                                    *)
AlertUp ==
    /\ current # None /\ lastSnapshot # None
    /\ current.rows # lastSnapshot.card.rows[lastSnapshot.page]

AlertPasses == AlertUp ~> ~AlertUp

=============================================================================
