-------------------------- MODULE BoardPaceProofs --------------------------
(***************************************************************************)
(* The house queue implements PacedBoards, for every house.  Most handlers *)
(* do nothing the boards could see: they leave what is out, the flaps and  *)
(* the age of the last post alone and hurry nobody, which is Calm.  The    *)
(* tick's post is Send, its answers are Land and Lose, a Skip is Hurry.    *)
(***************************************************************************)
EXTENDS BoardFlipProofs

Hurried == ticking.asked \/ ticking.skip

(* What a handler that concerns only the line leaves alone.                *)
Unseen ==
    /\ Out' = Out /\ flaps' = flaps
    /\ clocks'.sincePost = clocks.sincePost /\ persisted' = persisted
    /\ Hurried' => Hurried

(* The page in flight may show another card in the line, yet what is out   *)
(* is what was sent.                                                       *)
LEMMA OutKept ==
    ASSUME posting \in PostType \cup {None}, posting = None <=> posting' = None,
           posting' = posting \/ \E line : posting' = Tracked(line)
    PROVE  Out' = Out
<1>1. CASE posting' = posting
    BY <1>1 DEF Out, Aimed
<1>2. CASE posting # None /\ \E i : posting' = [posting EXCEPT !.item = i]
    <2>1. posting \in PostType /\ posting' # None
        BY <1>2
    <2>2. PICK i : posting' = [posting EXCEPT !.item = i]
        BY <1>2
    <2>3. posting'.sent = posting.sent /\ posting'.boards = posting.boards
        BY <2>1, <2>2 DEF PostType
    <2> QED BY <1>2, <2>1, <2>3 DEF Out, Aimed
<1> QED BY <1>1, <1>2 DEF Tracked

(* An offer has nothing to do with what is out, unless it shows another    *)
(* card in its place.                                                      *)
LEMMA OfferLeavesOut ==
    ASSUME NEW c \in CardType, NEW k \in ClocksType, NEW heard \in BOOLEAN, Offer(c, k, heard)
    PROVE  posting' = posting \/ \E line : posting' = Tracked(line)
BY DEF Offer, OfferTooSoon, OfferQuiet, OfferCoalesced, OfferQueued

(* Whether a post is out goes with the stage of the tick.                  *)
LEMMA StageKeepsOut ==
    ASSUME IInv, IInv', ticking'.stage = ticking.stage
    PROVE  posting \in PostType \cup {None} /\ (posting = None <=> posting' = None)
BY DEF IInv, TypeOK, InFlightTracked

(* A tick hurries nobody who was not in a hurry.                           *)
LEMMA TickCalms ==
    ASSUME IInv, NEW skip \in BOOLEAN, Ticking(skip), NEW stage,
           ticking' = Stage(stage, skip)
    PROVE  Hurried' => Hurried
BY DEF Ticking, Stage, Hurried, IInv, TypeOK

-----------------------------------------------------------------------------
(* The handlers the boards do not see.                                     *)

(* Offers.                                                                 *)
LEMMA SubmitUnseen ==
    ASSUME IInv, IInv', NEW c \in Cards, Submit(c)
    PROVE  Unseen
<1>1. c \in CardType /\ clocks \in ClocksType
    BY QueueAssumption, InvariantParts
<1>2. Out' = Out
    BY <1>1, OfferLeavesOut, StageKeepsOut, OutKept DEF Submit
<1>3. clocks'.sincePost = clocks.sincePost
    BY <1>1, OfferKeepsSincePost DEF Submit
<1> QED BY <1>2, <1>3 DEF Submit, Unseen, Hurried

(* A tick puts back what an alert had covered.                             *)
LEMMA TickRestoreUnseen ==
    ASSUME IInv, IInv', NEW skip \in BOOLEAN, TickRestore(skip, FALSE)
    PROVE  Unseen
<1> DEFINE k == [clocks EXCEPT !.restore = Never]
<1>1. /\ lastSnapshot \in FrameType /\ Offer(RestoredCard(lastSnapshot), k, FALSE)
      /\ Ticking(skip) /\ persisted' = persisted /\ flaps' = flaps
      /\ \E stage \in {"idle", "begun"} : ticking' = Stage(stage, skip)
    BY DEF TickRestore, RestoreDue, IInv, TypeOK
<1>2. k \in ClocksType /\ k.sincePost = clocks.sincePost
    BY InvariantParts, SincePostKept DEF ClocksType
<1> HIDE DEF k
<1>3. clocks'.sincePost = clocks.sincePost
    BY <1>1, <1>2, RestoredCardType, OfferKeepsSincePost
<1>4. posting' = posting \/ \E line : posting' = Tracked(line)
    BY <1>1, <1>2, RestoredCardType, OfferLeavesOut
<1>5. posting = None
    BY <1>1 DEF Ticking, IInv, InFlightTracked
<1>6. Out' = Out
    BY <1>4, <1>5 DEF Tracked, Out
<1>7. Hurried' => Hurried
    BY <1>1, TickCalms
<1> QED BY <1>1, <1>3, <1>6, <1>7 DEF Unseen

(* The other steps of a tick that sends nothing.                           *)
LEMMA TickUnseen ==
    ASSUME IInv, NEW skip \in BOOLEAN,
           TickSweep(skip) \/ TickDropQuiet(skip) \/ TickNothing(skip)
    PROVE  Unseen
<1>1. /\ posting' = posting /\ flaps' = flaps /\ clocks' = clocks /\ persisted' = persisted
      /\ Ticking(skip) /\ \E stage \in {"idle", "begun"} : ticking' = Stage(stage, skip)
    BY DEF TickSweep, TickDropQuiet, DropsQuiet, Picks, TickNothing, Selecting
<1>2. Hurried' => Hurried
    BY <1>1, TickCalms
<1> QED BY <1>1, <1>2 DEF Unseen, Out, Aimed

(* Sessions, people and settings.                                          *)
LEMMA HandsUnseen ==
    ASSUME IInv,
           \/ \E s \in Sources : SubmitClose(s) \/ ReleaseLock(s) \/ TakeBoard(s)
           \/ \E s \in Sources, joinWait \in BOOLEAN : AcquireLock(s, joinWait)
           \/ Clear \/ Reorder \/ \E i \in 1..MaxItems + 1 : Cancel(i)
           \/ ReleaseHolds \/ NewKey \/ SetQuiet \/ LockExpires \/ UNCHANGED vars
    PROVE  Unseen
<1>1. /\ posting' = posting /\ ticking' = ticking /\ flaps' = flaps /\ persisted' = persisted
      /\ clocks' = clocks \/ ReleaseHolds \/ NewKey
    BY DEF SubmitClose, ReleaseLock, TakeBoard, DropPages, AcquireLock, Clear, Reorder, Cancel,
           ReleaseHolds, NewKey, SetQuiet, LockExpires, vars, state
<1>2. clocks'.sincePost = clocks.sincePost
    <2>1. \/ clocks' = clocks \/ clocks' = [clocks EXCEPT !.hold = 0]
          \/ clocks' = [clocks EXCEPT !.retry = 0]
        BY <1>1 DEF ReleaseHolds, NewKey
    <2>2. clocks \in ClocksType /\ 0 \in Nat
        BY InvariantParts
    <2>3. CASE clocks' = [clocks EXCEPT !.retry = 0]
        BY <2>2, <2>3, SincePostKept
    <2> QED BY <2>1, <2>2, <2>3, SincePostKept
<1> QED BY <1>1, <1>2 DEF Unseen, Out, Aimed, Hurried

-----------------------------------------------------------------------------
(* The steps the boards see.                                               *)

(* A page goes out.                                                        *)
LEMMA TickPostSends ==
    ASSUME IInv, IInv', NEW skip \in BOOLEAN, TickPost(skip)
    PROVE  Promise!Send
<1>1. PICK i \in DOMAIN items :
          /\ Picks(skip, i)
          /\ posting' = [item |-> items[i], index |-> i, sent |-> LayoutOf(items[i]),
                         boards |-> items[i].face.boards]
    BY DEF TickPost
<1>2. /\ ticking' = Stage("posting", skip)
      /\ clocks' = clocks /\ flaps' = flaps /\ persisted' = persisted
    BY DEF TickPost
<1>3. Ticking(skip) /\ (skip \/ Due(items[i]))
    BY <1>1 DEF Picks, Selecting
<1>4. posting = None /\ posting' \in PostType /\ posting' # None
    BY <1>2, <1>3 DEF Ticking, Stage, IInv, TypeOK, InFlightTracked
<1>5. Out = {} /\ \E p \in Promise!Posts : Out' = {p}
    <2>1. posting'.sent \in Layouts /\ Aimed(posting'.boards) \in SUBSET Boards
        BY <1>4 DEF PostType, Aimed
    <2>2. Out' = {[sent |-> posting'.sent, boards |-> Aimed(posting'.boards)]}
        BY <1>4 DEF Out, Aimed
    <2> QED BY <1>4, <2>1, <2>2 DEF Out, Promise!Posts
<1>6. Hurried \/ clocks.sincePost \notin 0..(RateWindow - 1)
    <2>1. CASE skip
        BY <1>3, <2>1 DEF Ticking, Hurried
    <2>2. CASE Due(items[i])
        BY <2>2, QueueAssumption DEF Due, Never
    <2> QED BY <1>3, <2>1, <2>2
<1>7. Hurried' => Hurried
    BY <1>2, <1>3, TickCalms
<1> QED BY <1>2, <1>5, <1>6, <1>7 DEF Promise!Send, Promise!Calms, Hurried

(* What is out is what was sent, to its boards.                            *)
LEMMA WhatIsOut ==
    ASSUME IInv, posting # None
    PROVE  \E p \in Promise!Posts :
              /\ Out = {p} /\ p.boards = Aimed(posting.boards)
              /\ \A B : flaps' = Flipped(B) => Promise!Flips(p, B)
<1>1. posting \in PostType
    BY InvariantParts
<1> DEFINE p == [sent |-> posting.sent, boards |-> Aimed(posting.boards)]
<1>2. p \in Promise!Posts
    BY <1>1 DEF PostType, Aimed, Promise!Posts
<1> QED BY <1>2 DEF Out, Flipped, Promise!Flips

(* A board took it.                                                        *)
LEMMA AcceptedLands ==
    ASSUME IInv, PostAccepted
    PROVE  Promise!Land
<1>1. /\ posting # None /\ posting' = None
      /\ ticking' = [ticking EXCEPT !.stage = "idle", !.skip = FALSE]
      /\ \E B \in SUBSET Aimed(posting.boards) : B # {} /\ flaps' = Flipped(B)
      /\ persisted' = 0
    BY DEF PostAccepted, Answered, IInv, InFlightTracked
<1>2. Out' = {}
    BY <1>1 DEF Out
<1>3. clocks'.sincePost = 0
    BY InvariantParts, AcceptedClocks
<1>4. Hurried' => Hurried
    BY <1>1 DEF Hurried, IInv, TypeOK
<1> QED BY <1>1, <1>2, <1>3, <1>4, WhatIsOut DEF Promise!Land, Promise!Calms, Hurried

(* It came back unanswered, refused or failed.                             *)
LEMMA OthersLose ==
    ASSUME IInv, PostBusy \/ PostQuiet \/ PostRejected \/ PostRefused \/ PostFailed
    PROVE  Promise!Lose
<1>1. /\ posting # None /\ posting' = None /\ persisted' = persisted
      /\ ticking' = [ticking EXCEPT !.stage = "idle", !.skip = FALSE]
    BY DEF PostBusy, PostQuiet, PostRejected, PostRefused, PostFailed, Answered, IInv,
           InFlightTracked
<1>2. \E B \in SUBSET Aimed(posting.boards) : flaps' = Flipped(B)
    <2>1. CASE PostFailed
        BY <2>1 DEF PostFailed
    <2>2. CASE flaps' = flaps
        <3>1. flaps' = Flipped({})
            BY <2>2 DEF Flipped, IInv, TypeOK
        <3> QED BY <3>1
    <2> QED BY <2>1, <2>2 DEF PostBusy, PostQuiet, PostRejected, PostRefused
<1>3. clocks'.sincePost = clocks.sincePost
    <2>1. clocks' = clocks \/ \E n : clocks' = [clocks EXCEPT !.retry = n]
        BY DEF PostBusy, PostQuiet, PostRejected, PostRefused, PostFailed, state
    <2> QED BY <2>1, InvariantParts DEF ClocksType
<1>4. Hurried' => Hurried
    BY <1>1 DEF Hurried, IInv, TypeOK
<1>5. Out' = {}
    BY <1>1 DEF Out
<1>6. Promise!Lost
    BY <1>1, <1>2, WhatIsOut DEF Promise!Lost
<1> QED BY <1>1, <1>3, <1>4, <1>5, <1>6 DEF Promise!Lose, Promise!Calms, Hurried

(* The hub stops and starts again.                                         *)
LEMMA RestartCrashes ==
    ASSUME IInv, Restart
    PROVE  Promise!Crash
<1>1. /\ clocks'.sincePost = persisted /\ persisted' = persisted
      /\ Out' = {} /\ ~Hurried'
    BY DEF Restart, SeededClocks, FreshClocks, Idle, Hurried, Out
<1>2. CASE posting = None
    BY <1>1, <1>2 DEF Restart, Out, Promise!Crash, Hurried
<1>3. CASE posting # None
    <2>1. Promise!Lost
        BY <1>3, WhatIsOut DEF Restart, Promise!Lost
    <2> QED BY <1>1, <2>1 DEF Promise!Crash, Hurried
<1> QED BY <1>2, <1>3

(* Somebody skips, or a skip that met a duplicate goes on.                 *)
LEMMA SkipHurries ==
    ASSUME IInv, IInv', SkipToNext
    PROVE  Promise!Hurry
<1>1. clocks'.sincePost = Never
    BY InvariantParts DEF SkipToNext, ClocksType
<1>2. Out' = Out
    <2>1. ticking'.stage = ticking.stage /\ \E line : posting' = Tracked(line)
        BY DEF SkipToNext, IInv, TypeOK
    <2> QED BY <2>1, StageKeepsOut, OutKept
<1>3. Hurried' \in BOOLEAN
    BY DEF Hurried, IInv, TypeOK
<1> QED BY <1>1, <1>2, <1>3 DEF SkipToNext, Promise!Hurry, Promise!Never, Never, Hurried

LEMMA DuplicateSeen ==
    ASSUME IInv, IInv', NEW skip \in BOOLEAN, TickDropDuplicate(skip)
    PROVE  Unseen \/ Promise!Hurry
<1>1. posting' = posting /\ flaps' = flaps /\ persisted' = persisted
    BY DEF TickDropDuplicate
<1>2. Out' = Out
    BY <1>1 DEF Out, Aimed
<1>3. CASE skip /\ items' # <<>>
    <2>1. clocks'.sincePost = Never
        BY <1>3, InvariantParts DEF TickDropDuplicate, ClocksType
    <2>2. Hurried' \in BOOLEAN
        BY DEF Hurried, IInv, TypeOK
    <2> QED BY <1>1, <1>2, <2>1, <2>2 DEF Promise!Hurry, Promise!Never, Never, Hurried
<1>4. CASE ~(skip /\ items' # <<>>)
    <2>1. Ticking(skip)
        BY DEF TickDropDuplicate, Dedupes, Picks, Selecting
    <2>2. ticking' = Stage("idle", skip)
        BY <1>4 DEF TickDropDuplicate, Stage
    <2>3. Hurried' => Hurried
        BY <2>1, <2>2, TickCalms
    <2>4. clocks' = clocks
        BY <1>4 DEF TickDropDuplicate
    <2> QED BY <1>1, <1>2, <2>3, <2>4 DEF Unseen
<1> QED BY <1>3, <1>4

(* Time passes for the post that is out, too.                              *)
LEMMA TimeWaits ==
    ASSUME IInv, IInv', TimePasses
    PROVE  Promise!Wait
<1>1. Out' = Out
    BY StageKeepsOut, OutKept DEF TimePasses
<1>2. \A n \in Nat \cup {Never} : Older(n, RateWindow + 1) = Promise!Older(n)
    BY QueueAssumption DEF Older, Smaller, Never, Promise!Older, Promise!Never
<1>3. clocks.sincePost \in Nat \cup {Never} /\ persisted \in Nat \cup {Never}
    BY DEF IInv, TypeOK, ClocksType
<1>4. clocks'.sincePost = Older(clocks.sincePost, RateWindow + 1)
    BY DEF TimePasses
<1> QED BY <1>1, <1>2, <1>3, <1>4 DEF TimePasses, Promise!Wait

-----------------------------------------------------------------------------

(* Every step of the queue is one of the paced boards.                     *)
LEMMA EveryStepIsPaced ==
    ASSUME IInv, IInv', [Next]_vars
    PROVE  Promise!Next
<1>1. CASE Unseen
    BY <1>1 DEF Unseen, Hurried, Promise!Next, Promise!Calm, Promise!Calms
<1>2. CASE \E c \in Cards : Submit(c)
    BY <1>1, <1>2, SubmitUnseen
<1>3. CASE \E skip \in BOOLEAN : Tick(skip)
    BY <1>1, <1>3, TickRestoreUnseen, TickUnseen, TickPostSends, DuplicateSeen
       DEF Tick, Promise!Next
<1>4. CASE Answer
    BY <1>4, AcceptedLands, OthersLose DEF Answer, Promise!Next
<1>5. CASE SkipToNext \/ Restart \/ TimePasses
    BY <1>5, SkipHurries, RestartCrashes, TimeWaits DEF Promise!Next
<1>6. CASE \/ \E s \in Sources : SubmitClose(s) \/ ReleaseLock(s) \/ TakeBoard(s)
           \/ \E s \in Sources, joinWait \in BOOLEAN : AcquireLock(s, joinWait)
           \/ Clear \/ Reorder \/ \E i \in 1..MaxItems + 1 : Cancel(i)
           \/ ReleaseHolds \/ NewKey \/ SetQuiet \/ LockExpires \/ UNCHANGED vars
    BY <1>1, <1>6, HandsUnseen
<1> QED BY <1>2, <1>3, <1>4, <1>5, <1>6 DEF Next

(* The queue implements its abstract specification: the boards see one     *)
(* post at a time, change by what was sent and nothing else, and are given *)
(* the flaps' window unless somebody hurries, over restarts and failures.  *)
THEOREM QueuePacesTheBoards == Spec => PacesTheBoards
<1>1. Init => Promise!Init
    BY DEF Init, FreshClocks, Idle, Out, Never, Promise!Init, Promise!Never
<1>2. IInv /\ IInv' /\ [Next]_vars => [Promise!Next]_(Promise!paced)
    BY EveryStepIsPaced
<1> QED BY <1>1, <1>2, QueueInvariant, PTL DEF Spec, PacesTheBoards, Promise!Spec

=============================================================================
