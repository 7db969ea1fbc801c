---------------------------- MODULE GamesOnBoard ---------------------------
(***************************************************************************)
(* A party game and the house queue together: what a session asks of the   *)
(* board is carried out before anything else happens, and a session whose  *)
(* hold is displaced ends on the spot.                                     *)
(*                                                                         *)
(* The wiring is in web-server.js: pushBoard, dropPendingBoard and         *)
(* setGameLock reach the queue through the hub, and the queue's            *)
(* lock-preempted event reaches endByBoardSource, all in one turn of the   *)
(* event loop.                                                             *)
(***************************************************************************)
EXTENDS BoardQueue, GameSessions

CONSTANTS
    SourceOf,         \* the board source of each game
    Looks             \* ways in which two cards of one phase can differ

ASSUME GamesOnBoardAssumption ==
    /\ SourceOf \in [GameTypes -> Sources]
    /\ \A g \in GameTypes : /\ Policy[SourceOf[g]].listed /\ Policy[SourceOf[g]].hold
                            /\ KeyOfSource[SourceOf[g]] = None
                            /\ SourceOf[g] \in JoinHoldSources
    /\ GameTypes \X GameCards \X Looks \subseteq Layouts

games == <<session, calls, housed>>

HouseInit == Init /\ GamesInit

-----------------------------------------------------------------------------
(* What a session asks of the board.                                       *)

(* GAME_CARD_RANK; a voting or a short card has none.                      *)
CardRank(card) ==
    CASE card = "invite" -> 1 [] card = "lobby" -> 2 [] card = "round" -> 3
      [] card = "intermission" -> 4 [] card = "final" -> 5 [] OTHER -> 0

(* The payload of a phase card, formatted (as one page) and classified.    *)
PhaseCard(call, look) ==
    [source |-> SourceOf[call.game], kind |-> "game", live |-> TRUE,
     join |-> call.card = "invite", rows |-> <<<<call.game, call.card, look>>>>,
     reading |-> 1, hold |-> call.hold, device |-> None, boards |-> {}, exempt |-> TRUE,
     scheduler |-> FALSE, closing |-> FALSE, after |-> 0, clears |-> FALSE,
     takeover |-> call.takeover, replaces |-> "phases", phase |-> CardRank(call.card)]

Lock(call) == call.do = "lock" /\ AcquireLock(SourceOf[call.game], call.join)

(* takeBoard drops nothing when nobody else has a run of pages waiting.    *)
Take(call) ==
    /\ call.do = "take"
    /\ \/ TakeBoard(SourceOf[call.game])
       \/ ForeignRuns(SourceOf[call.game]) = {} /\ UNCHANGED vars

Page(call) ==
    /\ call.do = "page"
    /\ \E look \in Looks : Offer(PhaseCard(call, look), clocks, FALSE)
    /\ UNCHANGED <<current, clearAfterHold, health, failures, ticking, quiet, flaps, persisted>>

(* releaseGameLock lets go of nothing that belongs to somebody else.       *)
Unlock(call) ==
    /\ call.do = "unlock"
    /\ \/ ReleaseLock(SourceOf[call.game])
       \/ ~IsMine([source |-> SourceOf[call.game]], laneLock) /\ UNCHANGED vars

Carry ==
    /\ ~Settled
    /\ LET call == Head(calls) IN Lock(call) \/ Take(call) \/ Page(call) \/ Unlock(call)
    /\ calls' = Tail(calls)
    /\ UNCHANGED <<session, housed>>

-----------------------------------------------------------------------------
(* What the board tells a session.                                         *)

GameHas(lock) == Open /\ lock # None /\ lock.source = SourceOf[session.game]

(* Slip: nobody listens to lock-preempted.                                 *)
HearsNothing(displaced) == UNCHANGED games

(* lock-preempted names the source of the session: it is over.             *)
Hears(displaced) ==
    IF displaced THEN session' = NoSession /\ calls' = Preempted.made /\ UNCHANGED housed
    ELSE UNCHANGED games

(* submit tells of a game's hold that the card c displaces: on the way to  *)
(* its place in the line, or by renewing its own hold from inside the line.*)
DisplacesGame(c) ==
    /\ ~TooSoon(c, clocks)
    /\ IF Coalesces(c)
       THEN Lane(c) = "game" /\ Live(c) /\ GameHas(laneLock) /\ laneLock.source # c.source
       ELSE /\ ~quiet \/ IsExempt(c)
            /\ GameHas(LockMet(c)) /\ ~IsMine(c, LockMet(c)) /\ Preempts(c, LockMet(c))

HouseSubmit(c) ==
    /\ Settled /\ Free
    /\ c.kind # "close" /\ c.rows # <<>>
    /\ Len(items) + Len(c.rows) <= MaxItems
    /\ Offer(c, clocks, DisplacesGame(c))
    /\ UNCHANGED <<current, clearAfterHold, health, failures, ticking, quiet, flaps, persisted>>
    /\ Hears(DisplacesGame(c))

(* The covered page comes back the way any other page is offered.          *)
HouseRestore(skip) ==
    /\ Settled
    /\ RestoreDue
    /\ LET displaced == DisplacesGame(RestoredCard(lastSnapshot))
       IN TickRestore(skip, displaced) /\ Hears(displaced)

HouseTick(skip) ==
    \/ HouseRestore(skip)
    \/ /\ Settled
       /\ \/ TickSweep(skip) \/ TickDropDuplicate(skip) \/ TickDropQuiet(skip)
          \/ TickPost(skip) \/ TickNothing(skip)
       /\ UNCHANGED games

HouseAnswer == Settled /\ Answer /\ UNCHANGED games

(* releaseLaneLock(''): whoever owns the board is told.                    *)
HouseReleaseHolds == Settled /\ ReleaseHolds /\ Hears(GameHas(laneLock))

(* Skip leaves the game unless the page it goes to is the game's own; with *)
(* no hold left, the game is told when its page is the one up.             *)
HouseSkip ==
    /\ Settled /\ SkipToNext
    /\ LET next == IF items' = <<>> THEN None ELSE items'[1].meta.source
           stays == items' # <<>> /\ Lane(items'[1].face) = "game" /\ GameHas([source |-> next])
           shows == lastSnapshot # None /\ items' # <<>> /\ lastSnapshot.card.source # next
       IN Hears(IF laneLock # None THEN GameHas(laneLock) /\ ~stays
                ELSE shows /\ GameHas(lastSnapshot.card))

HouseLockExpires == Settled /\ LockExpires /\ UNCHANGED games

(* A restart forgets the sessions as well as the line.                     *)
HouseRestart ==
    /\ Settled /\ Restart
    /\ session' = NoSession
    /\ UNCHANGED <<calls, housed>>

HouseTime == Settled /\ TimePasses /\ GamesTimePasses

-----------------------------------------------------------------------------
(* What people do to a game, with or without a board.                      *)

PeoplePlay ==
    /\ Free
    /\ \/ \E g \in GameTypes : Create(g)
       \/ Join \/ Subscribe \/ Unsubscribe \/ End
       \/ \E p \in 1..MaxJoined : Rejoin(p) \/ Play(p) \/ Leave(p)
    /\ UNCHANGED vars

TimesUp == Free /\ GamesTick /\ UNCHANGED vars

HouseNext ==
    \/ PeoplePlay
    \/ TimesUp
    \/ /\ housed
       /\ \/ Carry
          \/ \E c \in Cards : HouseSubmit(c)
          \/ \E skip \in BOOLEAN : HouseTick(skip)
          \/ HouseAnswer \/ HouseReleaseHolds \/ HouseSkip \/ HouseLockExpires \/ HouseRestart
          \/ HouseTime
    \/ ~housed /\ GamesTimePasses /\ UNCHANGED vars

HouseSpec == HouseInit /\ [][HouseNext]_<<vars, games>>

-----------------------------------------------------------------------------

(* The board is never taken from a game that goes on: whichever way its    *)
(* live hold goes to somebody else or to nobody, an alert, a match, a Skip,*)
(* a button or a page put back, the session is over with it.               *)
TakenBoardEndsGame ==
    [][Settled /\ GameHas(LiveLock) /\ session' # NoSession =>
          laneLock' # None /\ laneLock'.source = SourceOf[session.game]]_<<vars, games>>

(* When a session has closed, its scores and its last words included, no   *)
(* game holds the board any more: what is parked may go on.                *)
ClosedGameLetsGo ==
    [][~Settled /\ calls' = <<>> /\ ~Open =>
          laneLock' = None \/ \A g \in GameTypes : laneLock'.source # SourceOf[g]]_<<vars, games>>

=============================================================================
