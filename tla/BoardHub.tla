------------------------------ MODULE BoardHub ------------------------------
(***************************************************************************)
(* The boards behind the house queue (vestaboard/index.js).  A page that   *)
(* the queue posts goes to every board it is meant for at once; the queue  *)
(* is answered when all of these have answered, with one outcome for all.  *)
(* Boards are switched on and off, have quiet hours of their own, and can  *)
(* be flipped by a test that goes past the queue.                          *)
(*                                                                         *)
(* Of the queue only what the hub meets is kept: one page at a time, asked *)
(* again as often as it takes (BoardQueue has its line and its waits).     *)
(* The boards are external: one that still flaps is busy, one whose key    *)
(* was changed refuses it, some cannot show a layout, and a post that      *)
(* fails on the network may have arrived.                                  *)
(*                                                                         *)
(* catchUpFollowers is no action.  It reads `current` of the queue's       *)
(* state(), which has no such field, and always returns at its first test; *)
(* so nobody reads what a follower last accepted, or when.                 *)
(*                                                                         *)
(* Left out: the last board being switched off, which ends the queue, and  *)
(* two test flips of one board at a time.                                  *)
(***************************************************************************)
EXTENDS Naturals, Sequences, FiniteSets

CONSTANTS
    BoardList,        \* the saved boards, in their order
    Layouts,
    Pages,            \* what is offered: rows, boards (none for the house), exempt
    Identity,         \* the frame of a test flip
    Unshowable,       \* the layouts each board refuses
    RateWindow,       \* how long flaps move
    MaxFailures,      \* failures before a board counts as unhealthy
    None

Boards == {BoardList[i] : i \in DOMAIN BoardList}

PageType == [rows : Layouts, boards : SUBSET Boards, exempt : BOOLEAN]

ASSUME HubAssumption ==
    /\ BoardList \in Seq(Boards) /\ Boards # {} /\ Cardinality(Boards) = Len(BoardList)
    /\ Pages \subseteq PageType
    /\ Identity \in Layouts
    /\ Unshowable \in [Boards -> SUBSET Layouts]
    /\ RateWindow \in Nat \ {0} /\ MaxFailures \in Nat \ {0}
    /\ None \notin Boards \cup Layouts \cup PageType

VARIABLES
    enabled,          \* the boards that are switched on
    asleep,           \* the boards in their quiet hours
    locked,           \* the boards that refuse the saved key
    flaps,            \* what each board shows
    moving,           \* how long its flaps still move
    follower,         \* health and failures of each board
    line,             \* the page at the head of the queue
    current,          \* state.current and currentBoardIds of the queue
    halted,           \* health of the queue is degraded
    post,             \* the fan-out under way: page, and what each board said
    testing,          \* the boards with a test flip under way
    orphans,          \* the calls under way whose board was switched off since
    outdated          \* the calls under way with a key the hub has replaced since

house == <<line, current, halted>>
wall == <<flaps, moving>>
hub == <<enabled, asleep, locked, wall, follower, house, post, testing, orphans, outdated>>

Calls == {"page", "test"}

Outcomes == {"ok", "busy", "auth", "layout", "network"}

FollowerType == [health : {"ok", "unhealthy", "degraded"}, failures : 0..MaxFailures]

Fine == [health |-> "ok", failures |-> 0]

HubTypeOK ==
    /\ enabled \subseteq Boards /\ enabled # {}
    /\ asleep \subseteq Boards /\ locked \subseteq Boards /\ testing \subseteq Boards
    /\ flaps \in [Boards -> Layouts \cup {None}]
    /\ moving \in [Boards -> 0..RateWindow]
    /\ follower \in [Boards -> FollowerType]
    /\ {line, current} \subseteq PageType \cup {None}
    /\ halted \in BOOLEAN
    /\ orphans \subseteq Boards \X Calls /\ outdated \subseteq Boards \X Calls
    /\ post # None => \E S \in SUBSET Boards :
           post \in [page : PageType, said : [S -> Outcomes \cup {"quiet", "waits"}]]
    /\ \A b \in Boards : follower[b].health = "unhealthy" => follower[b].failures = MaxFailures

Init ==
    /\ enabled = Boards /\ asleep = {} /\ locked = {}
    /\ flaps = [b \in Boards |-> None]
    /\ moving = [b \in Boards |-> 0]
    /\ follower = [b \in Boards |-> Fine]
    /\ line = None /\ current = None /\ halted = FALSE
    /\ post = None /\ testing = {} /\ orphans = {} /\ outdated = {}

-----------------------------------------------------------------------------
(* The boards.                                                             *)

(* What board b can answer to a post of rows, and what it then shows.      *)
Answers(b, refused, rows, outcome, shown) ==
    CASE refused -> outcome = "auth" /\ shown = flaps[b]
      [] ~refused /\ moving[b] > 0 -> outcome = "busy" /\ shown = flaps[b]
      [] OTHER -> IF rows \in Unshowable[b] THEN outcome = "layout" /\ shown = flaps[b]
                  ELSE \/ outcome = "ok" /\ shown = rows
                       \/ outcome = "network" /\ shown \in {rows, flaps[b]}

Failed(f) ==
    LET n == IF f.failures < MaxFailures THEN f.failures + 1 ELSE MaxFailures
    IN [health |-> IF n = MaxFailures THEN "unhealthy" ELSE f.health, failures |-> n]

(* Slip: a page that arrives clears the count only.                        *)
AfterCountCleared(f, outcome) ==
    CASE outcome = "ok" -> [f EXCEPT !.failures = 0]
      [] outcome = "auth" -> [f EXCEPT !.health = "degraded"]
      [] outcome = "busy" -> f
      [] OTHER -> Failed(f)

(* The follower of a board after an outcome.                               *)
After(f, outcome) ==
    CASE outcome = "ok" -> Fine
      [] outcome = "auth" -> [f EXCEPT !.health = "degraded"]
      [] outcome = "busy" -> f
      [] OTHER -> Failed(f)

(* postToBoard, from the answer on.  A call keeps the board's entry it     *)
(* began with, though the board was switched off meanwhile.                *)
Flips(b, call, rows, outcome) ==
    /\ \E shown \in {rows, flaps[b]} :
        /\ Answers(b, b \in locked \/ <<b, call>> \in outdated, rows, outcome, shown)
        /\ flaps' = [flaps EXCEPT ![b] = shown]
        /\ moving' = IF shown = flaps[b] THEN moving ELSE [moving EXCEPT ![b] = RateWindow]
    /\ follower' = IF <<b, call>> \in orphans THEN follower
                   ELSE [follower EXCEPT ![b] = After(@, outcome)]
    /\ orphans' = orphans \ {<<b, call>>}
    /\ outdated' = outdated \ {<<b, call>>}

-----------------------------------------------------------------------------
(* The fan-out.                                                            *)

(* Slip: a page for some boards is for the house.                          *)
BoardsForAll(page) == enabled

BoardsFor(page) == IF page.boards = {} THEN enabled ELSE page.boards \cap enabled

(* submit: a page for boards that are all off is refused, and one that is  *)
(* showing already is dropped.                                             *)
Offer(page) ==
    /\ line = None
    /\ BoardsFor(page) # {}
    /\ ~(current # None /\ current.rows = page.rows /\ current.boards = page.boards)
    /\ line' = page
    /\ UNCHANGED <<enabled, asleep, locked, wall, follower, current, halted, post, testing, orphans, outdated>>

(* tickOnce posts; boards in their quiet hours sit out, unless a person    *)
(* skips to the page.                                                      *)
Post(skip) ==
    /\ line # None /\ post = None /\ ~halted
    /\ post' = [page |-> line,
                said |-> [b \in BoardsFor(line) |->
                            IF b \in asleep /\ ~(line.exempt \/ skip) THEN "quiet" ELSE "waits"]]
    /\ UNCHANGED <<enabled, asleep, locked, wall, follower, house, testing, orphans, outdated>>

BoardAnswers(b) ==
    /\ post # None /\ b \in DOMAIN post.said /\ post.said[b] = "waits"
    /\ \E outcome \in Outcomes :
        /\ Flips(b, "page", post.page.rows, outcome)
        /\ post' = [post EXCEPT !.said[b] = outcome]
    /\ UNCHANGED <<enabled, asleep, locked, house, testing>>

Said(outcome) == \E b \in DOMAIN post.said : post.said[b] = outcome

Attempted == {b \in DOMAIN post.said : post.said[b] # "quiet"}

FirstAttempted ==
    LET places == {i \in DOMAIN BoardList : BoardList[i] \in Attempted}
    IN BoardList[CHOOSE i \in places : \A j \in places : i <= j]

(* Slip: all the boards have to take the page.                             *)
OutcomeOfAll ==
    CASE Attempted # {} /\ (\A b \in Attempted : post.said[b] = "ok") -> "ok"
      [] DOMAIN post.said = {} -> "gone"
      [] Attempted = {} -> "quiet"
      [] OTHER -> "busy"

(* Slip: nobody has said no.                                               *)
OutcomeUnlessRefused ==
    CASE DOMAIN post.said = {} -> "gone"
      [] Said("ok") \/ Attempted = {} -> "ok"
      [] OTHER -> post.said[FirstAttempted]

(* The one outcome of all of them.                                         *)
Outcome ==
    CASE DOMAIN post.said = {} -> "gone"
      [] Said("ok") -> "ok"
      [] ~Said("ok") /\ DOMAIN post.said # {} /\ Attempted = {} -> "quiet"
      [] OTHER -> IF \A b \in Attempted : post.said[b] = "busy" THEN "busy"
                  ELSE post.said[FirstAttempted]

(* What the queue makes of it: the page has been shown, waits for another  *)
(* try, or is dropped; a refused key halts the line.                       *)
FanoutAnswers ==
    /\ post # None /\ ~Said("waits")
    /\ post' = None
    /\ line' = IF Outcome \in {"ok", "gone", "layout"} THEN None ELSE line
    /\ current' = IF Outcome = "ok" THEN post.page ELSE current
    /\ halted' = (halted \/ Outcome = "auth")
    /\ UNCHANGED <<enabled, asleep, locked, wall, follower, testing, orphans, outdated>>

-----------------------------------------------------------------------------
(* People, and the clock.                                                  *)

TestFlip(b) ==
    /\ b \in enabled \ testing
    /\ testing' = testing \cup {b}
    /\ UNCHANGED <<enabled, asleep, locked, wall, follower, house, post, orphans, outdated>>

TestAnswers(b) ==
    /\ b \in testing
    /\ testing' = testing \ {b}
    /\ \E outcome \in Outcomes : Flips(b, "test", Identity, outcome)
    /\ UNCHANGED <<enabled, asleep, locked, house, post>>

UnderWay ==
    {<<b, "test">> : b \in testing}
    \cup {<<b, "page">> : b \in IF post = None THEN {} ELSE {c \in DOMAIN post.said : post.said[c] = "waits"}}

(* sync after a change of the settings: a board that is switched on starts *)
(* afresh, and whatever was changed, a halted queue tries again.           *)
Sync(on) ==
    /\ on # {}
    /\ enabled' = on
    /\ follower' = [b \in Boards |-> IF b \in on \ enabled THEN Fine ELSE follower[b]]
    /\ orphans' = orphans \cup {call \in UnderWay : call[1] \in enabled \ on}
    /\ halted' = FALSE

SwitchBoards(on) ==
    /\ on # enabled /\ Sync(on)
    /\ UNCHANGED <<asleep, locked, wall, line, current, post, testing, outdated>>

(* A board gets another key, and the hub is given that key.  A call under  *)
(* way keeps the key it was made with.                                     *)
KeyChanges(b) ==
    /\ b \notin locked
    /\ locked' = locked \cup {b}
    /\ UNCHANGED <<enabled, asleep, wall, follower, house, post, testing, orphans, outdated>>

NewKey(b) ==
    /\ b \in locked
    /\ locked' = locked \ {b}
    /\ Sync(enabled)
    /\ outdated' = outdated \cup {call \in UnderWay : call[1] = b}
    /\ UNCHANGED <<asleep, wall, line, current, post, testing>>

FallAsleep(b) ==
    /\ b \notin asleep
    /\ asleep' = asleep \cup {b}
    /\ UNCHANGED <<enabled, locked, wall, follower, house, post, testing, orphans, outdated>>

WakeUp(b) ==
    /\ b \in asleep
    /\ asleep' = asleep \ {b}
    /\ UNCHANGED <<enabled, locked, wall, follower, house, post, testing, orphans, outdated>>

TimePasses ==
    /\ \E b \in Boards : moving[b] > 0
    /\ moving' = [b \in Boards |-> IF moving[b] > 0 THEN moving[b] - 1 ELSE 0]
    /\ UNCHANGED <<enabled, asleep, locked, flaps, follower, house, post, testing, orphans, outdated>>

-----------------------------------------------------------------------------

Tests == \E b \in Boards : TestFlip(b)

Changes ==
    \/ \E on \in SUBSET Boards : SwitchBoards(on)
    \/ \E b \in Boards : KeyChanges(b) \/ NewKey(b)

Next ==
    \/ \E page \in Pages : Offer(page)
    \/ \E skip \in BOOLEAN : Post(skip)
    \/ FanoutAnswers
    \/ \E b \in Boards : BoardAnswers(b) \/ TestAnswers(b) \/ FallAsleep(b) \/ WakeUp(b)
    \/ Tests \/ Changes \/ TimePasses

Spec == Init /\ [][Next]_hub

-----------------------------------------------------------------------------

(* No board shows what is not meant for it: whatever is switched on or off *)
(* while a page is on its way, a board changes only by a page for the      *)
(* house or for it, or by its own test flip.                               *)
AimIsKept ==
    [][\A b \in Boards : flaps'[b] # flaps[b] =>
          \/ b \in testing \ testing'
          \/ post # None /\ (post.page.boards = {} \/ b \in post.page.boards)]_hub

=============================================================================
