---------------------------- MODULE HoldPolicy ----------------------------
(***************************************************************************)
(* What a card may do to the board: jump the waiting line, cut in, or hold *)
(* the board.  A translation of vestaboard/holds.js (classifyStructural)   *)
(* and vestaboard/priorities.js (applyPolicy): a card's structural kind    *)
(* and its session's liveness meet the house Priorities list.              *)
(***************************************************************************)
EXTENDS Integers, Sequences

CONSTANTS
    None,             \* null in the code
    Sources,          \* event sources a card can come from
    Layouts,          \* what the flaps can show: a 6x22 grid is one value
    Boards,           \* boards the hub can post to
    Keys,             \* coalesce keys
    Policy,           \* the house Priorities list, one rule for each source
    KeyOfSource,      \* structural coalesce key of a source, or None
    JoinHoldSources,  \* party games, whose hold minutes are a join window
    LockTtl,          \* the 30 minute safety net on a live hold
    QuietExempt       \* sources that always pass quiet hours

Kinds == {"interrupt", "game", "watch", "snapshot", "close"}

(* One entry of the Priorities list.  An unlisted source has listed FALSE; *)
(* rank is the number of entries from this one to the end of the list.     *)
RuleType == [listed : BOOLEAN, jump : BOOLEAN, immediate : BOOLEAN,
             hold : BOOLEAN, rank : Nat, minutes : Nat \ {0}]

(* An offer to the board: its frames (rows, one layout per page) with what *)
(* the formatter stamped on them and the options it is submitted with.     *)
CardType ==
    [source : Sources,
     kind : Kinds,
     live : BOOLEAN,               \* sessionLive (TRUE when the code has undefined)
     join : BOOLEAN,               \* joinWait: an invite or an empty lobby
     rows : Seq(Layouts),
     reading : Nat \ {0},          \* frame.dwellSeconds
     hold : Nat,                   \* frame.holdSeconds, 0 when absent
     device : Keys \cup {None},    \* coalesceKeyFor the payload
     boards : SUBSET Boards,       \* boardIds; {} is null: every board
     exempt : BOOLEAN,             \* options.quietHoursExempt
     scheduler : BOOLEAN,
     closing : BOOLEAN,            \* a scheduler rule's clean-up artwork
     after : Nat,                  \* closingAfterSeconds
     clears : BOOLEAN,             \* clearQueueAfterHold
     takeover : BOOLEAN,           \* breakHold
     replaces : {"nothing", "all", "phases"},   \* replaceSource / replaceCard
     phase : Nat]                  \* gameCardRank of frame.card

ASSUME PolicyAssumption ==
    /\ Policy \in [Sources -> RuleType]
    /\ KeyOfSource \in [Sources -> Keys \cup {None}]
    /\ JoinHoldSources \subseteq Sources
    /\ QuietExempt \subseteq Sources
    /\ LockTtl \in Nat \ {0}
    /\ None \notin Keys \cup Sources \cup Layouts
    \* normaliseRule: a hold always jumps, and only a jumper cuts in
    /\ \A s \in Sources : /\ Policy[s].hold => Policy[s].jump
                          /\ Policy[s].immediate => Policy[s].jump

-----------------------------------------------------------------------------

Larger(a, b) == IF a >= b THEN a ELSE b
Smaller(a, b) == IF a <= b THEN a ELSE b

(* A watch source that is no longer playing never meets the list.          *)
Listed(c) ==
    /\ c.kind # "close"
    /\ ~(c.kind = "watch" /\ ~c.live)
    /\ Policy[c.source].listed

(* A finished game card keeps the hold lane, so its lock lasts until close.*)
Holds(c) == Listed(c) /\ Policy[c.source].hold /\ (c.live \/ c.kind = "game")

(* A card that takes or renews the hold.                                   *)
Live(c) == Listed(c) /\ Policy[c.source].hold /\ c.live

Jumps(c) == Listed(c) /\ (Policy[c.source].jump \/ Holds(c))

CutsInNow(c) == Jumps(c) /\ Policy[c.source].immediate

Lane(c) == IF Holds(c) THEN "game" ELSE IF Jumps(c) THEN "alert" ELSE "rotation"

Rank(c) == IF Listed(c) THEN Policy[c.source].rank ELSE 0

(* Minutes clamp a rule's hold; a live round gets at least the safety net. *)
HoldTtl(s, joinWait) ==
    IF joinWait \/ s \notin JoinHoldSources
    THEN Policy[s].minutes
    ELSE Larger(Policy[s].minutes, LockTtl)

(* queue.submit: the frame's priority once the hold is classified.         *)
IsAlert(c) == Lane(c) = "alert" /\ CutsInNow(c)

(* The structural key wins over the one made from the payload.             *)
KeyOf(c) == IF KeyOfSource[c.source] # None THEN KeyOfSource[c.source] ELSE c.device

IsExempt(c) == c.source \in QuietExempt \/ c.exempt

=============================================================================
