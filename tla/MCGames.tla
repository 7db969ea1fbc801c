------------------------------- MODULE MCGames -----------------------------
(***************************************************************************)
(* The party games of a small house.  Without a board all four modes are   *)
(* played to the end; with a board one of them meets a doorbell and a      *)
(* match that are listed above it, a two-page story and the people at the  *)
(* simulator.                                                              *)
(***************************************************************************)
EXTENDS GamesOnBoard

CONSTANTS none, door, match, story, ring, score, page1, page2, board, key,
          Moves,      \* bound: what people do but join, without a board
          BoardMoves  \* bound: moves of anybody in a house with one

Rule(jump, immediate, hold, rank) ==
    [listed |-> rank > 0, jump |-> jump, immediate |-> immediate, hold |-> hold,
     rank |-> rank, minutes |-> 2]

GameSources == {"scramble", "prompts", "wheel", "hangman"}

MCSources == {door, match, story} \cup GameSources
MCLayouts == {ring, score, page1, page2} \cup (GameTypes \X GameCards \X Looks)

MCPolicy == [s \in MCSources |->
    CASE s = door -> Rule(TRUE, TRUE, FALSE, 3)
      [] s = match -> Rule(TRUE, FALSE, TRUE, 2)
      [] s = story -> Rule(FALSE, FALSE, FALSE, 0)
      [] OTHER -> Rule(TRUE, FALSE, TRUE, 1)]

MCKeyOfSource == [s \in MCSources |-> IF s = match THEN key ELSE none]

MCLabelOf == [l \in MCLayouts |-> l]

MCSourceOf == [g \in GameTypes |-> g]

Plain(s, kind, rows) ==
    [source |-> s, kind |-> kind, live |-> TRUE, join |-> FALSE, rows |-> rows,
     reading |-> 1, hold |-> 0, device |-> none, boards |-> {}, exempt |-> FALSE,
     scheduler |-> FALSE, closing |-> FALSE, after |-> 0, clears |-> FALSE,
     takeover |-> FALSE, replaces |-> "nothing", phase |-> 0]

MCCards == {Plain(door, "interrupt", <<ring>>), Plain(match, "game", <<score>>),
            Plain(story, "snapshot", <<page1, page2>>)}

MCRetryDelays == <<>>

MCSettings == [g \in GameTypes |->
    [rounds |-> 2, minPlayers |-> IF g = "prompts" THEN 3 ELSE IF g = "wheel" THEN 2 ELSE 1,
     maxPlayers |-> IF g = "prompts" THEN 4 ELSE 3, allowLateJoin |-> g # "scramble",
     lobby |-> 1, round |-> IF g = "prompts" THEN 1 ELSE 2, turn |-> 1, pick |-> 2,
     voting |-> 2, intermission |-> 1, idle |-> 3, invite |-> 2]]

(* Bound: how many ever join, one more than a round needs where the writing *)
(* of a prompt is to be left to a late joiner.                             *)
Guests(g) == IF g = "prompts" THEN 4 ELSE 3

VARIABLES
    moves,            \* moves left to the people
    lasted,           \* how long the phase, or the turn, has lasted
    alone             \* how long since anybody sat down or a phone was there

mcvars == <<vars, games, moves, lasted, alone>>

TurnOf(s) ==
    <<s.phase, s.index,
      IF s.phase = "round" /\ s.game = "wheel" THEN <<s.round.turn>>
      ELSE IF s.phase = "round" /\ s.game = "hangman" THEN <<s.round.turn, s.round.step>>
      ELSE <<>>>>

SameTurn == Open /\ session' # NoSession /\ TurnOf(session') = TurnOf(session)

SameTable == Open /\ session' # NoSession /\ session'.joined = session.joined
                  /\ session'.phones = session.phones

Watched ==
    /\ lasted' = IF SameTurn THEN lasted ELSE 0
    /\ alone' = IF SameTable THEN alone ELSE 0

MCInit ==
    /\ HouseInit
    /\ moves = IF housed THEN BoardMoves ELSE Moves
    /\ lasted = 0 /\ alone = 0

Joining == Join /\ session.joined < Guests(session.game)

(* Without a board joining is bounded by the guests, and is no move.       *)
Moving ==
    /\ Free
    /\ \/ ~housed /\ Joining /\ UNCHANGED moves
       \/ /\ moves > 0 /\ moves' = moves - 1
          /\ \/ \E g \in GameTypes : (g = "scramble" \/ ~housed) /\ Create(g)
             \/ housed /\ Joining
             \/ Subscribe \/ Unsubscribe \/ End
             \/ \E p \in 1..MaxJoined : Rejoin(p) \/ Play(p) \/ Leave(p)
    /\ UNCHANGED vars
    /\ Watched

Ticks == TimesUp /\ Watched /\ UNCHANGED moves

Passing ==
    /\ IF housed THEN posting = None /\ HouseTime ELSE GamesTimePasses /\ UNCHANGED vars
    /\ lasted' = Up(lasted, 2)
    /\ alone' = IF Open /\ session.phones > 0 THEN 0 ELSE Up(alone, 3)
    /\ UNCHANGED moves

Touching ==
    /\ housed /\ moves > 0 /\ moves' = moves - 1
    /\ (\E c \in Cards : HouseSubmit(c)) \/ HouseReleaseHolds \/ HouseSkip
    /\ Watched

Carries == housed /\ Carry /\ Watched /\ UNCHANGED moves

Rotates == housed /\ HouseTick(FALSE) /\ Watched /\ UNCHANGED moves

Answers == housed /\ PostAccepted /\ HouseAnswer /\ Watched /\ UNCHANGED moves

Expires == housed /\ HouseLockExpires /\ Watched /\ UNCHANGED moves

MCNext ==
    Moving \/ Ticks \/ Passing \/ Touching \/ Carries \/ Rotates \/ Answers \/ Expires

(* The session's timer, the queue's and the clock go on.                   *)
MCSpec ==
    /\ MCInit /\ [][MCNext]_mcvars
    /\ WF_mcvars(Ticks) /\ WF_mcvars(Passing)
    /\ WF_mcvars(Carries) /\ WF_mcvars(Rotates) /\ WF_mcvars(Answers)

-----------------------------------------------------------------------------

LengthOf(s) ==
    CASE s.phase = "lobby" -> Of(s).lobby
      [] s.phase = "round" -> IF s.game = "hangman" /\ s.round.step = "pick"
                              THEN Smaller(Of(s).pick, Of(s).turn) ELSE RoundHold(s)
      [] s.phase = "voting" -> Of(s).voting
      [] s.phase = "intermission" -> Of(s).intermission
      [] s.phase = "final" -> IF s.best THEN 2 * Of(s).intermission ELSE Of(s).intermission

(* Nobody is rushed: the clock ends a phase, or the turn of a player, only *)
(* when that phase or turn has lasted as long as the settings give it,     *)
(* however it was entered: from the clock before it, an answer or a leaver.*)
PhaseKeepsItsTime == [][PhaseEnds => lasted >= LengthOf(session)]_mcvars

(* A table is only given up as idle when nobody has sat down and no phone  *)
(* has listened for the whole idle time.                                   *)
IdleMeansIdle == [][IdleEnds => alone >= Of(session).idle]_mcvars

(* Every party ends, and the board is let go of: when the people have had  *)
(* their fill of it, the clocks bring whatever is on to its end.           *)
PartyEnds ==
    <>[](/\ ~Open /\ Settled
         /\ LiveLock = None \/ LiveLock.source \notin GameSources)

=============================================================================
