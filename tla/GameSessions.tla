---------------------------- MODULE GameSessions ---------------------------
(***************************************************************************)
(* The party games of the house (games/sessions.js): an invite, a lobby,   *)
(* rounds of one of four modes, scores, and the end.  There is at most one *)
(* session: create ends the others first.                                  *)
(*                                                                         *)
(* Every handler is synchronous, the cards it pushes included.  What it    *)
(* asks of the board, setGameLock, dropPending and pushEvent, is left in   *)
(* calls, in order; whoever composes this module with a board carries the  *)
(* calls out before anything else happens.  Without a board of the house   *)
(* (housed FALSE) they come to nothing.                                    *)
(*                                                                         *)
(* phaseEndsAt and inviteExpiresAt are countdowns, lastSseAt and startedAt *)
(* ages.  No page in the house queue ever carries a sessionId or a code,   *)
(* so noteBoardShown and noteBoardCancelled find no session: an invite     *)
(* stays an invite until somebody joins or it expires.                     *)
(***************************************************************************)
EXTENDS Lines

CONSTANTS
    GameTypes,        \* the registered games, a part of {"scramble", "prompts", "wheel", "hangman"}
    Settings,         \* gameSettings.get: the settings of each game
    MaxFreeSpins, Consonants, Vowels,            \* see WheelOfFortune
    Letters, Lives, WordSetter,                  \* see Hangman
    SubmitCap,                                   \* see WordScramble
    MaxPhones,        \* bound: event streams of one session
    MaxJoined         \* bound: players who ever joined one session

Untimed == -1         \* phaseEndsAt is null
Nobody == 0           \* a player id ''; the players of a session are 1, 2, ...

SettingsType ==
    [rounds : Nat \ {0}, minPlayers : Nat \ {0}, maxPlayers : Nat \ {0}, allowLateJoin : BOOLEAN,
     lobby : Nat \ {0}, round : Nat \ {0}, turn : Nat \ {0}, pick : Nat \ {0},
     voting : Nat \ {0}, intermission : Nat \ {0}, idle : Nat \ {0}, invite : Nat \ {0}]

ASSUME GamesAssumption ==
    /\ GameTypes \subseteq {"scramble", "prompts", "wheel", "hangman"}
    /\ Settings \in [GameTypes -> SettingsType]
    /\ \A g \in GameTypes : Settings[g].invite >= Settings[g].lobby
    /\ {Consonants, Vowels, MaxFreeSpins, SubmitCap, MaxPhones, MaxJoined} \subseteq Nat
    /\ Consonants + Vowels > 0
    /\ {Letters, Lives} \subseteq Nat \ {0}
    /\ WordSetter \in BOOLEAN

VARIABLES
    session,          \* the open session, or NoSession
    calls,            \* what its handler still has to ask of the board
    housed            \* is there a house queue to ask

Wheel == INSTANCE WheelOfFortune
Gallows == INSTANCE Hangman
Prompts == INSTANCE PartyPrompts
Scramble == INSTANCE WordScramble

NoSession == [phase |-> "closed"]

Open == session # NoSession

Phases == {"invited", "lobby", "round", "voting", "intermission", "final"}
GameCards == {"invite", "lobby", "round", "voting", "intermission", "final", "short"}

Players(s) == Members(s.players)

(* The session as its handlers see it: what the round record holds is the  *)
(* business of the mode.                                                   *)
SessionOK(s) ==
    /\ s.game \in GameTypes
    /\ s.phase \in Phases
    /\ s.joined \in 0..MaxJoined /\ Players(s) \subseteq 1..s.joined
    /\ Cardinality(Players(s)) = Len(s.players)
    /\ s.waiting \subseteq 1..s.joined
    /\ s.phones \in 0..MaxPhones
    /\ s.ends \in Nat \cup {Untimed}
    /\ s.index \in 0..Settings[s.game].rounds /\ s.tallies \in Nat
    /\ s.hadPlayer = (s.joined > 0)
    /\ s.phase = "invited" => s.players = <<>>
    /\ s.phase \notin {"invited", "lobby"} => s.index > 0

CallType ==
    [do : {"lock"}, game : GameTypes, join : BOOLEAN]
    \cup [do : {"take", "unlock"}, game : GameTypes]
    \cup [do : {"page"}, game : GameTypes, card : GameCards, hold : Nat, takeover : BOOLEAN]

GamesTypeOK ==
    /\ Open => SessionOK(session)
    /\ calls \in Seq(CallType)
    /\ housed \in BOOLEAN

GamesInit == session = NoSession /\ calls = <<>> /\ housed \in BOOLEAN

-----------------------------------------------------------------------------
(* A handler's outcome: the session it leaves and the calls it makes.      *)

Result(s, made) == [s |-> s, made |-> made]

(* pushPhase: the lock first, then the rest of a foreign run of pages goes,*)
(* then the card is offered.                                               *)
Push(s, card, hold, takeover) ==
    Result(s, <<[do |-> "lock", game |-> s.game, join |-> card = "invite"],
                [do |-> "take", game |-> s.game],
                [do |-> "page", game |-> s.game, card |-> card, hold |-> hold,
                 takeover |-> takeover]>>)

Of(s) == Settings[s.game]

Remaining(s) == IF s.ends = Untimed THEN 0 ELSE s.ends

(* The players who may sit down.                                           *)
Present(s) ==
    IF s.waiting = {} THEN s.players
    ELSE Without(s.players, {i \in DOMAIN s.players : s.players[i] \in s.waiting})

(* createRound, seat of everybody present and beginRound of the mode.      *)
Dealt(s) ==
    LET present == Present(s)
    IN CASE s.game = "wheel" -> Wheel!Begin(Wheel!Seat(Wheel!NewRound, present))
         [] s.game = "hangman" ->
                Gallows!Begin(Gallows!Seat(Gallows!NewRound(present, s.index), present))
         [] s.game = "prompts" -> Prompts!Seat(Prompts!NewRound, Members(present))
         [] s.game = "scramble" -> Scramble!Seat(Scramble!NewRound, Members(present))

HasWinner(s) ==
    CASE s.game = "wheel" -> Wheel!HasWinner(s.round)
      [] s.game = "hangman" -> Gallows!HasWinner(s.round)
      [] s.game = "prompts" -> Prompts!HasWinner(s.round)
      [] s.game = "scramble" -> Scramble!HasWinner(s.round)

(* roundHoldSeconds.                                                       *)
RoundHold(s) ==
    CASE s.game = "wheel" -> Of(s).turn
      [] s.game = "hangman" -> IF s.round.step = "pick" THEN Of(s).pick ELSE Of(s).turn
      [] OTHER -> Of(s).round

StartRound(s) ==
    LET counted == [s EXCEPT !.index = @ + 1]
        dealt == [counted EXCEPT !.phase = "round", !.round = Dealt(counted), !.age = 0]
        hold == RoundHold(dealt)
    IN Push([dealt EXCEPT !.ends = hold], "round", hold, FALSE)

(* Slip: one round too many.                                               *)
FinishRoundOfMore(s) ==
    LET scored == [s EXCEPT !.tallies = @ + 1, !.best = @ \/ HasWinner(s), !.round = <<>>,
                            !.age = 0]
        pause == Of(s).intermission
    IN IF s.index <= Of(s).rounds
       THEN Push([scored EXCEPT !.phase = "intermission", !.ends = pause, !.waiting = {}],
                 "intermission", pause, FALSE)
       ELSE Push([scored EXCEPT !.phase = "final", !.ends = pause], "final", pause, FALSE)

(* finishRound: the points of the round are added to the players' once.    *)
(* Nothing is played on the round any more.                                *)
FinishRound(s) ==
    LET scored == [s EXCEPT !.tallies = @ + 1, !.best = @ \/ HasWinner(s), !.round = <<>>,
                            !.age = 0]
        pause == Of(s).intermission
    IN IF s.index < Of(s).rounds
       THEN Push([scored EXCEPT !.phase = "intermission", !.ends = pause, !.waiting = {}],
                 "intermission", pause, FALSE)
       ELSE Push([scored EXCEPT !.phase = "final",
                                !.ends = IF scored.best THEN 2 * pause ELSE pause],
                 "final", pause, FALSE)

(* Slip: a ballot of one goes on to the vote after it was closed.          *)
StartVotingAnyway(s) ==
    LET closed == IF Prompts!CanVote(s.round) THEN s ELSE FinishRound(s).s
    IN Push([closed EXCEPT !.phase = "voting", !.ends = Of(s).voting], "voting", Of(s).voting, FALSE)

(* Slip: the vote runs on what was left of the writing.                    *)
StartVotingOnOldClock(s) ==
    IF Prompts!CanVote(s.round)
    THEN Push([s EXCEPT !.phase = "voting"], "voting", Of(s).voting, FALSE)
    ELSE FinishRound(s)

StartVoting(s) ==
    IF Prompts!CanVote(s.round)
    THEN Push([s EXCEPT !.phase = "voting", !.ends = Of(s).voting], "voting", Of(s).voting, FALSE)
    ELSE FinishRound(s)

(* Slip: the lock is handed back before the last card goes out.            *)
CloseLockFirst(s, reason) ==
    LET pause == Of(s).intermission
        scores == s.phase # "final" /\ s.hadPlayer /\ reason # "preempted"
        last == IF reason = "not-enough-players" THEN Push(s, "short", pause, TRUE).made
                ELSE IF scores THEN Push(s, "final", pause, TRUE).made
                ELSE <<>>
    IN Result(NoSession, <<[do |-> "unlock", game |-> s.game]>> \o last)

(* closeSession: why it was so short, or the scores if anybody ever sat    *)
(* down and they are not up already, and then the board is let go.         *)
CloseSession(s, reason) ==
    LET pause == Of(s).intermission
        scores == s.phase # "final" /\ s.hadPlayer /\ reason # "preempted"
        last == IF reason = "not-enough-players" THEN Push(s, "short", pause, TRUE).made
                ELSE IF scores THEN Push(s, "final", pause, TRUE).made
                ELSE <<>>
    IN Result(NoSession, last \o <<[do |-> "unlock", game |-> s.game]>>)

(* Everything a turn's clock can do to the round.                          *)
TimeoutOf(s) ==
    IF s.game = "wheel" THEN Wheel!Timeout(s.round, s.age >= Of(s).round)
    ELSE Gallows!Timeout(s.round, s.age >= Of(s).round)

(* advance: the phase's clock has run out, or the mode is done with it.    *)
Advance(s) ==
    CASE s.phase = "invited" -> CloseSession(s, "invite-expired")
      [] s.phase = "lobby" ->
            IF s.players = <<>> THEN CloseSession(s, "invite-expired")
            ELSE IF Len(s.players) < Of(s).minPlayers THEN CloseSession(s, "not-enough-players")
            ELSE StartRound(s)
      [] s.phase = "round" /\ s.game \in {"wheel", "hangman"} ->
            LET out == TimeoutOf(s)
            IN IF out.then = "finish" THEN FinishRound(s)
               ELSE Push([s EXCEPT !.round = out.round, !.ends = Of(s).turn],
                         "round", Of(s).turn, FALSE)
      [] s.phase = "round" /\ s.game = "prompts" -> StartVoting(s)
      [] s.phase = "round" /\ s.game = "scramble" -> FinishRound(s)
      [] s.phase = "voting" -> FinishRound(s)
      [] s.phase = "intermission" -> StartRound(s)
      [] s.phase = "final" -> CloseSession(s, "finished")

(* What submit and leave make of the mode's answer.  Only the games with   *)
(* turns ask for a refresh, and a refresh gives the turn its full clock.   *)
Follow(s, out) ==
    LET played == [s EXCEPT !.round = out.round]
    IN CASE out.then = "finish" -> FinishRound(played)
         [] out.then = "advance" -> Advance(played)
         [] out.then = "refresh" ->
                Push([played EXCEPT !.ends = Of(s).turn], s.phase, Of(s).turn, FALSE)
         [] out.then = "stay" -> Result(played, <<>>)

-----------------------------------------------------------------------------
(* The handlers.  One runs when the calls of the one before are made.      *)

Settled == calls = <<>>

Becomes(result) ==
    /\ session' = result.s
    /\ calls' = IF housed THEN result.made ELSE <<>>

Fresh(g) ==
    [game |-> g, phase |-> "invited", ends |-> Untimed, expires |-> Settings[g].invite,
     idle |-> 0, phones |-> 0, hadPlayer |-> FALSE, players |-> <<>>, waiting |-> {},
     joined |-> 0, index |-> 0, tallies |-> 0, best |-> FALSE, round |-> <<>>, age |-> 0]

(* create: endAll('preempted'), then the invite of the new session.        *)
Create(g) ==
    /\ Settled
    /\ LET ended == IF Open THEN CloseSession(session, "preempted").made ELSE <<>>
           invited == Push(Fresh(g), "invite", Settings[g].lobby, TRUE)
       IN Becomes(Result(invited.s, ended \o invited.made))
    /\ UNCHANGED housed

(* The first one in starts the lobby, and its clock.                       *)
StartLobby(s) ==
    LET lobby == [s EXCEPT !.phase = "lobby", !.ends = Of(s).lobby, !.waiting = {},
                           !.expires = 0]
    IN Push(lobby, "lobby", Remaining(lobby), FALSE)

(* What join does once there is a player.                                  *)
Welcome(s) ==
    IF s.phase = "invited" THEN StartLobby(s)
    ELSE IF s.phase = "lobby" THEN Push(s, "lobby", Remaining(s), FALSE)
    ELSE Result(s, <<>>)

(* Slip: sitting down does not start the idle clock afresh.                *)
JoinUnstamped ==
    /\ Settled /\ Open
    /\ session.phase \in {"invited", "lobby"} \/ Of(session).allowLateJoin
    /\ Len(session.players) < Of(session).maxPlayers
    /\ session.joined < MaxJoined
    /\ LET p == session.joined + 1
       IN Becomes(Welcome([session EXCEPT
              !.joined = p, !.players = Append(@, p), !.hadPlayer = TRUE,
              !.waiting = IF session.phase \in {"round", "voting"} THEN @ \cup {p} ELSE @]))
    /\ UNCHANGED housed

Join ==
    /\ Settled /\ Open
    /\ session.phase \in {"invited", "lobby"} \/ Of(session).allowLateJoin
    /\ Len(session.players) < Of(session).maxPlayers
    /\ session.joined < MaxJoined
    /\ LET p == session.joined + 1
       IN Becomes(Welcome([session EXCEPT
              !.joined = p, !.players = Append(@, p), !.hadPlayer = TRUE, !.idle = 0,
              !.waiting = IF session.phase \in {"round", "voting"} THEN @ \cup {p} ELSE @]))
    /\ UNCHANGED housed

(* join with the seat the phone already has.                               *)
Rejoin(p) ==
    /\ Settled /\ Open
    /\ p \in Players(session)
    /\ Becomes(Welcome([session EXCEPT !.idle = 0]))
    /\ UNCHANGED housed

(* Everything player p can make of the round that is open.                 *)
PlaysOf(s, p) ==
    CASE s.game = "wheel" -> IF Wheel!IsSeated(s.round, p) THEN Wheel!Plays(s.round, p) ELSE {}
      [] s.game = "hangman" ->
            IF Gallows!IsSeated(s.round, p) THEN Gallows!Plays(s.round, p) ELSE {}
      [] s.game = "prompts" ->
            IF Prompts!IsSeated(s.round, p) THEN Prompts!Plays(s.round, p, s.phase) ELSE {}
      [] s.game = "scramble" ->
            IF Scramble!IsSeated(s.round, p) THEN Scramble!Plays(s.round, p) ELSE {}

(* submit, as far as it changes anything.  A phone that left still has its *)
(* cookie; whether it may go on is up to the mode.                         *)
Play(p) ==
    /\ Settled /\ Open
    /\ session.phase \in {"round", "voting"}
    /\ \E out \in PlaysOf(session, p) : Becomes(Follow(session, out))
    /\ UNCHANGED housed

LeavingOf(s, p) ==
    CASE s.game = "wheel" -> Wheel!Leave(s.round, p)
      [] s.game = "hangman" -> Gallows!Leave(s.round, p)
      [] s.game = "prompts" -> Prompts!Leave(s.round, p)
      [] s.game = "scramble" -> Scramble!Then(s.round, "stay")

(* leave: the last one out ends the session; the mode only hears of it     *)
(* while the round is open, not during the vote.                           *)
Leave(p) ==
    /\ Settled /\ Open
    /\ p \in 1..session.joined
    /\ LET left == [session EXCEPT !.players = Dismiss(@, p),
                                        !.waiting = @ \ {p}]
       IN Becomes(IF left.players = <<>> THEN CloseSession(left, "empty")
                  ELSE IF session.phase = "round" THEN Follow(left, LeavingOf(left, p))
                  ELSE Result(left, <<>>))
    /\ UNCHANGED housed

(* A phone opens its event stream, and loses it.                           *)
Subscribe ==
    /\ Settled /\ Open
    /\ session.phones < MaxPhones
    /\ session' = [session EXCEPT !.phones = @ + 1, !.idle = 0]
    /\ UNCHANGED <<calls, housed>>

Unsubscribe ==
    /\ Settled /\ Open
    /\ session.phones > 0
    /\ session' = [session EXCEPT !.phones = @ - 1, !.idle = 0]
    /\ UNCHANGED <<calls, housed>>

(* The End button of the Sessions list.                                    *)
End ==
    /\ Settled /\ Open
    /\ Becomes(CloseSession(session, "ended"))
    /\ UNCHANGED housed

-----------------------------------------------------------------------------
(* tick, once a second: the first of these that applies.                   *)

(* Slip: an invite is looked at on the clock of the phases.                *)
InviteDueOnPhaseClock == session.phase = "invited" /\ session.ends = 0

InviteDue == session.phase = "invited" /\ session.expires = 0

IdleDue == session.hadPlayer /\ session.phones = 0 /\ session.idle >= Of(session).idle

PhaseDue == session.ends = 0

InviteExpires ==
    /\ Settled /\ Open
    /\ InviteDue
    /\ Becomes(CloseSession(session, "invite-expired"))
    /\ UNCHANGED housed

IdleEnds ==
    /\ Settled /\ Open
    /\ ~InviteDue /\ IdleDue
    /\ Becomes(CloseSession(session, "idle"))
    /\ UNCHANGED housed

PhaseEnds ==
    /\ Settled /\ Open
    /\ ~InviteDue /\ ~IdleDue /\ PhaseDue
    /\ Becomes(Advance(session))
    /\ UNCHANGED housed

GamesTick == InviteExpires \/ IdleEnds \/ PhaseEnds

(* One unit of time on every clock of the session.  While a phone listens  *)
(* the idle clock stands.                                                  *)
Down(n) == IF n > 0 THEN n - 1 ELSE n

Up(n, cap) == IF n < cap THEN n + 1 ELSE n

Aged(s) ==
    IF s = NoSession THEN s
    ELSE [s EXCEPT !.ends = Down(@), !.expires = Down(@),
                   !.idle = IF s.phones > 0 THEN 0 ELSE Up(@, Of(s).idle),
                   !.age = IF s.phase = "round" THEN Up(@, Of(s).round) ELSE @]

GamesTimePasses ==
    /\ Settled
    /\ session' = Aged(session)
    /\ UNCHANGED <<calls, housed>>

(* The board was taken from the game (endByBoardSource), whoever it is     *)
(* that is told: the game is over and its hold goes.                       *)
Preempted == CloseSession(session, "preempted")

-----------------------------------------------------------------------------

(* A turn never waits for somebody who cannot take it: while anybody is in *)
(* the running order of the round, the one whose turn it is has not left,  *)
(* does not wait for the next round and does not set the word.             *)
TurnIsLive ==
    Open /\ session.phase = "round" /\ session.game \in {"wheel", "hangman"} =>
        LET r == session.round
        IN r.order # <<>> =>
               /\ \E i \in DOMAIN r.order : r.order[i] = r.turn
               /\ r.turn \in Players(session) \ session.waiting
               /\ session.game = "hangman" => r.turn # r.setter

(* Writing goes on for somebody: while anybody is at the table who does    *)
(* not wait for the next round, one of them has yet to write, however the  *)
(* others wrote, joined late or left.  When only late joiners are left,    *)
(* the code waits out the clock (allAnswered of an empty round is false).  *)
WritingWaitsForSomebody ==
    Open /\ session.phase = "round" /\ session.game = "prompts" =>
        LET writers == Players(session) \ session.waiting
        IN writers # {} => \E p \in writers : p \notin session.round.written

(* Every round is added to the points exactly once, whether the clock, the *)
(* last answer or a leaver ends it, with a vote or without.                *)
EveryRoundScoredOnce ==
    Open =>
        /\ session.phase \in {"intermission", "final"} => session.tallies = session.index
        /\ session.phase \in {"round", "voting"} => session.tallies = session.index - 1

=============================================================================
