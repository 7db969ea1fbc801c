--------------------------- MODULE MCBoardEvenings --------------------------
(***************************************************************************)
(* One board on three kinds of evening, in a house that lists a quiz above *)
(* its doorbell and has everything else in the default order: the doorbell *)
(* above the party game, the party game above the match.                   *)
(*                                                                         *)
(* Games: a match (keyed, ended by its watcher), a party game, the         *)
(* doorbell and a page of the rotation.  Rotation: a card that sends a     *)
(* cached preview and then the live reading (one key), a clean-up artwork  *)
(* that sweeps what piled up behind it, a plain page of the scheduler and  *)
(* a page somebody pushes.  Few: a bounded number of offers, after which   *)
(* something must happen in the end: the quiz, the doorbell, a page of the *)
(* rotation with a hold and one without.                                   *)
(*                                                                         *)
(* Fairness, on an evening of few offers.  The queue's timer ticks every   *)
(* second (WF of a tick that does something) and time goes on (WF).  A     *)
(* post is answered (WF), and a board that answers again and again takes a *)
(* page once in a while (SF).                                              *)
(***************************************************************************)
EXTENDS BoardQueue

CONSTANTS none, quiz, match, party, door, car, art, weather, tide, guest,
          question, score, round, ring, cached, reading, canvas, sun, moon, hello,
          board, key, bell, Offers

VARIABLES
    evening,          \* which cards there are, chosen once
    left              \* bound: how many more offers, or skips, there are

evenings == <<vars, evening, left>>

Rule(jump, immediate, hold, rank) ==
    [listed |-> rank > 0, jump |-> jump, immediate |-> immediate, hold |-> hold,
     rank |-> rank, minutes |-> 1]

MCSources == {quiz, match, party, door, car, art, weather, tide, guest}
MCLayouts == {question, score, round, ring, cached, reading, canvas, sun, moon, hello}

MCPolicy == [s \in MCSources |->
    CASE s = quiz -> Rule(TRUE, FALSE, TRUE, 4)
      [] s = door -> Rule(TRUE, TRUE, FALSE, 3)
      [] s = party -> Rule(TRUE, FALSE, TRUE, 2)
      [] s = match -> Rule(TRUE, FALSE, TRUE, 1)
      [] OTHER -> Rule(FALSE, FALSE, FALSE, 0)]

MCKeyOfSource == [s \in MCSources |->
    IF s \in {match, car} THEN key ELSE IF s = door THEN bell ELSE none]

MCLabelOf == [l \in MCLayouts |-> l]

Plain(s, layout) ==
    [source |-> s, kind |-> "snapshot", live |-> TRUE, join |-> FALSE, rows |-> <<layout>>,
     reading |-> 1, hold |-> 0, device |-> none, boards |-> {}, exempt |-> FALSE,
     scheduler |-> FALSE, closing |-> FALSE, after |-> 0, clears |-> FALSE,
     takeover |-> FALSE, replaces |-> "nothing", phase |-> 0]

Game(s, layout) == [Plain(s, layout) EXCEPT !.kind = "game"]

Aired(s, layout, hold) == [Plain(s, layout) EXCEPT !.scheduler = TRUE, !.hold = hold]

(* The doorbell's key, and its replaceSource (router.js).                  *)
Bell == [Plain(door, ring) EXCEPT !.kind = "interrupt", !.replaces = "all"]

GameCards == {Game(match, score),
              [Game(party, round) EXCEPT !.replaces = "phases", !.phase = 3],
              Bell,
              Plain(weather, sun)}

RotationCards == {Aired(car, cached, 2),
                  Aired(car, reading, 2),
                  [Aired(art, canvas, 2) EXCEPT !.closing = TRUE, !.after = 2, !.clears = TRUE],
                  Aired(weather, sun, 0),
                  [Plain(guest, hello) EXCEPT !.takeover = TRUE]}

(* Where the quiz is on, and where the party game is.                      *)
QuizCards == {Game(quiz, question), Bell, Aired(weather, sun, 1), Plain(tide, moon)}

PartyCards == {Game(party, round), Bell, Plain(tide, moon)}

MCCards == GameCards \cup RotationCards \cup QuizCards

MCRetryDelays == <<1>>

(* Bound: the line of a long evening.                                      *)
Short == Len(items) < 2

(* Time stands still while a post is out; on the other evenings it passes. *)
GamesNext ==
    \/ Short /\ \E c \in GameCards : Submit(c)
    \/ SubmitClose(match)
    \/ AcquireLock(party, FALSE) \/ ReleaseLock(party) \/ ReleaseHolds \/ LockExpires
    \/ Tick(FALSE) \/ PostAccepted
    \/ posting = None /\ TimePasses

(* Somebody skips once on such an evening.                                 *)
RotationNext ==
    \/ Short /\ \E c \in RotationCards : Submit(c)
    \/ \E skip \in BOOLEAN : Tick(skip)
    \/ PostAccepted
    \/ TimePasses

Evening(kind) == evening = kind /\ UNCHANGED evening

Spends == left > 0 /\ left' = left - 1

Skipping == Evening("rotation") /\ Spends /\ SkipToNext

Offering ==
    /\ Evening("few") /\ Spends
    /\ \E c \in Cards \cap (QuizCards \cup PartyCards) : Submit(c)

Few(A) == Evening("few") /\ A /\ UNCHANGED left

EveningsNext ==
    \/ Evening("games") /\ GamesNext /\ UNCHANGED left
    \/ Evening("rotation") /\ RotationNext /\ UNCHANGED left
    \/ Skipping \/ Offering
    \/ Few(LockExpires) \/ Few(Tick(FALSE)) \/ Few(TimePasses)
    \/ Few(PostAccepted) \/ Few(PostBusy) \/ Few(PostQuiet) \/ Few(PostFailed)

Fairness ==
    /\ WF_evenings(Few(Tick(FALSE))) /\ WF_evenings(Few(TimePasses))
    /\ WF_evenings(Few(Answer))
    /\ SF_evenings(Few(PostAccepted))

Begin(kinds) ==
    /\ Init /\ evening \in kinds
    /\ left = CASE evening = "few" -> Offers [] evening = "rotation" -> 1 [] OTHER -> 0

EveningsSpec ==
    Begin({"games", "rotation", "few"}) /\ [][EveningsNext]_evenings /\ Fairness

GamesSpec == Begin({"games"}) /\ [][EveningsNext]_evenings

RotationSpec == Begin({"rotation"}) /\ [][EveningsNext]_evenings

FewSpec == Begin({"few"}) /\ [][EveningsNext]_evenings /\ Fairness

-----------------------------------------------------------------------------

(* Once nobody offers anything more, the line runs empty.                  *)
FewDrain == evening = "few" => LineDrains

(* The board does not stay on an alert once its time is over.              *)
FewAlertsPass == evening = "few" => AlertPasses

=============================================================================
