------------------------------ MODULE MCDisplay -----------------------------
(***************************************************************************)
(* The scheduler of a small house: news that airs whenever it can, a quiz  *)
(* at fixed times, a card for the kitchen board with its clean-up, and     *)
(* people who edit, push, pause and restart, a bounded number of times.    *)
(***************************************************************************)
EXTENDS DisplayScheduler

CONSTANTS news, quiz, card,
          Moves,          \* bound: what people, the house and bad luck do
          MaxRules        \* bound: rules there are at a time

Cadence(board, importance) ==
    [board |-> board, closing |-> board, fixed |-> FALSE, exempt |-> FALSE, windowed |-> board,
     interval |-> 2, planned |-> 1, hold |-> 0, importance |-> importance,
     cap |-> IF board THEN 1 ELSE 0, cooldown |-> 0,
     dice |-> IF board THEN BOOLEAN ELSE {TRUE}]

MCTerms == [r \in Rules |->
    CASE r = news -> Cadence(FALSE, 5)
      [] r = card -> Cadence(TRUE, 3)
      [] OTHER -> [board |-> FALSE, closing |-> FALSE, fixed |-> TRUE, exempt |-> TRUE,
                   windowed |-> FALSE, interval |-> 4, planned |-> 1, hold |-> 1,
                   importance |-> 5, cap |-> 0, cooldown |-> 0, dice |-> {TRUE}]]

MCFiles == {<<news, card>>, <<quiz, news>>}

VARIABLES
    moves,            \* moves left
    rest,             \* how long each rule must be left to rest
    hush,             \* how long the display must be left alone
    human             \* the page on the display is somebody's push

mcvars == <<scheduler, moves, rest, hush, human>>

MCInit ==
    /\ Init
    /\ moves = Moves
    /\ rest = [r \in Rules |-> 0]
    /\ hush = GlobalGap
    /\ human = FALSE

(* The tick decides on r.                                                  *)
Asks(r) == tick.air = None /\ tick'.air # None /\ tick'.air.rule = r

InFlight(r) == \E w \in Waiters : AirOf(w) # None /\ AirOf(w).rule = r

DisplayInFlight == \E r \in Rules : ~Board(r) /\ InFlight(r)

Ends(r) == Terms[r].planned - tick'.air.late

Spoils(r) == rest' = [rest EXCEPT ![r] = 0]

Ticks ==
    /\ TickRuns
    /\ rest' = [r \in Rules |-> IF ~Asks(r) THEN rest[r]
                               ELSE IF tick'.air.lost THEN 0
                               ELSE IF Terms[r].fixed THEN rule[r].slot
                               ELSE AtLeast0(Ends(r) + Terms[r].interval)]
    /\ hush' = IF \E r \in Rules : ~Board(r) /\ Asks(r)
               THEN LET r == tick'.air.rule IN AtLeast0(Ends(r) + GlobalGap)
               ELSE hush
    /\ UNCHANGED <<moves, human>>

Airs(w) ==
    /\ AirSends(w) \/ AirAnswers(w) \/ AirCleansUp(w) \/ AirCloses(w)
    /\ human' = (human /\ page' = page)
    /\ LET a == AirOf(w)
           booked == AirOf(w)' = None
       IN /\ rest' = IF booked /\ w = "airNow" THEN [rest EXCEPT ![a.rule] = 0] ELSE rest
          /\ hush' = IF booked /\ ~Board(a.rule)
                     THEN AtLeast0(Terms[a.rule].planned - a.late + GlobalGap) ELSE hush
    /\ UNCHANGED moves

Airing == \E w \in Waiters : Airs(w)

Passing ==
    /\ TimePasses
    /\ rest' = [r \in Rules |-> AtLeast0(rest[r] - 1)]
    /\ hush' = AtLeast0(hush - 1)
    /\ human' = (human /\ page' # None)
    /\ UNCHANGED moves

Failing(w) ==
    /\ AirFails(w)
    /\ Spoils(AirOf(w).rule)
    /\ hush' = IF Board(AirOf(w).rule) THEN hush ELSE 0
    /\ UNCHANGED human

Touching(r) ==
    /\ \/ PressAirNow(r) \/ Reset(r) \/ Remove(r)
       \/ Len(listed) < MaxRules /\ \E slot \in Slots(r) : Add(r, slot)
       \/ \E on \in BOOLEAN : Edit(r, on)
    /\ Spoils(r)
    /\ UNCHANGED <<hush, human>>

Pushing ==
    \/ /\ \E p \in Pages \cup {page} : ManualPush(p)
       /\ hush' = GlobalGap
       /\ human' = (page' # page /\ ~DisplayInFlight)
       /\ UNCHANGED rest
    \/ /\ \E p \in Pages \cup {None} : OthersShow(p)
       /\ human' = FALSE
       /\ UNCHANGED <<rest, hush>>

Pausing ==
    /\ Pause \/ Resume
    /\ hush' = Lesser(hush, GlobalGap)
    /\ UNCHANGED <<rest, human>>

Turning ==
    /\ \/ Midnight
       \/ \E e \in [quiet : BOOLEAN, inside : BOOLEAN] : e # env /\ EnvChanges(e)
    /\ UNCHANGED <<rest, hush, human>>

Restarting ==
    /\ Restart
    /\ rest' = [r \in Rules |-> IF InFlight(r) THEN 0 ELSE rest[r]]
    /\ hush' = GlobalGap
    /\ human' = FALSE

Moving ==
    /\ moves > 0 /\ moves' = moves - 1
    /\ \/ \E w \in Waiters : Failing(w)
       \/ \E r \in Rules : Touching(r)
       \/ Pushing \/ Pausing \/ Turning \/ Restarting

MCNext == Ticks \/ Airing \/ Passing \/ Moving

(* The timer rings, the program answers, and air() answers in the end.     *)
MCSpec ==
    /\ MCInit /\ [][MCNext]_mcvars
    /\ WF_mcvars(Ticks) /\ WF_mcvars(Passing)
    /\ \A w \in Waiters : WF_mcvars(Airs(w))

-----------------------------------------------------------------------------

(* A rule that has aired is left to rest: the tick does not take it again  *)
(* before a whole interval after the end of its page (a fixed rule: before *)
(* its next slot), unless somebody touched the rule or its airing failed.  *)
NoEncore == [][\A r \in Rules : Asks(r) => rest[r] = 0]_mcvars

(* The display is left alone for the global gap: no rule of the cadence is *)
(* put on it while a page is up, nor within the gap after the end of one   *)
(* of the scheduler's, after a push, a pause or the start of the process.  *)
GapKept ==
    [][\A r \in Rules : Asks(r) /\ ~Board(r) /\ ~Terms[r].fixed => hush = 0 /\ ~IsBusy]_mcvars

(* Nothing is aired over what a human has put on the display, not even by  *)
(* a rule with a fixed time, if no airing was on its way when it was put   *)
(* there.                                                                  *)
HumanPageStays == [][\A r \in Rules : Asks(r) /\ ~Board(r) => ~human]_mcvars

Willing(r) ==
    /\ r \in Listed /\ rule[r].enabled /\ active
    /\ ~env.quiet /\ env.inside
    /\ ~AtDailyCap(r)

(* A rule that is on, and that no dice, cap or window holds back, airs     *)
(* again and again.                                                        *)
AirsAgain ==
    \A r \in Rules : Terms[r].dice = {TRUE} =>
        (<>[]Willing(r) => []<>(tick.air # None /\ tick.air.rule = r))

=============================================================================
