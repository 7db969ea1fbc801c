----------------------------- MODULE MCBoardHub ----------------------------
(***************************************************************************)
(* A house with two boards: a page for the house, one for one board only   *)
(* (which it cannot show, but the other could), and one that may wake      *)
(* people.  Boards sleep, lose their key, are tested and switched off.     *)
(***************************************************************************)
EXTENDS BoardHub

CONSTANTS hall, kitchen, news, recipe, alarm, identity,
          Moves,      \* bound: what people and the house do
          Offers,     \* bound: pages that are offered
          Good        \* the board that takes a page once in a while

MCBoardList == <<hall, kitchen>>

MCPages == {[rows |-> news, boards |-> {}, exempt |-> FALSE],
            [rows |-> recipe, boards |-> {kitchen}, exempt |-> FALSE],
            [rows |-> alarm, boards |-> {}, exempt |-> TRUE]}

MCUnshowable == [b \in Boards |-> IF b = hall THEN {alarm} ELSE {}]
AllShowable == [b \in Boards |-> {}]

VARIABLES
    moves,            \* moves left
    offers,           \* offers left
    seen              \* the page at the head has been on a board it is for

mchub == <<hub, moves, offers, seen>>

MCInit == Init /\ moves = Moves /\ offers = Offers /\ seen = FALSE

Watched == seen' = (line' # None /\ seen)

Offering ==
    /\ offers > 0 /\ offers' = offers - 1
    /\ \E page \in Pages : Offer(page)
    /\ seen' = FALSE
    /\ UNCHANGED moves

Moving ==
    /\ moves > 0 /\ moves' = moves - 1
    /\ \/ Tests \/ Changes
       \/ \E b \in Boards : FallAsleep(b) \/ WakeUp(b)
       \/ Post(TRUE)
    /\ Watched
    /\ UNCHANGED offers

Posting == Post(FALSE) /\ Watched /\ UNCHANGED <<moves, offers>>

Answering(b) ==
    /\ \/ BoardAnswers(b) /\ seen' = (seen \/ flaps'[b] = line.rows)
       \/ TestAnswers(b) /\ Watched
    /\ UNCHANGED <<moves, offers>>

Accepting == Answering(Good) /\ post # post' /\ post'.said[Good] = "ok"

Concluding == FanoutAnswers /\ Watched /\ UNCHANGED <<moves, offers>>

Passing == TimePasses /\ Watched /\ UNCHANGED <<moves, offers>>

MCNext == Offering \/ Moving \/ Posting \/ (\E b \in Boards : Answering(b)) \/ Concluding \/ Passing

(* The queue asks again, calls are answered, time goes on, and one board,  *)
(* asked again and again, takes a page once in a while.                    *)
MCSpec ==
    /\ MCInit /\ [][MCNext]_mchub
    /\ WF_mchub(Posting) /\ WF_mchub(Concluding) /\ WF_mchub(Passing)
    /\ \A b \in Boards : WF_mchub(Answering(b))
    /\ SF_mchub(Accepting)

-----------------------------------------------------------------------------

(* A page the queue takes for shown has been on a board it is for, since   *)
(* it was offered: not when every board slept, failed or was switched off. *)
ShownMeansShown == [][current' # current => seen]_mchub

(* One board that is busy, asleep, unreachable or off does not stall the   *)
(* house: while there is one that takes pages, a page for it does not wait *)
(* forever, unless a refused key has halted the queue.                     *)
LineMovesOn ==
    <>[](Good \in enabled \ (asleep \cup locked) /\ ~halted)
        => []<>(line = None \/ Good \notin BoardsFor(line))

(* Every board follows one line: when nothing waits any more, each board   *)
(* that can be reached shows the last page that was for it.                *)
SameEverywhere ==
    <>[](line = None /\ current # None
            => \A b \in BoardsFor(current) \ (asleep \cup locked) : flaps[b] = current.rows)

=============================================================================
