--------------------------- MODULE WheelOfFortune ---------------------------
(***************************************************************************)
(* One puzzle of Wheel of Fortune (games/modes/wheel.js): whose turn it is,*)
(* what the turn may do, and what a leaver or a clock that runs out does   *)
(* to it.  A puzzle is the number of its hidden consonants and vowels;     *)
(* a bank is whether it pays for a vowel.  Pure operators on a round,      *)
(* whose age the session keeps (startedAt).                                *)
(***************************************************************************)
EXTENDS Lines

CONSTANTS
    Nobody,           \* currentPlayerId ''
    Consonants,       \* hidden consonants of a fresh puzzle
    Vowels,           \* hidden vowels of a fresh puzzle
    MaxFreeSpins      \* bound: free spins a player can hold

NewRound == [order |-> <<>>, turn |-> Nobody, step |-> "spin",
             free |-> <<>>, funds |-> {}, seated |-> {},
             consonants |-> Consonants, vowels |-> Vowels]

IsSeated(r, p) == p \in r.seated

(* seat of each of the players, in the order they joined.                  *)
Seat(r, players) ==
    [r EXCEPT !.order = players, !.seated = Members(players),
              !.free = [q \in Members(players) |-> 0]]

Begin(r) ==
    [r EXCEPT !.turn = IF r.order = <<>> THEN Nobody ELSE r.order[1], !.step = "spin"]

(* order[(here + 1) % order.length], where somebody not in it counts first.*)
After(order, p) ==
    LET here == {i \in DOMAIN order : order[i] = p}
        i == IF here = {} THEN 1 ELSE CHOOSE j \in here : TRUE
    IN order[(i % Len(order)) + 1]

PassTurn(r) ==
    [r EXCEPT !.turn = IF r.order = <<>> THEN Nobody ELSE After(r.order, r.turn),
              !.step = "spin"]

HasFreeSpin(r, p) == IsSeated(r, p) /\ r.free[p] > 0

(* A free spin saves the turn.                                             *)
LoseTurn(r, p) ==
    IF HasFreeSpin(r, p) THEN [r EXCEPT !.free[p] = @ - 1, !.step = "spin"] ELSE PassTurn(r)

Then(r, what) == [round |-> r, then |-> what]

Refresh(r) == Then(r, "refresh")

Bankrupt(r, p) ==
    PassTurn([r EXCEPT !.funds = @ \ {p}, !.free[p] = 0])

Spins(r, p) ==
    IF r.step = "guess" THEN {}
    ELSE {Refresh(Bankrupt(r, p)),
          Refresh(LoseTurn(r, p)),
          Refresh([r EXCEPT !.step = "guess"])}
         \cup (IF r.free[p] < MaxFreeSpins
               THEN {Refresh([r EXCEPT !.free[p] = @ + 1, !.step = "spin"])} ELSE {})

(* A letter that turned over: the puzzle is done, or the run goes on.      *)
Turned(r) ==
    IF r.consonants + r.vowels = 0 THEN Then([r EXCEPT !.step = "solved"], "finish")
    ELSE Refresh([r EXCEPT !.step = "play"])

Guesses(r, p) ==
    IF r.step # "guess" THEN {}
    ELSE {Refresh(LoseTurn(r, p))}
         \cup (IF r.consonants = 0 THEN {}
               ELSE {Turned([r EXCEPT !.consonants = @ - 1, !.funds = @ \cup {p}])})

(* What is left of the bank may or may not pay for another vowel.          *)
BuysVowel(r, p) ==
    IF r.step # "play" \/ p \notin r.funds THEN {}
    ELSE UNION {{Refresh(LoseTurn([r EXCEPT !.funds = f], p))}
                \cup (IF r.vowels = 0 THEN {}
                      ELSE {Turned([r EXCEPT !.vowels = @ - 1, !.funds = f])})
                : f \in {r.funds, r.funds \ {p}}}

Solves(r, p) ==
    {Refresh(LoseTurn(r, p)),
     Then([r EXCEPT !.consonants = 0, !.vowels = 0, !.step = "solved"], "finish")}

(* submit: everything player p can make of the round r.                    *)
Plays(r, p) ==
    IF r.step = "solved" \/ r.turn # p THEN {}
    ELSE Spins(r, p) \cup Guesses(r, p) \cup BuysVowel(r, p) \cup Solves(r, p)

(* onRoundTimeout: a turn has run out, or the whole puzzle has its time    *)
(* spent.                                                                  *)
Timeout(r, spent) ==
    IF r.step = "solved" \/ spent THEN Then(r, "finish")
    ELSE Then(IF r.turn = Nobody THEN r ELSE LoseTurn(r, r.turn), "continue")

(* Slip: whoever leaves, the turn is not passed on.                        *)
LeaveKeepsTurn(r, p) ==
    Then([r EXCEPT !.order = Dismiss(@, p),
                   !.seated = @ \ {p}, !.funds = @ \ {p},
                   !.free = [q \in r.seated \ {p} |-> r.free[q]]], "stay")

(* onLeave: the turn of a leaver goes to whoever moves up into the place.  *)
Leave(r, p) ==
    LET order == Dismiss(r.order, p)
        here == {i \in DOMAIN r.order : r.order[i] = p}
        left == [r EXCEPT !.order = order, !.seated = @ \ {p}, !.funds = @ \ {p},
                          !.free = [q \in r.seated \ {p} |-> r.free[q]]]
    IN IF r.turn # p \/ order = <<>> THEN Then(left, "stay")
       ELSE LET i == IF here = {} THEN 1 ELSE CHOOSE j \in here : TRUE
            IN Refresh([left EXCEPT !.turn = order[((i - 1) % Len(order)) + 1],
                                    !.step = "spin"])

(* closeRound: a round somebody solved gives the night its best win.       *)
HasWinner(r) == r.step = "solved"

=============================================================================
