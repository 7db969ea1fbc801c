------------------------------ MODULE Hangman ------------------------------
(***************************************************************************)
(* One word of Hangman (games/modes/hangman.js): with company one player   *)
(* sets the word and sits out, the others guess in turn and share the      *)
(* lives.  A word is the number of its hidden letters.  Pure operators on  *)
(* a round, whose age the session keeps (startedAt).                       *)
(***************************************************************************)
EXTENDS Lines

CONSTANTS
    Nobody,           \* currentPlayerId and setterId ''
    Letters,          \* hidden letters of a fresh word
    Lives,            \* LIVES
    WordSetter        \* settings.wordSetter

(* createRound: the setter's seat moves on with the rounds.  present are   *)
(* the seated players in the order they joined.                            *)
NewRound(present, index) ==
    LET setter == IF WordSetter /\ Len(present) >= 2
                  THEN present[((index - 1) % Len(present)) + 1] ELSE Nobody
    IN [setter |-> setter, order |-> <<>>, seated |-> {}, turn |-> Nobody,
        step |-> IF setter = Nobody THEN "guess" ELSE "pick",
        misses |-> 0, letters |-> Letters, solved |-> FALSE]

IsSeated(r, p) == p \in r.seated

(* seat of each of the players: the setter sits out.                       *)
Seat(r, players) ==
    [r EXCEPT !.seated = Members(players), !.order = Dismiss(players, r.setter)]

First(order) == IF order = <<>> THEN Nobody ELSE order[1]

Begin(r) == [r EXCEPT !.turn = First(r.order)]

After(order, p) ==
    LET here == {i \in DOMAIN order : order[i] = p}
        i == IF here = {} THEN 1 ELSE CHOOSE j \in here : TRUE
    IN order[(i % Len(order)) + 1]

PassTurn(r) ==
    [r EXCEPT !.turn = IF r.order = <<>> THEN Nobody ELSE After(r.order, r.turn)]

Then(r, what) == [round |-> r, then |-> what]

Done(r, solved) == Then([r EXCEPT !.step = "done", !.solved = solved], "finish")

(* A miss costs a life and the turn, the last life the word.               *)
Miss(r) ==
    LET hurt == [r EXCEPT !.misses = @ + 1]
    IN IF hurt.misses >= Lives THEN Done(hurt, FALSE) ELSE Then(PassTurn(hurt), "refresh")

Hit(r) ==
    LET shown == [r EXCEPT !.letters = @ - 1]
    IN IF shown.letters = 0 THEN Done(shown, TRUE) ELSE Then(shown, "refresh")

Sets(r, p) ==
    IF r.step = "pick" /\ r.setter = p
    THEN {Then([r EXCEPT !.step = "guess", !.turn = First(r.order)], "refresh")} ELSE {}

Guesses(r, p) ==
    IF r.step # "guess" \/ r.setter = p \/ r.turn # p THEN {}
    ELSE {Hit(r), Miss(r), Done([r EXCEPT !.letters = 0], TRUE)}

(* submit: everything player p can make of the round r.                    *)
Plays(r, p) == Sets(r, p) \cup Guesses(r, p)

(* onRoundTimeout: the house deals for a setter who does not, a guesser    *)
(* loses the turn unless there is nobody to hand it to.                    *)
Timeout(r, spent) ==
    IF r.step = "done" \/ spent THEN Then(r, "finish")
    ELSE Then(IF r.step = "pick" THEN [r EXCEPT !.step = "guess", !.turn = First(r.order)]
              ELSE IF Len(r.order) <= 1 THEN r
              ELSE PassTurn(r), "continue")

(* onLeave.                                                                *)
Leave(r, p) ==
    LET order == Dismiss(r.order, p)
        here == {i \in DOMAIN r.order : r.order[i] = p}
        left == [r EXCEPT !.order = order, !.seated = @ \ {p}]
    IN IF r.setter = p /\ r.step = "pick"
       THEN Then([left EXCEPT !.step = "guess", !.setter = Nobody, !.turn = First(order)],
                 "refresh")
       ELSE IF r.turn # p \/ order = <<>> THEN Then(left, "stay")
       ELSE LET i == IF here = {} THEN 1 ELSE CHOOSE j \in here : TRUE
            IN Then([left EXCEPT !.turn = order[((i - 1) % Len(order)) + 1]], "refresh")

(* closeRound: a word that was guessed can be the best one of the night.   *)
HasWinner(r) == r.solved

=============================================================================
