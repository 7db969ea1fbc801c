---------------------------- MODULE WordScramble ----------------------------
(***************************************************************************)
(* One grid of Word Scramble (games/modes/scramble.js): everybody finds    *)
(* words at once until the clock ends the round.  Pure operators on a      *)
(* round: how many words each seated player has found.                     *)
(***************************************************************************)
EXTENDS Integers

CONSTANT SubmitCap    \* SUBMIT_CAP

NewRound == [found |-> <<>>]

IsSeated(r, p) == p \in DOMAIN r.found

(* seat of each of the players.                                            *)
Seat(r, players) == [r EXCEPT !.found = [q \in players |-> 0]]

Then(r, what) == [round |-> r, then |-> what]

(* submit: a word nobody has to be waited for.                             *)
Plays(r, p) ==
    IF r.found[p] < SubmitCap THEN {Then([r EXCEPT !.found[p] = @ + 1], "stay")} ELSE {}

HasWinner(r) == \E p \in DOMAIN r.found : r.found[p] > 0

=============================================================================
