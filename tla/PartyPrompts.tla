---------------------------- MODULE PartyPrompts ----------------------------
(***************************************************************************)
(* One prompt of Party Prompts (games/modes/prompts.js): everyone writes   *)
(* an answer, then everyone votes for somebody else's.  Pure operators on  *)
(* a round: who has written, and who votes for whom.                       *)
(***************************************************************************)
EXTENDS Integers, FiniteSets

CONSTANT Nobody       \* no vote yet

NewRound == [seated |-> {}, written |-> {}, votes |-> <<>>]

IsSeated(r, p) == p \in r.seated

(* seat of each of the players.                                            *)
Seat(r, players) == [r EXCEPT !.seated = players]

(* votes is the Map from voter to the writer voted for.                    *)
Voters(r) == DOMAIN r.votes

AllAnswered(r) == r.seated # {} /\ r.written = r.seated

Then(r, what) == [round |-> r, then |-> what]

Answers(r, p) ==
    IF p \in r.written THEN {}
    ELSE LET more == [r EXCEPT !.written = @ \cup {p}]
         IN {Then(more, IF AllAnswered(more) THEN "advance" ELSE "stay")}

Votes(r, p) ==
    {Then([r EXCEPT !.votes = [q \in Voters(r) \cup {p} |-> IF q = p THEN w ELSE r.votes[q]]],
          "stay") : w \in r.written \ {p}}

(* submit, in the writing half and in the voting half of the round.        *)
Plays(r, p, phase) == IF phase = "round" THEN Answers(r, p) ELSE Votes(r, p)

(* Slip: the last holdout's leaving is not noticed.                        *)
LeaveUnnoticed(r, p) ==
    Then([r EXCEPT !.seated = @ \ {p}, !.written = @ \ {p}], "stay")

(* onLeave: the last holdout's leaving ends the writing.                   *)
Leave(r, p) ==
    LET left == [seated |-> r.seated \ {p}, written |-> r.written \ {p},
                 votes |-> [q \in Voters(r) \ {p} |-> r.votes[q]]]
    IN Then(left, IF AllAnswered(left) THEN "advance" ELSE "stay")

CanVote(r) == Cardinality(r.written) >= 2

HasWinner(r) == \E q \in Voters(r) : r.votes[q] \in r.written

=============================================================================
