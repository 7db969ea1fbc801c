---------------------------- MODULE PacedBoards ----------------------------
(***************************************************************************)
(* What the house queue promises the boards, with nothing of how it        *)
(* chooses: one post is out at a time, the flaps change by what it sent    *)
(* and nothing else, and unless a person hurries the queue a post does not *)
(* go out within the flaps' window of the last one a board took, a restart *)
(* included.  The queue implements this (BoardQueue!PacesTheBoards).       *)
(***************************************************************************)
EXTENDS Integers

CONSTANTS Layouts, Boards, Window, None

VARIABLES
    flaps,            \* what each board shows
    out,              \* the posts that are out: each a layout and its boards
    since,            \* age of the last post a board took, or Never
    remembered,       \* the same, as it is kept over a restart
    hurried           \* a person does not want to wait

paced == <<flaps, out, since, remembered, hurried>>

Never == -1

Posts == [sent : Layouts, boards : SUBSET Boards]

Init ==
    /\ flaps = [b \in Boards |-> None]
    /\ out = {}
    /\ since = Never /\ remembered = Never
    /\ hurried = FALSE

(* The boards of B take the layout of p.                                   *)
Flips(p, B) == flaps' = [b \in Boards |-> IF b \in B THEN p.sent ELSE flaps[b]]

Calms == hurried' => hurried

Send ==
    /\ out = {} /\ \E p \in Posts : out' = {p}
    /\ hurried \/ since \notin 0..(Window - 1)
    /\ Calms
    /\ UNCHANGED <<flaps, since, remembered>>

(* Some of its boards take the post, and no other.                         *)
Land ==
    /\ \E p \in Posts : /\ out = {p} /\ out' = {}
                        /\ \E B \in SUBSET p.boards : B # {} /\ Flips(p, B)
    /\ since' = 0 /\ remembered' = 0
    /\ Calms

(* Whatever went wrong, some boards may have taken it.                     *)
Lost == \E p \in Posts : out = {p} /\ \E B \in SUBSET p.boards : Flips(p, B)

Lose ==
    /\ Lost /\ out' = {}
    /\ Calms
    /\ UNCHANGED <<since, remembered>>

Crash ==
    /\ Lost \/ (out = {} /\ UNCHANGED flaps)
    /\ out' = {}
    /\ since' = remembered
    /\ hurried' = FALSE
    /\ UNCHANGED remembered

Hurry ==
    /\ since' = Never
    /\ hurried' \in BOOLEAN
    /\ UNCHANGED <<flaps, out, remembered>>

Calm == Calms /\ UNCHANGED <<flaps, out, since, remembered>>

Older(age) ==
    IF age = Never THEN Never ELSE IF age > Window THEN Window + 1 ELSE age + 1

Wait ==
    /\ since' = Older(since) /\ remembered' = Older(remembered)
    /\ UNCHANGED <<flaps, out, hurried>>

Next == Send \/ Land \/ Lose \/ Crash \/ Hurry \/ Calm \/ Wait

Spec == Init /\ [][Next]_paced

=============================================================================
