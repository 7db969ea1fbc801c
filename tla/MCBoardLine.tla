---------------------------- MODULE MCBoardLine ----------------------------
(***************************************************************************)
(* The line of one board under every hand that touches it: offers, people  *)
(* at the simulator, failing posts and restarts.                           *)
(***************************************************************************)
EXTENDS BoardQueue

CONSTANTS none, story, alarm, page1, page2, bell, kitchen, hall, key

Rule(jump, hold, rank) ==
    [listed |-> rank > 0, jump |-> jump, immediate |-> jump, hold |-> hold,
     rank |-> rank, minutes |-> 2]

MCSources == {story, alarm}
MCLayouts == {page1, page2, bell}

MCPolicy == [s \in MCSources |->
    IF s = alarm THEN Rule(TRUE, FALSE, 1) ELSE Rule(FALSE, FALSE, 0)]

MCKeyOfSource == [s \in MCSources |-> IF s = alarm THEN key ELSE none]

MCLabelOf == [l \in MCLayouts |-> IF l = page2 THEN page1 ELSE l]

Plain(s, rows) ==
    [source |-> s, kind |-> "snapshot", live |-> TRUE, join |-> FALSE, rows |-> rows,
     reading |-> 1, hold |-> 0, device |-> none, boards |-> {}, exempt |-> FALSE,
     scheduler |-> FALSE, closing |-> FALSE, after |-> 0, clears |-> FALSE,
     takeover |-> FALSE, replaces |-> "nothing", phase |-> 0]

MCCards == {Plain(story, <<page1, page2>>),
            [Plain(alarm, <<bell>>) EXCEPT !.kind = "interrupt"]}

(* A page for one board of two, and an alarm for both.                     *)
AimedCards == {[Plain(story, <<page1>>) EXCEPT !.boards = {kitchen}],
               [Plain(alarm, <<bell>>) EXCEPT !.kind = "interrupt"]}

MCRetryDelays == <<1>>

VARIABLE trouble      \* what this house has to put up with, from the start

(* People at the simulator while pages are in flight, on a healthy wire.   *)
People ==
    \/ \E c \in Cards : Submit(c)
    \/ \E skip \in BOOLEAN : Tick(skip)
    \/ PostAccepted
    \/ SkipToNext \/ Reorder \/ TakeBoard(alarm) \/ Clear
    \/ \E i \in 1..MaxItems : Cancel(i)
    \/ TimePasses

(* A wire that fails, and a hub that stops and starts.                     *)
Wire ==
    \/ \E c \in Cards : Submit(c)
    \/ Tick(FALSE)
    \/ PostAccepted \/ PostBusy \/ PostQuiet \/ PostRefused \/ PostFailed
    \/ NewKey \/ SetQuiet \/ Restart \/ TimePasses

(* A board that refuses layouts, and nobody who cuts in.                   *)
Refusals ==
    \/ \E c \in Cards : c.source = story /\ Submit(c)
    \/ Tick(FALSE)
    \/ PostAccepted \/ PostRejected
    \/ TimePasses

LineNext ==
    /\ \/ trouble \in {"people", "everything"} /\ People
       \/ trouble = "everything" /\ PostRejected
       \/ trouble = "wire" /\ Wire
       \/ trouble = "refusals" /\ Refusals
    /\ UNCHANGED trouble

house == <<vars, trouble>>

LineInit == Init /\ trouble \in {"people", "wire", "refusals"}

PeopleInit == Init /\ trouble = "people"

RefusingInit == Init /\ trouble = "everything"

LineSpec == LineInit /\ [][LineNext]_house

PeopleSpec == PeopleInit /\ [][LineNext]_house

RefusingSpec == RefusingInit /\ [][LineNext]_house

=============================================================================
