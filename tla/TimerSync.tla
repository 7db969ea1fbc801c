----------------------------- MODULE TimerSync -----------------------------
(***************************************************************************)
(* Amazon's timers followed by polling (timer-sync.js).  The endpoint is   *)
(* asked on a timer of its own, when a timer should have fired, and on     *)
(* every hint that something has changed; one poll at a time.  The answer  *)
(* is compared with the mirror, which is kept on disk, and what has        *)
(* changed is announced to the displays.                                   *)
(*                                                                         *)
(* The cloud is external: people set, pause, cancel and silence timers     *)
(* there, the endpoint may be behind it (told), and its answers may leave  *)
(* out for a while what it has listed (holes).  An answer is what the      *)
(* endpoint lists when it comes.  Every timer has a duration, so all that  *)
(* is listed as on, or as paused, is active.                               *)
(***************************************************************************)
EXTENDS Integers, FiniteSets

CONSTANTS
    Timers,           \* the ids timers can get; an id is used once
    Durations,        \* how long a timer can be set for
    Slack,            \* fireVerifySlackMs
    Preserve,         \* preserveMissingMs
    PollEvery,        \* pollIntervalMs
    NearPollEvery,    \* nearFirePollIntervalMs
    NearWindow,       \* nearFireWindowMs
    FollowUp,         \* how long a voice hint is followed up by polls
    None

ASSUME TimersAssumption ==
    /\ IsFiniteSet(Timers) /\ None \notin Timers
    /\ Durations \subseteq Nat \ {0}
    /\ {Slack, Preserve, NearWindow, FollowUp} \subseteq Nat
    /\ {PollEvery, NearPollEvery} \subseteq Nat \ {0}

Statuses == {"ON", "PAUSED"}

Spoken == {"show", "set", "cancel"}

(* Why a poll is made: "plain" is anything no person has just asked for.   *)
(* What a person asked for is followed up, under the same name.            *)
Now(k) == [asked |-> k, followup |-> FALSE]
Later(k) == [asked |-> k, followup |-> TRUE]
Plain == Now("plain")
Triggers == {Plain} \cup {Now(k) : k \in Spoken} \cup {Later(k) : k \in Spoken}

VARIABLES
    cloud,            \* Amazon's timers
    unused,           \* the ids no timer has had
    told,             \* what the endpoint knows they are
    holes,            \* the ids its answers leave out for now
    mirror,           \* mirror.timers, in memory and on disk
    wake,             \* until the wake timer of each timer
    pace,             \* the interval of the poll loop
    next,             \* until the loop polls again
    polling,          \* the trigger of the poll in flight
    again,            \* immediatePollRequested
    retry,            \* an immediate-retry is on its way
    follow,           \* how long each hint is still followed up
    said              \* what the last step has sent to the displays

amazon == <<cloud, unused, told, holes>>
timers == <<amazon, mirror, wake, pace, next, polling, again, retry, follow, said>>

Silent == [kind |-> "nothing", timer |-> None]

Said(kind, t) == [kind |-> kind, timer |-> t]

Notices == {"fired", "started", "cancelled", "paused", "resumed"}

(* remaining is remainingSec, as of updatedAt; fireIn is fireAt - now and  *)
(* age now - updatedAt.                                                    *)
MirrorType ==
    [status : Statuses, remaining : Nat, fireIn : Int, age : 0..Preserve + 1]

(* One of Amazon's timers.                                                 *)
TimerType == [status : Statuses, left : Nat]

ASSUME NoTimerAssumption == None \notin TimerType \cup MirrorType \cup Triggers

TimersTypeOK ==
    /\ \A list \in {cloud, told} : list \in [Timers -> TimerType \cup {None}]
    /\ unused \subseteq Timers /\ holes \subseteq Timers
    /\ mirror \in [Timers -> MirrorType \cup {None}]
    /\ wake \in [Timers -> Nat \cup {None}]
    /\ pace \in {PollEvery, NearPollEvery} /\ next \in 0..pace
    /\ polling \in Triggers \cup {None}
    /\ {again, retry} \subseteq BOOLEAN
    /\ follow \in [Spoken -> 0..FollowUp]
    /\ said = Silent \/ said \in [kind : Notices \cup {"list"}, timer : Timers \cup {None}]
    /\ again => polling # None \/ retry
    /\ \A t \in Timers : wake[t] # None => mirror[t] # None

Active(list) == {t \in Timers : list[t] # None}

-----------------------------------------------------------------------------
(* Amazon.                                                                 *)

Quiet == UNCHANGED <<mirror, wake, pace, next, polling, again, retry, follow>> /\ said' = Silent

SetTimer(t, d) ==
    /\ t \in unused
    /\ unused' = unused \ {t}
    /\ cloud' = [cloud EXCEPT ![t] = [status |-> "ON", left |-> d]]
    /\ UNCHANGED <<told, holes>> /\ Quiet

PauseTimer(t) ==
    /\ cloud[t] # None /\ cloud[t].status = "ON" /\ cloud[t].left > 0
    /\ cloud' = [cloud EXCEPT ![t].status = "PAUSED"]
    /\ UNCHANGED <<unused, told, holes>> /\ Quiet

ResumeTimer(t) ==
    /\ cloud[t] # None /\ cloud[t].status = "PAUSED"
    /\ cloud' = [cloud EXCEPT ![t].status = "ON"]
    /\ UNCHANGED <<unused, told, holes>> /\ Quiet

(* Somebody cancels a timer, or silences one that rings.                   *)
EndTimer(t) ==
    /\ cloud[t] # None
    /\ cloud' = [cloud EXCEPT ![t] = None]
    /\ UNCHANGED <<unused, told, holes>> /\ Quiet

(* The endpoint catches up with a timer.                                   *)
Publish(t) ==
    /\ told[t] # cloud[t]
    /\ told' = [told EXCEPT ![t] = cloud[t]]
    /\ UNCHANGED <<cloud, unused, holes>> /\ Quiet

(* A timer it has listed is missing from its answers, and comes back.      *)
Skips(t) ==
    /\ told[t] # None
    /\ holes' = holes \cup {t}
    /\ UNCHANGED <<cloud, unused, told>> /\ Quiet

Recalls(t) ==
    /\ t \in holes
    /\ holes' = holes \ {t}
    /\ UNCHANGED <<cloud, unused, told>> /\ Quiet

-----------------------------------------------------------------------------
(* Polls.                                                                  *)

(* pollNotifications: one that comes while another is in flight is         *)
(* remembered, but not what it was for.                                    *)
PollFor(trigger) ==
    IF polling # None THEN again' = TRUE /\ UNCHANGED polling
    ELSE polling' = trigger /\ again' = FALSE

LoopPolls ==
    /\ next = 0
    /\ next' = pace
    /\ PollFor(Plain)
    /\ said' = Silent
    /\ UNCHANGED <<amazon, mirror, wake, pace, retry, follow>>

WakePolls(t) ==
    /\ wake[t] = 0
    /\ wake' = [wake EXCEPT ![t] = None]
    /\ PollFor(Plain)
    /\ said' = Silent
    /\ UNCHANGED <<amazon, mirror, pace, next, retry, follow>>

RetryPolls ==
    /\ retry
    /\ retry' = FALSE
    /\ PollFor(Plain)
    /\ said' = Silent
    /\ UNCHANGED <<amazon, mirror, wake, pace, next, follow>>

FollowUpPolls(k) ==
    /\ follow[k] > 0
    /\ PollFor(Later(k))
    /\ said' = Silent
    /\ UNCHANGED <<amazon, mirror, wake, pace, next, retry, follow>>

(* requestImmediatePoll: a voice hint, or the Timers tile.                 *)
Hint(k) ==
    /\ PollFor(Now(k))
    /\ follow' = [follow EXCEPT ![k] = FollowUp]
    /\ said' = Silent
    /\ UNCHANGED <<amazon, mirror, wake, pace, next, retry>>

(* ws-notification-change.                                                 *)
NotificationChange ==
    /\ PollFor(Plain)
    /\ said' = Silent
    /\ UNCHANGED <<amazon, mirror, wake, pace, next, retry, follow>>

-----------------------------------------------------------------------------
(* The answer of a poll: applySnapshot.                                    *)

(* Slip: a timer that rings, or is paused, is not listed as active.        *)
ListedRunning == [t \in Timers |->
    IF told[t] = None \/ t \in holes \/ told[t].status = "PAUSED" \/ told[t].left = 0 THEN None
    ELSE [status |-> told[t].status, remaining |-> told[t].left, fireIn |-> told[t].left, age |-> 0]]

(* normalizeTimerNotification of what is listed and active.                *)
Listed == [t \in Timers |->
    IF told[t] = None \/ t \in holes THEN None
    ELSE [status |-> told[t].status, remaining |-> told[t].left, fireIn |-> told[t].left, age |-> 0]]

(* diffTimerSnapshots: what has become of each timer.                      *)
Gone == Active(mirror) \ Active(Listed)
Fired == {t \in Gone : mirror[t].fireIn \in -Slack..Slack}
Cancelled == {t \in Gone : mirror[t].fireIn > Slack}
Removed == {t \in Gone : mirror[t].fireIn < -Slack}
Started == Active(Listed) \ Active(mirror)

Turned(from, to) ==
    {t \in Active(Listed) \cap Active(mirror) :
        mirror[t].status \in from /\ Listed[t].status = to /\ mirror[t].status # to}

Events ==
    {Said("fired", t) : t \in Fired} \cup {Said("started", t) : t \in Started}
    \cup {Said("cancelled", t) : t \in Cancelled}
    \cup {Said("paused", t) : t \in Turned(Statuses, "PAUSED")}
    \cup {Said("resumed", t) : t \in Turned({"PAUSED"}, "ON")}

(* mergeTimerMaps: a timer that is missing before its time is kept.        *)
Kept(t) ==
    /\ t \in Gone
    /\ mirror[t].fireIn > 0
    /\ mirror[t].age <= Preserve

Merged == [t \in Timers |->
    IF Kept(t) THEN [mirror[t] EXCEPT !.remaining = mirror[t].fireIn, !.age = 0] ELSE Listed[t]]

(* A removal, or a person who cancels, is believed at once.                *)
MirrorAfter(trigger) ==
    IF Cancelled \cup Removed # {} \/ trigger.asked = "cancel" THEN Listed ELSE Merged

(* pickPrimaryTimerEvent: the first of the most important kind; a person   *)
(* is told what has started, or shown the list.                            *)
Primary(trigger) ==
    LET order == IF trigger = Plain THEN <<"fired", "started", "cancelled", "paused", "resumed">>
                 ELSE IF trigger.asked = "cancel" THEN <<"cancelled", "started">>
                 ELSE <<"started">>
        found == {i \in DOMAIN order : \E e \in Events : e.kind = order[i]}
    IN IF found = {} THEN {Said("list", None)}
       ELSE {e \in Events : e.kind = order[CHOOSE i \in found : \A j \in found : i <= j]}

(* Whether anything is sent.  A follow-up stays silent when nothing has    *)
(* changed; an empty list is only shown to who asks for it, or when it has *)
(* just become empty.                                                      *)
Speaks(trigger, after) ==
    LET changed == Cardinality(Active(after)) # Cardinality(Active(mirror))
        lost == Cardinality(Active(after)) < Cardinality(Active(mirror))
    IN /\ Events # {} \/ trigger \in {Now(k) : k \in Spoken} \/ changed
       /\ \/ Active(after) # {} \/ lost \/ trigger = Now("show")
          \/ Fired \cup Cancelled # {}

WakesFor(list) == [t \in Timers |->
    IF list[t] = None THEN None ELSE IF list[t].remaining = 0 THEN 1 ELSE list[t].remaining]

PollAnswers ==
    /\ polling # None
    /\ LET after == MirrorAfter(polling)
       IN /\ mirror' = after
          /\ wake' = WakesFor(after)
          /\ IF Speaks(polling, after) THEN said' \in Primary(polling) ELSE said' = Silent
    /\ polling' = IF again THEN Plain ELSE None
    /\ again' = FALSE
    /\ UNCHANGED <<amazon, pace, next, retry, follow>>

(* Slip: a poll that fails is not made again.                              *)
PollFailsUnretried ==
    /\ polling # None
    /\ polling' = None
    /\ said' = Silent
    /\ UNCHANGED <<amazon, mirror, wake, pace, next, again, retry, follow>>

PollFails ==
    /\ polling # None
    /\ polling' = None
    /\ retry' = (retry \/ again)
    /\ said' = Silent
    /\ UNCHANGED <<amazon, mirror, wake, pace, next, again, follow>>

-----------------------------------------------------------------------------

(* getPollIntervalMs, which is only asked when the loop is started.        *)
PaceOf(list) ==
    IF \E t \in Active(list) : list[t].remaining <= NearWindow THEN NearPollEvery ELSE PollEvery

(* loadMirror of a file that is missing, or cannot be read.                *)
Blank == [t \in Timers |-> None]

(* Slip: the process does not read its mirror.                             *)
RestartBlank ==
    /\ mirror' = Blank /\ wake' = Blank
    /\ pace' = PollEvery /\ next' = pace'
    /\ polling' = Plain /\ again' = FALSE /\ retry' = FALSE
    /\ follow' = [k \in Spoken |-> 0]
    /\ said' = Silent
    /\ UNCHANGED amazon

(* What the disk may hold when the process stops: the mirror; and if it    *)
(* stops over the answer of a poll, the new one before anything is         *)
(* announced, or half of it, which is no mirror at all.                    *)
OnDisk == {mirror} \cup (IF polling = None THEN {} ELSE {MirrorAfter(polling), Blank})

(* The process comes back with the mirror of the disk, and polls at once.  *)
Restart ==
    /\ mirror' \in OnDisk
    /\ wake' = WakesFor(mirror')
    /\ pace' = PaceOf(mirror') /\ next' = pace'
    /\ polling' = Plain /\ again' = FALSE /\ retry' = FALSE
    /\ follow' = [k \in Spoken |-> 0]
    /\ said' = Silent
    /\ UNCHANGED amazon

Down(n) == IF n > 0 THEN n - 1 ELSE 0

Elapsed(list) == [t \in Timers |->
    IF list[t] = None \/ list[t].status = "PAUSED" THEN list[t]
    ELSE [list[t] EXCEPT !.left = Down(@)]]

(* Timers of the process are punctual.                                     *)
TimePasses ==
    /\ next > 0 /\ \A t \in Timers : wake[t] # 0
    /\ cloud' = Elapsed(cloud) /\ told' = Elapsed(told)
    /\ mirror' = [t \in Timers |->
           IF mirror[t] = None THEN None
           ELSE [mirror[t] EXCEPT !.fireIn = IF @ >= -Slack THEN @ - 1 ELSE @,
                                  !.age = IF @ <= Preserve THEN @ + 1 ELSE @]]
    /\ wake' = [t \in Timers |-> IF wake[t] = None THEN None ELSE wake[t] - 1]
    /\ next' = next - 1
    /\ follow' = [k \in Spoken |-> Down(follow[k])]
    /\ said' = Silent
    /\ UNCHANGED <<unused, holes, pace, polling, again, retry>>

(* An empty house; the process polls as it starts.                         *)
Init ==
    /\ cloud = [t \in Timers |-> None] /\ told = cloud
    /\ unused = Timers /\ holes = {}
    /\ mirror = Blank /\ wake = Blank
    /\ pace = PollEvery /\ next = PollEvery
    /\ polling = Plain /\ again = FALSE /\ retry = FALSE
    /\ follow = [k \in Spoken |-> 0]
    /\ said = Silent

-----------------------------------------------------------------------------

People ==
    \E t \in Timers : PauseTimer(t) \/ ResumeTimer(t) \/ EndTimer(t) \/ \E d \in Durations : SetTimer(t, d)

Polls ==
    \/ LoopPolls \/ RetryPolls
    \/ \E t \in Timers : WakePolls(t)
    \/ \E k \in Spoken : FollowUpPolls(k)

Hints == NotificationChange \/ \E k \in Spoken : Hint(k)

Endpoint == \E t \in Timers : Publish(t) \/ Skips(t) \/ Recalls(t)

Next ==
    \/ People \/ Endpoint
    \/ Polls \/ Hints \/ PollAnswers \/ PollFails \/ Restart \/ TimePasses

Spec == Init /\ [][Next]_timers

-----------------------------------------------------------------------------

(* What is announced to be over is over, or was left out of the answer: no *)
(* timer is called fired or cancelled that the answer lists, or that runs, *)
(* is paused or rings at Amazon and is only missing because the endpoint   *)
(* is late with it, a poll has failed or the process was restarted.  A     *)
(* timer that is left out is called over at once (diffTimerSnapshots);     *)
(* the merge which is to bridge that comes too late for the announcement.  *)
OverUnlessLeftOut ==
    [][said'.kind \in {"fired", "cancelled"}
       => cloud[said'.timer] = None \/ said'.timer \in holes]_timers

=============================================================================
