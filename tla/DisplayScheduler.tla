-------------------------- MODULE DisplayScheduler --------------------------
(***************************************************************************)
(* The lowest-priority source of pages (display-scheduler.js), with the    *)
(* arbiter it asks whether the display is free (display-busy.js).  Rules   *)
(* air on a cadence, after a throw of the dice, or at fixed times; those   *)
(* for the Windows display and those for the boards only are two lanes.    *)
(*                                                                         *)
(* A tick is a coroutine: it decides, airs one rule at a time and waits    *)
(* for each airing, while people edit, push and pause.  Between two awaits *)
(* nothing else runs (Running), and all it reckons with is the time at     *)
(* which it began: late is how long ago that was.                          *)
(*                                                                         *)
(* Times are countdowns and ages in one unit: due is nextEvalAt - now,     *)
(* aired now - lastAiredAt (negative while the page is still to run),      *)
(* won now - pendingSince.  The unit is the time between two rings of the  *)
(* timer; a ring while a tick is under way is lost.  What a tick changed   *)
(* is saved before it waits (but for slots found too late in a tick that   *)
(* airs another fixed rule), so a restart finds the rules as they are.     *)
(*                                                                         *)
(* Left out: jitter, the presence gate, a settings change of tick or gap,  *)
(* broken command ids, and cards that come after their handler answered.   *)
(***************************************************************************)
EXTENDS Lines

CONSTANTS
    Rules,            \* the ids a rule can have
    Terms,            \* the settings of each rule
    GlobalGap,        \* globalMinGapSeconds
    PageTimes,        \* how long pages of others last (displaySeconds, PERSISTENT_HOLD_SECONDS)
    None,             \* null
    MaxWait,          \* bound: how long an airing can be waited for
    MaxAge,           \* bound: an age beyond which nothing changes
    Files             \* the lists of rules the file can hold when the process starts

Never == -1000        \* lastAiredAt is null

(* interval is the time between two slots of a fixed rule, hold how late   *)
(* it may be; cap 0 is no maxPerDay, dice what a throw can give (the       *)
(* content guard included).                                                *)
TermsType ==
    [board : BOOLEAN, closing : BOOLEAN, fixed : BOOLEAN, exempt : BOOLEAN, windowed : BOOLEAN,
     interval : Nat \ {0}, planned : Nat \ {0}, hold : Nat, importance : 1..5,
     cap : Nat, cooldown : Nat, dice : (SUBSET BOOLEAN) \ {{}}]

ASSUME SchedulerAssumption ==
    /\ Terms \in [Rules -> TermsType]
    /\ {GlobalGap, MaxWait, MaxAge} \subseteq Nat
    /\ PageTimes \subseteq Nat \ {0}
    /\ None \notin Rules
    /\ \A r \in Rules : Terms[r].fixed \/ Terms[r].interval + MaxWait < MaxAge
    /\ Files \subseteq Seq(Rules)
    /\ \A f \in Files : Distinct(f)
    /\ \A r \in Rules : Terms[r].planned < -Never

VARIABLES
    listed,           \* the store: the rules in their order
    rule,             \* what the scheduler keeps of each rule
    active,           \* settings.active
    env,              \* is it quiet hours, is it inside the windows of the rules
    gapLeft,          \* lastAiringAt + gap - now
    bootLeft,         \* suppressUntil - now
    activeAiring,     \* whose page is, or was, on screen
    rung,             \* the timer has rung
    tick,             \* the tick that is under way
    airNow,           \* the Air now press that is waited for
    page              \* displayBusy: what is on the display

scheduler == <<listed, rule, active, env, gapLeft, bootLeft, activeAiring, rung, tick, airNow, page>>

Idle == [on |-> FALSE, todo |-> <<>>, air |-> None, late |-> 0, gone |-> <<>>]

Listed == Members(listed)

AiringType ==
    [rule : Rules, stage : {"asked", "sent", "closing"}, late : 0..MaxWait, lost : BOOLEAN]

PageType == [by : {"scheduler", "others"}, left : Nat]

ASSUME NoneAssumption == None \notin AiringType /\ None \notin PageType

(* What a tick can still have to do: air a fixed rule, look at the cadence,*)
(* choose from the boards' candidates.                                     *)
StepType == [do : {"fixed", "cadence", "boards"}, rules : Seq(Rules)]

RuleType ==
    [enabled : BOOLEAN, pending : BOOLEAN, won : 0..MaxAge, due : Int, slot : Nat,
     aired : Int, today : Nat]

SchedulerTypeOK ==
    /\ listed \in Seq(Rules) /\ Distinct(listed)
    /\ rule \in [Rules -> RuleType]
    /\ active \in BOOLEAN
    /\ env \in [quiet : BOOLEAN, inside : BOOLEAN]
    /\ gapLeft \in Int /\ bootLeft \in -MaxWait..GlobalGap
    /\ activeAiring = None \/ activeAiring \in [rule : Rules, left : Int]
    /\ {rung, tick.on} \subseteq BOOLEAN /\ tick.late \in 0..MaxWait
    /\ DOMAIN tick.gone \subseteq Rules /\ \A r \in DOMAIN tick.gone : tick.gone[r] \in Int
    /\ \A i \in DOMAIN tick.todo : tick.todo[i] \in StepType
    /\ tick.air = None \/ tick.air \in AiringType
    /\ airNow = None \/ airNow \in AiringType
    /\ page = None \/ page \in PageType
    /\ \A r \in Rules : Terms[r].fixed => ~rule[r].pending

-----------------------------------------------------------------------------
(* A rule and the clock.                                                   *)

Board(r) == Terms[r].board

Lesser(a, b) == IF a < b THEN a ELSE b
AtLeast0(n) == IF n < 0 THEN 0 ELSE n

Fresh(r) ==
    [enabled |-> TRUE, pending |-> FALSE, won |-> 0, due |-> 0, slot |-> Terms[r].interval,
     aired |-> Never, today |-> 0]

Slots(r) == IF Terms[r].fixed THEN 1..Terms[r].interval ELSE {Terms[r].interval}

(* nextFixedFireMs: the first slot after the instant from.                 *)
NextSlot(r, x, from) ==
    from + 1 + ((x.slot - from - 1) % Terms[r].interval)

(* Slip: from the evaluation before, not from now.                         *)
AdvanceFromLast(r, x, from) ==
    [x EXCEPT !.due = IF Terms[r].fixed THEN NextSlot(r, x, from) ELSE @ + Terms[r].interval,
              !.pending = FALSE, !.won = 0]

(* advance, at the instant from (0 is now).                                *)
Advance(r, x, from) ==
    [x EXCEPT !.due = IF Terms[r].fixed THEN NextSlot(r, x, from) ELSE from + Terms[r].interval,
              !.pending = FALSE, !.won = 0]

AtDailyCap(r) == Terms[r].cap > 0 /\ rule[r].today >= Terms[r].cap

InCooldown(r, late) ==
    Terms[r].cooldown > 0 /\ rule[r].aired # Never /\ rule[r].aired - late < Terms[r].cooldown

(* displayBusy.isBusy.                                                     *)
IsBusy == page # None /\ page.left > 0

(* Slip: what was aired is on the display until something else comes.      *)
BlockedByLast(late) == bootLeft + late > 0 \/ gapLeft + late > 0 \/ IsBusy \/ activeAiring # None

(* displayBlockedReason, as a tick sees it that began late ago.            *)
Blocked(late) == bootLeft + late > 0 \/ gapLeft + late > 0 \/ IsBusy

(* lastAiredAt of every rule as the store has it, and as the tick has it   *)
(* that holds an object the store has put another one in the place of.     *)
AiredNow == [r \in Rules |-> rule[r].aired]
AiredHeld == [r \in Rules |-> IF r \in DOMAIN tick.gone THEN tick.gone[r] ELSE rule[r].aired]

(* scoreRule as a fraction: a rule that never aired is two intervals over. *)
Since(r, aired) ==
    IF aired[r] = Never THEN 2 * Terms[r].interval ELSE AtLeast0(aired[r] - tick.late)

Outscores(q, r, aired) ==
    Since(q, aired) * Terms[q].importance * Terms[r].interval
        > Since(r, aired) * Terms[r].importance * Terms[q].interval

(* The best score of a list, and of those the first.                       *)
Best(list, aired) ==
    LET top == {i \in DOMAIN list : \A j \in DOMAIN list : ~Outscores(list[j], list[i], aired)}
    IN list[Least(top)]

-----------------------------------------------------------------------------
(* One tick.  It goes on by itself until it waits for an airing.           *)

Running == tick.on /\ tick.air = None

Asked(r, late, lost) == [rule |-> r, stage |-> "asked", late |-> late, lost |-> lost]

Among(rules) == Without(listed, {i \in DOMAIN listed : listed[i] \notin rules})

FixedStep(r) == [do |-> "fixed", rules |-> <<r>>]
CadenceStep == [do |-> "cadence", rules |-> <<>>]
BoardsStep(rules) == [do |-> "boards", rules |-> rules]

(* Of the fixed rules that are due: the most important, then the one that  *)
(* has waited longest, then the first in the list.                         *)
First(due) ==
    LET Behind(i, j) ==
            LET p == listed[i]
                q == listed[j]
            IN \/ Terms[p].importance < Terms[q].importance
               \/ Terms[p].importance = Terms[q].importance /\ rule[p].due > rule[q].due
        waiting == {i \in DOMAIN listed : listed[i] \in due}
        top == {i \in waiting : \A j \in waiting : ~Behind(i, j)}
    IN listed[Least(top)]

(* shouldYieldFixed: to a page of somebody else, or to a rule that is more *)
(* important and was the last one to air.                                  *)
YieldsFixed(r) ==
    /\ IsBusy
    /\ activeAiring # None =>
           LET shown == IF activeAiring.rule \in Listed
                        THEN Terms[activeAiring.rule].importance ELSE 3
           IN shown > Terms[r].importance

(* runTick as far as the fixed rules that are due: too late is missed, and *)
(* one of each lane may air; then, outside quiet hours, the cadence.       *)
TickBegins ==
    /\ rung /\ active
    /\ rung' = FALSE
    /\ LET Asks(r) == /\ r \in Listed /\ rule[r].enabled /\ Terms[r].fixed
                      /\ env.quiet => Terms[r].exempt
                      /\ ~AtDailyCap(r)
                      /\ rule[r].due <= 0
           missed == {r \in Rules : Asks(r) /\ -rule[r].due > Terms[r].hold}
       IN \E empty \in SUBSET {r \in Rules : Asks(r) /\ FALSE \in Terms[r].dice} :
            LET due == {r \in Rules : Asks(r)} \ (missed \cup empty)
                shows == {r \in due : ~Board(r)}
                flips == {r \in due : Board(r)}
                display == IF shows = {} \/ YieldsFixed(First(shows)) THEN <<>>
                           ELSE <<FixedStep(First(shows))>>
                boards == IF flips = {} THEN <<>> ELSE <<FixedStep(First(flips))>>
            IN /\ rule' = [r \in Rules |-> IF r \in missed \cup empty
                                           THEN Advance(r, rule[r], 0) ELSE rule[r]]
               /\ tick' = [Idle EXCEPT !.on = TRUE,
                             !.todo = display \o boards
                                      \o (IF env.quiet THEN <<>> ELSE <<CadenceStep>>)]
    /\ UNCHANGED <<listed, active, env, gapLeft, bootLeft, activeAiring, airNow, page>>

TickPaused ==
    /\ rung /\ ~active
    /\ rung' = FALSE
    /\ UNCHANGED <<listed, rule, active, env, gapLeft, bootLeft, activeAiring, tick, airNow, page>>

Step(what) == Running /\ tick.todo # <<>> /\ Head(tick.todo).do = what

(* The rule airs as the object the tick holds: lost when the store has     *)
(* another one in its place by now.                                        *)
Waits(r, todo) ==
    tick' = [tick EXCEPT !.todo = todo,
                         !.air = Asked(r, tick.late, r \in DOMAIN tick.gone)]

(* The rules as the store has them now.                                    *)
Reads(todo) == tick' = [tick EXCEPT !.todo = todo, !.gone = <<>>]

ReadsAndWaits(r, todo) ==
    tick' = [tick EXCEPT !.todo = todo, !.gone = <<>>, !.air = Asked(r, tick.late, FALSE)]

AirsFixed ==
    /\ Step("fixed")
    /\ Waits(Head(tick.todo).rules[1], Tail(tick.todo))
    /\ UNCHANGED <<rung, listed, rule, active, env, gapLeft, bootLeft, activeAiring, airNow, page>>

(* Slip: fixed rules throw dice too.                                       *)
OnCadenceToo == {r \in Listed : rule[r].enabled}

(* What collectCandidates makes of a rule of the cadence.                  *)
OnCadence == {r \in Listed : rule[r].enabled /\ ~Terms[r].fixed}

Expired(r) == rule[r].pending /\ rule[r].won - tick.late > Terms[r].interval

Evaluated(r) == ~rule[r].pending /\ rule[r].due + tick.late <= 0

Barred(r) ==
    \/ Terms[r].windowed /\ ~env.inside
    \/ AtDailyCap(r)
    \/ InCooldown(r, tick.late)

(* The rules that won their dice, now or on an earlier tick; those behind  *)
(* a busy display are not even thrown for.                                 *)
Collects ==
    /\ Step("cadence")
    /\ LET blocked == Blocked(tick.late)
           seen == {r \in OnCadence : blocked => Board(r)}
           expired == {r \in OnCadence : Expired(r)}
           thrown == {r \in seen : Evaluated(r)}
       IN \E lucky \in SUBSET {r \in thrown : ~Barred(r)} :
            /\ \A r \in thrown : ~Barred(r) => (r \in lucky) \in Terms[r].dice
            /\ LET candidates == lucky \cup {r \in seen : rule[r].pending /\ ~Expired(r)}
                   shows == {r \in candidates : ~Board(r)}
                   flips == {r \in candidates : Board(r)}
                   then == IF flips = {} THEN <<>> ELSE <<BoardsStep(Among(flips))>>
               IN /\ rule' = [r \in Rules |->
                        IF r \in lucky THEN [rule[r] EXCEPT !.pending = TRUE, !.won = tick.late]
                        ELSE IF r \in expired \cup thrown THEN Advance(r, rule[r], -tick.late)
                        ELSE rule[r]]
                  /\ \/ shows = {} /\ Reads(then)
                     \/ shows # {} /\ ReadsAndWaits(Best(Among(shows), AiredNow), then)
    /\ UNCHANGED <<rung, listed, active, env, gapLeft, bootLeft, activeAiring, airNow, page>>

(* The boards have a queue of their own to ask; their rule airs after the  *)
(* display's.                                                              *)
AirsOnBoards ==
    /\ Step("boards")
    /\ Waits(Best(Head(tick.todo).rules, AiredHeld), Tail(tick.todo))
    /\ UNCHANGED <<rung, listed, rule, active, env, gapLeft, bootLeft, activeAiring, airNow, page>>

TickEnds ==
    /\ Running /\ tick.todo = <<>>
    /\ tick' = Idle
    /\ UNCHANGED <<rung, listed, rule, active, env, gapLeft, bootLeft, activeAiring, airNow, page>>

-----------------------------------------------------------------------------
(* An airing that is waited for, by the tick or by an Air now press.       *)

Waiters == {"tick", "airNow"}

AirOf(w) == IF w = "tick" THEN tick.air ELSE airNow

IsWaiting(w) == ~Running /\ AirOf(w) # None

Becomes(w, a) ==
    IF w = "tick" THEN tick' = [tick EXCEPT !.air = a] /\ UNCHANGED airNow
    ELSE airNow' = a /\ UNCHANGED tick

(* What is waited for has come: a tick goes on.                            *)
Answered(w) ==
    IF w = "tick" THEN tick' = [tick EXCEPT !.air = None, !.late = tick.air.late] /\ UNCHANGED airNow
    ELSE airNow' = None /\ UNCHANGED tick

(* The page of a display rule goes out and displayBusy notes it; a board's *)
(* page goes to the boards' own queue.                                     *)
AirSends(w) ==
    /\ IsWaiting(w) /\ AirOf(w).stage = "asked"
    /\ Becomes(w, [AirOf(w) EXCEPT !.stage = "sent"])
    /\ LET r == AirOf(w).rule
       IN page' = IF Board(r) THEN page ELSE [by |-> "scheduler", left |-> Terms[r].planned]
    /\ UNCHANGED <<rung, listed, rule, active, env, gapLeft, bootLeft, activeAiring>>

(* air() throws, or has nothing to show.                                   *)
AirFails(w) ==
    /\ IsWaiting(w) /\ AirOf(w).stage = "asked"
    /\ LET a == AirOf(w)
       IN rule' = IF a.lost THEN rule
                  ELSE [rule EXCEPT ![a.rule] = Advance(a.rule, @, -a.late)]
    /\ Answered(w)
    /\ UNCHANGED <<rung, listed, active, env, gapLeft, bootLeft, activeAiring, page>>

(* A rule whose page ends at the instant ends.                             *)
Shown(r, x, ends) ==
    [Advance(r, x, ends) EXCEPT !.aired = -ends, !.today = Lesser(@ + 1, Terms[r].cap)]

(* Slip: the gap is counted from when the page came up.                    *)
BookedFromStart(a) ==
    LET r == a.rule
        ends == Terms[r].planned - a.late
    IN /\ rule' = IF a.lost THEN rule
                  ELSE [rule EXCEPT ![r] = Shown(r, rule[r], ends)]
       /\ IF Board(r) THEN UNCHANGED <<gapLeft, activeAiring>>
          ELSE /\ gapLeft' = GlobalGap - a.late
               /\ activeAiring' = [rule |-> r, left |-> ends]

(* The books of an airing that went out, as if it ended when planned after *)
(* it was decided on.                                                      *)
Booked(a) ==
    LET r == a.rule
        ends == Terms[r].planned - a.late
    IN /\ rule' = IF a.lost THEN rule
                  ELSE [rule EXCEPT ![r] = Shown(r, rule[r], ends)]
       /\ IF Board(r) THEN UNCHANGED <<gapLeft, activeAiring>>
          ELSE /\ gapLeft' = ends + GlobalGap
               /\ activeAiring' = [rule |-> r, left |-> ends]

(* air() has answered; the clean-up board, unless no board took the page,  *)
(* is one more thing to wait for.                                          *)
AirAnswers(w) ==
    /\ IsWaiting(w) /\ AirOf(w).stage = "sent"
    /\ Answered(w) /\ Booked(AirOf(w))
    /\ UNCHANGED <<rung, listed, active, env, bootLeft, page>>

AirCleansUp(w) ==
    /\ IsWaiting(w) /\ AirOf(w).stage = "sent"
    /\ Terms[AirOf(w).rule].closing
    /\ Becomes(w, [AirOf(w) EXCEPT !.stage = "closing"])
    /\ UNCHANGED <<rung, listed, rule, active, env, gapLeft, bootLeft, activeAiring, page>>

AirCloses(w) ==
    /\ IsWaiting(w) /\ AirOf(w).stage = "closing"
    /\ Answered(w) /\ Booked(AirOf(w))
    /\ UNCHANGED <<rung, listed, active, env, bootLeft, page>>

-----------------------------------------------------------------------------
(* People, events and the clock.                                           *)

(* POST rules/<id>/air: airRule outside of any tick.                       *)
PressAirNow(r) ==
    /\ ~Running
    /\ r \in Listed /\ airNow = None
    /\ airNow' = Asked(r, 0, FALSE)
    /\ UNCHANGED <<rung, listed, rule, active, env, gapLeft, bootLeft, activeAiring, tick, page>>

(* Slip: a push does not make the page on screen somebody else's.          *)
InterruptsNothing(gapOtherwise) ==
    /\ gapLeft' = gapOtherwise
    /\ UNCHANGED <<rule, activeAiring>>

(* reportInterruption: only a page that has not had its time is cut short. *)
Interrupts(gapOtherwise) ==
    LET cut == activeAiring # None /\ activeAiring.left > 0
    IN /\ rule' = IF cut /\ activeAiring.rule \in Listed
                  THEN [rule EXCEPT ![activeAiring.rule].aired = 0] ELSE rule
       /\ gapLeft' = IF cut THEN GlobalGap ELSE gapOtherwise
       /\ activeAiring' = None

(* noteManualPush, and the page of the push, if it is for the display.     *)
ManualPush(p) ==
    /\ ~Running
    /\ page' = p
    /\ Interrupts(GlobalGap)
    /\ UNCHANGED <<rung, listed, active, env, bootLeft, tick, airNow>>

(* A page of the house comes up, or is closed.  The scheduler is not told. *)
OthersShow(p) ==
    /\ ~Running
    /\ page' = p
    /\ UNCHANGED <<rung, listed, rule, active, env, gapLeft, bootLeft, activeAiring, tick, airNow>>

(* updateSettings; Pause cuts what is on screen short.                     *)
Pause ==
    /\ ~Running /\ active
    /\ active' = FALSE
    /\ Interrupts(gapLeft)
    /\ UNCHANGED <<rung, listed, env, bootLeft, tick, airNow, page>>

Resume ==
    /\ ~Running /\ ~active
    /\ active' = TRUE
    /\ UNCHANGED <<rung, listed, rule, env, gapLeft, bootLeft, activeAiring, tick, airNow, page>>

(* The store has another object in the place of r: whoever still holds the *)
(* old one writes to it in vain.                                           *)
Replaced(r) ==
    LET lost(a) == IF a # None /\ a.rule = r THEN [a EXCEPT !.lost = TRUE] ELSE a
    IN /\ tick' = IF ~tick.on THEN tick
                  ELSE [tick EXCEPT !.air = lost(@),
                                    !.gone = [q \in DOMAIN @ \cup {r} |-> AiredHeld[q]]]
       /\ airNow' = lost(airNow)

(* PUT rules/<id>: what the rule has been through is merged into a new one.*)
Edit(r, enabled) ==
    /\ ~Running
    /\ r \in Listed
    /\ rule' = [rule EXCEPT ![r].enabled = enabled]
    /\ Replaced(r)
    /\ UNCHANGED <<rung, listed, active, env, gapLeft, bootLeft, activeAiring, page>>

(* POST rules/<id>/reset: due now, as if it had never aired.               *)
Reset(r) ==
    /\ ~Running
    /\ r \in Listed
    /\ rule' = [rule EXCEPT ![r] = [Fresh(r) EXCEPT !.enabled = rule[r].enabled,
                                                    !.slot = rule[r].slot]]
    /\ Replaced(r)
    /\ UNCHANGED <<rung, listed, active, env, gapLeft, bootLeft, activeAiring, page>>

(* A new rule is due now, a fixed one too, however far its next slot is.   *)
Add(r, slot) ==
    /\ ~Running
    /\ r \notin Listed
    /\ listed' = Append(listed, r)
    /\ rule' = [rule EXCEPT ![r] = [Fresh(r) EXCEPT !.slot = slot]]
    /\ UNCHANGED <<rung, active, env, gapLeft, bootLeft, activeAiring, tick, airNow, page>>

Remove(r) ==
    /\ ~Running
    /\ r \in Listed
    /\ listed' = Dismiss(listed, r)
    /\ Replaced(r)
    /\ UNCHANGED <<rung, rule, active, env, gapLeft, bootLeft, activeAiring, page>>

(* Quiet hours and the windows of the rules open and close.                *)
EnvChanges(e) ==
    /\ ~Running
    /\ env' = e
    /\ UNCHANGED <<rung, listed, rule, active, gapLeft, bootLeft, activeAiring, tick, airNow, page>>

(* rollDailyCounter.  No airing is in the air when the day ends.           *)
Midnight ==
    /\ ~tick.on /\ airNow = None
    /\ rule' = [r \in Rules |-> [rule[r] EXCEPT !.today = 0]]
    /\ UNCHANGED <<rung, listed, active, env, gapLeft, bootLeft, activeAiring, tick, airNow, page>>

(* The process goes down, whatever it waits for, and comes back: airings   *)
(* wait for one global gap, except those on the boards.                    *)
Restart ==
    /\ ~Running
    /\ gapLeft' = -MaxWait /\ bootLeft' = GlobalGap
    /\ activeAiring' = None /\ rung' = FALSE /\ tick' = Idle /\ airNow' = None /\ page' = None
    /\ UNCHANGED <<listed, rule, active, env>>

Aged(r, x) ==
    LET lowest == IF Terms[r].fixed THEN -Terms[r].hold - 1 ELSE -MaxWait
    IN [x EXCEPT !.due = IF @ > lowest THEN @ - 1 ELSE @,
                 !.won = IF x.pending THEN Lesser(@ + 1, MaxAge) ELSE 0,
                 !.slot = IF ~Terms[r].fixed THEN @ ELSE IF @ = 1 THEN Terms[r].interval ELSE @ - 1,
                 !.aired = IF @ = Never THEN @ ELSE Lesser(@ + 1, MaxAge)]

Later(n) == IF n > -MaxWait THEN n - 1 ELSE n

Waited(a) == IF a = None THEN None ELSE [a EXCEPT !.late = @ + 1]

TimePasses ==
    /\ ~Running /\ ~rung
    /\ rung' = ~tick.on
    /\ \A w \in Waiters : AirOf(w) # None => AirOf(w).late < MaxWait
    /\ rule' = [r \in Rules |-> IF r \in Listed THEN Aged(r, rule[r]) ELSE Fresh(r)]
    /\ gapLeft' = Later(gapLeft) /\ bootLeft' = Later(bootLeft)
    /\ activeAiring' = IF activeAiring = None THEN None
                       ELSE [activeAiring EXCEPT !.left = AtLeast0(@ - 1)]
    /\ tick' = [tick EXCEPT !.air = Waited(@),
                            !.gone = [r \in DOMAIN @ |-> IF @[r] = Never THEN Never
                                                        ELSE Lesser(@[r] + 1, MaxAge)]]
    /\ airNow' = Waited(airNow)
    /\ page' = IF page = None \/ page.left <= 1 THEN None ELSE [page EXCEPT !.left = @ - 1]
    /\ UNCHANGED <<listed, active, env>>

Init ==
    /\ listed \in Files
    /\ rule = [r \in Rules |-> Fresh(r)]
    /\ active = TRUE
    /\ env = [quiet |-> FALSE, inside |-> TRUE]
    /\ gapLeft = -MaxWait /\ bootLeft = GlobalGap
    /\ activeAiring = None /\ rung = FALSE /\ tick = Idle /\ airNow = None /\ page = None

-----------------------------------------------------------------------------

TickRuns == TickBegins \/ TickPaused \/ AirsFixed \/ Collects \/ AirsOnBoards \/ TickEnds

AirRuns ==
    \E w \in Waiters :
        AirSends(w) \/ AirFails(w) \/ AirAnswers(w) \/ AirCleansUp(w) \/ AirCloses(w)

Pages == {[by |-> "others", left |-> t] : t \in PageTimes}

PeopleAct ==
    \/ \E r \in Rules :
        \/ PressAirNow(r) \/ Reset(r) \/ Remove(r)
        \/ \E slot \in Slots(r) : Add(r, slot)
        \/ \E enabled \in BOOLEAN : Edit(r, enabled)
    \/ \E p \in Pages \cup {page} : ManualPush(p)
    \/ \E p \in Pages \cup {None} : OthersShow(p)
    \/ Pause \/ Resume

Next ==
    \/ TickRuns \/ AirRuns \/ PeopleAct
    \/ \E e \in [quiet : BOOLEAN, inside : BOOLEAN] : EnvChanges(e)
    \/ Midnight \/ Restart \/ TimePasses

Spec == Init /\ [][Next]_scheduler

=============================================================================
