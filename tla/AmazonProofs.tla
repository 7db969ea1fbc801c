---------------------------- MODULE AmazonProofs ---------------------------
(***************************************************************************)
(* The parts that live on Amazon's answers, for any number of timers, any  *)
(* settings of the polls and of the keepalive.                             *)
(*                                                                         *)
(* The timers: their types; what is announced to be over is, unless the    *)
(* answer left it out; nothing is announced as new a second time, unless   *)
(* an answer left it out since or the mirror was torn as it was written;   *)
(* no request for a poll is forgotten before a later poll starts.  The     *)
(* second and the third rest on what the mirror can know: an id is used    *)
(* once, so a timer the endpoint has no longer although the mirror has it  *)
(* was published as gone, and a timer it has not yet was never in the      *)
(* mirror.                                                                 *)
(*                                                                         *)
(* The session: its types, with one refresh at a time however deep the     *)
(* callbacks are; and what a login is asked for.                           *)
(***************************************************************************)
EXTENDS MCAmazon, SequenceTheorems, TLAPS

Unheard ==
    \A t \in Timers : /\ t \in unused => cloud[t] = None /\ told[t] = None /\ mirror[t] = None
                      /\ told[t] = None /\ cloud[t] # None => mirror[t] = None

TimersInv == TimersTypeOK /\ Unheard

-----------------------------------------------------------------------------
(* What an answer makes of the mirror.                                     *)

(* What is listed is of the mirror's type, and a timer that is not listed  *)
(* is left out or not at Amazon's endpoint.                                *)
LEMMA ListedType ==
    ASSUME TimersTypeOK
    PROVE  /\ Listed \in [Timers -> MirrorType \cup {None}]
           /\ \A t \in Timers : Listed[t] = None <=> told[t] = None \/ t \in holes
<1>1. ASSUME NEW t \in Timers, told[t] # None
      PROVE  [status |-> told[t].status, remaining |-> told[t].left, fireIn |-> told[t].left,
              age |-> 0] \in MirrorType
    <2>1. told[t] \in TimerType /\ Preserve \in Nat
        BY <1>1, TimersAssumption DEF TimersTypeOK
    <2> QED BY <2>1 DEF TimerType, MirrorType
<1> QED BY <1>1, NoTimerAssumption DEF Listed

(* A timer of the mirror that has grown older.                             *)
LEMMA MirrorChange ==
    ASSUME NEW m \in MirrorType
    PROVE  /\ \A r \in Nat, a \in 0..Preserve + 1 :
                  [m EXCEPT !.remaining = r, !.age = a] \in MirrorType
           /\ \A f \in Int, a \in 0..Preserve + 1 :
                  [m EXCEPT !.fireIn = f, !.age = a] \in MirrorType
<1> DEFINE Age == 0..Preserve + 1
<1>1. m \in [status : Statuses, remaining : Nat, fireIn : Int, age : Age]
    BY DEF MirrorType
<1> HIDE DEF Age
<1>2. /\ \A r \in Nat, a \in Age :
             [m EXCEPT !.remaining = r, !.age = a]
                 \in [status : Statuses, remaining : Nat, fireIn : Int, age : Age]
      /\ \A f \in Int, a \in Age :
             [m EXCEPT !.fireIn = f, !.age = a]
                 \in [status : Statuses, remaining : Nat, fireIn : Int, age : Age]
    BY <1>1
<1> QED BY <1>2 DEF MirrorType, Age

(* Kept timers are of the type too.                                        *)
LEMMA MergedType ==
    ASSUME TimersTypeOK
    PROVE  /\ Merged \in [Timers -> MirrorType \cup {None}]
           /\ \A t \in Timers : Merged[t] # None => told[t] # None \/ mirror[t] # None
<1>1. ASSUME NEW t \in Timers, Kept(t)
      PROVE  /\ [mirror[t] EXCEPT !.remaining = mirror[t].fireIn, !.age = 0] \in MirrorType
             /\ mirror[t] # None
    <2>1. mirror[t] \in MirrorType /\ mirror[t].fireIn > 0 /\ mirror[t] # None
        BY <1>1 DEF Kept, Gone, Active, TimersTypeOK
    <2>2. Preserve \in Nat /\ mirror[t].fireIn \in Nat
        BY <2>1, TimersAssumption DEF MirrorType
    <2>3. 0 \in 0..Preserve + 1
        BY <2>2
    <2> QED BY <2>1, <2>2, <2>3, MirrorChange
<1> QED BY <1>1, ListedType DEF Merged

LEMMA MirrorAfterType ==
    ASSUME TimersTypeOK, NEW trigger
    PROVE  /\ MirrorAfter(trigger) \in [Timers -> MirrorType \cup {None}]
           /\ \A t \in Timers :
                  MirrorAfter(trigger)[t] # None => told[t] # None \/ mirror[t] # None
BY ListedType, MergedType DEF MirrorAfter

(* What is listed is in the mirror after the answer.                       *)
LEMMA ListedStays ==
    ASSUME TimersTypeOK, NEW trigger
    PROVE  \A t \in Timers :
               MirrorAfter(trigger)[t] = None => told[t] = None \/ t \in holes
<1>1. ASSUME NEW t \in Timers, Listed[t] # None
      PROVE  MirrorAfter(trigger)[t] # None
    <2>1. t \notin Gone
        BY <1>1 DEF Gone, Active
    <2>2. Merged[t] = Listed[t]
        BY <2>1 DEF Merged, Kept
    <2> QED BY <1>1, <2>2 DEF MirrorAfter
<1> QED BY <1>1, ListedType

(* A wake timer stands for a timer in the list.                            *)
LEMMA WakesType ==
    ASSUME NEW list \in [Timers -> MirrorType \cup {None}]
    PROVE  /\ WakesFor(list) \in [Timers -> Nat \cup {None}]
           /\ \A t \in Timers : WakesFor(list)[t] # None => list[t] # None
BY DEF WakesFor, MirrorType

(* What is announced is one of the events, or the list.                    *)
LEMMA WhatIsSaid ==
    ASSUME TimersTypeOK, NEW trigger, NEW s \in Primary(trigger)
    PROVE  /\ s \in [kind : Notices \cup {"list"}, timer : Timers \cup {None}]
           /\ s.kind \in {"fired", "cancelled"} => s.timer \in Gone
           /\ s.kind = "started" => s.timer \in Started
<1>1. s = Said("list", None) \/ s \in Events
    BY DEF Primary
<1>2. \A e \in Events : /\ e.kind \in Notices /\ e.timer \in Timers
                        /\ e = [kind |-> e.kind, timer |-> e.timer]
                        /\ e.kind \in {"fired", "cancelled"} => e.timer \in Gone
                        /\ e.kind = "started" => e.timer \in Started
    BY DEF Events, Said, Notices, Fired, Cancelled, Gone, Started, Turned, Active
<1> QED BY <1>1, <1>2 DEF Said, Notices

-----------------------------------------------------------------------------
(* The invariant is kept.                                                  *)

LEMMA InitTimers == Init => TimersInv
<1> SUFFICES ASSUME Init PROVE TimersInv
    OBVIOUS
<1>1. polling \in Triggers /\ pace \in Nat \ {0} /\ next \in 0..pace
    BY TimersAssumption DEF Init, Triggers
<1>2. follow \in [Spoken -> 0..FollowUp]
    BY TimersAssumption DEF Init
<1>3. TimersTypeOK
    BY <1>1, <1>2 DEF Init, TimersTypeOK, Blank
<1>4. Unheard
    BY DEF Init, Unheard, Blank
<1> QED BY <1>3, <1>4 DEF TimersInv

(* Amazon's side.                                                          *)
LEMMA AmazonKeeps ==
    ASSUME TimersInv, NEW t \in Timers,
           \/ \E d \in Durations : SetTimer(t, d)
           \/ PauseTimer(t) \/ ResumeTimer(t) \/ EndTimer(t)
           \/ Publish(t) \/ Skips(t) \/ Recalls(t)
    PROVE  TimersInv'
<1>0. holes \subseteq Timers
    BY DEF TimersInv, TimersTypeOK
<1>1. cloud \in [Timers -> TimerType \cup {None}] /\ told \in [Timers -> TimerType \cup {None}]
    BY DEF TimersInv, TimersTypeOK
<1>2. /\ mirror' = mirror /\ wake' = wake /\ pace' = pace /\ next' = next
      /\ polling' = polling /\ again' = again /\ retry' = retry /\ follow' = follow
      /\ said' = Silent
    BY DEF SetTimer, PauseTimer, ResumeTimer, EndTimer, Publish, Skips, Recalls, Quiet
<1>3. /\ cloud' \in [Timers -> TimerType \cup {None}] /\ told' \in [Timers -> TimerType \cup {None}]
      /\ unused' \subseteq unused /\ holes' \subseteq Timers
      /\ \A u \in Timers : u \in unused' => cloud'[u] = cloud[u] /\ told'[u] = told[u]
      /\ \A u \in Timers : /\ told'[u] = None /\ cloud'[u] # None
                               => u \in unused \/ (told[u] = None /\ cloud[u] # None)
    <2>1. CASE \E d \in Durations : SetTimer(t, d)
        BY <1>0, <1>1, <2>1, TimersAssumption, NoTimerAssumption DEF SetTimer, TimerType, Statuses
    <2>2. CASE PauseTimer(t) \/ ResumeTimer(t)
        <3>1. PICK s \in Statuses : cloud' = [cloud EXCEPT ![t].status = s]
            BY <2>2 DEF PauseTimer, ResumeTimer, Statuses
        <3>2. cloud[t] \in TimerType /\ told' = told /\ unused' = unused /\ holes' = holes
            BY <1>1, <2>2 DEF PauseTimer, ResumeTimer
        <3>3. [cloud[t] EXCEPT !.status = s] \in TimerType /\ cloud[t] # None
            BY <3>2, NoTimerAssumption DEF TimerType
        <3>4. t \notin unused
            BY <3>3 DEF TimersInv, Unheard
        <3> QED BY <1>0, <1>1, <3>1, <3>2, <3>3, <3>4
    <2>3. CASE EndTimer(t)
        <3>1. t \notin unused
            BY <2>3 DEF EndTimer, TimersInv, Unheard
        <3> QED BY <1>0, <1>1, <2>3, <3>1 DEF EndTimer
    <2>4. CASE Publish(t)
        BY <1>0, <1>1, <2>4 DEF Publish, TimersInv, Unheard
    <2>5. CASE Skips(t) \/ Recalls(t)
        BY <1>0, <1>1, <2>5 DEF Skips, Recalls, TimersInv, Unheard
    <2> QED BY <2>1, <2>2, <2>3, <2>4, <2>5
<1> QED BY <1>2, <1>3 DEF TimersInv, TimersTypeOK, Unheard

(* Polls that start, or wait for the one that is out.                      *)
LEMMA PollForType ==
    ASSUME TimersTypeOK, NEW trigger \in Triggers, PollFor(trigger)
    PROVE  /\ polling' \in Triggers \cup {None} /\ again' \in BOOLEAN
           /\ again' => polling' # None
BY DEF PollFor, TimersTypeOK

LEMMA PollsKeep ==
    ASSUME TimersInv, Polls \/ Hints
    PROVE  TimersInv'
<1>1. \E trigger \in Triggers : PollFor(trigger)
    <2>1. /\ Plain \in Triggers
          /\ \A k \in Spoken : Now(k) \in Triggers /\ Later(k) \in Triggers
        BY DEF Triggers
    <2> QED BY <2>1 DEF Polls, Hints, LoopPolls, RetryPolls, WakePolls, FollowUpPolls,
                        NotificationChange, Hint
<1>2. /\ polling' \in Triggers \cup {None} /\ again' \in BOOLEAN
      /\ again' => polling' # None
    BY <1>1, PollForType DEF TimersInv
<1>3. /\ cloud' = cloud /\ told' = told /\ unused' = unused /\ holes' = holes
      /\ mirror' = mirror
      /\ pace' = pace /\ said' = Silent
    BY DEF Polls, Hints, LoopPolls, RetryPolls, WakePolls, FollowUpPolls, NotificationChange,
           Hint, amazon
<1>4. next' \in 0..pace
    <2>1. pace \in Nat /\ next \in 0..pace
        BY TimersAssumption DEF TimersInv, TimersTypeOK
    <2> QED BY <2>1 DEF Polls, Hints, LoopPolls, RetryPolls, WakePolls, FollowUpPolls,
                        NotificationChange, Hint
<1>5. /\ wake' \in [Timers -> Nat \cup {None}]
      /\ \A t \in Timers : wake'[t] # None => mirror[t] # None
    <2>1. wake' = wake \/ \E t \in Timers : wake' = [wake EXCEPT ![t] = None]
        BY DEF Polls, Hints, LoopPolls, RetryPolls, WakePolls, FollowUpPolls,
               NotificationChange, Hint
    <2> QED BY <2>1 DEF TimersInv, TimersTypeOK
<1>6. retry' \in BOOLEAN
    BY DEF Polls, Hints, LoopPolls, RetryPolls, WakePolls, FollowUpPolls, NotificationChange,
           Hint, TimersInv, TimersTypeOK
<1>7. follow' \in [Spoken -> 0..FollowUp]
    <2>1. follow' = follow \/ \E k \in Spoken : follow' = [follow EXCEPT ![k] = FollowUp]
        BY DEF Polls, Hints, LoopPolls, RetryPolls, WakePolls, FollowUpPolls,
               NotificationChange, Hint
    <2> QED BY <2>1, TimersAssumption DEF TimersInv, TimersTypeOK
<1> QED BY <1>2, <1>3, <1>4, <1>5, <1>6, <1>7 DEF TimersInv, TimersTypeOK, Unheard

(* Answers.                                                                *)
LEMMA AnswersKeep ==
    ASSUME TimersInv, PollAnswers
    PROVE  TimersInv'
<1> DEFINE after == MirrorAfter(polling)
<1>1. TimersTypeOK
    BY DEF TimersInv
<1>2. /\ after \in [Timers -> MirrorType \cup {None}]
      /\ \A t \in Timers : after[t] # None => told[t] # None \/ mirror[t] # None
    BY <1>1, MirrorAfterType
<1> HIDE DEF after
<1>3. /\ WakesFor(after) \in [Timers -> Nat \cup {None}]
      /\ \A t \in Timers : WakesFor(after)[t] # None => after[t] # None
    BY <1>2, WakesType
<1>4. mirror' = after /\ wake' = WakesFor(after)
    BY DEF PollAnswers, after
<1>5. said' = Silent \/ said' \in [kind : Notices \cup {"list"}, timer : Timers \cup {None}]
    BY <1>1, WhatIsSaid DEF PollAnswers
<1>6. /\ polling' \in Triggers \cup {None} /\ again' = FALSE
      /\ cloud' = cloud /\ told' = told /\ unused' = unused /\ holes' = holes
      /\ pace' = pace /\ next' = next /\ retry' = retry /\ follow' = follow
    BY DEF PollAnswers, Triggers, amazon
<1> QED BY <1>2, <1>3, <1>4, <1>5, <1>6 DEF TimersInv, TimersTypeOK, Unheard

LEMMA FailuresKeep ==
    ASSUME TimersInv, PollFails
    PROVE  TimersInv'
BY DEF PollFails, amazon, TimersInv, TimersTypeOK, Unheard

(* Whatever the disk holds is a mirror of what was in it or is listed.     *)
LEMMA DiskType ==
    ASSUME TimersTypeOK, NEW disk \in OnDisk
    PROVE  /\ disk \in [Timers -> MirrorType \cup {None}]
           /\ \A t \in Timers : disk[t] # None => told[t] # None \/ mirror[t] # None
<1>1. CASE disk = mirror
    BY <1>1 DEF TimersTypeOK
<1>2. CASE disk = MirrorAfter(polling)
    BY <1>2, MirrorAfterType
<1>3. CASE disk = Blank
    BY <1>3 DEF Blank
<1> QED BY <1>1, <1>2, <1>3 DEF OnDisk

LEMMA RestartKeeps ==
    ASSUME TimersInv, Restart
    PROVE  TimersInv'
<1>1. /\ mirror' \in [Timers -> MirrorType \cup {None}]
      /\ \A t \in Timers : mirror'[t] # None => told[t] # None \/ mirror[t] # None
    BY DiskType DEF Restart, TimersInv
<1>2. /\ wake' \in [Timers -> Nat \cup {None}]
      /\ \A t \in Timers : wake'[t] # None => mirror'[t] # None
    BY <1>1, WakesType DEF Restart
<1>3. /\ pace' \in {PollEvery, NearPollEvery} /\ next' \in 0..pace'
    BY TimersAssumption DEF Restart, PaceOf
<1>4. polling' \in Triggers /\ follow' \in [Spoken -> 0..FollowUp]
    BY TimersAssumption DEF Restart, Triggers
<1>5. /\ again' = FALSE /\ retry' = FALSE /\ said' = Silent /\ UNCHANGED amazon
    BY DEF Restart
<1> QED BY <1>1, <1>2, <1>3, <1>4, <1>5 DEF amazon, TimersInv, TimersTypeOK, Unheard

(* Time goes on.                                                           *)
LEMMA ElapsedType ==
    ASSUME NEW list \in [Timers -> TimerType \cup {None}]
    PROVE  /\ Elapsed(list) \in [Timers -> TimerType \cup {None}]
           /\ \A t \in Timers : Elapsed(list)[t] = None <=> list[t] = None
<1>1. ASSUME NEW t \in Timers, list[t] # None
      PROVE  [list[t] EXCEPT !.left = Down(list[t].left)] \in TimerType
    BY <1>1 DEF TimerType, Down
<1> QED BY <1>1, NoTimerAssumption DEF Elapsed

LEMMA MirrorAges ==
    ASSUME TimersTypeOK, TimePasses
    PROVE  /\ mirror' \in [Timers -> MirrorType \cup {None}]
           /\ \A t \in Timers : mirror'[t] = None <=> mirror[t] = None
<1>1. mirror \in [Timers -> MirrorType \cup {None}]
    BY DEF TimersTypeOK
<1>2. ASSUME NEW t \in Timers, mirror[t] # None
      PROVE  [mirror[t] EXCEPT
                 !.fireIn = IF mirror[t].fireIn >= -Slack THEN mirror[t].fireIn - 1
                            ELSE mirror[t].fireIn,
                 !.age = IF mirror[t].age <= Preserve THEN mirror[t].age + 1
                         ELSE mirror[t].age] \in MirrorType
    <2> DEFINE f == IF mirror[t].fireIn >= -Slack THEN mirror[t].fireIn - 1
                    ELSE mirror[t].fireIn
               a == IF mirror[t].age <= Preserve THEN mirror[t].age + 1 ELSE mirror[t].age
    <2>1. mirror[t] \in MirrorType
        BY <1>1, <1>2
    <2>2. f \in Int /\ a \in 0..Preserve + 1
        BY <2>1, TimersAssumption DEF MirrorType
    <2> HIDE DEF f, a
    <2>3. [mirror[t] EXCEPT !.fireIn = f, !.age = a] \in MirrorType
        BY <2>1, <2>2, MirrorChange
    <2> QED BY <2>3 DEF f, a
<1> QED BY <1>1, <1>2, NoTimerAssumption DEF TimePasses

LEMMA TimeKeeps ==
    ASSUME TimersInv, TimePasses
    PROVE  TimersInv'
<1>1. /\ cloud' \in [Timers -> TimerType \cup {None}] /\ told' \in [Timers -> TimerType \cup {None}]
      /\ \A t \in Timers : /\ cloud'[t] = None <=> cloud[t] = None
                           /\ told'[t] = None <=> told[t] = None
    BY ElapsedType DEF TimePasses, TimersInv, TimersTypeOK
<1>2. /\ mirror' \in [Timers -> MirrorType \cup {None}]
      /\ \A t \in Timers : mirror'[t] = None <=> mirror[t] = None
    BY MirrorAges DEF TimersInv
<1>3. /\ wake' \in [Timers -> Nat \cup {None}]
      /\ \A t \in Timers : wake'[t] # None => wake[t] # None
    <2>1. ASSUME NEW t \in Timers, wake[t] # None PROVE wake[t] - 1 \in Nat
        <3>1. wake[t] \in Nat /\ wake[t] # 0
            BY <2>1 DEF TimePasses, TimersInv, TimersTypeOK
        <3> QED BY <3>1
    <2> QED BY <2>1 DEF TimePasses
<1>4. next' \in 0..pace
    <2>1. pace \in Nat /\ next \in 0..pace /\ next > 0 /\ next' = next - 1
        BY TimersAssumption DEF TimePasses, TimersInv, TimersTypeOK
    <2> QED BY <2>1
<1>5. follow' \in [Spoken -> 0..FollowUp]
    <2>1. ASSUME NEW k \in Spoken PROVE Down(follow[k]) \in 0..FollowUp
        <3>1. follow[k] \in 0..FollowUp /\ FollowUp \in Nat
            BY TimersAssumption DEF TimersInv, TimersTypeOK
        <3> QED BY <3>1 DEF Down
    <2> QED BY <2>1 DEF TimePasses
<1> QED BY <1>1, <1>2, <1>3, <1>4, <1>5 DEF TimePasses, TimersInv, TimersTypeOK, Unheard

(* Whatever happens.                                                       *)
LEMMA TimersStep == TimersInv /\ [Next]_timers => TimersInv'
<1> SUFFICES ASSUME TimersInv, [Next]_timers PROVE TimersInv'
    OBVIOUS
<1>1. CASE People \/ Endpoint
    BY <1>1, AmazonKeeps DEF People, Endpoint
<1>2. CASE Polls \/ Hints
    BY <1>2, PollsKeep
<1>3. CASE PollAnswers \/ PollFails \/ Restart \/ TimePasses
    BY <1>3, AnswersKeep, FailuresKeep, RestartKeeps, TimeKeeps
<1>4. CASE UNCHANGED timers
    BY <1>4 DEF timers, amazon, TimersInv, TimersTypeOK, Unheard
<1> QED BY <1>1, <1>2, <1>3, <1>4 DEF Next

LEMMA TimersInvariant == Spec => []TimersInv
BY InitTimers, TimersStep, PTL DEF Spec

(* The types; and a request that came while a poll was out stays           *)
(* remembered only as long as that poll, or its retry, will serve it.      *)
THEOREM TimersTypeCorrect == Spec => []TimersTypeOK
<1>1. TimersInv => TimersTypeOK
    BY DEF TimersInv
<1> QED BY <1>1, TimersInvariant, PTL

(* Nothing is announced but by an answer.                                  *)
LEMMA OnlyAnswersSpeak ==
    ASSUME People \/ Endpoint \/ Polls \/ Hints \/ PollFails \/ Restart \/ TimePasses
    PROVE  said' = Silent
BY DEF People, SetTimer, PauseTimer, ResumeTimer, EndTimer, Quiet, Polls, Hints,
       Endpoint, Publish, Skips, Recalls,
       LoopPolls, RetryPolls, WakePolls, FollowUpPolls, NotificationChange, Hint, PollFails,
       Restart, TimePasses

(* No timer is called fired or cancelled that Amazon still has and that    *)
(* the answer did not leave out: not because the endpoint is late with it, *)
(* a poll has failed or the hub was restarted, whatever its disk held.     *)
THEOREM CalledOverIsOver == Spec => OverUnlessLeftOut
<1>1. ASSUME TimersInv, Next, said'.kind \in {"fired", "cancelled"}
      PROVE  cloud[said'.timer] = None \/ said'.timer \in holes
    <2>1. said' # Silent
        BY <1>1 DEF Silent
    <2>2. PollAnswers
        BY <2>1, <1>1, OnlyAnswersSpeak DEF Next
    <2>3. said'.timer \in Gone
        BY <1>1, <2>1, <2>2, WhatIsSaid DEF PollAnswers, TimersInv
    <2>4. /\ said'.timer \in Timers /\ mirror[said'.timer] # None
          /\ told[said'.timer] = None \/ said'.timer \in holes
        BY <1>1, <2>3, ListedType DEF Gone, Active, TimersInv
    <2> QED BY <1>1, <2>4 DEF TimersInv, Unheard
<1>2. TimersInv /\ [Next]_timers =>
          [said'.kind \in {"fired", "cancelled"}
           => cloud[said'.timer] = None \/ said'.timer \in holes]_timers
    BY <1>1
<1> QED BY <1>2, TimersInvariant, PTL DEF Spec, OverUnlessLeftOut

-----------------------------------------------------------------------------
(* The session: no two refreshes are in flight.                            *)

CallsOK ==
    /\ calls \in [Callers -> CallType \cup {NoCall}]
    /\ \A c, d \in Callers :
          /\ calls[c] # NoCall /\ calls[c].stage = "refresh"
          /\ calls[d] # NoCall /\ calls[d].stage = "refresh"
          => c = d

ClocksOK ==
    /\ age \in 0..ForceAge
    /\ attempted \in 0..RefreshEvery
    /\ asked \in 0..OutsideCooldown
    /\ nextPing \in 0..PingEvery

-----------------------------------------------------------------------------
(* The books.                                                              *)

(* What is counted up to a bound stays below it.                           *)
LEMMA UptoBounded ==
    ASSUME NEW n \in Nat, NEW max \in Nat
    PROVE  Upto(n, max) \in 0..max
BY DEF Upto

(* A failure is noted in the book.                                         *)
LEMMA FailureMarked ==
    ASSUME NEW b \in BookType
    PROVE  MarkFailure(b) \in BookType
<1>1. Upto(b.failures + 1, FailureThreshold) \in Nat
    BY KeepaliveAssumption DEF Upto, BookType
<1> QED
    BY <1>1 DEF MarkFailure, BookType

(* So is a rotation, and that the session is healthy.                      *)
LEMMA HealthMarked ==
    ASSUME NEW b \in BookType
    PROVE  MarkHealthy(b) \in BookType /\ NoteRotation(b) \in BookType
<1>1. MarkHealthy(b) \in BookType
    BY DEF MarkHealthy, BookType
<1>2. NoteRotation(b) \in BookType
    <2>1. 0 \in 0..2
        OBVIOUS
    <2>2. ASSUME NEW none \in 0..2, NEW advised \in BOOLEAN,
                 NEW date \in {"none", "current", "older"}
          PROVE  [b EXCEPT !.noops = none, !.recommended = advised, !.tracked = date] \in BookType
        BY DEF BookType
    <2> QED
        BY <2>1, <2>2 DEF NoteRotation
<1> QED
    BY <1>1, <1>2

(* The check of the token's age leaves a book.                             *)
LEMMA RotationChecked ==
    ASSUME NEW b \in BookType
    PROVE  CheckRotation(b) \in BookType
<1> DEFINE seen == [b EXCEPT !.tracked = "current"]
<1>1. seen \in BookType
    BY DEF BookType
<1>2. Recommends(seen) \in BookType
    BY <1>1 DEF Recommends, BookType
<1>3. MarkFailure(Recommends(seen)) \in BookType
    BY <1>2, FailureMarked
<1>4. NoteRotation(b) \in BookType
    BY HealthMarked
<1> QED
    BY <1>1, <1>2, <1>3, <1>4 DEF CheckRotation

(* A refresh that changes nothing is noted in the book.                    *)
LEMMA NoopNoted ==
    ASSUME NEW b \in BookType
    PROVE  NoteNoop(b) \in BookType
<1> DEFINE later == IF age >= WatchdogAge /\ b.retry = Unset THEN NoopRetry ELSE b.retry
           counted == [b EXCEPT !.noops = Upto(@ + 1, 2), !.retry = later]
<1>1. Upto(b.noops + 1, 2) \in 0..2
    BY DEF BookType, Upto
<1>2. later \in Nat \cup {Unset}
    BY KeepaliveAssumption DEF BookType
<1>3. counted \in BookType
    BY <1>1, <1>2 DEF BookType
<1>4. NoteNoop(b) = CheckRotation(counted)
    BY DEF NoteNoop
<1> QED
    BY <1>3, <1>4, RotationChecked

-----------------------------------------------------------------------------
(* The chains of calls.                                                    *)

(* What a chain can become is a call.                                      *)
LEMMA CallsAreCalls ==
    ASSUME NEW stage \in {"auth", "refresh", "verify", "probe", "returns"},
           NEW frames \in Seq(Frames), NEW ok \in BOOLEAN
    PROVE  /\ Call(stage, frames) \in CallType
           /\ Told(frames, ok) \in CallType /\ Refused(frames) \in CallType
           /\ Refresh(frames) \in CallType
           /\ Call(stage, frames).stage = stage
           /\ Told(frames, ok).stage = "returns" /\ Refused(frames).stage = "returns"
           /\ Refresh(frames).stage = "refresh" => ~Refreshing
BY DEF Call, Told, Refused, Refresh, CallType

(* A chain goes on, with a refresh only when none is in flight.            *)
LEMMA ChainGoesOn ==
    ASSUME CallsOK, NEW c \in Callers, NEW call \in CallType \cup {NoCall}, Goes(c, call),
           call \in CallType /\ call.stage = "refresh" => ~Refreshing
    PROVE  CallsOK'
<1>1. calls' \in [Callers -> CallType \cup {NoCall}]
    BY DEF CallsOK, Goes
<1>2. ASSUME NEW d \in Callers, NEW e \in Callers,
             calls'[d] # NoCall, calls'[d].stage = "refresh",
             calls'[e] # NoCall, calls'[e].stage = "refresh"
      PROVE  d = e
    <2>1. \A f \in Callers : calls'[f] = IF f = c THEN call ELSE calls[f]
        BY DEF Goes, CallsOK
    <2>2. CASE d # c /\ e # c
        BY <1>2, <2>1, <2>2 DEF CallsOK
    <2>3. CASE d = c \/ e = c
        <3>1. call # NoCall /\ call.stage = "refresh"
            BY <1>2, <2>1, <2>3
        <3>2. ~Refreshing
            BY <3>1
        <3>3. \A f \in Callers \ {c} : ~(calls'[f] # NoCall /\ calls'[f].stage = "refresh")
            BY <2>1, <3>2 DEF Refreshing, Under
        <3> QED
            BY <1>2, <3>3
    <2> QED
        BY <2>2, <2>3
<1> QED
    BY <1>1, <1>2 DEF CallsOK

(* A chain may end.                                                        *)
LEMMA ChainEnds ==
    ASSUME CallsOK, NEW c \in Callers, Ends(c)
    PROVE  CallsOK'
BY ChainGoesOn, NoCallAssumption DEF Ends

(* The callbacks of a chain are callbacks, the one that runs and the rest. *)
LEMMA FramesOfChain ==
    ASSUME CallsOK, NEW c \in Callers, calls[c] # NoCall
    PROVE  /\ calls[c] \in CallType
           /\ calls[c].frames \in Seq(Frames) /\ calls[c].ok \in BOOLEAN
           /\ calls[c].frames # <<>> => Outer(c) \in Seq(Frames)
           /\ <<"verify">> \o calls[c].frames \in Seq(Frames)
           /\ <<"liveness">> \o calls[c].frames \in Seq(Frames)
<1>1. calls[c] \in CallType
    BY DEF CallsOK
<1>2. calls[c].frames \in Seq(Frames) /\ calls[c].ok \in BOOLEAN
    BY <1>1 DEF CallType
<1>3. <<"verify">> \in Seq(Frames) /\ <<"liveness">> \in Seq(Frames)
    BY DEF Frames
<1>4. <<"verify">> \o calls[c].frames \in Seq(Frames)
      /\ <<"liveness">> \o calls[c].frames \in Seq(Frames)
    BY <1>2, <1>3, ConcatProperties
<1>5. calls[c].frames # <<>> => Outer(c) \in Seq(Frames)
    BY <1>2, HeadTailProperties DEF Outer
<1> QED
    BY <1>1, <1>2, <1>4, <1>5

-----------------------------------------------------------------------------
(* The type invariant.                                                     *)

(* Its parts, each of which most actions leave alone.                      *)
LEMMA PartsOfType ==
    KeepaliveTypeOK <=>
        /\ alive \in BOOLEAN /\ book \in BookType /\ startup \in {"ping", "refresh", "done"}
        /\ CallsOK /\ ClocksOK
BY DEF KeepaliveTypeOK, CallsOK, ClocksOK

(* A ping starts a chain, or is dropped.                                   *)
LEMMA PingStarts ==
    ASSUME CallsOK, Ping
    PROVE  CallsOK'
<1> DEFINE late == age >= WatchdogAge
           call == [Call("auth", <<"ping">>) EXCEPT !.stale = late]
<1>1. <<"ping">> \in Seq(Frames)
    BY DEF Frames
<1>2. call \in CallType /\ call.stage = "auth"
    <2>1. late \in BOOLEAN
        OBVIOUS
    <2> HIDE DEF late
    <2>2. Call("auth", <<"ping">>) \in CallType /\ Call("auth", <<"ping">>).stage = "auth"
        BY <1>1, CallsAreCalls
    <2> QED
        BY <2>1, <2>2 DEF CallType
<1>3. CASE UNCHANGED calls
    BY <1>3 DEF CallsOK
<1>4. CASE Goes("ping", call)
    BY <1>2, <1>4, ChainGoesOn DEF Callers
<1> QED
    BY <1>3, <1>4 DEF Ping

(* What Amazon answers to a chain leaves the state type correct.           *)
LEMMA AnswersKeepType ==
    ASSUME KeepaliveTypeOK, NEW c \in Callers, NEW ok \in BOOLEAN,
           \/ AuthAnswers(c, ok) \/ VerifyAnswers(c, ok)
           \/ RefreshRotates(c) \/ RefreshRenews(c) \/ RefreshIsNoop(c) \/ RefreshFails(c)
           \/ ProbeAnswers(c) \/ ProbeRefused(c)
    PROVE  KeepaliveTypeOK'
<1>1. book \in BookType /\ CallsOK /\ ClocksOK
    BY PartsOfType
<1>2. calls[c] # NoCall
    BY DEF AuthAnswers, VerifyAnswers, RefreshRotates, RefreshRenews, RefreshIsNoop,
           RefreshFails, ProbeAnswers, ProbeRefused, Under
<1>3. /\ calls[c].frames \in Seq(Frames)
      /\ <<"verify">> \o calls[c].frames \in Seq(Frames)
      /\ <<"liveness">> \o calls[c].frames \in Seq(Frames)
    BY <1>1, <1>2, FramesOfChain
<1>4. <<"ping">> \in Seq(Frames) /\ <<"cycle">> \in Seq(Frames)
    BY DEF Frames
<1>5. ASSUME NEW frames \in Seq(Frames), NEW answer \in BOOLEAN,
             \/ Goes(c, Call("probe", frames)) \/ Goes(c, Call("verify", frames))
             \/ Goes(c, Told(frames, answer)) \/ Goes(c, Refresh(frames))
      PROVE  CallsOK'
    <2>1. CASE Goes(c, Call("probe", frames))
        BY <1>1, <2>1, CallsAreCalls, ChainGoesOn
    <2>2. CASE Goes(c, Call("verify", frames))
        BY <1>1, <2>2, CallsAreCalls, ChainGoesOn
    <2>3. CASE Goes(c, Told(frames, answer))
        BY <1>1, <2>3, CallsAreCalls, ChainGoesOn
    <2>4. CASE Goes(c, Refresh(frames))
        BY <1>1, <2>4, CallsAreCalls, ChainGoesOn
    <2> QED
        BY <1>5, <2>1, <2>2, <2>3, <2>4
<1>6. CallsOK'
    <2>1. CASE AuthAnswers(c, ok)
        BY <1>4, <1>5, <2>1 DEF AuthAnswers
    <2>2. CASE VerifyAnswers(c, ok)
        BY <1>3, <1>5, <2>2 DEF VerifyAnswers
    <2>3. CASE RefreshRotates(c) \/ RefreshRenews(c) \/ RefreshIsNoop(c)
        BY <1>3, <1>5, <2>3 DEF RefreshRotates, RefreshRenews, RefreshIsNoop
    <2>4. CASE RefreshFails(c)
        BY <1>3, <1>5, <2>4 DEF RefreshFails
    <2>5. CASE ProbeAnswers(c)
        BY <1>3, <1>5, <2>5 DEF ProbeAnswers
    <2>6. CASE ProbeRefused(c)
        BY <1>3, <1>5, <2>6 DEF ProbeRefused
    <2> QED
        BY <2>1, <2>2, <2>3, <2>4, <2>5, <2>6
<1>7. book' \in BookType
    <2>1. CASE RefreshRotates(c)
        BY <1>1, <2>1, HealthMarked DEF RefreshRotates
    <2>2. CASE RefreshRenews(c)
        BY <1>1, <2>2, HealthMarked, NoopNoted DEF RefreshRenews
    <2>3. CASE RefreshIsNoop(c)
        BY <1>1, <2>3, NoopNoted DEF RefreshIsNoop
    <2> QED
        BY <1>1, <2>1, <2>2, <2>3 DEF AuthAnswers, VerifyAnswers, RefreshFails, ProbeAnswers, ProbeRefused
<1>8. ClocksOK'
    <2>1. age' \in {age, 0} /\ attempted' \in {attempted, 0} /\ UNCHANGED <<asked, nextPing>>
        BY DEF AuthAnswers, VerifyAnswers, RefreshRotates, RefreshRenews, RefreshIsNoop,
               RefreshFails, ProbeAnswers, ProbeRefused
    <2> QED
        BY <1>1, <2>1, KeepaliveAssumption DEF ClocksOK
<1>9. UNCHANGED <<alive, startup>>
    BY DEF AuthAnswers, VerifyAnswers, RefreshRotates, RefreshRenews, RefreshIsNoop,
           RefreshFails, ProbeAnswers, ProbeRefused
<1> QED
    BY <1>6, <1>7, <1>8, <1>9 DEF KeepaliveTypeOK, CallsOK, ClocksOK

(* So do the callbacks.                                                    *)
LEMMA CallbacksKeepType ==
    ASSUME KeepaliveTypeOK, Callbacks
    PROVE  KeepaliveTypeOK'
<1>1. book \in BookType /\ CallsOK /\ ClocksOK
    BY PartsOfType
<1>2. PICK c \in Callers :
          \/ NobodyWaits(c) \/ PingGoesOn(c) \/ CycleEnds(c) \/ Verified(c)
          \/ Relieved(c) \/ OutsideLearns(c)
    BY DEF Callbacks
<1>3. calls[c] # NoCall
    BY <1>2 DEF NobodyWaits, PingGoesOn, CycleEnds, Verified, Relieved, OutsideLearns, Innermost, Under
<1>4. calls[c].ok \in BOOLEAN /\ (calls[c].frames # <<>> => Outer(c) \in Seq(Frames))
    BY <1>1, <1>3, FramesOfChain
<1>5. CallsOK'
    <2>1. CASE NobodyWaits(c) \/ CycleEnds(c) \/ OutsideLearns(c)
        BY <1>1, <2>1, ChainEnds DEF NobodyWaits, CycleEnds, OutsideLearns
    <2>2. CASE PingGoesOn(c)
        <3>1. <<"cycle">> \in Seq(Frames)
            BY DEF Frames
        <3> QED
            BY <1>1, <2>2, <3>1, CallsAreCalls, ChainGoesOn DEF PingGoesOn
    <2>3. CASE Verified(c) \/ Relieved(c)
        <3>1. Outer(c) \in Seq(Frames) /\ Goes(c, Told(Outer(c), calls[c].ok))
            BY <1>4, <2>3 DEF Verified, Relieved, Innermost
        <3>2. Told(Outer(c), calls[c].ok) \in CallType
              /\ Told(Outer(c), calls[c].ok).stage = "returns"
            BY <1>4, <3>1, CallsAreCalls
        <3> QED
            BY <1>1, <3>1, <3>2, ChainGoesOn
    <2> QED
        BY <1>2, <2>1, <2>2, <2>3
<1>6. book' \in BookType
    <2>1. MarkHealthy(book) \in BookType /\ CheckRotation(MarkHealthy(book)) \in BookType
        BY <1>1, HealthMarked, RotationChecked
    <2>2. MarkFailure(book) \in BookType
        BY <1>1, FailureMarked
    <2> QED
        BY <1>1, <1>2, <2>1, <2>2
        DEF NobodyWaits, PingGoesOn, CycleEnds, Verified, Relieved, OutsideLearns
<1>7. UNCHANGED <<alive, age, attempted, asked, nextPing, startup>>
    BY <1>2 DEF NobodyWaits, PingGoesOn, CycleEnds, Verified, Relieved, OutsideLearns
<1> QED
    BY <1>5, <1>6, <1>7 DEF KeepaliveTypeOK, CallsOK

(* So do the timers of the process.                                        *)
LEMMA TimersKeepType ==
    ASSUME KeepaliveTypeOK, KeepaliveTimers
    PROVE  KeepaliveTypeOK'
<1>1. book \in BookType /\ CallsOK /\ ClocksOK
    BY PartsOfType
<1>2. Call("refresh", <<>>) \in CallType
    BY DEF Call, CallType
<1>3. CASE TimerPings
    <2>1. CallsOK'
        BY <1>1, <1>3, PingStarts DEF TimerPings
    <2>2. ClocksOK'
        BY <1>1, <1>3, KeepaliveAssumption DEF TimerPings, ClocksOK
    <2> QED
        BY <1>3, <2>1, <2>2 DEF TimerPings, KeepaliveTypeOK, CallsOK, ClocksOK
<1>4. CASE StartupPings
    <2>1. CallsOK'
        BY <1>1, <1>4, PingStarts DEF StartupPings
    <2> QED
        BY <1>4, <2>1 DEF StartupPings, KeepaliveTypeOK, CallsOK
<1>5. CASE StartupRefreshes
    <2>1. CallsOK'
        <3>1. CASE age >= 1 /\ ~Refreshing
            <4>1. Goes("startup", Call("refresh", <<>>))
                BY <1>5, <3>1 DEF StartupRefreshes
            <4> QED
                BY <1>1, <1>2, <3>1, <4>1, ChainGoesOn DEF Callers
        <3>2. CASE ~(age >= 1 /\ ~Refreshing)
            BY <1>1, <1>5, <3>2 DEF StartupRefreshes, CallsOK
        <3> QED
            BY <3>1, <3>2
    <2> QED
        BY <1>5, <2>1 DEF StartupRefreshes, KeepaliveTypeOK, CallsOK
<1>6. CASE RetryRefreshes
    <2>1. CallsOK'
        <3>1. CASE Refreshing
            BY <1>1, <1>6, <3>1 DEF RetryRefreshes, CallsOK
        <3>2. CASE ~Refreshing
            <4>1. Goes("retry", Call("refresh", <<>>))
                BY <1>6, <3>2 DEF RetryRefreshes
            <4> QED
                BY <1>1, <1>2, <3>2, <4>1, ChainGoesOn DEF Callers
        <3> QED
            BY <3>1, <3>2
    <2>2. book' \in BookType
        BY <1>1, <1>6 DEF RetryRefreshes, BookType
    <2> QED
        BY <1>6, <2>1, <2>2 DEF RetryRefreshes, KeepaliveTypeOK, CallsOK
<1>7. CASE HoursPass
    <2>1. book' \in BookType
        BY <1>1, <1>7 DEF HoursPass, BookType, Unset
    <2>2. ClocksOK'
        BY <1>1, <1>7, KeepaliveAssumption DEF HoursPass, ClocksOK, Upto
    <2> QED
        BY <1>7, <2>1, <2>2 DEF HoursPass, KeepaliveTypeOK, ClocksOK
<1> QED
    BY <1>3, <1>4, <1>5, <1>6, <1>7 DEF KeepaliveTimers

(* What comes from elsewhere leaves the state type correct.                *)
LEMMA OthersKeepType ==
    ASSUME KeepaliveTypeOK,
           \/ \E renewing \in BOOLEAN : OutsideFails(renewing)
           \/ \E rotated \in BOOLEAN : CookieSaved(rotated)
           \/ SessionDies \/ ProcessRestarts
    PROVE  KeepaliveTypeOK'
<1>1. book \in BookType /\ CallsOK /\ ClocksOK
    BY PartsOfType
<1>2. ASSUME NEW renewing \in BOOLEAN, OutsideFails(renewing)
      PROVE  KeepaliveTypeOK'
    <2>1. book' \in BookType
        BY <1>1, <1>2, RotationChecked DEF OutsideFails
    <2>2. CallsOK' /\ asked' \in 0..OutsideCooldown
        <3>1. CASE Refreshing \/ asked < OutsideCooldown
            BY <1>1, <1>2, <3>1 DEF OutsideFails, CallsOK, ClocksOK
        <3>2. CASE ~(Refreshing \/ asked < OutsideCooldown)
            <4>1. asked' = 0 /\ Goes("outside", Call("refresh", <<"outside">>))
                BY <1>2, <3>2 DEF OutsideFails
            <4>2. <<"outside">> \in Seq(Frames)
                BY DEF Frames
            <4>3. Call("refresh", <<"outside">>) \in CallType
                BY <4>2, CallsAreCalls
            <4>4. CallsOK'
                BY <1>1, <3>2, <4>1, <4>3, ChainGoesOn DEF Callers
            <4> QED
                BY <4>1, <4>4, KeepaliveAssumption
        <3> QED
            BY <3>1, <3>2
    <2> QED
        BY <1>2, <2>1, <2>2 DEF OutsideFails, KeepaliveTypeOK, CallsOK
<1>3. ASSUME NEW rotated \in BOOLEAN, CookieSaved(rotated)
      PROVE  KeepaliveTypeOK'
    <2>1. book' \in BookType
        BY <1>1, <1>3 DEF CookieSaved, BookType
    <2>2. age' \in 0..ForceAge
        <3>1. age' = 0 \/ age' = age
            BY <1>3 DEF CookieSaved
        <3> QED
            BY <1>1, <3>1, KeepaliveAssumption DEF ClocksOK
    <2> QED
        BY <1>3, <2>1, <2>2 DEF CookieSaved, KeepaliveTypeOK
<1>4. CASE SessionDies
    BY <1>4 DEF SessionDies, KeepaliveTypeOK
<1>5. CASE ProcessRestarts
    <2>1. book' \in BookType
        BY <1>1, <1>5 DEF ProcessRestarts, NewBook, BookType
    <2>2. CallsOK'
        BY <1>5 DEF ProcessRestarts, CallsOK
    <2>3. ClocksOK'
        BY <1>1, <1>5, KeepaliveAssumption DEF ProcessRestarts, ClocksOK
    <2> QED
        BY <1>5, <2>1, <2>2, <2>3 DEF ProcessRestarts, KeepaliveTypeOK, CallsOK, ClocksOK
<1> QED
    BY <1>2, <1>3, <1>4, <1>5

(* The session's state is type correct and no two refreshes are in flight  *)
(* at the same time, whoever asks for them: pings, the start, retries and  *)
(* polls that were refused.                                                *)
THEOREM KeepaliveTypeCorrect == KeepaliveSpec => []KeepaliveTypeOK
<1>1. KeepaliveInit => KeepaliveTypeOK
    <2> SUFFICES ASSUME KeepaliveInit
                 PROVE  KeepaliveTypeOK
        OBVIOUS
    <2>1. book \in BookType
        BY DEF KeepaliveInit, NewBook, BookType
    <2>2. CallsOK
        BY DEF KeepaliveInit, CallsOK
    <2>3. ClocksOK
        BY KeepaliveAssumption DEF KeepaliveInit, ClocksOK
    <2> QED
        BY <2>1, <2>2, <2>3, PartsOfType DEF KeepaliveInit
<1>2. KeepaliveTypeOK /\ [KeepaliveNext]_keepalive => KeepaliveTypeOK'
    <2> SUFFICES ASSUME KeepaliveTypeOK, [KeepaliveNext]_keepalive
                 PROVE  KeepaliveTypeOK'
        OBVIOUS
    <2>1. CASE Callbacks
        BY <2>1, CallbacksKeepType
    <2>2. CASE Denials \/ OtherAnswers
        <3>1. PICK c \in Callers, ok \in BOOLEAN :
                  \/ AuthAnswers(c, ok) \/ VerifyAnswers(c, ok)
                  \/ RefreshRotates(c) \/ RefreshRenews(c) \/ RefreshIsNoop(c)
                  \/ RefreshFails(c) \/ ProbeAnswers(c) \/ ProbeRefused(c)
            BY <2>2 DEF Denials, OtherAnswers
        <3> QED
            BY <3>1, AnswersKeepType
    <2>3. CASE KeepaliveTimers
        BY <2>3, TimersKeepType
    <2>4. CASE \/ \E renewing \in BOOLEAN : OutsideFails(renewing)
               \/ \E rotated \in BOOLEAN : CookieSaved(rotated)
               \/ SessionDies \/ ProcessRestarts
        BY <2>4, OthersKeepType
    <2>5. CASE UNCHANGED keepalive
        BY <2>5 DEF keepalive, KeepaliveTypeOK
    <2> QED
        BY <2>1, <2>2, <2>3, <2>4, <2>5 DEF KeepaliveNext
<1> QED
    BY <1>1, <1>2, PTL DEF KeepaliveSpec

-----------------------------------------------------------------------------
(* Both with what their instance remembers of them.                        *)

(* A step of the instance is a step of each part, or leaves it alone.      *)
LEMMA StepOfParts ==
    ASSUME [MCNext]_mcamazon
    PROVE  [Next]_timers /\ [KeepaliveNext]_keepalive
<1>1. CASE TimersMove \/ Publishes \/ Polling \/ Answers \/ Passing
    <2>1. UNCHANGED keepalive
        BY <1>1 DEF TimersMove, Publishes, Polling, Answers, Passing, Unmoved, OfTimers
    <2>2. Next
        BY <1>1 DEF TimersMove, Publishes, Polling, Answers, Passing, Next, Hints, Endpoint
    <2> QED BY <2>1, <2>2
<1>2. CASE SessionMove \/ SessionAnswers \/ SessionPassing
    <2>1. UNCHANGED timers
        BY <1>2 DEF SessionMove, SessionAnswers, SessionPassing, OfSession
    <2>2. KeepaliveNext
        BY <1>2 DEF SessionMove, SessionAnswers, SessionPassing, KeepaliveNext
    <2> QED BY <2>1, <2>2
<1>3. CASE UNCHANGED mcamazon
    BY <1>3 DEF mcamazon
<1> QED BY <1>1, <1>2, <1>3 DEF MCNext

(* So what is proved of the parts holds of the instance.                   *)
LEMMA PartsHold == MCSpec => []TimersInv /\ []KeepaliveTypeOK
<1>1. MCInit => Init /\ KeepaliveInit
    BY DEF MCInit
<1>2. [MCNext]_mcamazon => [Next]_timers /\ [KeepaliveNext]_keepalive
    BY StepOfParts
<1>3. MCSpec => Spec /\ KeepaliveSpec
    BY <1>1, <1>2, PTL DEF MCSpec, Spec, KeepaliveSpec
<1> QED BY <1>3, TimersInvariant, KeepaliveTypeCorrect, PTL

(* What asks for a poll starts one, or is remembered behind the one that   *)
(* is in flight.                                                           *)
LEMMA PollForServes ==
    ASSUME NEW trigger \in Triggers, PollFor(trigger)
    PROVE  Starts \/ (polling' # None /\ again')
BY NoTimerAssumption DEF PollFor, Starts

LEMMA TriggersAreKnown ==
    /\ Plain \in Triggers
    /\ \A k \in Spoken : Now(k) \in Triggers /\ Later(k) \in Triggers
BY DEF Triggers

LEMMA RequestKept ==
    ASSUME NoRequestLost, [MCNext]_mcamazon
    PROVE  NoRequestLost'
<1>1. ASSUME Carried, UNCHANGED <<polling, again, retry>>
      PROVE  NoRequestLost'
    BY <1>1, Zenon DEF Carried, NoRequestLost
<1>2. CASE TimersMove
    <2>1. CASE People /\ Carried
        BY <1>1, <2>1 DEF People, SetTimer, PauseTimer, ResumeTimer, EndTimer, Quiet
    <2>2. CASE /\ NotificationChange \/ \E k \in Spoken : Hint(k)
               /\ owed' = ~Starts
        BY <2>2, PollForServes, TriggersAreKnown DEF NotificationChange, Hint, NoRequestLost
    <2>3. CASE PollFails /\ Carried
        BY <2>3, Zenon DEF PollFails, Carried, NoRequestLost
    <2>4. CASE Restart /\ owed' = FALSE
        BY <2>4 DEF NoRequestLost
    <2>5. CASE (\E t \in Timers : Skips(t)) /\ Carried
        BY <1>1, <2>5 DEF Skips, Quiet
    <2> QED BY <1>2, <2>1, <2>2, <2>3, <2>4, <2>5 DEF TimersMove
<1>3. CASE Polling
    <2>1. Carried
        BY <1>3 DEF Polling, Unmoved
    <2>2. Starts \/ (polling' # None /\ again')
        BY <1>3, PollForServes, TriggersAreKnown
        DEF Polling, Polls, LoopPolls, RetryPolls, WakePolls, FollowUpPolls
    <2> QED BY <2>1, <2>2, Zenon DEF Carried, NoRequestLost
<1>4. CASE Answers
    <2>1. Plain # None
        BY NoTimerAssumption, TriggersAreKnown
    <2> QED BY <1>4, <2>1 DEF Answers, PollAnswers, NoRequestLost
<1>5. CASE Publishes \/ Passing
    <2>1. UNCHANGED <<polling, again, retry>>
        BY <1>5, Zenon DEF Publishes, Passing, Publish, Recalls, Quiet, TimePasses
    <2> QED BY <1>1, <1>5, <2>1 DEF Publishes, Passing, Unmoved
<1>6. CASE SessionMove \/ SessionAnswers \/ SessionPassing
    <2>1. UNCHANGED <<timers, owed>>
        BY <1>6 DEF SessionMove, SessionAnswers, SessionPassing, OfSession
    <2> QED BY <2>1 DEF timers, NoRequestLost
<1>7. CASE UNCHANGED mcamazon
    BY <1>7 DEF mcamazon, timers, followed, NoRequestLost
<1> QED BY <1>2, <1>3, <1>4, <1>5, <1>6, <1>7 DEF MCNext

(* A poll that was asked for while another was in flight is remembered     *)
(* until a later poll starts: till then the one in flight will be followed *)
(* by another or a retry is on its way, whether it is answered or fails    *)
(* and whoever else polls (pollNotifications).  What becomes of the poll   *)
(* that starts then is not claimed: it may fail, and is not made again     *)
(* unless somebody asks once more or the loop comes round.                 *)
THEOREM RequestsAreRemembered == MCSpec => []NoRequestLost
<1>1. MCInit => NoRequestLost
    BY DEF MCInit, NoRequestLost
<1>2. NoRequestLost /\ [MCNext]_mcamazon => NoRequestLost'
    BY RequestKept
<1> QED BY <1>1, <1>2, PTL DEF MCSpec

(* A timer that was announced and not left out since is in the mirror, or  *)
(* over for good: Amazon and its endpoint have dropped it, and its id is   *)
(* not used again.                                                         *)
HeardIsKnown ==
    \A t \in heard : /\ t \in Timers
                     /\ mirror[t] # None \/ (t \notin unused /\ cloud[t] = None /\ told[t] = None)

(* Nothing of the timers is announced while the session is followed.       *)
SilentBesides == subject # "timers" => said = Silent

(* A timer that is over stays over, and one that the mirror has stays      *)
(* there, unless a poll is answered or the process starts again.           *)
LEMMA KnownStaysKnown ==
    ASSUME TimersInv, NEW t \in Timers,
           mirror[t] # None \/ (t \notin unused /\ cloud[t] = None /\ told[t] = None),
           People \/ Endpoint \/ Polls \/ Hints \/ PollFails \/ TimePasses \/ UNCHANGED timers
    PROVE  mirror'[t] # None \/ (t \notin unused' /\ cloud'[t] = None /\ told'[t] = None)
<1>1. /\ cloud \in [Timers -> TimerType \cup {None}] /\ told \in [Timers -> TimerType \cup {None}]
      /\ mirror \in [Timers -> MirrorType \cup {None}]
    BY DEF TimersInv, TimersTypeOK
<1>2. CASE People
    BY <1>1, <1>2 DEF People, SetTimer, PauseTimer, ResumeTimer, EndTimer, Quiet
<1>3. CASE Endpoint
    BY <1>1, <1>3 DEF Endpoint, Publish, Skips, Recalls, Quiet
<1>4. CASE Polls \/ Hints \/ PollFails
    <2>1. UNCHANGED <<amazon, mirror>>
        BY <1>4 DEF Polls, Hints, LoopPolls, RetryPolls, WakePolls, FollowUpPolls,
                    NotificationChange, Hint, PollFails
    <2> QED BY <2>1 DEF amazon
<1>5. CASE TimePasses
    <2>1. /\ cloud'[t] = None <=> cloud[t] = None
          /\ told'[t] = None <=> told[t] = None
          /\ unused' = unused
        BY <1>1, <1>5, ElapsedType DEF TimePasses
    <2>2. mirror'[t] = None <=> mirror[t] = None
        BY <1>5, MirrorAges DEF TimersInv
    <2> QED BY <2>1, <2>2
<1>6. CASE UNCHANGED timers
    BY <1>6 DEF timers, amazon
<1> QED BY <1>2, <1>3, <1>4, <1>5, <1>6

(* What an answer announces as new was not in the mirror, and is now.      *)
LEMMA AnnouncedIsNew ==
    ASSUME TimersInv, PollAnswers
    PROVE  /\ said'.kind = "started"
                  => /\ said'.timer \in Timers /\ mirror[said'.timer] = None
                     /\ told[said'.timer] # None /\ mirror'[said'.timer] # None
           /\ \A t \in Timers : mirror'[t] = None => told[t] = None \/ t \in holes
<1>1. TimersTypeOK
    BY DEF TimersInv
<1>2. \A t \in Timers : mirror'[t] = None => told[t] = None \/ t \in holes
    BY <1>1, ListedStays DEF PollAnswers
<1>3. ASSUME said'.kind = "started"
      PROVE  /\ said'.timer \in Timers /\ mirror[said'.timer] = None
             /\ told[said'.timer] # None /\ said'.timer \notin holes
    <2>1. said' # Silent
        BY <1>3 DEF Silent
    <2>2. said' \in Primary(polling)
        BY <2>1 DEF PollAnswers
    <2>3. said'.timer \in Started
        BY <1>1, <1>3, <2>2, WhatIsSaid
    <2>4. /\ said'.timer \in Timers /\ Listed[said'.timer] # None
          /\ mirror[said'.timer] = None
        BY <2>3 DEF Started, Active
    <2> QED BY <1>1, <2>4, ListedType
<1> QED BY <1>2, <1>3

(* What the process knows of them when it comes back.                      *)
LEMMA RecalledIsKnown ==
    ASSUME TimersInv, HeardIsKnown, Restart, heard' = Recalled
    PROVE  HeardIsKnown'
<1>1. UNCHANGED amazon /\ mirror' \in OnDisk
    BY DEF Restart
<1>2. CASE mirror' = mirror
    <2>1. heard' = heard
        BY <1>2 DEF Recalled
    <2> QED BY <1>1, <1>2, <2>1 DEF HeardIsKnown, amazon
<1>3. CASE mirror' # mirror /\ mirror' = Blank
    <2>1. heard' = {}
        BY <1>1, <1>3 DEF Recalled, OnDisk
    <2> QED BY <2>1 DEF HeardIsKnown
<1>4. CASE mirror' # mirror /\ mirror' # Blank
    <2>1. mirror' = MirrorAfter(polling) /\ heard' = heard \ LeftOut
        BY <1>1, <1>4 DEF Recalled, OnDisk
    <2>2. \A t \in Timers : mirror'[t] = None => told[t] = None \/ t \in holes
        BY <2>1, ListedStays DEF TimersInv
    <2> QED BY <1>1, <2>1, <2>2 DEF HeardIsKnown, LeftOut, TimersInv, Unheard, amazon
<1> QED BY <1>2, <1>3, <1>4

LEMMA HeardKept ==
    ASSUME TimersInv, HeardIsKnown, SilentBesides, MCNext
    PROVE  /\ HeardIsKnown' /\ SilentBesides'
           /\ said'.kind = "started" => said'.timer \notin heard
<1>1. Silent.kind # "started"
    BY DEF Silent
<1>2. CASE TimersMove \/ Publishes \/ Polling \/ Passing
    <2>1. \/ /\ People \/ Endpoint \/ Polls \/ Hints \/ PollFails \/ TimePasses
             /\ heard' = heard
          \/ Restart /\ heard' = Recalled
        BY <1>2 DEF TimersMove, Publishes, Polling, Passing, Unmoved, Hints, Endpoint
    <2>2. said' = Silent
        BY <2>1, OnlyAnswersSpeak
    <2>3. HeardIsKnown'
        BY <2>1, KnownStaysKnown, RecalledIsKnown DEF HeardIsKnown
    <2> QED BY <1>1, <2>2, <2>3 DEF SilentBesides
<1>3. CASE Answers
    <2>1. /\ PollAnswers /\ Listening /\ subject' = "timers" /\ UNCHANGED amazon
        BY <1>3 DEF Answers, OfTimers, Follows, PollAnswers
    <2>2. /\ said'.kind = "started"
                  => /\ said'.timer \in Timers /\ mirror[said'.timer] = None
                     /\ told[said'.timer] # None /\ mirror'[said'.timer] # None
          /\ \A t \in Timers : mirror'[t] = None => told[t] = None \/ t \in holes
        BY <2>1, AnnouncedIsNew
    <2>3. ASSUME NEW t \in heard'
          PROVE  /\ t \in Timers
                 /\ mirror'[t] # None \/ (t \notin unused' /\ cloud'[t] = None /\ told'[t] = None)
        <3>1. CASE t \in heard \ LeftOut
            BY <2>1, <2>2, <3>1 DEF HeardIsKnown, LeftOut, TimersInv, Unheard, amazon
        <3>2. CASE t \notin heard \ LeftOut
            BY <2>1, <2>2, <3>2 DEF Listening
        <3> QED BY <3>1, <3>2
    <2> QED BY <2>1, <2>2, <2>3 DEF HeardIsKnown, SilentBesides
<1>4. CASE SessionMove \/ SessionAnswers \/ SessionPassing
    <2>1. UNCHANGED <<timers, heard>> /\ subject = "session" /\ UNCHANGED subject
        BY <1>4 DEF SessionMove, SessionAnswers, SessionPassing, OfSession, Follows
    <2> QED BY <1>1, <2>1 DEF SilentBesides, HeardIsKnown, timers, amazon
<1> QED BY <1>2, <1>3, <1>4 DEF MCNext

(* No timer is announced as new twice, unless an answer has left it out    *)
(* since the first time, or the hub has stopped while it wrote its mirror: *)
(* however late the endpoint is, whatever polls fail, and whether the hub  *)
(* comes back with the mirror from before an answer or from after it       *)
(* (applySnapshot, loadMirror).                                            *)
THEOREM NobodyListedStartsTwice == MCSpec => StartedOnce
<1> DEFINE I == HeardIsKnown /\ SilentBesides
<1>1. MCInit => I
    BY DEF MCInit, Init, HeardIsKnown, SilentBesides
<1>2. TimersInv /\ I /\ [MCNext]_mcamazon =>
          I' /\ [said'.kind = "started" => said'.timer \notin heard]_mcamazon
    <2> SUFFICES ASSUME TimersInv, I, [MCNext]_mcamazon
                 PROVE  I' /\ [said'.kind = "started" => said'.timer \notin heard]_mcamazon
        OBVIOUS
    <2>1. CASE MCNext
        BY <2>1, HeardKept
    <2>2. CASE UNCHANGED mcamazon
        BY <2>2 DEF mcamazon, timers, amazon, followed, HeardIsKnown, SilentBesides
    <2> QED BY <2>1, <2>2
<1> HIDE DEF I
<1> QED BY <1>1, <1>2, PartsHold, PTL DEF MCSpec, StartedOnce

-----------------------------------------------------------------------------
(* What a login is asked for.                                              *)

(* Without a doubt, a chain comes back empty-handed only to a ping that    *)
(* found a refresh in flight.                                              *)
Undoubted ==
    doubt \/ \A c \in Callers :
        Under(c, "returns") /\ ~calls[c].ok
            => calls[c].deferred /\ Innermost(c, "ping")

(* What a call that goes on is.                                            *)
LEMMA WhatGoesOn ==
    ASSUME KeepaliveTypeOK, NEW c \in Callers, NEW call, Goes(c, call)
    PROVE  \A d \in Callers : calls'[d] = IF d = c THEN call ELSE calls[d]
BY DEF Goes, KeepaliveTypeOK

(* A chain that goes on without doubt.                                     *)
Harmless(call) ==
    call # NoCall /\ call.stage = "returns" /\ ~call.ok
        => call.deferred /\ call.frames # <<>> /\ Head(call.frames) = "ping"

LEMMA UndoubtedMeans ==
    Undoubted <=> doubt \/ \A c \in Callers : Harmless(calls[c])
BY DEF Undoubted, Harmless, Under, Innermost

(* Calls that are harmless.                                                *)
LEMMA HarmlessCalls ==
    /\ Harmless(NoCall)
    /\ \A frames, stage : stage # "returns" => Harmless(Call(stage, frames))
    /\ \A frames : Harmless(Told(frames, TRUE))
    /\ Harmless(Refresh(<<"ping">>))
BY DEF Harmless, Call, Told, Refresh, Refused

LEMMA ChainHarmless ==
    ASSUME KeepaliveTypeOK, Undoubted, ~doubt,
           NEW c \in Callers, NEW call, Goes(c, call), Harmless(call)
    PROVE  Undoubted'
<1>1. \A d \in Callers : Harmless(calls[d])
    BY UndoubtedMeans
<1>2. \A d \in Callers : calls'[d] = IF d = c THEN call ELSE calls[d]
    BY WhatGoesOn
<1>3. \A d \in Callers : Harmless(calls'[d])
    BY <1>1, <1>2
<1> QED BY <1>3 DEF Undoubted, Harmless, Under, Innermost

(* The answers and the callbacks.                                          *)
LEMMA AnswersUndoubted ==
    ASSUME KeepaliveTypeOK, Undoubted, SessionAnswers
    PROVE  Undoubted'
<1> SUFFICES ASSUME ~doubt'
             PROVE  Undoubted'
    BY DEF Undoubted
<1>1. /\ \A c \in Callers : ~VerifyAnswers(c, FALSE) /\ ~ProbeRefused(c)
      /\ doubt => \E c \in Callers : InOrder(c) /\ \A d \in Callers \ {c} : calls'[d] = NoCall
    BY Zenon DEF SessionAnswers, Doubts
<1>2. CASE doubt
    <2>1. PICK c \in Callers : InOrder(c) /\ \A d \in Callers \ {c} : calls'[d] = NoCall
        BY <1>1, <1>2
    <2>2. \E call : Goes(c, call) /\ Harmless(call)
        BY <2>1, HarmlessCalls DEF InOrder, RefreshRotates, RefreshRenews, CycleEnds, Ends
    <2>3. Harmless(calls'[c])
        BY <2>2, WhatGoesOn
    <2>4. \A d \in Callers : Harmless(calls'[d])
        BY <2>1, <2>3, HarmlessCalls
    <2> QED BY <2>4 DEF Undoubted, Harmless, Under, Innermost
<1>3. CASE ~doubt
    <2>1. \A c \in Callers : Harmless(calls[c])
        BY <1>3, UndoubtedMeans
    <2>2. ASSUME NEW c \in Callers, NEW ok \in BOOLEAN,
                 \/ AuthAnswers(c, ok) \/ VerifyAnswers(c, TRUE)
                 \/ RefreshRotates(c) \/ RefreshRenews(c) \/ RefreshIsNoop(c)
                 \/ RefreshFails(c) \/ ProbeAnswers(c)
          PROVE  \E call : Goes(c, call) /\ Harmless(call)
        <3>1. CASE AuthAnswers(c, ok)
            BY <3>1, HarmlessCalls DEF AuthAnswers
        <3>2. CASE VerifyAnswers(c, TRUE)
            BY <3>2, HarmlessCalls DEF VerifyAnswers
        <3>3. CASE RefreshRotates(c) \/ RefreshRenews(c) \/ RefreshIsNoop(c)
            BY <3>3, HarmlessCalls DEF RefreshRotates, RefreshRenews, RefreshIsNoop
        <3>4. CASE RefreshFails(c)
            BY <3>4, HarmlessCalls DEF RefreshFails
        <3>5. CASE ProbeAnswers(c)
            BY <3>5, HarmlessCalls DEF ProbeAnswers
        <3> QED BY <2>2, <3>1, <3>2, <3>3, <3>4, <3>5
    <2>3. ASSUME NEW c \in Callers,
                 \/ NobodyWaits(c) \/ PingGoesOn(c) \/ CycleEnds(c) \/ Verified(c)
                 \/ Relieved(c) \/ OutsideLearns(c)
          PROVE  \E call : Goes(c, call) /\ Harmless(call)
        <3>1. CASE NobodyWaits(c) \/ CycleEnds(c) \/ OutsideLearns(c)
            BY <3>1, HarmlessCalls DEF NobodyWaits, CycleEnds, OutsideLearns, Ends
        <3>2. CASE PingGoesOn(c)
            BY <3>2, HarmlessCalls DEF PingGoesOn
        <3>3. CASE Verified(c) \/ Relieved(c)
            <4>1. calls[c] \in CallType /\ calls[c].stage = "returns"
                  /\ Head(calls[c].frames) # "ping"
                BY <3>3 DEF Verified, Relieved, Innermost, Under, KeepaliveTypeOK
            <4>2. calls[c] # NoCall
                BY <4>1, NoCallAssumption
            <4>3. calls[c].ok = TRUE
                BY <2>1, <4>1, <4>2 DEF Harmless, CallType
            <4>4. Goes(c, Told(Outer(c), TRUE))
                BY <3>3, <4>3 DEF Verified, Relieved
            <4> QED BY <4>4, HarmlessCalls
        <3> QED BY <2>3, <3>1, <3>2, <3>3
    <2>4. \E c \in Callers : \E call : Goes(c, call) /\ Harmless(call)
        <3>1. CASE Callbacks
            BY <2>3, <3>1 DEF Callbacks
        <3>2. CASE Denials \/ OtherAnswers
            BY <1>1, <2>2, <3>2 DEF Denials, OtherAnswers
        <3> QED BY <3>1, <3>2 DEF SessionAnswers
    <2> QED BY <1>3, <2>4, ChainHarmless
<1> QED BY <1>2, <1>3

(* Timers, and what comes from elsewhere, begin chains or end them all.    *)
LEMMA OthersUndoubted ==
    ASSUME KeepaliveTypeOK, Undoubted, SessionMove \/ SessionPassing
    PROVE  Undoubted'
<1>1. doubt' = doubt
    BY DEF SessionMove, SessionPassing
<1>2. \/ UNCHANGED calls
      \/ \A c \in Callers : calls'[c] = NoCall
      \/ \E c \in Callers : \E call : Goes(c, call) /\ Harmless(call)
    <2>1. Harmless(Call("refresh", <<>>)) /\ Harmless(Call("refresh", <<"outside">>))
        BY HarmlessCalls
    <2>2. ASSUME Ping
          PROVE  UNCHANGED calls \/ \E call : Goes("ping", call) /\ Harmless(call)
        <3> DEFINE late == age >= WatchdogAge
                   call == [Call("auth", <<"ping">>) EXCEPT !.stale = late]
        <3>1. call.stage = "auth"
            BY DEF Call
        <3>2. Harmless(call)
            BY <3>1 DEF Harmless
        <3>3. UNCHANGED calls \/ Goes("ping", call)
            BY <2>2 DEF Ping
        <3> HIDE DEF call
        <3> QED BY <3>2, <3>3
    <2>3. CASE SessionPassing
        <3>1. CASE TimerPings \/ StartupPings
            BY <2>2, <3>1 DEF TimerPings, StartupPings, Callers
        <3>2. CASE StartupRefreshes \/ RetryRefreshes
            BY <2>1, <3>2 DEF StartupRefreshes, RetryRefreshes, Callers
        <3>3. CASE HoursPass
            BY <3>3 DEF HoursPass
        <3> QED BY <2>3, <3>1, <3>2, <3>3 DEF SessionPassing, KeepaliveTimers
    <2>4. CASE SessionMove
        <3>1. CASE \E renewing \in BOOLEAN : OutsideFails(renewing)
            BY <2>1, <3>1 DEF OutsideFails, Callers
        <3>2. CASE (\E rotated \in BOOLEAN : CookieSaved(rotated)) \/ SessionDies
            BY <3>2 DEF CookieSaved, SessionDies
        <3>3. CASE ProcessRestarts
            BY <3>3 DEF ProcessRestarts
        <3> QED BY <2>4, <3>1, <3>2, <3>3 DEF SessionMove
    <2> QED BY <2>3, <2>4
<1>3. CASE doubt
    BY <1>1, <1>3 DEF Undoubted
<1>4. CASE ~doubt /\ UNCHANGED calls
    BY <1>1, <1>4 DEF Undoubted, Under, Innermost
<1>5. CASE \A c \in Callers : calls'[c] = NoCall
    BY <1>5 DEF Undoubted, Under
<1>6. CASE ~doubt /\ \E c \in Callers : \E call : Goes(c, call) /\ Harmless(call)
    BY <1>6, ChainHarmless
<1> QED BY <1>2, <1>3, <1>4, <1>5, <1>6

LEMMA StaysUndoubted ==
    ASSUME KeepaliveTypeOK, Undoubted, [MCNext]_mcamazon
    PROVE  Undoubted'
<1>1. CASE TimersMove \/ Publishes \/ Polling \/ Answers \/ Passing
    <2>1. UNCHANGED <<keepalive, doubt>>
        BY <1>1 DEF TimersMove, Publishes, Polling, Answers, Passing, Unmoved, OfTimers
    <2> QED BY <2>1 DEF keepalive, Undoubted, Under, Innermost
<1>2. CASE UNCHANGED mcamazon
    BY <1>2 DEF mcamazon, keepalive, followed, Undoubted, Under, Innermost
<1> QED BY <1>1, <1>2, AnswersUndoubted, OthersUndoubted DEF MCNext

(* The age at which checkTokenRotationHealth asks for a login.             *)
LEMMA CheckCondemnsTheOld ==
    ASSUME age \in 0..ForceAge, age # ForceAge,
           NEW b \in BookType, b.status # "required"
    PROVE  /\ CheckRotation(b).status # "required" /\ NoteNoop(b).status # "required"
           /\ NoteRotation(b).status # "required"
<1>1. ASSUME NEW d \in BookType, d.status # "required"
      PROVE  /\ CheckRotation(d).status # "required" /\ NoteRotation(d).status # "required"
    <2>1. ~(age >= ForceAge)
        BY KeepaliveAssumption
    <2>2. NoteRotation(d).status = d.status
        BY <1>1 DEF NoteRotation, BookType
    <2>3. [d EXCEPT !.tracked = "current"].status = d.status
        BY <1>1 DEF BookType
    <2>4. Recommends([d EXCEPT !.tracked = "current"]).status # "required"
        BY <1>1, <2>3 DEF Recommends, BookType
    <2> QED BY <1>1, <2>1, <2>2, <2>3, <2>4 DEF CheckRotation
<1>2. NoteNoop(b).status # "required"
    <2> DEFINE later == IF age >= WatchdogAge /\ b.retry = Unset THEN NoopRetry ELSE b.retry
               n == Upto(b.noops + 1, 2)
               counted == [b EXCEPT !.noops = n, !.retry = later]
    <2>1. n \in 0..2 /\ later \in Nat \cup {Unset}
        BY KeepaliveAssumption DEF BookType, Upto
    <2>2. NoteNoop(b) = CheckRotation(counted)
        BY DEF NoteNoop
    <2> HIDE DEF n, later
    <2>3. counted \in BookType /\ counted.status = b.status
        BY <2>1 DEF BookType
    <2> HIDE DEF counted
    <2> QED BY <1>1, <2>2, <2>3
<1> QED BY <1>1, <1>2

(* What may put a book in order, or leave it.                              *)
LEMMA OnlyFailuresCondemn ==
    ASSUME KeepaliveTypeOK, Undoubted, ~doubt, age # ForceAge, book.status # "required",
           KeepaliveNext
    PROVE  book'.status # "required"
<1>1. age \in 0..ForceAge /\ book \in BookType
    BY DEF KeepaliveTypeOK
<1>2. MarkHealthy(book) \in BookType /\ MarkHealthy(book).status = "ok"
    BY <1>1, HealthMarked DEF MarkHealthy, BookType
<1>3. /\ CheckRotation(book).status # "required" /\ NoteNoop(book).status # "required"
      /\ CheckRotation(MarkHealthy(book)).status # "required"
      /\ NoteNoop(MarkHealthy(book)).status # "required"
      /\ NoteRotation(MarkHealthy(book)).status # "required"
    BY <1>1, <1>2, CheckCondemnsTheOld
<1>4. CASE Callbacks
    <2>1. PICK c \in Callers :
              \/ NobodyWaits(c) \/ PingGoesOn(c) \/ CycleEnds(c) \/ Verified(c)
              \/ Relieved(c) \/ OutsideLearns(c)
        BY <1>4 DEF Callbacks
    <2>2. CASE NobodyWaits(c) \/ PingGoesOn(c)
        BY <2>2 DEF NobodyWaits, PingGoesOn
    <2>3. CASE CycleEnds(c)
        BY <1>3, <2>3 DEF CycleEnds
    <2>4. CASE Verified(c) \/ Relieved(c) \/ OutsideLearns(c)
        <3>1. Under(c, "returns") /\ ~Innermost(c, "ping")
            BY <2>4 DEF Verified, Relieved, OutsideLearns, Innermost
        <3>2. calls[c].ok
            BY <3>1 DEF Undoubted
        <3> QED BY <2>4, <3>2 DEF Verified, Relieved, OutsideLearns
    <2> QED BY <2>1, <2>2, <2>3, <2>4
<1>5. CASE Denials \/ OtherAnswers
    <2>1. PICK c \in Callers, ok \in BOOLEAN :
              \/ AuthAnswers(c, ok) \/ VerifyAnswers(c, ok)
              \/ RefreshRotates(c) \/ RefreshRenews(c) \/ RefreshIsNoop(c)
              \/ RefreshFails(c) \/ ProbeAnswers(c) \/ ProbeRefused(c)
        BY <1>5 DEF Denials, OtherAnswers
    <2> QED BY <1>3, <2>1 DEF AuthAnswers, VerifyAnswers, RefreshRotates, RefreshRenews,
            RefreshIsNoop, RefreshFails, ProbeAnswers, ProbeRefused
<1>6. CASE KeepaliveTimers
    <2>1. CASE TimerPings \/ StartupPings \/ StartupRefreshes
        BY <2>1 DEF TimerPings, StartupPings, StartupRefreshes
    <2>2. CASE RetryRefreshes \/ HoursPass
        BY <1>1, <2>2 DEF RetryRefreshes, HoursPass, BookType
    <2> QED BY <1>6, <2>1, <2>2 DEF KeepaliveTimers
<1>7. CASE \/ \E renewing \in BOOLEAN : OutsideFails(renewing)
           \/ \E rotated \in BOOLEAN : CookieSaved(rotated)
           \/ SessionDies \/ ProcessRestarts
    <2>1. CASE \E renewing \in BOOLEAN : OutsideFails(renewing)
        BY <1>3, <2>1 DEF OutsideFails
    <2>2. CASE \E rotated \in BOOLEAN : CookieSaved(rotated)
        BY <1>1, <2>2 DEF CookieSaved, BookType
    <2>3. CASE SessionDies \/ ProcessRestarts
        BY <2>3 DEF SessionDies, ProcessRestarts, NewBook
    <2> QED BY <1>7, <2>1, <2>2, <2>3
<1> QED BY <1>4, <1>5, <1>6, <1>7 DEF KeepaliveNext

(* A login is only asked for when a check has refused the session since it *)
(* was last in order, or its token is as old as it may get: not because a  *)
(* refresh failed, was made twice or found another in flight, in whatever  *)
(* order the callbacks of four chains run (session-keepalive.js).          *)
THEOREM NoLoginWithoutDoubt == MCSpec => LiveIsNotCondemned
<1>1. MCInit => Undoubted
    BY DEF MCInit, KeepaliveInit, Undoubted, Under
<1>2. KeepaliveTypeOK /\ Undoubted /\ [MCNext]_mcamazon =>
          Undoubted' /\ [book'.status = "required" /\ book.status # "required"
                         => doubt \/ age = ForceAge]_mcamazon
    <2> SUFFICES ASSUME KeepaliveTypeOK, Undoubted, [MCNext]_mcamazon
                 PROVE  /\ Undoubted'
                        /\ book'.status = "required" /\ book.status # "required"
                              => doubt \/ age = ForceAge
        OBVIOUS
    <2>1. Undoubted'
        BY StaysUndoubted
    <2>2. KeepaliveNext \/ UNCHANGED keepalive
        BY StepOfParts
    <2> QED BY <2>1, <2>2, OnlyFailuresCondemn DEF keepalive
<1> QED BY <1>1, <1>2, PartsHold, PTL DEF MCSpec, LiveIsNotCondemned

=============================================================================
