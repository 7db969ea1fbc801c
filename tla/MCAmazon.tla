------------------------------ MODULE MCAmazon ------------------------------
(***************************************************************************)
(* The two parts that live on Amazon's answers, each on its own: two       *)
(* timers, an endpoint that lags and leaves out what it has, polls that    *)
(* fail, hints that come while a poll is in flight; and a session that is  *)
(* refused, aged, refreshed and ended.  The process stops and starts under *)
(* both.  They share the account and no state: a behaviour follows one of  *)
(* them, its subject.                                                      *)
(***************************************************************************)
EXTENDS TimerSync, SessionKeepalive

CONSTANTS
    TimerMoves,       \* bound: what people, hints and bad luck do to timers
    SessionMoves,     \* bound: what happens to the session, but for its end
    Chains            \* bound: chains of calls that run at the same time

VARIABLES
    subject,          \* the part that is followed
    moves,            \* moves left
    heard,            \* announced as started, and in every answer since
    owed,             \* a poll was asked for, and none was started since
    doubt             \* a check has refused the session since it was in order

followed == <<moves, heard, owed, doubt>>

mcamazon == <<timers, keepalive, subject, followed>>

MCInit ==
    /\ Init /\ KeepaliveInit
    /\ \/ subject = "timers" /\ moves = TimerMoves /\ age = 0
       \/ subject = "session" /\ moves = SessionMoves
    /\ heard = {} /\ owed = FALSE /\ doubt = FALSE

Follows(part) == subject = part /\ UNCHANGED subject

Moves == moves > 0 /\ moves' = moves - 1

-----------------------------------------------------------------------------
(* Timers.                                                                 *)

OfTimers == Follows("timers") /\ UNCHANGED <<keepalive, doubt>>

(* A poll starts when one is in flight that was not.                       *)
Starts == polling' # None /\ polling = None

(* What an answer leaves out may be announced again.                       *)
LeftOut == {t \in holes : told[t] # None}

Listening ==
    heard' = IF said'.kind = "started" THEN (heard \ LeftOut) \cup {said'.timer}
             ELSE heard \ LeftOut

(* So may all there is when the file is torn as an answer is written.      *)
Recalled ==
    IF polling = None \/ mirror' = mirror THEN heard
    ELSE IF mirror' = Blank THEN {} ELSE heard \ LeftOut

Carried == owed' = (owed /\ ~Starts)

(* The ids are alike: they are given in turn.                              *)
InTurn == \A t \in unused \ unused', u \in unused : t <= u

TimersMove ==
    /\ OfTimers /\ Moves
    /\ \/ People /\ InTurn /\ Carried /\ UNCHANGED heard
       \/ (\E t \in Timers : Skips(t)) /\ Carried /\ UNCHANGED heard
       \/ NotificationChange /\ owed' = ~Starts /\ UNCHANGED heard
       \/ \E k \in Spoken : Hint(k) /\ owed' = ~Starts /\ UNCHANGED heard
       \/ PollFails /\ Carried /\ UNCHANGED heard
       \/ Restart /\ owed' = FALSE /\ heard' = Recalled

Unmoved == OfTimers /\ Carried /\ UNCHANGED <<moves, heard>>

Publishes == (\E t \in Timers : Publish(t) \/ Recalls(t)) /\ Unmoved

Polling == Polls /\ Unmoved

Answers ==
    /\ OfTimers /\ PollAnswers /\ Listening /\ UNCHANGED moves
    /\ owed' = (owed /\ polling' = None)

Passing == TimePasses /\ Unmoved

-----------------------------------------------------------------------------
(* The session.                                                            *)

Few == Cardinality({c \in Callers : calls'[c] # NoCall}) <= Chains

OfSession == Follows("session") /\ UNCHANGED <<timers, heard, owed>>

(* The session is found in order: a refresh or a ping ends well.           *)
InOrder(c) ==
    \/ RefreshRotates(c) \/ RefreshRenews(c)
    \/ CycleEnds(c) /\ calls[c].ok

(* That ends a doubt, unless another chain still runs.                     *)
Doubts ==
    doubt' = \/ \E c \in Callers : VerifyAnswers(c, FALSE) \/ ProbeRefused(c)
             \/ /\ doubt
                /\ \A c \in Callers :
                      InOrder(c) => \E d \in Callers \ {c} : calls'[d] # NoCall

SessionMove ==
    /\ OfSession /\ ~Returning
    /\ \/ \E renewing \in BOOLEAN : OutsideFails(renewing)
       \/ \E rotated \in BOOLEAN : CookieSaved(rotated)
       \/ SessionDies \/ ProcessRestarts
    /\ IF alive' = alive THEN Moves ELSE UNCHANGED moves
    /\ UNCHANGED doubt /\ Few

SessionAnswers ==
    /\ OfSession /\ UNCHANGED moves
    /\ \/ ~Returning /\ (Denials \/ OtherAnswers)
       \/ Callbacks
    /\ Doubts

(* Amazon answers within the hour.                                         *)
SessionPassing ==
    /\ OfSession /\ ~Returning /\ KeepaliveTimers
    /\ nextPing' < nextPing => calls = [c \in Callers |-> NoCall]
    /\ UNCHANGED <<moves, doubt>> /\ Few

MCNext ==
    \/ TimersMove \/ Publishes \/ Polling \/ Answers \/ Passing
    \/ SessionMove \/ SessionAnswers \/ SessionPassing

(* Amazon catches up and answers, the process's timers run, time goes on.  *)
MCSpec ==
    /\ MCInit /\ [][MCNext]_mcamazon
    /\ WF_mcamazon(Publishes) /\ WF_mcamazon(Answers) /\ WF_mcamazon(Passing)
    /\ WF_mcamazon(LoopPolls /\ Unmoved) /\ WF_mcamazon(RetryPolls /\ Unmoved)
    /\ \A t \in Timers : WF_mcamazon(WakePolls(t) /\ Unmoved)
    /\ WF_mcamazon(SessionAnswers) /\ WF_mcamazon(SessionPassing)

-----------------------------------------------------------------------------

(* No timer is announced as new a second time, whatever polls fail and     *)
(* whenever the hub restarts, unless an answer has left it out since, or   *)
(* the hub has stopped while it wrote its mirror: what is late, paused or  *)
(* rings stays known.                                                      *)
StartedOnce == [][said'.kind = "started" => said'.timer \notin heard]_mcamazon

(* A poll that was asked for while another was in flight is started: until *)
(* one is, the one in flight will be followed by it, or a retry is on its  *)
(* way.  Whether the poll that is started then succeeds is left open.      *)
NoRequestLost == owed => (polling # None /\ again) \/ retry

(* In the end the mirror is what Amazon has: no timer is shown that is     *)
(* over, none is missing, whatever the answers have left out on the way.   *)
MirrorFollows == <>[](Active(mirror) = Active(cloud))

(* A session that Amazon has ended is reported, in the end for good: no    *)
(* chain of pings, refreshes and retries keeps calling it healthy.         *)
DeadIsReported == <>[](~alive => book.status = "required")

(* A login is only asked for when a check has refused the session since it *)
(* was last in order, or its token is as old as it may get: not because a  *)
(* refresh failed, came twice or was refused while another was in flight.  *)
LiveIsNotCondemned ==
    [][book'.status = "required" /\ book.status # "required"
       => doubt \/ age = ForceAge]_mcamazon

=============================================================================
