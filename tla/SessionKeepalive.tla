-------------------------- MODULE SessionKeepalive --------------------------
(***************************************************************************)
(* One Amazon session kept alive (session-keepalive.js): a ping on a timer *)
(* checks the session, refreshes its token when it is due and probes the   *)
(* API; a refresh that changes nothing is made again later; a poll that is *)
(* refused asks for a refresh too.  What is found goes into auth-status    *)
(* .json, which outlives the process.                                      *)
(*                                                                         *)
(* Amazon answers by callbacks, and a refresh that fails is followed by    *)
(* checks of its own, which may ask for a refresh again.  A chain of calls *)
(* is the call that is waited for and the onComplete callbacks that are    *)
(* still to run, innermost first.  Running them takes a step each (stage   *)
(* returns), and nothing else is enabled meanwhile.                        *)
(*                                                                         *)
(* Amazon is external: as long as the session is alive it answers as it    *)
(* pleases, and once it has ended the session, it refuses everything.  The *)
(* session file has a refresh token, and the token a date.                 *)
(***************************************************************************)
EXTENDS Integers, Sequences

CONSTANTS
    PingEvery,        \* pingIntervalMs
    RefreshEvery,     \* refreshIntervalMs
    NoopRetry,        \* staleNoopRetryMs
    OutsideCooldown,  \* externalRefreshCooldownMs
    MinTokenAge,      \* minTokenAgeForRefreshMs
    CookieAge,        \* from here on the cookie listener asks for a rotation
    RecommendAge,     \* recommendReauthAfterHours
    WatchdogAge,      \* staleTokenWatchdogHours
    ForceAge,         \* forceReauthAfterHours
    FailureThreshold,
    MaxFrames,        \* bound: callbacks that wait for a call
    NoCall

ASSUME KeepaliveAssumption ==
    /\ {PingEvery, RefreshEvery, NoopRetry, FailureThreshold} \subseteq Nat \ {0}
    /\ {OutsideCooldown, MinTokenAge, CookieAge} \subseteq Nat
    /\ {RecommendAge, WatchdogAge, ForceAge} \subseteq Nat \ {0}
    /\ CookieAge <= RecommendAge /\ RecommendAge <= WatchdogAge /\ WatchdogAge <= ForceAge
    /\ MaxFrames \in Nat \ {0}

(* Who starts a chain: a ping, the delayed refresh at the start, the retry *)
(* of a refresh that changed nothing, a failed poll.                       *)
Callers == {"ping", "startup", "retry", "outside"}

(* A callback: what pingSession, finishPingCycle, handleRefreshFailure,    *)
(* runLivenessProbe and handleExternalAuthFailure do when they are told.   *)
Frames == {"ping", "cycle", "verify", "liveness", "outside"}

VARIABLES
    alive,            \* Amazon has not ended the session
    age,              \* tokenAgeHours
    book,             \* what is remembered of failures, and what is reported
    calls,            \* the chain of each caller
    attempted,        \* since lastRefreshAttemptAt
    asked,            \* since lastExternalRefreshRequestAt
    nextPing,         \* until the ping timer fires
    startup           \* what is still to come of the start

keepalive == <<alive, age, book, calls, attempted, asked, nextPing, startup>>

(* deferred says that a refresh was refused because one was in flight, and *)
(* stale that the token was beyond the watchdog's age when the ping began. *)
CallType ==
    [stage : {"auth", "refresh", "verify", "probe", "returns"},
     frames : Seq(Frames), ok : BOOLEAN, deferred : BOOLEAN, stale : BOOLEAN]

ASSUME NoCallAssumption == NoCall \notin CallType

(* retry is the countdown of staleNoopRetryTimer, Unset when there is      *)
(* none; tracked says whether trackedTokenDateMs is the token's date.      *)
Unset == -1

BookType ==
    [failures : Nat, noops : 0..2, recommended : BOOLEAN, tracked : {"none", "current", "older"},
     retry : Nat \cup {Unset}, status : {"ok", "recommended", "required"}]

KeepaliveTypeOK ==
    /\ alive \in BOOLEAN
    /\ age \in 0..ForceAge
    /\ book \in BookType
    /\ calls \in [Callers -> CallType \cup {NoCall}]
    /\ attempted \in 0..RefreshEvery
    /\ asked \in 0..OutsideCooldown
    /\ nextPing \in 0..PingEvery
    /\ startup \in {"ping", "refresh", "done"}
    /\ \A c, d \in Callers :
          /\ calls[c] # NoCall /\ calls[c].stage = "refresh"
          /\ calls[d] # NoCall /\ calls[d].stage = "refresh"
          => c = d

-----------------------------------------------------------------------------
(* The books.                                                              *)

Upto(n, max) == IF n < max THEN n ELSE max

(* markFailure.  A count beyond the threshold makes no difference.         *)
MarkFailure(b) ==
    LET failures == Upto(b.failures + 1, FailureThreshold)
    IN [b EXCEPT !.failures = failures,
                 !.status = IF failures = FailureThreshold THEN "required" ELSE @]

(* markHealthy.                                                            *)
MarkHealthy(b) == [b EXCEPT !.failures = 0, !.status = "ok"]

(* noteSuccessfulTokenRotation.                                            *)
NoteRotation(b) == [b EXCEPT !.noops = 0, !.recommended = FALSE, !.tracked = "current"]

Recommends(b) == IF b.recommended THEN b
                 ELSE [b EXCEPT !.recommended = TRUE, !.status = "recommended"]

(* checkTokenRotationHealth.                                               *)
CheckRotation(b) ==
    LET seen == [b EXCEPT !.tracked = "current"]
        advised == Recommends(seen)
    IN IF b.tracked = "older" THEN NoteRotation(b)
       ELSE IF age < RecommendAge THEN seen
       ELSE IF age >= ForceAge /\ b.noops >= 2 /\ b.failures < FailureThreshold
            THEN MarkFailure(advised)
       ELSE advised

(* noteRefreshNoop, with scheduleStaleNoopRetry.                           *)
NoteNoop(b) ==
    CheckRotation([b EXCEPT !.noops = Upto(@ + 1, 2),
                            !.retry = IF age >= WatchdogAge /\ @ = Unset THEN NoopRetry ELSE @])

-----------------------------------------------------------------------------
(* Calls and callbacks.                                                    *)

Under(c, stage) == calls[c] # NoCall /\ calls[c].stage = stage

Refreshing == \E c \in Callers : Under(c, "refresh")

Returning == \E c \in Callers : Under(c, "returns")

Call(stage, frames) ==
    [stage |-> stage, frames |-> frames, ok |-> FALSE, deferred |-> FALSE, stale |-> FALSE]

Told(frames, ok) == [Call("returns", frames) EXCEPT !.ok = ok]

Refused(frames) == [Told(frames, FALSE) EXCEPT !.deferred = TRUE]

(* Slip: a refresh does not look whether one is in flight.                 *)
RefreshAnyway(frames) == Call("refresh", frames)

(* refreshSession, of whoever does not wait for a refresh already.         *)
Refresh(frames) == IF Refreshing THEN Refused(frames) ELSE Call("refresh", frames)

Goes(c, call) == calls' = [calls EXCEPT ![c] = call]

Ends(c) == Goes(c, NoCall)

(* pingSession.                                                            *)
Ping ==
    IF calls["ping"] # NoCall \/ Refreshing THEN UNCHANGED calls
    ELSE Goes("ping", [Call("auth", <<"ping">>) EXCEPT !.stale = age >= WatchdogAge])

(* pickRefreshReason; a proactive refresh is due only when a scheduled one *)
(* is.                                                                     *)
RefreshDue == attempted = RefreshEvery /\ age >= MinTokenAge

(* checkAuthentication answers the ping.                                   *)
AuthAnswers(c, ok) ==
    /\ Under(c, "auth")
    /\ Goes(c, IF ok /\ ~calls[c].stale /\ ~RefreshDue THEN Call("probe", <<"cycle">>)
               ELSE Refresh(<<"ping">>))
    /\ UNCHANGED <<alive, age, book, attempted, asked, nextPing, startup>>

(* refreshCookie brings new tokens, or only cookies.                       *)
RefreshRotates(c) ==
    /\ Under(c, "refresh")
    /\ age' = 0 /\ attempted' = 0
    /\ book' = NoteRotation(MarkHealthy(book))
    /\ Goes(c, Told(calls[c].frames, TRUE))
    /\ UNCHANGED <<alive, asked, nextPing, startup>>

RefreshRenews(c) ==
    /\ Under(c, "refresh")
    /\ attempted' = 0
    /\ book' = NoteNoop(MarkHealthy(book))
    /\ Goes(c, Told(calls[c].frames, TRUE))
    /\ UNCHANGED <<alive, age, asked, nextPing, startup>>

(* handleRefreshFailure: no tokens in the register response.               *)
RefreshIsNoop(c) ==
    /\ Under(c, "refresh")
    /\ attempted' = 0
    /\ book' = NoteNoop(book)
    /\ Goes(c, Told(calls[c].frames, TRUE))
    /\ UNCHANGED <<alive, age, asked, nextPing, startup>>

(* Slip: a refresh that fails is the end of the session.                   *)
RefreshCondemns(c) ==
    /\ Under(c, "refresh")
    /\ attempted' = 0
    /\ book' = MarkFailure(book)
    /\ Goes(c, Told(calls[c].frames, FALSE))
    /\ UNCHANGED <<alive, age, asked, nextPing, startup>>

(* handleRefreshFailure: any other failure is verified.                    *)
RefreshFails(c) ==
    /\ Under(c, "refresh")
    /\ attempted' = 0
    /\ Goes(c, Call("verify", <<"verify">> \o calls[c].frames))
    /\ UNCHANGED <<alive, age, book, asked, nextPing, startup>>

(* verifySessionLive.                                                      *)
VerifyAnswers(c, ok) ==
    /\ Under(c, "verify")
    /\ Goes(c, IF ok THEN Call("probe", calls[c].frames) ELSE Told(calls[c].frames, FALSE))
    /\ UNCHANGED <<alive, age, book, attempted, asked, nextPing, startup>>

(* runLivenessProbe: getDevices works, or fails for no fault of ours.      *)
ProbeAnswers(c) ==
    /\ Under(c, "probe")
    /\ Goes(c, Told(calls[c].frames, TRUE))
    /\ UNCHANGED <<alive, age, book, attempted, asked, nextPing, startup>>

(* runLivenessProbe: getDevices is refused.                                *)
ProbeRefused(c) ==
    /\ Under(c, "probe")
    /\ Len(calls[c].frames) < MaxFrames
    /\ Goes(c, Refresh(<<"liveness">> \o calls[c].frames))
    /\ UNCHANGED <<alive, age, book, attempted, asked, nextPing, startup>>

-----------------------------------------------------------------------------
(* The callbacks.                                                          *)

Innermost(c, frame) ==
    Under(c, "returns") /\ calls[c].frames # <<>> /\ Head(calls[c].frames) = frame

Outer(c) == Tail(calls[c].frames)

(* A chain nobody waits for.                                               *)
NobodyWaits(c) ==
    /\ Under(c, "returns") /\ calls[c].frames = <<>>
    /\ Ends(c)
    /\ UNCHANGED <<alive, age, book, attempted, asked, nextPing, startup>>

(* The ping goes on to its probe whatever has become of the refresh.       *)
PingGoesOn(c) ==
    /\ Innermost(c, "ping")
    /\ Goes(c, Call("probe", <<"cycle">>))
    /\ UNCHANGED <<alive, age, book, attempted, asked, nextPing, startup>>

(* Slip: a ping that has come to its end is a good ping.                   *)
CycleEndsWell(c) ==
    /\ Innermost(c, "cycle")
    /\ book' = CheckRotation(MarkHealthy(book))
    /\ Ends(c)
    /\ UNCHANGED <<alive, age, attempted, asked, nextPing, startup>>

(* finishPingCycle.                                                        *)
CycleEnds(c) ==
    /\ Innermost(c, "cycle")
    /\ book' = IF calls[c].ok THEN CheckRotation(MarkHealthy(book)) ELSE book
    /\ Ends(c)
    /\ UNCHANGED <<alive, age, attempted, asked, nextPing, startup>>

(* handleRefreshFailure learns whether the session is live.                *)
Verified(c) ==
    /\ Innermost(c, "verify")
    /\ book' = IF calls[c].ok THEN book ELSE MarkFailure(book)
    /\ Goes(c, Told(Outer(c), calls[c].ok))
    /\ UNCHANGED <<alive, age, attempted, asked, nextPing, startup>>

(* runLivenessProbe learns what has become of its refresh; a refusal for   *)
(* one that was in flight is no failure.                                   *)
Relieved(c) ==
    /\ Innermost(c, "liveness")
    /\ book' = IF calls[c].ok \/ calls[c].deferred THEN book ELSE MarkFailure(book)
    /\ Goes(c, Told(Outer(c), calls[c].ok))
    /\ UNCHANGED <<alive, age, attempted, asked, nextPing, startup>>

(* handleExternalAuthFailure learns what has become of its refresh.        *)
OutsideLearns(c) ==
    /\ Innermost(c, "outside")
    /\ book' = IF calls[c].ok \/ calls[c].deferred THEN book ELSE MarkFailure(book)
    /\ Ends(c)
    /\ UNCHANGED <<alive, age, attempted, asked, nextPing, startup>>

-----------------------------------------------------------------------------
(* Timers, polls and restarts.                                             *)

TimerPings ==
    /\ nextPing = 0
    /\ nextPing' = PingEvery
    /\ Ping
    /\ UNCHANGED <<alive, age, book, attempted, asked, startup>>

StartupPings ==
    /\ startup = "ping"
    /\ startup' = "refresh"
    /\ Ping
    /\ UNCHANGED <<alive, age, book, attempted, asked, nextPing>>

(* The delayed refresh at the start, of a token that is not quite new.     *)
StartupRefreshes ==
    /\ startup = "refresh"
    /\ startup' = "done"
    /\ IF age >= 1 /\ ~Refreshing THEN Goes("startup", Call("refresh", <<>>)) ELSE UNCHANGED calls
    /\ UNCHANGED <<alive, age, book, attempted, asked, nextPing>>

(* staleNoopRetryTimer fires.  (Bound: not before the chain of the retry   *)
(* before it has ended.)                                                   *)
RetryRefreshes ==
    /\ book.retry = 0 /\ calls["retry"] = NoCall
    /\ book' = [book EXCEPT !.retry = Unset]
    /\ IF Refreshing THEN UNCHANGED calls ELSE Goes("retry", Call("refresh", <<>>))
    /\ UNCHANGED <<alive, age, attempted, asked, nextPing, startup>>

(* handleExternalAuthFailure: a history poll is refused, or renewing the   *)
(* cookie has failed.  (Bound: one such chain at a time.)                  *)
OutsideFails(renewing) ==
    /\ calls["outside"] = NoCall
    /\ book' = IF renewing THEN CheckRotation(book) ELSE book
    /\ IF Refreshing \/ asked < OutsideCooldown THEN UNCHANGED <<calls, asked>>
       ELSE asked' = 0 /\ Goes("outside", Call("refresh", <<"outside">>))
    /\ UNCHANGED <<alive, age, attempted, nextPing, startup>>

(* The library has saved its cookie, with a new token or without: the      *)
(* listener of "cookie".                                                   *)
CookieSaved(rotated) ==
    /\ alive
    /\ age' = IF rotated THEN 0 ELSE age
    /\ book' = [book EXCEPT
           !.tracked = IF rotated /\ @ = "current" THEN "older" ELSE @,
           !.status = IF age' >= RecommendAge THEN "recommended"
                      ELSE IF age' < CookieAge THEN "ok" ELSE @]
    /\ UNCHANGED <<alive, calls, attempted, asked, nextPing, startup>>

(* Amazon ends the session: a changed password, a token refused for good.  *)
SessionDies ==
    /\ alive /\ alive' = FALSE
    /\ UNCHANGED <<age, book, calls, attempted, asked, nextPing, startup>>

NewBook(status) ==
    [failures |-> 0, noops |-> 0, recommended |-> FALSE, tracked |-> "none", retry |-> Unset,
     status |-> status]

(* The process stops and starts: start.                                    *)
ProcessRestarts ==
    /\ book' = NewBook(book.status)
    /\ calls' = [c \in Callers |-> NoCall]
    /\ attempted' = RefreshEvery /\ asked' = OutsideCooldown
    /\ nextPing' = PingEvery /\ startup' = "ping"
    /\ UNCHANGED <<alive, age>>

(* Timers are punctual.                                                    *)
HoursPass ==
    /\ nextPing > 0 /\ startup = "done" /\ book.retry # 0
    /\ age' = Upto(age + 1, ForceAge)
    /\ attempted' = Upto(attempted + 1, RefreshEvery)
    /\ asked' = Upto(asked + 1, OutsideCooldown)
    /\ nextPing' = nextPing - 1
    /\ book' = [book EXCEPT !.retry = IF @ = Unset THEN Unset ELSE @ - 1]
    /\ UNCHANGED <<alive, calls, startup>>

KeepaliveInit ==
    /\ alive = TRUE
    /\ age \in 0..1
    /\ book = NewBook("ok")
    /\ calls = [c \in Callers |-> NoCall]
    /\ attempted = RefreshEvery /\ asked = OutsideCooldown
    /\ nextPing = PingEvery /\ startup = "ping"

-----------------------------------------------------------------------------

Callbacks ==
    \E c \in Callers :
        NobodyWaits(c) \/ PingGoesOn(c) \/ CycleEnds(c) \/ Verified(c) \/ Relieved(c)
        \/ OutsideLearns(c)

Deep(c) == Under(c, "probe") /\ Len(calls[c].frames) >= MaxFrames

(* The session is found to be refused.                                     *)
Denials == \E c \in Callers : AuthAnswers(c, FALSE) \/ VerifyAnswers(c, FALSE) \/ ProbeRefused(c)

(* Any other answer.  (A dead session whose callbacks are as deep as they  *)
(* may be times out.)                                                      *)
OtherAnswers ==
    \E c \in Callers :
        \/ RefreshFails(c)
        \/ alive /\ (AuthAnswers(c, TRUE) \/ VerifyAnswers(c, TRUE))
        \/ alive /\ (RefreshRotates(c) \/ RefreshRenews(c) \/ RefreshIsNoop(c))
        \/ (alive \/ Deep(c)) /\ ProbeAnswers(c)

KeepaliveTimers == TimerPings \/ StartupPings \/ StartupRefreshes \/ RetryRefreshes \/ HoursPass

KeepaliveNext ==
    \/ Callbacks
    \/ /\ ~Returning
       /\ \/ Denials \/ OtherAnswers \/ KeepaliveTimers
          \/ \E renewing \in BOOLEAN : OutsideFails(renewing)
          \/ \E rotated \in BOOLEAN : CookieSaved(rotated)
          \/ SessionDies \/ ProcessRestarts

KeepaliveSpec == KeepaliveInit /\ [][KeepaliveNext]_keepalive

=============================================================================
