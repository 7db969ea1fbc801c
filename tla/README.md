# Signal Bridge in TLA+

Signal Bridge listens to Alexa devices, watches games, media players and feeds, and
shows what it hears on a Windows overlay and on one or more Vestaboards. This directory
holds TLA+ modules of its core logic, TLC configurations, proofs checked by TLAPS, and
`PROJECT.json`, which maps every definition to the lines it models.

Running everything: `tlc -config X.cfg M` for the module/configuration pairs under
"Runs", `tlapm M.tla` for the modules whose name ends in `Proofs` (`LinesProofs`,
`BoardQueueProofs`, `BoardFlipProofs`, `BoardPaceProofs`, `HubProofs`, `GameProofs`,
`AmazonProofs`, `SchedulerProofs`).

Paths below are relative to `src/src/` (the Node hub).

## 1. Inventory

| Component | State | Operations | What is hard | What makes it correct | Here |
|---|---|---|---|---|---|
| House queue, `vestaboard/queue.js` | the line of pages, what is on the flaps, the lock, deadlines (rate window, dwell, hold, retry, restore), coalesce ages, health | submit, tick, skip, reorder, cancel, clear, dropPending, acquire/release lock, release holds, config change | one await in the middle of a tick; four kinds of hold; deadlines shared by unrelated callers | an answer affects its page only; pages in order; rate window, quiet hours, holds and ranks respected; the line drains; alerts come down | modelled |
| Hold policy, `vestaboard/holds.js`, `priorities.js` | the house list | classify a card: lane, rank, jump, cut in, hold, length of hold | three sources of truth (structure, list, liveness) | one classification wherever it is asked | modelled |
| Board hub, `vestaboard/index.js` | the enabled boards, a follower each, one house queue, persisted last posts | fan a post out, test flip, settings change, catch boards up, seed after a restart | partial failure, calls that outlive their board or key, two writers to one board | a board shows what was meant for it, one board does not stall the others, all show the same in the end | partly |
| Game sessions, `games/sessions.js` | phase, players, clocks, event streams | create, join, rejoin, submit, leave, subscribe, end, tick, endByBoardSource | clock against last answer or leaver; the queue calls back in the middle of an offer; many ways to end | one step per phase; a phase lasts as long as it should; a closed session leaves nothing behind; every party ends | modelled |
| Game modes, `games/modes/` | turn order, letters, lives, answers, votes | guesses, turns, leaving, time out | who is next when somebody leaves; the last answer nobody gives | somebody can always move, or the round ends | modelled |
| Display scheduler, `display-scheduler.js`, `scheduler-rules.js` | rules and their books, gap, last airing | tick, airing, Air now, edit, reset, push, pause | decisions taken before an await, books written after it, over edits and restarts | no encore, gap and people's pages respected, every rule gets its turn | partly |
| Display arbiter, `display-busy.js` | page on display, generation | note a send, gate a late refresh | late refresh of an older page | a newer page is never overwritten | partly |
| Timer sync, `timer-sync.js` | mirror of Amazon's timers, wake timers, pending requests | poll, hint, retry, follow-up, wake, restart | an endpoint that lags behind, requests during a poll, answers with holes, a mirror torn as it is written | a request is never lost, nothing announced twice or wrongly, the mirror follows | partly (alarms: no) |
| Quiet hours, `vestaboard/quiet-hours.js` | the week's windows | is it quiet now | opens between offer and post | see the queue and the hub | partly |
| Local API transport, `vestaboard/transport.js` | none | post, classify the answer | timeouts, busy flaps and refusals | the queue gets the right outcome | partly |
| Listener, `listener.js`, `voice-event-dedup.js` | recent events | push, history poll | the same event twice, in either order | shown once | no |
| Amazon session, `session-keepalive.js` | the token's age, failure and noop counts, timers, the report on disk | ping, refresh, verify, probe, retry, refused polls, restart | timers racing over one session; the callbacks of a failed refresh ask for the next one | one refresh at a time; a session that is over is reported, one that is not is not condemned | partly |

`PROJECT.json` lists the rest (router, registry, watchers, guest book, accounts, web
server, content providers, the Windows client) with the reason each is left out.

How they meet: watchers, the listener, sessions and the scheduler *offer* pages by
`houseQueue.submit`; sessions also take and give back the lock and drop pages; people at
the simulator skip, drag, cancel and clear; `setInterval` calls the ticks of the queue,
the sessions and the scheduler; the queue posts through the hub's transport, which fans a
post out to the boards; the queue emits events that `web-server.js` forwards to the
sessions, in the same turn of the event loop.

## 2. Modules

### The board

* **`HoldPolicy`** - pure: `classifyStructural` and `applyPolicy`. A card is a record of
  what these and the queue read of it; the house list is the constant `Policy`.
* **`Lines`** - the array operations the queue uses (splice out, splice in).
* **`BoardQueue`** - the house queue. Its actions:

| Action | Code |
|---|---|
| `Submit` (`OfferTooSoon`, `OfferCoalesced`, `OfferQuiet`, `OfferQueued`) | `submit`, one per outcome; the lock a card meets, takes, renews or ends is worked out in all of them |
| `SubmitClose` | `submit` of a watch source that has ended |
| `TickSweep`, `TickRestore`, `TickDropDuplicate`, `TickDropQuiet`, `TickPost`, `TickNothing` | `tickOnce` up to its await |
| `PostAccepted`, `PostBusy`, `PostQuiet`, `PostRejected`, `PostRefused`, `PostFailed` | `tickOnce` after its await |
| `AcquireLock`, `ReleaseLock`, `LockExpires`, `ReleaseHolds` | `acquireGameLock`, `releaseGameLock`, `laneLockActive`, `releaseHolds` |
| `SkipToNext`, `Reorder`, `Cancel`, `Clear`, `TakeBoard` | the operations of the simulator page, and `takeBoard` of a session |
| `NewKey`, `SetQuiet`, `Restart`, `TimePasses` | a new key, the quiet window, a stop and start of the hub, time |

* **`PacedBoards`** - the abstract specification of what the queue promises the boards:
  `Send`, `Land`, `Lose`, `Crash`, `Hurry`, `Calm`, `Wait`, with nothing of the line. The
  refinement is `BoardQueue!PacesTheBoards`: the post that is out, the flaps, the age of
  the last post with its persisted copy, and whether somebody has asked to skip are
  mapped; everything else of the queue is hidden. It is model-checked and proved.
* **`BoardHub`** - the boards behind the queue. The queue is reduced to one page at a
  time, asked again as often as it takes; what the fan-out makes of several answers, and
  what happens to boards and keys while calls are under way, is whole.

| Action | Code |
|---|---|
| `Offer`, `Post`, `FanoutAnswers` | `submit` of the hub; the fan-out from `boardsFor` to its one outcome, and what the queue makes of it |
| `BoardAnswers`, `TestFlip`, `TestAnswers` | `postToBoard` for the fan-out and for `testFlip`, with the follower of the board |
| `SwitchBoards`, `NewKey` | `sync` after a settings change, with the queue's `recoverFromBadKey` |
| `FallAsleep`, `WakeUp`; `KeyChanges`, `TimePasses` | quiet hours of a board; the boards themselves |

  A call under way keeps the entry and the key it began with: `orphans` are calls whose
  board was switched off since, `outdated` those whose key was replaced.
  `catchUpFollowers` is no action, because it always returns at its first test
  (finding 6).

### The games

* **`WheelOfFortune`**, **`Hangman`**, **`PartyPrompts`**, **`WordScramble`** - the round of
  each game as a record and operators on it: seat, begin, every play as a set of
  outcomes (`Plays`), leave, time out. What a phone may send is any legal or illegal move;
  the words are abstracted to how many letters are left, the wheel to what a spin can do
  to the turn.
* **`GameSessions`** - the one session there can be, with `Create`, `Join`, `Rejoin`,
  `Play` (`submit`), `Leave`, `Subscribe`, `Unsubscribe`, `End`, `GamesTick`
  (`InviteExpires`, `IdleEnds`, `PhaseEnds`) and `Preempted` (`endByBoardSource`). What a
  handler asks of the board is left in `calls`, in order.
* **`GamesOnBoard`** - `GameSessions` and `BoardQueue` composed. A handler of the session
  is carried out on the queue call by call (`Carry`) before anything else happens, as it
  is in one turn of the event loop; every operation of the queue that takes the hold from
  a game (`DisplacesGame`) ends the session inside the same step, as the
  `lock-preempted` listener does, and what the rest of `submit` then reads is the lock the
  session has already emptied.

### The display and the timers

* **`DisplayScheduler`** - the scheduler and its rules, with the page on the display.

| Action | Code |
|---|---|
| `TickBegins`, `TickPaused`, `AirsFixed`, `Collects`, `AirsOnBoards`, `TickEnds` | `tick`, `runTick`, `airDueFixedRules`, `collectCandidates`, between its awaits |
| `AirSends`, `AirFails`, `AirAnswers`, `AirCleansUp`, `AirCloses` | `airRule` and `airClosing`, for the tick and for Air now, each with its books |
| `PressAirNow`, `Edit`, `Reset`, `Add`, `Remove`, `Pause`, `Resume`, `ManualPush`, `OthersShow` | the rule routes, `updateSettings`, `noteManualPush`, `noteSent` |
| `EnvChanges`, `Midnight`, `Restart`, `TimePasses` | quiet hours and windows, the daily counter, a stop and start, the timer |

  The tick reckons with the instant at which it began (`late`), and with the rule objects
  it read before an await: an edit meanwhile replaces them (`gone`, `lost`), and its books
  are then written to the old object.
* **`TimerSync`** - Amazon's timers (external, with an endpoint that lags, `Publish`, and
  whose answers leave out for a while what it has listed, `Skips`, `Recalls`) and their
  mirror: `LoopPolls`, `WakePolls`, `RetryPolls`, `FollowUpPolls`, `Hint`,
  `NotificationChange` start a poll or leave a request behind the one that is out;
  `PollAnswers` compares, merges and announces; `PollFails`, `Restart`, `TimePasses`. A
  `Restart` reads what is on disk (`OnDisk`): the mirror, or, if the process stopped over
  the answer of a poll, the new mirror before anything was announced, or half a file,
  which `loadMirror` takes for none.
* **`SessionKeepalive`** - one Amazon session (external) kept alive. A chain of calls is
  the call that is waited for and the `onComplete` callbacks still to run; each of the four
  callers (ping, the refresh at the start, the retry of a noop, a refused poll) has one.

| Action | Code |
|---|---|
| `TimerPings`, `StartupPings`, `StartupRefreshes`, `RetryRefreshes`, `OutsideFails` | the timers of `start`, `scheduleStaleNoopRetry`, `handleExternalAuthFailure`: each begins a chain, or finds a refresh in flight |
| `AuthAnswers`, `VerifyAnswers`, `ProbeAnswers`, `ProbeRefused` | the answers in `pingSession`, `verifySessionLive`, `runLivenessProbe` |
| `RefreshRotates`, `RefreshRenews`, `RefreshIsNoop`, `RefreshFails` | the answers of `refreshCookie`, with the books (`markHealthy`, `noteRefreshNoop`, `checkTokenRotationHealth`) |
| `PingGoesOn`, `CycleEnds`, `Verified`, `Relieved`, `OutsideLearns`, `NobodyWaits` | the callbacks, innermost first |
| `CookieSaved`, `SessionDies`, `ProcessRestarts`, `HoursPass` | the listener of `cookie`, Amazon, a stop and start, time |

### Instances and proofs

* **`MCBoardLine`, `MCBoardEvenings`, `MCBoardHub`, `MCGames`, `MCDisplay`, `MCAmazon`** -
  instances for TLC. Each has a next-state relation of its own made of the
  modules' actions, so that one question is asked with as many actors as it needs, and
  carries the bounds and the history variables of its properties. The proofs are about
  the modules' own `Spec`, those of the games about `HouseSpec` of `GamesOnBoard`; a
  property that needs a history variable is proved of the `MCSpec` of `MCAmazon` or
  `MCDisplay`, whose bounds are constants there like any other.
* **`LinesProofs`, `BoardQueueProofs`, `BoardFlipProofs`, `BoardPaceProofs`, `HubProofs`,
  `GameProofs`, `AmazonProofs`, `SchedulerProofs`** - the theorems.

### How state and steps correspond

* *Atomicity.* JavaScript runs a handler to completion, so a handler is one action, cut
  only at its awaits. The sweep and the restore at the head of the queue's tick, and the
  calls a session makes at the board, are steps of their own, but nothing else is enabled
  before they are through, so no interleaving is invented.
* *Time.* A deadline is a countdown and a past instant an age; ages stop counting where
  the code no longer distinguishes them. A behaviour then has finitely many states
  without a clock that has to be bounded.
* *Identity.* An item's id is `batch` and `nth`; a batch number is reused only when no
  item and no post has it. `meta` is the card an item was offered with and `face` the one
  it shows, because coalescing replaces the second but keeps most of the first. The page
  in flight (`posting.item`) is the same object as its entry in the line: `Tracked`
  keeps the two together, as the shared reference does in JavaScript.
* *Layouts.* A 6x22 grid is one value. `LabelOf` gives two layouts one label, which the
  refresh test of the queue compares.
* *Health.* `degraded` has one reason in the code that reaches it, a refused key.
* *Environment.* A board answers as it pleases within what its key, its flaps and its
  repertoire allow. The hub may stop at any instant outside a handler; the page in flight
  may or may not arrive. Dice may fall either way, unless a rule's probability is 1.
* *Slips.* A definition marked "Slip" is not part of the model but a mistake one could
  make in it. Each property has one that breaks it, named in `PROJECT.json`; replacing the
  definition by its slip makes TLC report the property.

## 3. Runs

| Run | Module / configuration | What it shows |
|---|---|---|
| line | `MCBoardLine` / `MCBoardLine.cfg` | three kinds of trouble: people (Skip, drag, cancel, clear, a game that takes the board), the wire (busy, asleep, refused key, failures, quiet hours, restarts), boards that refuse layouts: `TypeOK`, `PagesInOrder`, `AnswerTakesOnlyItsPage`, `QuietHoursKept`, and the refinement `PacesTheBoards` |
| evenings | `MCBoardEvenings` / `MCBoardEvenings.cfg` | three kinds of evening. Games, in the default order (doorbell, party game, keyed match) and a page of the rotation: `NewcomersYieldToRank`, `LoserLeavesNoPage`, `OnlyTheHolderFlips`, `ParkedPagesSurvive`; rotation (preview and reading, clean-up artwork, pushed page): `HoldKeepsRotationAway`, `RefreshBuysNoTime`, `PileUpIsSwept`; few offers, under fairness: `FewDrain`, `FewAlertsPass`, which are `LineDrains` and `AlertPasses` on that evening |
| hub | `MCBoardHub` / `MCBoardHub.cfg` | two boards, test flips, settings, keys, quiet hours of their own: `HubTypeOK`, `AimIsKept`, `ShownMeansShown`; under fairness `LineMovesOn` |
| games | `MCGames` / `MCGames.cfg` | the four games without a board; one on the house queue with a doorbell and a match above it: `GamesTypeOK`, `TurnIsLive`, `WritingWaitsForSomebody`, `EveryRoundScoredOnce`, `TakenBoardEndsGame`, `ClosedGameLetsGo`, `PhaseKeepsItsTime`, `IdleMeansIdle`; under fairness `PartyEnds` |
| display | `MCDisplay` / `MCDisplay.cfg` | news, a quiz at fixed times, a card for a board with its clean-up: `SchedulerTypeOK`, `NoEncore`, `GapKept`, `HumanPageStays`; under fairness `AirsAgain` |
| amazon | `MCAmazon` / `MCAmazon.cfg` | a behaviour follows one of two subjects. Two timers, an endpoint that is late and leaves timers out, failing polls, restarts, torn mirrors: `TimersTypeOK`, `NoRequestLost`, `OverUnlessLeftOut`, `StartedOnce`; under fairness `MirrorFollows`. One session that is refused, ages, is refreshed and ends: `KeepaliveTypeOK`, `LiveIsNotCondemned`; under fairness `DeadIsReported` |
| refused, preview, aim, rung_twice, overtaken, behind | the six findings below | each finds its property violated |

### Bounds

*Board.* `MaxItems` (offers are made to a line of two or three at most, though a two-page
card or a restored page makes it longer) and `MaxBatch` (submissions with an item alive)
bound the line: three places are what it takes to have a page in flight, one that moves
into its place and one behind, and for a parked page to be looked past. The rate window
and the dwell are one unit, and the holds of the scheduler two, so that a hold outlasts a
window and a window can end inside a hold; a rule's minutes are one or two units, so that
locks expire while pages wait. One retry delay before a failure counts as unhealthy, so
that every branch of the back-off is taken. In `evenings`, on the evening with games,
time stands still while a page is in flight and nobody offers a page to a line of two;
on the one with the rotation somebody skips once; the few `Offers` of the third are three:
a page, an alert that covers it and one more. The house of `evenings` is the default list with a quiz put on top, so that the
third evening has a game listed above the doorbell as well.

*Hub.* Two boards, two pages offered one after the other, and two `Moves` of people and
the house (a board sleeps and the other is switched off, a key changes and is replaced).
`MaxFailures` is 2 where the code has 3.

*Games.* Two rounds, so that there is a round after a round and a last one; three players
and one phone, and around prompts, which take three to begin, a fourth who joins while
the others write. Without a board four moves besides joining, one of which opens the
table: enough for all three who write to leave; with a board three moves of anybody. The
clocks, the ticks and the board's answers are not bounded. The clocks are one to three
units long; the invite is longer than the lobby, as in the settings.

*Display.* Three rules of which two are there at a time, in either of the two lanes; two
moves of people, midnight, failures and restarts together; `MaxWait` is how long an airing
may be waited for.

*Timers.* Two timers of one duration, and three moves of people, hints, failures, timers
left out and restarts together: enough to set a timer, leave it out of an answer once it
is announced, and stop the process over the next one. A lagging endpoint, timers that
come back, answers and polls are not bounded.

*Session.* Timers and session share no state but the account, so a behaviour of `amazon`
follows one of them (`subject`). The end of the session at any instant and one more move
(a refused poll, a saved cookie, a restart); pings, answers and retries are not bounded.
The token has three ages, up to the one at which a login is demanded; three failures
where the code takes five, as many as one ping of a dead session can count. `MaxFrames`
lets a callback wait inside another, `Chains` two chains run at the same time, and no
hour passes while one runs: an answer does not take as long as the ping's interval.

### Fairness

* The ticks and polls are `setInterval` and `setTimeout`: weak fairness. Time passes: weak
  fairness.
* A post is answered: the transport has a timeout, so weak fairness of the answers. So are
  the answers of Amazon and of `air()`; that the latter answers is an assumption, the
  scheduler has no timeout of its own.
* A board that is asked again and again accepts a page once in a while: strong fairness
  of `PostAccepted` (evenings) and of the answer of one board (`Accepting`, hub). Without it a
  board that is always busy keeps its page forever, which is what the code promises too.
* The endpoint catches up with the devices in the end, and lists again what it has left out
  (timers).
* Of a session that has ended it is assumed that Amazon refuses everything asked of it,
  the refresh with an error of its own. The code takes "no tokens in register response" for
  a success without a rotation: were a dead session answered so, it would be called
  healthy for good, and `DeadIsReported` would not hold.

Nothing is assumed of the people: no one has to release a lock, leave a table, answer a
prompt or clear anything. Players and people make boundedly many moves, which is how
`PartyEnds` means "when they have had their fill". A refused key stops the queue until a
person acts, so the third evening leaves it out and `LineMovesOn` has it as a premise; all answers
are in `line`.

## 4. What is proved

| Theorem | States |
|---|---|
| `QueueInvariant` (`BoardQueueProofs`) | `Spec => []IInv` |
| `QueueTypeCorrect`, `PageInFlightIsTracked` | `Spec => []TypeOK`, `Spec => []InFlightTracked` |
| `UnkeyedPagesStayInOrder`, `PagesStayInOrder` | `Spec => []CardsInOrder`, and `[]PagesInOrder` where `LongCardsUnkeyed` |
| `AnswersTakeTheirPage` | an answer takes out of the line the page it answers only, a refused layout's where `IndexStillHolds` |
| `RateWindowIsKept`, `QuietHoursAreKept`, `TheHolderKeepsTheBoard` (`BoardFlipProofs`) | `Spec => RateWindowKept`, `QuietHoursKept`, `OnlyTheHolderFlips` |
| `ARefreshBuysNoTime` | `Spec => RefreshBuysNoTime` |
| `HoldsChangeHandsCleanly` | how a live hold may pass to another owner |
| `QueuePacesTheBoards` (`BoardPaceProofs`) | `Spec => PacesTheBoards`: the queue implements `PacedBoards` |
| `HubTypeCorrect`, `EveryAimIsKept` (`HubProofs`) | `Spec => []HubTypeOK`, `Spec => AimIsKept` |
| `GamesInvariant` (`GameProofs`) | `HouseSpec => []GamesInv` |
| `GamesTypes`, `RoundsScoredOnce`, `TurnsAreLive`, `WritingWaits` | `HouseSpec => []GamesTypeOK`, `[]EveryRoundScoredOnce`, `[]TurnIsLive`, `[]WritingWaitsForSomebody` |
| `TimersTypeCorrect`, `CalledOverIsOver` (`AmazonProofs`) | `Spec => []TimersTypeOK`, `Spec => OverUnlessLeftOut` |
| `RequestsAreRemembered`, `NobodyListedStartsTwice` | `MCSpec => []NoRequestLost`, `MCSpec => StartedOnce` |
| `KeepaliveTypeCorrect` | `KeepaliveSpec => []KeepaliveTypeOK`, with one refresh at a time |
| `NoLoginWithoutDoubt` | `MCSpec => LiveIsNotCondemned` |
| `SchedulerInvariant`, `SchedulerTypes` (`SchedulerProofs`) | `Spec => []SchedulerInv`, `Spec => []SchedulerTypeOK` |
| `GapIsKept`, `HumanPagesStay` | `MCSpec => GapKept`, `MCSpec => HumanPageStays` |
| `RulesRest` | `MCSpec => NoEncore` where every rule `OutlastsWaits` |

They hold for every house list, set of cards and boards and length of the line; for any
boards and pages of the hub; for any games, players and settings; for any timers and
settings of the polls; for any settings of the keepalive; for any rules, settings and
bounds of the scheduler. `InFlightTracked` and `RateWindowKept` are not checked in a run
of their own: the first is part of what the queue's proofs rest on, the second is one of
the promises of `PacesTheBoards`.

Assumptions: `PolicyAssumption` (the list is one rule per source; a hold always jumps and
only a jumper cuts in, as `normaliseRule` sees to), `QueueAssumption` (lengths of time are
natural numbers and the windows positive; fewer retry delays than failures before
unhealthy), `HubAssumption`, `TimersAssumption` and `KeepaliveAssumption` of the same kind;
`GamesAssumption` (an invite lasts no less than a lobby, a wheel has letters to guess, a
gallows lives); `GamesOnBoardAssumption` (a game's source is listed to hold the board, and
its cards are layouts of the queue); `SchedulerAssumption` (the files of rules name none
twice; the age at which a rule's score stops growing is past its interval and the longest
wait; `Never` is further back than any page lasts); and `NoneAssumption`,
`NoTimerAssumption`, `NoCallAssumption` (null is no value). TLC evaluates each on its
instance.

Three theorems have a premise besides, because the code does not do without it:

* `LongCardsUnkeyed`: a card of several pages has no coalesce key. Where two long cards
  share a key, a coalescing offer can give a page that has been dragged the number of one
  it stands behind.
* `IndexStillHolds`: when a layout is refused, the place in which its page was posted
  holds that page or none. This is what finding 1 (`refused`) breaks.
* `OutlastsWaits`: the page of a fixed rule of the boards is no shorter than what a tick
  may wait before it. Books count from the start of the tick (`runTick` takes the time
  once), so the slot that passes while a tick waits for another board's page would be due
  again at once.

*The queue.* `IInv` is `TypeOK /\ InFlightTracked`. `TypeOK` alone is not inductive:
the answer looks its page up by id, so that it takes out one page at all, and that the
page in flight is still well typed after a coalescing offer has rewritten it, needs ids to
be unique in the line (`UniqueIds`) and the line's copy to agree with the page in flight
(`Agrees`). In turn, ids stay unique only because a fresh batch number is one no item
and no post has. Each action has one lemma per conjunct it can disturb; the lemmas of
`LinesProofs` say what taking out and putting in does to the members of a line.

*What leaves.* The action properties rest on one lemma, `WhatLeaves`: the only step that
sends a page is `TickPost`, and it sends a page the tick has picked. Quiet hours and the
holds then follow from what picking asks for. The rate window needs `ClocksAgree`
besides: unless the queue has been told to forget its last post, what it remembers of it
is what is on disk, so that a restart does not shorten the window.

A refresh buys no time because only an accepted page starts these clocks anew, and one
with the key of the page on the flaps starts neither; everything else that lengthens them
takes the page off the books (`RotationTimesMove`).
How holds pass is read off each action: an offer or a restore compares ranks and sweeps the
loser; a session takes the board outright; a coalescing offer does not compare
(`queue.js:790-804`). Skip is the one that leaves the loser's pages.

*Order and answers.* `CardsInOrder` says that the pages of one submission are of one card,
and that those of a card without a key wait in their order; every action takes out, puts
in, or, for a drag, moves the pages of a card together (`ReorderKeepsOrder`). The lemmas about ranks in `LinesProofs`
say where a page goes when others are taken out. Answers look a page up by id, which is
unique, except the refused layout's.

*The refinement.* Every step of the queue is a step of `PacedBoards` or a stutter. Most
handlers leave what the boards could see alone (`Unseen`) and are `Calm`; for an offer
that coalesces into the page in flight this needs that what is out is what was *sent*,
not what the item shows by now (`OutKept`). The tick's post is `Send`, for which the wait
of the tick implies the window; its answers are `Land` and `Lose`, a Skip is `Hurry`, a
restart `Crash`.

*The hub.* That a page changes only boards it is meant for needs to know whom the fan-out
under way asks (`AskedAreMeant`): boards chosen when it was posted, however the settings
have changed since; and that only an answer of a board changes its flaps (`WhoFlips`).

*The games.* `GamesInv` knows the table: nobody is at it twice (a rejoin finds the old
seat), as many rounds are counted as have ended, phase by phase, which is what makes
"scored once" inductive while the clock, the last answer and a leaver race for the end of
one; the running order of a round is at the table with the turn in it, for whichever game
it is; and those who write are seated. Each game has lemmas of its own about its plays,
a leaver and a time out, and one lemma per handler puts them together. The house queue
can only end a session or leave it alone, so the steps of the composition need no more.
That somebody has still to write rests on the end of the round in the same handler as the
last answer, or the leaving, after which nobody has; who joins meanwhile waits for the
next round and is not among the writers.

*The timers.* That a timer announced as over is over, or was left out, needs to know what
the mirror can know (`Unheard`): an id is used once, so a timer the endpoint has not
listed yet is in no mirror, on disk or in memory, and one it does not know although the
mirror has it was published as gone. `HeardIsKnown` adds, for "started once", that an
announced timer no answer has left out since is in the mirror or over for good; of a
restart it needs that what may be on disk is the mirror, the one just merged, or nothing
(`DiskType`, `RecalledIsKnown`), the last of which forgets what has been announced. A
request either starts a poll or is remembered with the one that is out, over its answer
and its failure, until a later poll starts; whether that one succeeds is not claimed.

*The session.* A chain goes on with a refresh only when none is in flight (`ChainGoesOn`),
whichever callback or timer asks for it. A login is demanded without a doubt only if a
chain comes back empty-handed without a refusal; `Undoubted` says that it does so only
for a ping that found a refresh in flight, which is deferred and demands nothing.

*The scheduler.* `SchedulerInv` knows the plan of a tick: the display's rules first, no
rule twice, and each rule of it listed, or gone and known to be. On it stand three
invariants. `GapInv`: while the display must be left alone, the gap's countdown or the
one after the start says so, or the tick itself waits for a page it sent there. `HumanInv`:
a person's page has time left and is not the scheduler's own, whatever is on its way to the
display is only asked for, and no fixed rule of the display is planned. `RestInv`: a rule
that rests is listed and in no plan; it is not due before its rest is over, or it is
airing with books that will put its next time late enough, which is where the premise
about waits comes in. Edits, resets and a restart end a rest in the property's own terms.

### Only model-checked

* `LoserLeavesNoPage`, `NewcomersYieldToRank`: they hold on the instance's evenings, where
  nobody skips while games are on. A Skip after a drag can hand a hold over otherwise;
  `HoldsChangeHandsCleanly` is what holds in every house, with that exception.
* `PileUpIsSwept`, `HoldKeepsRotationAway`: pages of the rotation from a source that holds or
  jumps, a key that clears a card that does not close, and a face replaced in flight break
  them for some constants; the scheduler's house has none of these.
* `ParkedPagesSurvive`: of the steps of its instance; in `Spec` a clear, a cancel or the end
  of a source also take parked pages, as they should.
* `AnswerTakesOnlyItsPage`: `AnswersTakeTheirPage` with the place of a refused page as a
  premise is what holds of any house.
* `TakenBoardEndsGame` (which wants the sources of games to be apart from those of cards),
  `ClosedGameLetsGo`, `PhaseKeepsItsTime`, `IdleMeansIdle`, `ShownMeansShown`: not proved yet.
* `FewDrain`, `FewAlertsPass`, `LineMovesOn`, `PartyEnds`, `AirsAgain`, `MirrorFollows`,
  `DeadIsReported`: liveness under fairness, and `ENABLED`, are beyond the prover, as is
  induction over data. No module declares a recursive operator.

## 5. Findings

Each is a run that TLC must find violated; `PROJECT.json` quotes the lines.

1. **refused** (`queue.js:1268`, also 1261) - a refused layout is dropped by the place it
   had before the await. When the line has moved, another page is lost and the refused
   one stays.
2. **preview** (`queue.js:791`) - a reading that coalesces into its own preview while
   the preview is in flight is recorded as shown and never posted.
3. **aim** (`queue.js:1145`) - a page for one board that an alert covered is restored to
   every board.
4. **rung_twice** (`queue.js:902`) - an alert that ends a hold clears the restore of an
   alert already up; if it is the same alert, dropped as a duplicate, the board stays on
   it.
5. **overtaken** (`queue.js:800`) - a live hold is to be kept "until it ends, a
   higher-ranked jumper arrives, or the safety timeout fires" (720-723), but an update that
   coalesces into its waiting page takes the hold whatever its rank: in the default list
   the next score of a match that waits behind a party game takes the board from it. What
   the code does keep, and `evenings` checks, is that nobody does so who is new in the line.
6. **behind** (`index.js:235`) - the catch-up of boards that missed a page reads a field
   the queue's `state()` does not have, and never does anything.

The passing runs leave out exactly what triggers these: in `line` a board refuses layouts
only on days on which nobody drags, cuts in or cancels (`trouble`), in `refused` on any day;
`CurrentIsOnABoard` and `PagesStayOnTheirBoards` are asked in their own runs only, the
third evening of `evenings` has the game above the doorbell, and nothing in `hub` claims
that all boards show the same. `overtaken` is left out by nothing: its steps are all in
`evenings`, whose property says what they leave.

Observed while modelling, in the model as the code has it, and not stated as runs:

* *The fan-out's mixed answer* (`index.js:223`). When no board takes a page, the first
  attempted board speaks for all: with its key refused and the other board asleep, busy or
  unreachable, the whole queue is degraded until the settings change. `LineMovesOn` has
  `~halted` as a premise for that reason. A first board that cannot show a layout drops
  the page although the other, busy one could have shown it.
* *A test flip* goes past the queue, which still believes in its page: the same page again
  is dropped as a duplicate and the identity frame stays.
* *Timers* (`timer-sync.js`): a "show my timers" during a poll in flight sets only
  `immediatePollRequested` (484), and the poll that follows is silent, so the request may
  go unanswered (against 454-456). A timer kept by `mergeTimerMaps` inside the slack is
  called fired by every later poll until it is dropped. Polls that follow a hint announce
  the list in place of a fire, and of two timers gone in one poll one is announced. The
  near-fire interval is computed at the start only.
* *A timer an answer leaves out* (`timer-sync.js`): the merge is there for it
  (`mergeTimerMaps`; `test/timer-sync.test.js:63`, "keeps recently seen timers missing from
  partial poll"), but the comparison comes first and calls the timer cancelled (323-329)
  or, near its time, fired; a cancellation then has the merge bypassed (430-435), the timer
  leaves the mirror, and the next answer that lists it announces it as started again
  (289-296). `OverUnlessLeftOut` and `StartedOnce` name this exception. A mirror torn by a
  stop in `saveMirror` (38-44, not atomic) is read as empty (23-36): all that runs is
  announced as started once more.
* *Prompts* (`prompts.js:35-37`, 225): when all who could write have left and only late
  joiners are at the table, `allAnswered` of the empty round is false, and the round waits
  out its clock. `WritingWaitsForSomebody` is about tables at which somebody may write.
* *Session* (`session-keepalive.js`): `reauth_recommended` is written once and withdrawn by
  the next healthy ping (`onSessionHealthy`) without being written again, and the failures
  by which repeated noops at 22 h are to lead to `reauth_required` (`PROJECT.md:481`) are
  counted from zero again by each healthy ping. A failed refresh counts once in
  `handleRefreshFailure` and again in the callback that asked for it, so that five failures
  in a row are reached in fewer. The listener of `cookie` compares `alexa.cookieData` with
  itself (`listener.js:2236`), so it never sees that a token has rotated.
* *Scheduler*: a fixed rule compares itself with an `activeAiring` that event pages do not
  end (`display-scheduler.js:619`), and may take the display from one; books of an airing
  whose rule was edited meanwhile go to the replaced object (`scheduler-rules.js:470`); a
  new fixed rule airs at once; a rule that has never aired has a constant score
  (`scheduler-rules.js:366`), so nothing bounds its first wait among many rivals; an
  `air()` that never answers stops the scheduler; a pending rule is not asked again for
  its window, cap or cooldown; a fixed rule of the boards whose page is shorter than what
  its tick waited before it is due again as soon as it has aired (see `OutlastsWaits`).
* *Sessions*: a page's session and code are not kept by the queue, so `noteBoardShown` and
  `noteBoardCancelled` match nothing, and `closeSession` leaves a waiting invite in the
  line; the restore of a game's card after an alert can take a hold for a game that is
  over (`queue.js:1145`), which its deadline ends; `pushPhase` takes the board from a source
  listed above it (`sessions.js:310`), for which reason `NewcomersYieldToRank` and
  `LockYieldsToRank` exempt `AcquireLock` by name; the setter's pick clock in hangman is cut to a turn when a player
  leaves (`hangman.js:476`), which `PhaseKeepsItsTime` allows for.

## 6. Not modelled

* *Queue:* changes of the configuration or of the house list while pages wait;
  `foldRepeats` (the rows of a card are taken as already folded); the display-only
  `phaseUntil`; the snapshots `state()` makes for the web page; several Skips at once, and
  Skip's bound of eight ticks. The house queue runs with its own quiet hours switched off
  when boards have theirs (the boards then answer `PostQuiet`); `BoardQueue` has both and
  does not tie one to the other.
* *Hub:* the last board being switched off, which ends the queue; two test flips of one
  board at a time; the adoption of the simulator; the registry.
* *Games:* names, tokens, PINs, scores as numbers, the archive; jitter of the tick; the
  catch of `emit` (`sessions.js:236-241`), where a write to a phone that has gone drops the
  phone from within the emission, before its `close` event does (`Unsubscribe`), with no
  stamp of the idle clock when it was the last: until that event stamps it, the table
  idles from the last write that arrived.
* *Scheduler:* jitter, the presence gate, changes of the tick and the gap, broken command
  ids, cards that come after their handler answered, an `air()` that fails after its page
  went out (`AirFails` is of an airing that has sent nothing), the activity log. Of `display-busy`
  only the page and its deadline; its generation gate lives in a closure per command in
  flight.
* *Timers:* alarms and reminders (`alarm-sync.js`), and the texts of an announcement.
* *Session:* a session file without a refresh token, a disabled probe, the push channel,
  the journal, the login itself.
* *The rest of the repository*, most of it by lines: web pages and routes, formatters,
  fetchers of content, catalogues, tools and tests. They are I/O, text and layout, whose
  control is a request and its answer; the concurrency of the program is in the components
  above. Those with state worth modelling are in the plan.

## 7. Plan

1. `VoiceEventDedup`: the two deliveries of one event, its windows and its limit.
2. `AlarmSync`, which shares the shape of `TimerSync`, and the gate of `display-busy` with
   two commands in flight.
3. The first login and the push channel around the keepalive; registry; guest book.
4. `BoardQueue` behind `BoardHub` in one composition, in place of the queue the hub
   reduces to one page.

Next to prove: `TakenBoardEndsGame` and `ClosedGameLetsGo` from `GamesInv` and the queue's
invariant; `PhaseKeepsItsTime` and `IdleMeansIdle`; `ShownMeansShown` of the hub; and, with
conditions on the house that name what the instances have, `LoserLeavesNoPage`,
`NewcomersYieldToRank`, `ParkedPagesSurvive` and `PileUpIsSwept`.
