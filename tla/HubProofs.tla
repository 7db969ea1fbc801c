----------------------------- MODULE HubProofs -----------------------------
(***************************************************************************)
(* Two facts about the hub, for any boards, pages and windows: the types,  *)
(* with the count of failures behind every board that is unhealthy, and    *)
(* that a page changes no board it is not meant for.  The second needs to  *)
(* know whom the fan-out under way asks: boards that were chosen when it   *)
(* was posted, whatever has been switched on or off since.                 *)
(***************************************************************************)
EXTENDS BoardHub, TLAPS

(* The fan-out under way asks only boards its page is meant for.           *)
AskedAreMeant ==
    post # None => \/ post.page.boards = {}
                   \/ \A b \in DOMAIN post.said : b \in post.page.boards

HubInv == HubTypeOK /\ AskedAreMeant

Answer == Outcomes \cup {"quiet", "waits"}

-----------------------------------------------------------------------------
(* An answer.                                                              *)

(* The follower of a board stays of its type, unhealthy after all failures *)
(* only.                                                                   *)
LEMMA AfterType ==
    ASSUME NEW f \in FollowerType, NEW outcome \in Outcomes,
           f.health = "unhealthy" => f.failures = MaxFailures
    PROVE  /\ After(f, outcome) \in FollowerType
           /\ After(f, outcome).health = "unhealthy" => After(f, outcome).failures = MaxFailures
<1> USE HubAssumption DEF FollowerType
<1>1. CASE outcome = "ok"
    BY <1>1 DEF After, Fine
<1>2. CASE outcome = "auth"
    <2>1. After(f, outcome) = [f EXCEPT !.health = "degraded"]
        BY <1>2 DEF After
    <2> QED BY <2>1
<1>3. CASE outcome = "busy"
    BY <1>3 DEF After
<1>4. CASE outcome \in {"layout", "network"}
    <2> DEFINE n == IF f.failures < MaxFailures THEN f.failures + 1 ELSE MaxFailures
    <2>1. n \in 0..MaxFailures
        OBVIOUS
    <2>2. After(f, outcome) = [health |-> IF n = MaxFailures THEN "unhealthy" ELSE f.health,
                               failures |-> n]
        BY <1>4 DEF After, Failed
    <2> HIDE DEF n
    <2>3. After(f, outcome).health = "unhealthy" => n = MaxFailures \/ f.health = "unhealthy"
        BY <2>2
    <2>4. f.health = "unhealthy" => n = MaxFailures
        BY DEF n
    <2> QED BY <2>1, <2>2, <2>3, <2>4
<1> QED BY <1>1, <1>2, <1>3, <1>4 DEF Outcomes

(* What a call that is answered leaves behind.                             *)
LEMMA FlipsType ==
    ASSUME HubTypeOK, NEW b \in Boards, NEW call \in Calls, NEW rows \in Layouts,
           NEW outcome \in Outcomes, Flips(b, call, rows, outcome)
    PROVE  /\ flaps' \in [Boards -> Layouts \cup {None}]
           /\ \A c \in Boards : c # b => flaps'[c] = flaps[c]
           /\ moving' \in [Boards -> 0..RateWindow]
           /\ follower' \in [Boards -> FollowerType]
           /\ \A c \in Boards : follower'[c].health = "unhealthy"
                                    => follower'[c].failures = MaxFailures
           /\ orphans' \subseteq Boards \X Calls /\ outdated' \subseteq Boards \X Calls
<1> USE DEF HubTypeOK
<1>1. PICK shown \in {rows, flaps[b]} :
         /\ flaps' = [flaps EXCEPT ![b] = shown]
         /\ moving' = IF shown = flaps[b] THEN moving ELSE [moving EXCEPT ![b] = RateWindow]
    BY DEF Flips
<1>2. flaps' \in [Boards -> Layouts \cup {None}] /\ \A c \in Boards : c # b => flaps'[c] = flaps[c]
    BY <1>1
<1>3. moving' \in [Boards -> 0..RateWindow]
    <2>1. RateWindow \in 0..RateWindow
        BY HubAssumption
    <2> QED BY <1>1, <2>1
<1>4. /\ follower' \in [Boards -> FollowerType]
      /\ \A c \in Boards : follower'[c].health = "unhealthy" => follower'[c].failures = MaxFailures
    <2> DEFINE after == After(follower[b], outcome)
    <2>1. /\ after \in FollowerType
          /\ after.health = "unhealthy" => after.failures = MaxFailures
        BY AfterType
    <2>2. follower' = follower \/ follower' = [follower EXCEPT ![b] = after]
        BY DEF Flips
    <2> HIDE DEF after
    <2> QED BY <2>1, <2>2
<1>5. orphans' \subseteq Boards \X Calls /\ outdated' \subseteq Boards \X Calls
    BY DEF Flips
<1> QED BY <1>2, <1>3, <1>4, <1>5

(* A fan-out with one more answer is a fan-out.                            *)
LEMMA PostAnswered ==
    ASSUME HubTypeOK, post # None, NEW b \in DOMAIN post.said, NEW outcome \in Outcomes,
           post' = [post EXCEPT !.said[b] = outcome]
    PROVE  /\ b \in Boards
           /\ \E S \in SUBSET Boards : post' \in [page : PageType, said : [S -> Answer]]
           /\ post'.page = post.page /\ DOMAIN post'.said = DOMAIN post.said
<1>1. PICK S \in SUBSET Boards : post \in [page : PageType, said : [S -> Answer]]
    BY DEF HubTypeOK, Answer
<1>2. b \in S
    BY <1>1
<1>3. [post.said EXCEPT ![b] = outcome] \in [S -> Answer]
    BY <1>1, <1>2 DEF Answer
<1>4. post' = [post EXCEPT !.said = [post.said EXCEPT ![b] = outcome]]
    OBVIOUS
<1>5. post' \in [page : PageType, said : [S -> Answer]] /\ post'.page = post.page
    BY <1>1, <1>3, <1>4
<1> QED BY <1>1, <1>2, <1>3, <1>4, <1>5

-----------------------------------------------------------------------------
(* The invariant.                                                          *)

LEMMA InitInv == Init => HubInv
<1> SUFFICES ASSUME Init PROVE HubInv
    OBVIOUS
<1>1. Fine \in FollowerType /\ Fine.health # "unhealthy"
    BY HubAssumption DEF Fine, FollowerType
<1>2. 0 \in 0..RateWindow
    BY HubAssumption
<1>3. \A b \in Boards : follower[b] = Fine
    BY DEF Init
<1>4. HubTypeOK
    BY <1>1, <1>2, <1>3, HubAssumption DEF Init, HubTypeOK
<1> QED BY <1>4 DEF Init, HubInv, AskedAreMeant

(* A page is offered and posted.                                           *)
LEMMA LineInv ==
    ASSUME HubInv, (\E page \in Pages : Offer(page)) \/ (\E skip \in BOOLEAN : Post(skip))
    PROVE  HubInv'
<1> USE DEF HubInv, HubTypeOK
<1>1. CASE \E page \in Pages : Offer(page)
    BY <1>1, HubAssumption DEF Offer, AskedAreMeant, wall
<1>2. ASSUME NEW skip \in BOOLEAN, Post(skip) PROVE HubInv'
    <2> DEFINE said == [b \in BoardsFor(line) |->
                          IF b \in asleep /\ ~(line.exempt \/ skip) THEN "quiet" ELSE "waits"]
    <2>1. line \in PageType /\ post' = [page |-> line, said |-> said]
        BY <1>2 DEF Post
    <2>2. BoardsFor(line) \subseteq Boards /\ (line.boards # {} => BoardsFor(line) \subseteq line.boards)
        BY <2>1 DEF BoardsFor, PageType
    <2>3. said \in [BoardsFor(line) -> Answer] /\ DOMAIN said = BoardsFor(line)
        BY DEF Answer
    <2> HIDE DEF said
    <2>4. post'.page = line /\ post'.said = said
        BY <2>1
    <2>5. post' \in [page : PageType, said : [BoardsFor(line) -> Answer]]
        BY <2>1, <2>3
    <2>6. AskedAreMeant'
        BY <2>2, <2>3, <2>4 DEF AskedAreMeant
    <2>7. HubTypeOK'
        BY <1>2, <2>2, <2>5 DEF Post, house, wall, Answer
    <2> QED BY <2>6, <2>7
<1> QED BY <1>1, <1>2

(* A board answers, the page's call or the test's.                         *)
LEMMA AnswersInv ==
    ASSUME HubInv, NEW b \in Boards, BoardAnswers(b) \/ TestAnswers(b)
    PROVE  HubInv'
<1> USE DEF HubInv
<1>1. CASE BoardAnswers(b)
    <2>1. PICK outcome \in Outcomes : /\ Flips(b, "page", post.page.rows, outcome)
                                      /\ post' = [post EXCEPT !.said[b] = outcome]
        BY <1>1 DEF BoardAnswers
    <2>2. post # None /\ b \in DOMAIN post.said
        BY <1>1 DEF BoardAnswers
    <2>3. post.page.rows \in Layouts
        BY <2>2 DEF HubTypeOK, PageType
    <2>4. /\ \E S \in SUBSET Boards : post' \in [page : PageType, said : [S -> Answer]]
          /\ post'.page = post.page /\ DOMAIN post'.said = DOMAIN post.said
        BY <2>1, <2>2, PostAnswered
    <2>5. HubTypeOK'
        BY <1>1, <2>1, <2>3, <2>4, FlipsType DEF BoardAnswers, HubTypeOK, house, Calls, Answer
    <2>6. AskedAreMeant'
        BY <2>2, <2>4 DEF AskedAreMeant
    <2> QED BY <2>5, <2>6
<1>2. CASE TestAnswers(b)
    <2>1. PICK outcome \in Outcomes : Flips(b, "test", Identity, outcome)
        BY <1>2 DEF TestAnswers
    <2>2. HubTypeOK'
        BY <1>2, <2>1, FlipsType, HubAssumption DEF TestAnswers, HubTypeOK, house, Calls
    <2> QED BY <1>2, <2>2 DEF TestAnswers, AskedAreMeant
<1> QED BY <1>1, <1>2

(* The queue is answered.                                                  *)
LEMMA FanoutInv ==
    ASSUME HubInv, FanoutAnswers
    PROVE  HubInv'
<1>1. post.page \in PageType
    BY DEF HubInv, HubTypeOK, FanoutAnswers
<1>2. {line', current'} \subseteq PageType \cup {None} /\ halted' \in BOOLEAN
    BY <1>1 DEF HubInv, HubTypeOK, FanoutAnswers
<1> QED BY <1>2 DEF HubInv, HubTypeOK, AskedAreMeant, FanoutAnswers, wall

(* A call under way is one of a board.                                     *)
LEMMA UnderWayType ==
    ASSUME HubTypeOK
    PROVE  UnderWay \subseteq Boards \X Calls
<1>1. post # None => DOMAIN post.said \subseteq Boards
    BY DEF HubTypeOK
<1> QED BY <1>1 DEF UnderWay, HubTypeOK, Calls

(* The settings change.                                                    *)
LEMMA SyncInv ==
    ASSUME HubTypeOK, NEW on \in SUBSET Boards, Sync(on)
    PROVE  /\ enabled' \subseteq Boards /\ enabled' # {}
           /\ follower' \in [Boards -> FollowerType]
           /\ \A b \in Boards : follower'[b].health = "unhealthy"
                                    => follower'[b].failures = MaxFailures
           /\ orphans' \subseteq Boards \X Calls
           /\ halted' \in BOOLEAN
<1>1. Fine \in FollowerType /\ Fine.health # "unhealthy"
    BY HubAssumption DEF Fine, FollowerType
<1>2. \A b \in Boards : follower'[b] = Fine \/ follower'[b] = follower[b]
    BY DEF Sync
<1>3. follower' \in [Boards -> FollowerType]
    BY <1>1 DEF Sync, HubTypeOK
<1>4. orphans' \subseteq Boards \X Calls
    BY UnderWayType DEF Sync, HubTypeOK
<1> QED BY <1>1, <1>2, <1>3, <1>4 DEF Sync, HubTypeOK

LEMMA PeopleInv ==
    ASSUME HubInv, Tests \/ Changes
    PROVE  HubInv'
<1> USE DEF HubInv
<1>1. CASE Tests
    BY <1>1 DEF Tests, TestFlip, HubTypeOK, AskedAreMeant, wall, house
<1>2. ASSUME NEW on \in SUBSET Boards, SwitchBoards(on) PROVE HubInv'
    <2>1. Sync(on)
        BY <1>2 DEF SwitchBoards
    <2>2. HubTypeOK'
        BY <1>2, <2>1, SyncInv DEF SwitchBoards, HubTypeOK, wall
    <2> QED BY <1>2, <2>2 DEF SwitchBoards, AskedAreMeant
<1>3. ASSUME NEW b \in Boards, KeyChanges(b) PROVE HubInv'
    BY <1>3 DEF KeyChanges, HubTypeOK, AskedAreMeant, wall, house
<1>4. ASSUME NEW b \in Boards, NewKey(b) PROVE HubInv'
    <2>1. Sync(enabled) /\ enabled \in SUBSET Boards
        BY <1>4 DEF NewKey, HubTypeOK
    <2>2. outdated' \subseteq Boards \X Calls
        BY <1>4, UnderWayType DEF NewKey, HubTypeOK
    <2>3. HubTypeOK'
        BY <1>4, <2>1, <2>2, SyncInv DEF NewKey, HubTypeOK, wall
    <2> QED BY <1>4, <2>3 DEF NewKey, AskedAreMeant
<1> QED BY <1>1, <1>2, <1>3, <1>4 DEF Changes

(* The quiet hours and the clock.                                          *)
LEMMA ClockInv ==
    ASSUME HubInv, (\E b \in Boards : FallAsleep(b) \/ WakeUp(b)) \/ TimePasses
    PROVE  HubInv'
<1> USE DEF HubInv, HubTypeOK
<1>1. ASSUME NEW b \in Boards, FallAsleep(b) \/ WakeUp(b) PROVE HubInv'
    BY <1>1 DEF FallAsleep, WakeUp, AskedAreMeant, wall, house
<1>2. CASE TimePasses
    <2>1. moving' \in [Boards -> 0..RateWindow]
        BY <1>2, HubAssumption DEF TimePasses
    <2> QED BY <1>2, <2>1 DEF TimePasses, AskedAreMeant, house
<1> QED BY <1>1, <1>2

LEMMA NextInv == HubInv /\ [Next]_hub => HubInv'
<1> SUFFICES ASSUME HubInv, [Next]_hub PROVE HubInv'
    OBVIOUS
<1>1. CASE UNCHANGED hub
    BY <1>1 DEF hub, wall, house, HubInv, HubTypeOK, AskedAreMeant
<1>2. CASE Next
    BY <1>2, LineInv, AnswersInv, FanoutInv, PeopleInv, ClockInv DEF Next
<1> QED BY <1>1, <1>2

-----------------------------------------------------------------------------

(* Every reachable state of the hub is of its types, and a board that is   *)
(* called unhealthy has failed as often as it takes.                       *)
THEOREM HubTypeCorrect == Spec => []HubTypeOK
<1>1. HubInv => HubTypeOK
    BY DEF HubInv
<1> QED BY InitInv, NextInv, <1>1, PTL DEF Spec

(* A step that changes the flaps of a board is an answer of that board.    *)
LEMMA WhoFlips ==
    ASSUME HubInv, Next, NEW b \in Boards, flaps'[b] # flaps[b]
    PROVE  BoardAnswers(b) \/ TestAnswers(b)
<1>1. ASSUME NEW c \in Boards, BoardAnswers(c) PROVE b = c
    <2>1. post.page.rows \in Layouts
        BY <1>1 DEF BoardAnswers, HubInv, HubTypeOK, PageType
    <2>2. \A d \in Boards : d # c => flaps'[d] = flaps[d]
        BY <1>1, <2>1, FlipsType DEF BoardAnswers, HubInv, Calls
    <2> QED BY <2>2
<1>2. ASSUME NEW c \in Boards, TestAnswers(c) PROVE b = c
    <2>1. \A d \in Boards : d # c => flaps'[d] = flaps[d]
        BY <1>2, FlipsType, HubAssumption DEF TestAnswers, HubInv, Calls
    <2> QED BY <2>1
<1>3. \/ UNCHANGED flaps
      \/ \E c \in Boards : BoardAnswers(c) \/ TestAnswers(c)
    BY DEF Next, Offer, Post, FanoutAnswers, FallAsleep, WakeUp, Tests, TestFlip, Changes,
           SwitchBoards, KeyChanges, NewKey, TimePasses, wall
<1> QED BY <1>1, <1>2, <1>3

(* No board shows what is not meant for it, whatever is switched on or off *)
(* while a page is on its way to the boards.                               *)
THEOREM EveryAimIsKept == Spec => AimIsKept
<1> DEFINE Meant(b) == \/ b \in testing \ testing'
                       \/ post # None /\ (post.page.boards = {} \/ b \in post.page.boards)
           Kept == \A b \in Boards : flaps'[b] # flaps[b] => Meant(b)
<1>1. HubInv /\ [Next]_hub => [Kept]_hub
    <2> SUFFICES ASSUME HubInv, Next, NEW b \in Boards, flaps'[b] # flaps[b] PROVE Meant(b)
        OBVIOUS
    <2>1. CASE BoardAnswers(b)
        BY <2>1 DEF BoardAnswers, HubInv, AskedAreMeant
    <2>2. CASE TestAnswers(b)
        BY <2>2 DEF TestAnswers
    <2> QED BY <2>1, <2>2, WhoFlips
<1> QED BY InitInv, NextInv, <1>1, PTL DEF Spec, AimIsKept

=============================================================================
