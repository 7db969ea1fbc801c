----------------------------- MODULE GameProofs ----------------------------
(***************************************************************************)
(* What holds of the party games for any games, settings and number of     *)
(* players, on any board or none: the types, with every player at the      *)
(* table once; every round is counted once; the turn is never with         *)
(* somebody who cannot take it; the writing never waits for nobody.        *)
(*                                                                         *)
(* The proofs are about the whole house.  What its queue does to a session *)
(* is little: it may end it on the spot (Hears), or forget it (Restart).   *)
(***************************************************************************)
EXTENDS GamesOnBoard, LinesProofs

(* An open session, whatever the round of its mode holds.                  *)
SessionWith(R) ==
    [game : GameTypes, phase : Phases, ends : Nat \cup {Untimed}, expires : Nat, idle : Nat,
     phones : 0..MaxPhones, hadPlayer : BOOLEAN, players : Seq(Nat), waiting : SUBSET Nat,
     joined : 0..MaxJoined, index : Nat, tallies : Nat, best : BOOLEAN, round : R, age : Nat]

(* Players and those who wait have joined; nobody sits down twice.         *)
TableOK(s) ==
    /\ s \in SessionWith({s.round})
    /\ Players(s) \subseteq 1..s.joined
    /\ s.waiting \subseteq 1..s.joined
    /\ Distinct(s.players)
    /\ s.hadPlayer = (s.joined > 0)
    /\ s.phase = "invited" => s.players = <<>>

(* What of the night is over, phase by phase.                              *)
CountOK(s) ==
    /\ s.phase \in {"invited", "lobby"} => s.index = 0 /\ s.tallies = 0
    /\ s.phase \in {"round", "voting"} => s.index > 0 /\ s.tallies = s.index - 1
    /\ s.phase \in {"intermission", "final"} => s.index > 0 /\ s.tallies = s.index
    /\ s.phase = "intermission" => s.index < Of(s).rounds
    /\ s.index <= Of(s).rounds
    /\ s.phase = "voting" => s.game = "prompts"

(* Those in the running order are at the table, and one of them has the    *)
(* turn.                                                                   *)
TurnOK(r, table) ==
    /\ r.order \in Seq(table)
    /\ r.order # <<>> => r.turn \in Members(r.order)

WheelOK(r, table) ==
    /\ DOMAIN r = {"order", "turn", "step", "free", "funds", "seated", "consonants", "vowels"}
    /\ TurnOK(r, table)

GallowsOK(r, table) ==
    /\ DOMAIN r = {"setter", "order", "seated", "turn", "step", "misses", "letters", "solved"}
    /\ TurnOK(r, table)
    /\ r.setter \notin Members(r.order)

(* All who sit at the table and do not wait for the next round have a     *)
(* page to write on, and unless there is none, one of them has not written.*)
WritingOK(r, table) ==
    /\ DOMAIN r = {"seated", "written", "votes"}
    /\ r.seated = table /\ r.written \subseteq r.seated
    /\ r.seated # {} => r.written # r.seated

RoundOK(s) ==
    s.phase = "round" =>
        /\ s.game = "wheel" => WheelOK(s.round, Players(s) \ s.waiting)
        /\ s.game = "hangman" => GallowsOK(s.round, Players(s) \ s.waiting)
        /\ s.game = "prompts" => WritingOK(s.round, Players(s) \ s.waiting)

SessionInv(s) == TableOK(s) /\ CountOK(s) /\ RoundOK(s)

GamesInv ==
    /\ Open => SessionInv(session)
    /\ calls \in Seq(CallType)
    /\ housed \in BOOLEAN

-----------------------------------------------------------------------------
(* Lines of players.                                                       *)

(* Who is present: everybody at the table who does not wait for a round.   *)
LEMMA PresentProperties ==
    ASSUME NEW s, s.players \in Seq(Nat)
    PROVE  /\ Present(s) \in Seq(Nat)
           /\ Members(Present(s)) = Players(s) \ s.waiting
<1>1. CASE s.waiting = {}
    BY <1>1 DEF Present, Players
<1>2. CASE s.waiting # {}
    BY <1>2, AllButSome DEF Present, Players
<1> QED BY <1>1, <1>2

(* As many players as places, when nobody sits in two.                     *)
LEMMA DistinctCounts ==
    ASSUME NEW q \in Seq(Nat), Distinct(q)
    PROVE  Cardinality(Members(q)) = Len(q)
<1> DEFINE n == Len(q)
           M == Members(q)
<1>1. q \in Bijection(1..n, M)
    BY DEF Distinct, Members, Bijection, Injection, Surjection, IsInjective
<1>2. ExistsBijection(1..n, M)
    BY <1>1 DEF ExistsBijection
<1>3. n \in Nat
    OBVIOUS
<1> HIDE DEF n, M
<1>4. Cardinality(M) = n
    BY <1>2, <1>3, FS_CountingElements
<1> QED BY <1>4 DEF n, M

(* One more joins at the end.                                              *)
LEMMA SeatTaken ==
    ASSUME NEW q \in Seq(Nat), NEW p \in Nat, p \notin Members(q), Distinct(q)
    PROVE  /\ Append(q, p) \in Seq(Nat)
           /\ Members(Append(q, p)) = Members(q) \cup {p}
           /\ Distinct(Append(q, p))
<1> DEFINE t == Append(q, p)
<1>1. /\ t \in Seq(Nat) /\ DOMAIN t = 1..(Len(q) + 1)
      /\ \A i \in 1..Len(q) : t[i] = q[i]
      /\ t[Len(q) + 1] = p /\ DOMAIN q = 1..Len(q) /\ Len(q) \in Nat
    OBVIOUS
<1> HIDE DEF t
<1>2. Members(t) = Members(q) \cup {p}
    BY <1>1 DEF Members
<1>3. \A i \in 1..Len(q) : q[i] # p
    BY <1>1 DEF Members
<1>4. Distinct(t)
    <2> DEFINE n == Len(q)
    <2>1. n \in Nat /\ DOMAIN t = 1..(n + 1) /\ DOMAIN q = 1..n
        BY <1>1
    <2>2. /\ \A i \in 1..n : t[i] = q[i] /\ t[i] # t[n + 1]
          /\ \A i, j \in 1..n : q[i] = q[j] => i = j
        BY <1>1, <1>3 DEF Distinct
    <2> HIDE DEF n
    <2>3. \A i \in 1..(n + 1) : i \in 1..n \/ i = n + 1
        BY <2>1
    <2> QED BY <2>1, <2>2, <2>3 DEF Distinct
<1> QED BY <1>1, <1>2, <1>4 DEF t

-----------------------------------------------------------------------------
(* What a handler makes of a session.                                      *)

ResultOK(res) ==
    /\ res.s = NoSession \/ SessionInv(res.s)
    /\ res.made \in Seq(CallType)

LEMMA SettingsTypes ==
    ASSUME NEW s, s.game \in GameTypes
    PROVE  /\ Of(s).rounds \in Nat \ {0} /\ Of(s).lobby \in Nat \ {0}
           /\ Of(s).round \in Nat \ {0} /\ Of(s).turn \in Nat \ {0} /\ Of(s).pick \in Nat \ {0}
           /\ Of(s).voting \in Nat \ {0} /\ Of(s).intermission \in Nat \ {0}
           /\ Of(s).idle \in Nat \ {0} /\ Of(s).invite \in Nat \ {0}
BY GamesAssumption DEF Of, SettingsType

LEMMA PushType ==
    ASSUME NEW s, s.game \in GameTypes, NEW card \in GameCards, NEW hold \in Nat,
           NEW takeover \in BOOLEAN
    PROVE  /\ Push(s, card, hold, takeover).s = s
           /\ Push(s, card, hold, takeover).made \in Seq(CallType)
<1> DEFINE lock == [do |-> "lock", game |-> s.game, join |-> card = "invite"]
           take == [do |-> "take", game |-> s.game]
           page == [do |-> "page", game |-> s.game, card |-> card, hold |-> hold,
                    takeover |-> takeover]
<1>1. lock \in CallType
    BY DEF CallType
<1>2. take \in CallType
    BY DEF CallType
<1>3. page \in CallType
    BY DEF CallType
<1>4. Push(s, card, hold, takeover) = [s |-> s, made |-> <<lock, take, page>>]
    BY DEF Push, Result
<1> HIDE DEF lock, take, page
<1> QED BY <1>1, <1>2, <1>3, <1>4

LEMMA CloseOK ==
    ASSUME NEW s, s.game \in GameTypes, NEW reason
    PROVE  /\ ResultOK(CloseSession(s, reason))
           /\ CloseSession(s, reason).s = NoSession
<1> DEFINE pause == Of(s).intermission
           unlock == [do |-> "unlock", game |-> s.game]
           short == Push(s, "short", pause, TRUE).made
           final == Push(s, "final", pause, TRUE).made
<1>1. unlock \in CallType
    BY DEF CallType
<1>2. pause \in Nat
    BY SettingsTypes
<1>3. short \in Seq(CallType) /\ final \in Seq(CallType)
    <2>1. {"short", "final"} \subseteq GameCards
        BY DEF GameCards
    <2> QED BY <1>2, <2>1, PushType
<1> DEFINE last == IF reason = "not-enough-players" THEN short
                   ELSE IF s.phase # "final" /\ s.hadPlayer /\ reason # "preempted" THEN final
                   ELSE <<>>
<1>4. CloseSession(s, reason) = [s |-> NoSession, made |-> last \o <<unlock>>]
    BY DEF CloseSession, Result
<1> HIDE DEF unlock, short, final
<1>5. last \in Seq(CallType)
    BY <1>3
<1> HIDE DEF last
<1> QED BY <1>1, <1>4, <1>5 DEF ResultOK

-----------------------------------------------------------------------------
(* The modes have their lines from the same module.                        *)
LEMMA SameLines ==
    ASSUME NEW q, NEW p
    PROVE  /\ Wheel!Members(q) = Members(q)
           /\ Wheel!Dismiss(q, p) = Dismiss(q, p) /\ Gallows!Dismiss(q, p) = Dismiss(q, p)
           /\ Gallows!Members(q) = Members(q)
<1>1. Wheel!Members(q) = Members(q) /\ Gallows!Members(q) = Members(q)
    BY DEF Wheel!Members, Gallows!Members, Members
<1>2. Wheel!Dismiss(q, p) = Dismiss(q, p)
    BY DEF Wheel!Dismiss, Wheel!Without, Wheel!At, Wheel!Nth, Wheel!RankIn, Wheel!Cardinality,
           Dismiss, Without, At, Nth, RankIn, Cardinality
<1>3. Gallows!Dismiss(q, p) = Dismiss(q, p)
    BY DEF Gallows!Dismiss, Gallows!Without, Gallows!At, Gallows!Nth, Gallows!RankIn, Gallows!Cardinality,
           Dismiss, Without, At, Nth, RankIn, Cardinality
<1> QED BY <1>1, <1>2, <1>3

LEMMA OwnMembers ==
    ASSUME NEW q \in Seq(Nat)
    PROVE  q \in Seq(Members(q))
<1>1. \A i \in 1..Len(q) : q[i] \in Members(q)
    BY DEF Members
<1> QED BY <1>1

LEMMA FirstMember ==
    ASSUME NEW T, NEW q \in Seq(T), q # <<>>
    PROVE  q[1] \in Members(q)
<1>1. 1 \in DOMAIN q
    OBVIOUS
<1> QED BY <1>1 DEF Members

(* A round of the wheel as it is dealt.                                    *)
LEMMA WheelDealt ==
    ASSUME NEW T, NEW q \in Seq(T)
    PROVE  WheelOK(Wheel!Begin(Wheel!Seat(Wheel!NewRound, q)), T)
<1> DEFINE r == Wheel!Seat(Wheel!NewRound, q)
<1>1. /\ DOMAIN r = {"order", "turn", "step", "free", "funds", "seated", "consonants", "vowels"}
      /\ r.order = q
    BY DEF Wheel!Seat, Wheel!NewRound
<1>2. Wheel!Begin(r) = [r EXCEPT !.turn = IF q = <<>> THEN Nobody ELSE q[1], !.step = "spin"]
    BY <1>1 DEF Wheel!Begin
<1> HIDE DEF r
<1>3. /\ DOMAIN Wheel!Begin(r) = DOMAIN r
      /\ Wheel!Begin(r).order = q
      /\ q # <<>> => Wheel!Begin(r).turn = q[1]
    BY <1>1, <1>2
<1>4. TurnOK(Wheel!Begin(r), T)
    BY <1>3, FirstMember DEF TurnOK
<1> QED BY <1>1, <1>3, <1>4 DEF WheelOK, r

(* A word as it is dealt: the setter sits out.                             *)
LEMMA GallowsDealt ==
    ASSUME NEW T, NEW q \in Seq(T), NEW n
    PROVE  GallowsOK(Gallows!Begin(Gallows!Seat(Gallows!NewRound(q, n), q)), T)
<1> DEFINE new == Gallows!NewRound(q, n)
           r == Gallows!Seat(new, q)
           order == Dismiss(q, new.setter)
<1>0. DOMAIN new = {"setter", "order", "seated", "turn", "step", "misses", "letters", "solved"}
    BY DEF Gallows!NewRound
<1> HIDE DEF new
<1>1. r = [new EXCEPT !.seated = Members(q), !.order = order]
    BY SameLines DEF Gallows!Seat
<1>2. order \in Seq(T) /\ new.setter \notin Members(order)
    BY DismissProperties
<1> HIDE DEF order, r
<1>3. DOMAIN r = DOMAIN new /\ r.order = order /\ r.setter = new.setter
    BY <1>0, <1>1
<1>4. Gallows!Begin(r) = [r EXCEPT !.turn = IF order = <<>> THEN Nobody ELSE order[1]]
    BY <1>3 DEF Gallows!Begin, Gallows!First
<1>5. /\ DOMAIN Gallows!Begin(r) = DOMAIN new
      /\ Gallows!Begin(r).order = order /\ Gallows!Begin(r).setter = new.setter
      /\ order # <<>> => Gallows!Begin(r).turn = order[1]
    BY <1>0, <1>3, <1>4
<1>6. TurnOK(Gallows!Begin(r), T)
    BY <1>2, <1>5, FirstMember DEF TurnOK
<1> QED BY <1>0, <1>2, <1>5, <1>6 DEF GallowsOK, r, new

LEMMA DealtOK ==
    ASSUME NEW s, TableOK(s)
    PROVE  /\ s.game = "wheel" => WheelOK(Dealt(s), Players(s) \ s.waiting)
           /\ s.game = "hangman" => GallowsOK(Dealt(s), Players(s) \ s.waiting)
           /\ s.game = "prompts" => WritingOK(Dealt(s), Players(s) \ s.waiting)
<1> DEFINE T == Players(s) \ s.waiting
           q == Present(s)
<1>1. s.players \in Seq(Nat)
    BY DEF TableOK, SessionWith
<1>2. q \in Seq(T) /\ Members(q) = T
    BY <1>1, PresentProperties, OwnMembers
<1> HIDE DEF q
<1>3. CASE s.game = "wheel"
    BY <1>2, <1>3, WheelDealt DEF Dealt, q
<1>4. CASE s.game = "hangman"
    BY <1>2, <1>4, GallowsDealt DEF Dealt, q
<1>5. CASE s.game = "prompts"
    <2>1. Dealt(s) = [seated |-> T, written |-> {}, votes |-> <<>>]
        BY <1>2, <1>5 DEF Dealt, q, Prompts!Seat, Prompts!NewRound
    <2> QED BY <1>5, <2>1 DEF WritingOK
<1> QED BY <1>3, <1>4, <1>5

-----------------------------------------------------------------------------
(* What is played, Wheel of Fortune.                                       *)

LEMMA InTheSet ==
    ASSUME NEW S, NEW q \in Seq(S), NEW T, Members(q) \subseteq T
    PROVE  q \in Seq(T)
<1>1. \A i \in 1..Len(q) : q[i] \in T
    BY DEF Members
<1> QED BY <1>1

(* Round and round.                                                        *)
LEMMA Around ==
    ASSUME NEW T, NEW q \in Seq(T), q # <<>>, NEW i \in Nat
    PROVE  q[(i % Len(q)) + 1] \in Members(q)
<1>1. Len(q) \in Nat \ {0}
    OBVIOUS
<1>2. \A n \in Nat \ {0} : i % n \in 0..(n - 1)
    OBVIOUS
<1>3. i % Len(q) \in 0..(Len(q) - 1)
    BY <1>1, <1>2
<1>4. (i % Len(q)) + 1 \in DOMAIN q
    BY <1>1, <1>3
<1> QED BY <1>4 DEF Members

LEMMA AfterMember ==
    ASSUME NEW T, NEW q \in Seq(T), q # <<>>, NEW p
    PROVE  Wheel!After(q, p) \in Members(q) /\ Gallows!After(q, p) \in Members(q)
<1> DEFINE here == {i \in DOMAIN q : q[i] = p}
           i == IF here = {} THEN 1 ELSE CHOOSE j \in here : TRUE
<1>1. i \in Nat
    OBVIOUS
<1>2. Wheel!After(q, p) = q[(i % Len(q)) + 1] /\ Gallows!After(q, p) = q[(i % Len(q)) + 1]
    BY DEF Wheel!After, Gallows!After
<1> HIDE DEF i
<1> QED BY <1>1, <1>2, Around

(* A round that differs in other things than whose turn it is.             *)
LEMMA WheelAlike ==
    ASSUME NEW r, NEW T, WheelOK(r, T), NEW x,
           DOMAIN x = DOMAIN r, x.order = r.order, x.turn = r.turn
    PROVE  WheelOK(x, T)
BY DEF WheelOK, TurnOK

LEMMA WheelPass ==
    ASSUME NEW r, NEW T, WheelOK(r, T)
    PROVE  WheelOK(Wheel!PassTurn(r), T)
<1> DEFINE x == Wheel!PassTurn(r)
           turn == IF r.order = <<>> THEN Nobody ELSE Wheel!After(r.order, r.turn)
<1>1. x = [r EXCEPT !.turn = turn, !.step = "spin"]
    BY DEF Wheel!PassTurn
<1>2. r.order # <<>> => turn \in Members(r.order)
    BY AfterMember DEF WheelOK, TurnOK
<1> HIDE DEF turn
<1>3. DOMAIN x = DOMAIN r /\ x.order = r.order /\ x.turn = turn
    BY <1>1 DEF WheelOK
<1> HIDE DEF x
<1> QED BY <1>2, <1>3 DEF WheelOK, TurnOK, x

LEMMA WheelLose ==
    ASSUME NEW r, NEW T, WheelOK(r, T), NEW p
    PROVE  WheelOK(Wheel!LoseTurn(r, p), T)
<1>1. CASE Wheel!HasFreeSpin(r, p)
    <2> DEFINE x == [r EXCEPT !.free[p] = @ - 1, !.step = "spin"]
    <2>1. DOMAIN x = DOMAIN r /\ x.order = r.order /\ x.turn = r.turn
        BY DEF WheelOK
    <2> HIDE DEF x
    <2>2. WheelOK(x, T)
        BY <2>1, WheelAlike
    <2> QED BY <1>1, <2>2 DEF Wheel!LoseTurn, x
<1>2. CASE ~Wheel!HasFreeSpin(r, p)
    BY <1>2, WheelPass DEF Wheel!LoseTurn
<1> QED BY <1>1, <1>2

(* What a play answers: the round goes on in order, or is done.            *)
WheelOut(out, T) ==
    /\ out.then \in {"stay", "refresh", "continue", "finish"}
    /\ WheelOK(out.round, T)

LEMMA WheelThen ==
    ASSUME NEW r, NEW T, WheelOK(r, T)
    PROVE  /\ Wheel!Refresh(r).then = "refresh" /\ WheelOut(Wheel!Refresh(r), T)
           /\ \A what \in {"stay", "refresh", "continue", "finish"} :
                  Wheel!Then(r, what).then = what /\ WheelOut(Wheel!Then(r, what), T)
BY DEF Wheel!Refresh, Wheel!Then, WheelOut

LEMMA WheelTurned ==
    ASSUME NEW r, NEW T, WheelOK(r, T)
    PROVE  /\ WheelOut(Wheel!Turned(r), T)
           /\ Wheel!Turned(r).then \in {"refresh", "finish"}
<1> DEFINE x == [r EXCEPT !.step = "solved"]
           y == [r EXCEPT !.step = "play"]
<1>1. /\ DOMAIN x = DOMAIN r /\ x.order = r.order /\ x.turn = r.turn
      /\ DOMAIN y = DOMAIN r /\ y.order = r.order /\ y.turn = r.turn
    BY DEF WheelOK
<1>2. Wheel!Turned(r) = Wheel!Then(x, "finish") \/ Wheel!Turned(r) = Wheel!Refresh(y)
    BY DEF Wheel!Turned
<1> HIDE DEF x, y
<1>3. WheelOK(x, T) /\ WheelOK(y, T)
    BY <1>1, WheelAlike
<1> QED BY <1>2, <1>3, WheelThen

LEMMA WheelSpins ==
    ASSUME NEW r, NEW T, WheelOK(r, T), NEW p, NEW out \in Wheel!Spins(r, p)
    PROVE  WheelOut(out, T) /\ out.then = "refresh"
<1> DEFINE broke == [r EXCEPT !.funds = @ \ {p}, !.free[p] = 0]
           guess == [r EXCEPT !.step = "guess"]
           won == [r EXCEPT !.free[p] = @ + 1, !.step = "spin"]
<1>1. /\ DOMAIN broke = DOMAIN r /\ broke.order = r.order /\ broke.turn = r.turn
      /\ DOMAIN guess = DOMAIN r /\ guess.order = r.order /\ guess.turn = r.turn
      /\ DOMAIN won = DOMAIN r /\ won.order = r.order /\ won.turn = r.turn
    BY DEF WheelOK
<1>2. out \in {Wheel!Refresh(Wheel!PassTurn(broke)), Wheel!Refresh(Wheel!LoseTurn(r, p)),
               Wheel!Refresh(guess), Wheel!Refresh(won)}
    BY DEF Wheel!Spins, Wheel!Bankrupt
<1> HIDE DEF broke, guess, won
<1>3. WheelOK(broke, T) /\ WheelOK(guess, T) /\ WheelOK(won, T)
    BY <1>1, WheelAlike
<1>4. WheelOK(Wheel!PassTurn(broke), T) /\ WheelOK(Wheel!LoseTurn(r, p), T)
    BY <1>3, WheelPass, WheelLose
<1> QED BY <1>2, <1>3, <1>4, WheelThen

LEMMA WheelGuesses ==
    ASSUME NEW r, NEW T, WheelOK(r, T), NEW p, NEW out \in Wheel!Guesses(r, p)
    PROVE  WheelOut(out, T) /\ out.then \in {"refresh", "finish"}
<1> DEFINE hit == [r EXCEPT !.consonants = @ - 1, !.funds = @ \cup {p}]
<1>1. DOMAIN hit = DOMAIN r /\ hit.order = r.order /\ hit.turn = r.turn
    BY DEF WheelOK
<1>2. out \in {Wheel!Refresh(Wheel!LoseTurn(r, p)), Wheel!Turned(hit)}
    BY DEF Wheel!Guesses
<1> HIDE DEF hit
<1>3. WheelOK(hit, T) /\ WheelOK(Wheel!LoseTurn(r, p), T)
    BY <1>1, WheelAlike, WheelLose
<1> QED BY <1>2, <1>3, WheelThen, WheelTurned

LEMMA WheelVowels ==
    ASSUME NEW r, NEW T, WheelOK(r, T), NEW p, NEW out \in Wheel!BuysVowel(r, p)
    PROVE  WheelOut(out, T) /\ out.then \in {"refresh", "finish"}
<1>1. PICK f \in {r.funds, r.funds \ {p}} :
          out \in {Wheel!Refresh(Wheel!LoseTurn([r EXCEPT !.funds = f], p)),
                   Wheel!Turned([r EXCEPT !.vowels = @ - 1, !.funds = f])}
    BY DEF Wheel!BuysVowel
<1> DEFINE paid == [r EXCEPT !.funds = f]
           shown == [r EXCEPT !.vowels = @ - 1, !.funds = f]
<1>2. /\ DOMAIN paid = DOMAIN r /\ paid.order = r.order /\ paid.turn = r.turn
      /\ DOMAIN shown = DOMAIN r /\ shown.order = r.order /\ shown.turn = r.turn
    BY DEF WheelOK
<1>3. out \in {Wheel!Refresh(Wheel!LoseTurn(paid, p)), Wheel!Turned(shown)}
    BY <1>1
<1> HIDE DEF paid, shown
<1>4. WheelOK(paid, T) /\ WheelOK(shown, T)
    BY <1>2, WheelAlike
<1>5. WheelOK(Wheel!LoseTurn(paid, p), T)
    BY <1>4, WheelLose
<1> QED BY <1>3, <1>4, <1>5, WheelThen, WheelTurned

LEMMA WheelPlays ==
    ASSUME NEW r, NEW T, WheelOK(r, T), NEW p, NEW out \in Wheel!Plays(r, p)
    PROVE  WheelOut(out, T) /\ out.then \in {"refresh", "finish"}
<1> DEFINE x == [r EXCEPT !.consonants = 0, !.vowels = 0, !.step = "solved"]
<1>1. DOMAIN x = DOMAIN r /\ x.order = r.order /\ x.turn = r.turn
    BY DEF WheelOK
<1>2. ASSUME out \in Wheel!Solves(r, p) PROVE WheelOut(out, T) /\ out.then \in {"refresh", "finish"}
    <2>1. out \in {Wheel!Refresh(Wheel!LoseTurn(r, p)), Wheel!Then(x, "finish")}
        BY <1>2 DEF Wheel!Solves
    <2> HIDE DEF x
    <2>2. WheelOK(x, T) /\ WheelOK(Wheel!LoseTurn(r, p), T)
        BY <1>1, WheelAlike, WheelLose
    <2> QED BY <2>1, <2>2, WheelThen
<1>3. \/ out \in Wheel!Spins(r, p) \/ out \in Wheel!Guesses(r, p)
      \/ out \in Wheel!BuysVowel(r, p) \/ out \in Wheel!Solves(r, p)
    BY DEF Wheel!Plays
<1> QED BY <1>2, <1>3, WheelSpins, WheelGuesses, WheelVowels

LEMMA WheelTimeout ==
    ASSUME NEW r, NEW T, WheelOK(r, T), NEW spent
    PROVE  /\ WheelOut(Wheel!Timeout(r, spent), T)
           /\ Wheel!Timeout(r, spent).then \in {"continue", "finish"}
<1>1. WheelOK(Wheel!LoseTurn(r, r.turn), T)
    BY WheelLose
<1> QED BY <1>1, WheelThen DEF Wheel!Timeout

(* A leaver leaves the order; a turn goes on.                              *)
LEMMA WheelLeave ==
    ASSUME NEW r, NEW T, WheelOK(r, T), NEW p
    PROVE  /\ WheelOut(Wheel!Leave(r, p), T \ {p})
           /\ Wheel!Leave(r, p).then \in {"stay", "refresh"}
<1> DEFINE order == Dismiss(r.order, p)
           here == {i \in DOMAIN r.order : r.order[i] = p}
           i == IF here = {} THEN 1 ELSE CHOOSE j \in here : TRUE
           left == [r EXCEPT !.order = order, !.seated = @ \ {p}, !.funds = @ \ {p},
                             !.free = [q \in r.seated \ {p} |-> r.free[q]]]
           turn == order[((i - 1) % Len(order)) + 1]
           next == [left EXCEPT !.turn = turn, !.step = "spin"]
<1>1. r.order \in Seq(T)
    BY DEF WheelOK, TurnOK
<1>2. order \in Seq(T \ {p}) /\ Members(order) = Members(r.order) \ {p}
    <2>1. order \in Seq(T) /\ Members(order) = Members(r.order) \ {p}
        BY <1>1, DismissProperties
    <2>2. Members(r.order) \subseteq T
        BY <1>1 DEF Members
    <2> HIDE DEF order
    <2> QED BY <2>1, <2>2, InTheSet
<1>3. i - 1 \in Nat
    <2>1. \A j \in here : j \in Nat /\ j - 1 \in Nat
        BY <1>1
    <2> HIDE DEF here
    <2>2. here # {} => i \in here
        OBVIOUS
    <2>3. here = {} => i = 1
        OBVIOUS
    <2> HIDE DEF i
    <2> QED BY <2>1, <2>2, <2>3
<1>4. Wheel!Leave(r, p) = IF r.turn # p \/ order = <<>> THEN Wheel!Then(left, "stay")
                          ELSE Wheel!Refresh(next)
    <2>1. Wheel!Dismiss(r.order, p) = order
        BY SameLines
    <2> QED BY <2>1 DEF Wheel!Leave
<1> HIDE DEF order, i
<1>5. order # <<>> => turn \in Members(order)
    BY <1>2, <1>3, Around
<1> HIDE DEF turn
<1>6. /\ DOMAIN left = DOMAIN r /\ left.order = order /\ left.turn = r.turn
      /\ DOMAIN next = DOMAIN r /\ next.order = order /\ next.turn = turn
    BY DEF WheelOK
<1> HIDE DEF left, next
<1>7. CASE r.turn # p \/ order = <<>>
    <2>1. order # <<>> => r.turn \in Members(order)
        <3>1. order # <<>> => r.order # <<>>
            <4>1. order # <<>> => Members(order) # {}
                BY <1>2, FirstMember
            <4>2. r.order = <<>> => Members(r.order) = {}
                BY DEF Members
            <4> QED BY <1>2, <4>1, <4>2
        <3> QED BY <1>2, <1>7, <3>1 DEF WheelOK, TurnOK
    <2>2. WheelOK(left, T \ {p})
        BY <1>2, <1>6, <2>1 DEF WheelOK, TurnOK
    <2>3. Wheel!Leave(r, p) = Wheel!Then(left, "stay")
        BY <1>4, <1>7
    <2> QED BY <2>2, <2>3, WheelThen
<1>8. CASE ~(r.turn # p \/ order = <<>>)
    <2>1. WheelOK(next, T \ {p})
        BY <1>2, <1>5, <1>6 DEF WheelOK, TurnOK
    <2> QED BY <1>4, <1>8, <2>1, WheelThen
<1> QED BY <1>7, <1>8

-----------------------------------------------------------------------------
(* What is played, Hangman.                                                *)

GallowsOut(out, T) ==
    /\ out.then \in {"stay", "refresh", "continue", "finish"}
    /\ GallowsOK(out.round, T)

LEMMA GallowsThen ==
    ASSUME NEW r, NEW T, GallowsOK(r, T)
    PROVE  \A what \in {"stay", "refresh", "continue", "finish"} :
               Gallows!Then(r, what).then = what /\ GallowsOut(Gallows!Then(r, what), T)
BY DEF Gallows!Then, GallowsOut

LEMMA GallowsAlike ==
    ASSUME NEW r, NEW T, GallowsOK(r, T), NEW x,
           DOMAIN x = DOMAIN r, x.order = r.order, x.setter = r.setter,
           x.turn = r.turn \/ (r.order # <<>> => x.turn \in Members(r.order))
    PROVE  GallowsOK(x, T)
BY DEF GallowsOK, TurnOK

LEMMA FirstInTurn ==
    ASSUME NEW T, NEW q \in Seq(T), q # <<>>
    PROVE  Gallows!First(q) \in Members(q)
BY FirstMember DEF Gallows!First

LEMMA GallowsPass ==
    ASSUME NEW r, NEW T, GallowsOK(r, T)
    PROVE  GallowsOK(Gallows!PassTurn(r), T)
<1> DEFINE x == Gallows!PassTurn(r)
           turn == IF r.order = <<>> THEN Nobody ELSE Gallows!After(r.order, r.turn)
<1>1. x = [r EXCEPT !.turn = turn]
    BY DEF Gallows!PassTurn
<1>2. r.order # <<>> => turn \in Members(r.order)
    BY AfterMember DEF GallowsOK, TurnOK
<1> HIDE DEF turn
<1>3. DOMAIN x = DOMAIN r /\ x.order = r.order /\ x.setter = r.setter /\ x.turn = turn
    BY <1>1 DEF GallowsOK
<1> HIDE DEF x
<1>4. GallowsOK(x, T)
    BY <1>2, <1>3, GallowsAlike
<1> QED BY <1>4 DEF x

LEMMA GallowsDone ==
    ASSUME NEW r, NEW T, GallowsOK(r, T), NEW solved
    PROVE  /\ GallowsOut(Gallows!Done(r, solved), T)
           /\ Gallows!Done(r, solved).then = "finish"
<1> DEFINE x == [r EXCEPT !.step = "done", !.solved = solved]
<1>1. DOMAIN x = DOMAIN r /\ x.order = r.order /\ x.setter = r.setter /\ x.turn = r.turn
    BY DEF GallowsOK
<1>2. Gallows!Done(r, solved) = Gallows!Then(x, "finish")
    BY DEF Gallows!Done
<1> HIDE DEF x
<1>3. GallowsOK(x, T)
    BY <1>1, GallowsAlike
<1> QED BY <1>2, <1>3, GallowsThen

LEMMA GallowsGuesses ==
    ASSUME NEW r, NEW T, GallowsOK(r, T), NEW p, NEW out \in Gallows!Guesses(r, p)
    PROVE  GallowsOut(out, T) /\ out.then \in {"refresh", "finish"}
<1> DEFINE shown == [r EXCEPT !.letters = @ - 1]
           hurt == [r EXCEPT !.misses = @ + 1]
           named == [r EXCEPT !.letters = 0]
<1>1. /\ DOMAIN shown = DOMAIN r /\ shown.order = r.order /\ shown.setter = r.setter
      /\ shown.turn = r.turn
    BY DEF GallowsOK
<1>2. /\ DOMAIN hurt = DOMAIN r /\ hurt.order = r.order /\ hurt.setter = r.setter
      /\ hurt.turn = r.turn
    BY DEF GallowsOK
<1>3. /\ DOMAIN named = DOMAIN r /\ named.order = r.order /\ named.setter = r.setter
      /\ named.turn = r.turn
    BY DEF GallowsOK
<1>4. out \in {Gallows!Hit(r), Gallows!Miss(r), Gallows!Done(named, TRUE)}
    BY DEF Gallows!Guesses
<1>5. /\ Gallows!Hit(r) \in {Gallows!Done(shown, TRUE), Gallows!Then(shown, "refresh")}
      /\ Gallows!Miss(r) \in {Gallows!Done(hurt, FALSE),
                              Gallows!Then(Gallows!PassTurn(hurt), "refresh")}
    BY DEF Gallows!Hit, Gallows!Miss
<1> HIDE DEF shown, hurt, named
<1>6. GallowsOK(shown, T) /\ GallowsOK(hurt, T) /\ GallowsOK(named, T)
    BY <1>1, <1>2, <1>3, GallowsAlike
<1>7. GallowsOK(Gallows!PassTurn(hurt), T)
    BY <1>6, GallowsPass
<1> QED BY <1>4, <1>5, <1>6, <1>7, GallowsThen, GallowsDone

(* The setter sets the word, or the house does: the first one guesses.     *)
LEMMA GallowsSet ==
    ASSUME NEW r, NEW T, GallowsOK(r, T)
    PROVE  GallowsOK([r EXCEPT !.step = "guess", !.turn = Gallows!First(r.order)], T)
<1> DEFINE turn == Gallows!First(r.order)
           x == [r EXCEPT !.step = "guess", !.turn = turn]
<1>1. r.order # <<>> => turn \in Members(r.order)
    BY FirstInTurn DEF GallowsOK, TurnOK
<1> HIDE DEF turn
<1>2. DOMAIN x = DOMAIN r /\ x.order = r.order /\ x.setter = r.setter /\ x.turn = turn
    BY DEF GallowsOK
<1> HIDE DEF x
<1>3. GallowsOK(x, T)
    BY <1>1, <1>2, GallowsAlike
<1> QED BY <1>3 DEF x, turn

LEMMA GallowsPlays ==
    ASSUME NEW r, NEW T, GallowsOK(r, T), NEW p, NEW out \in Gallows!Plays(r, p)
    PROVE  GallowsOut(out, T) /\ out.then \in {"refresh", "finish"}
<1>1. CASE out \in Gallows!Sets(r, p)
    <2>1. out = Gallows!Then([r EXCEPT !.step = "guess", !.turn = Gallows!First(r.order)], "refresh")
        BY <1>1 DEF Gallows!Sets
    <2> QED BY <2>1, GallowsSet, GallowsThen
<1>2. CASE out \in Gallows!Guesses(r, p)
    BY <1>2, GallowsGuesses
<1> QED BY <1>1, <1>2 DEF Gallows!Plays

LEMMA GallowsTimeout ==
    ASSUME NEW r, NEW T, GallowsOK(r, T), NEW spent
    PROVE  /\ GallowsOut(Gallows!Timeout(r, spent), T)
           /\ Gallows!Timeout(r, spent).then \in {"continue", "finish"}
<1> DEFINE set == [r EXCEPT !.step = "guess", !.turn = Gallows!First(r.order)]
<1>1. GallowsOK(set, T) /\ GallowsOK(Gallows!PassTurn(r), T)
    BY GallowsSet, GallowsPass
<1>2. Gallows!Timeout(r, spent) \in
          {Gallows!Then(r, "finish"), Gallows!Then(set, "continue"), Gallows!Then(r, "continue"),
           Gallows!Then(Gallows!PassTurn(r), "continue")}
    BY DEF Gallows!Timeout
<1> HIDE DEF set
<1> QED BY <1>1, <1>2, GallowsThen

(* A leaver leaves the order; a turn goes on, a word nobody set is guessed.*)
LEMMA GallowsLeave ==
    ASSUME NEW r, NEW T, GallowsOK(r, T), NEW p, Nobody \notin T
    PROVE  /\ GallowsOut(Gallows!Leave(r, p), T \ {p})
           /\ Gallows!Leave(r, p).then \in {"stay", "refresh"}
<1> DEFINE order == Dismiss(r.order, p)
           here == {i \in DOMAIN r.order : r.order[i] = p}
           i == IF here = {} THEN 1 ELSE CHOOSE j \in here : TRUE
           left == [r EXCEPT !.order = order, !.seated = @ \ {p}]
           turn == order[((i - 1) % Len(order)) + 1]
           next == [left EXCEPT !.turn = turn]
           first == Gallows!First(order)
           set == [left EXCEPT !.step = "guess", !.setter = Nobody, !.turn = first]
<1>1. r.order \in Seq(T)
    BY DEF GallowsOK, TurnOK
<1>2. order \in Seq(T \ {p}) /\ Members(order) = Members(r.order) \ {p} /\ Nobody \notin Members(order)
    <2>1. order \in Seq(T) /\ Members(order) = Members(r.order) \ {p}
        BY <1>1, DismissProperties
    <2>2. Members(r.order) \subseteq T
        BY <1>1 DEF Members
    <2> HIDE DEF order
    <2> QED BY <2>1, <2>2, InTheSet
<1>3. i - 1 \in Nat
    <2>1. \A j \in here : j \in Nat /\ j - 1 \in Nat
        BY <1>1
    <2> HIDE DEF here
    <2>2. here # {} => i \in here
        OBVIOUS
    <2>3. here = {} => i = 1
        OBVIOUS
    <2> HIDE DEF i
    <2> QED BY <2>1, <2>2, <2>3
<1>4. Gallows!Leave(r, p) = IF r.setter = p /\ r.step = "pick" THEN Gallows!Then(set, "refresh")
                            ELSE IF r.turn # p \/ order = <<>> THEN Gallows!Then(left, "stay")
                            ELSE Gallows!Then(next, "refresh")
    <2>1. Gallows!Dismiss(r.order, p) = order
        BY SameLines
    <2> QED BY <2>1 DEF Gallows!Leave
<1>5. order # <<>> => first \in Members(order)
    BY <1>2, FirstInTurn
<1> HIDE DEF order, i, first
<1>6. order # <<>> => turn \in Members(order)
    BY <1>2, <1>3, Around
<1> HIDE DEF turn
<1>7. DOMAIN left = DOMAIN r /\ left.order = order /\ left.turn = r.turn /\ left.setter = r.setter
    BY DEF GallowsOK
<1>8. DOMAIN next = DOMAIN r /\ next.order = order /\ next.turn = turn /\ next.setter = r.setter
    BY DEF GallowsOK
<1>9. DOMAIN set = DOMAIN r /\ set.order = order /\ set.turn = first /\ set.setter = Nobody
    BY DEF GallowsOK
<1> HIDE DEF left, next, set
<1>10. CASE r.setter = p /\ r.step = "pick"
    <2>1. GallowsOK(set, T \ {p})
        BY <1>2, <1>5, <1>9 DEF GallowsOK, TurnOK
    <2>2. Gallows!Leave(r, p) = Gallows!Then(set, "refresh")
        BY <1>4, <1>10
    <2> QED BY <2>1, <2>2, GallowsThen
<1>11. CASE ~(r.setter = p /\ r.step = "pick") /\ (r.turn # p \/ order = <<>>)
    <2>1. order # <<>> => r.turn \in Members(order)
        <3>1. order # <<>> => Members(order) # {}
            BY <1>2, FirstMember
        <3>2. r.order = <<>> => Members(r.order) = {}
            BY DEF Members
        <3> QED BY <1>2, <1>11, <3>1, <3>2 DEF GallowsOK, TurnOK
    <2>2. GallowsOK(left, T \ {p})
        BY <1>2, <1>7, <2>1 DEF GallowsOK, TurnOK
    <2>3. Gallows!Leave(r, p) = Gallows!Then(left, "stay")
        BY <1>4, <1>11
    <2> QED BY <2>2, <2>3, GallowsThen
<1>12. CASE ~(r.setter = p /\ r.step = "pick") /\ ~(r.turn # p \/ order = <<>>)
    <2>1. GallowsOK(next, T \ {p})
        BY <1>2, <1>6, <1>8, <1>12 DEF GallowsOK, TurnOK
    <2>2. Gallows!Leave(r, p) = Gallows!Then(next, "refresh")
        BY <1>4, <1>12
    <2> QED BY <2>1, <2>2, GallowsThen
<1> QED BY <1>10, <1>11, <1>12

-----------------------------------------------------------------------------
(* What is played, Party Prompts.                                          *)

LEMMA PromptsWritten ==
    ASSUME NEW r, NEW P, WritingOK(r, P), NEW p, NEW out \in Prompts!Answers(r, p), p \in r.seated
    PROVE  /\ out.then \in {"advance", "stay"}
           /\ out.then = "stay" => WritingOK(out.round, P)
<1> DEFINE x == [r EXCEPT !.written = @ \cup {p}]
<1>1. DOMAIN x = DOMAIN r /\ x.seated = r.seated /\ x.written = r.written \cup {p}
    BY DEF WritingOK
<1>2. out = [round |-> x, then |-> IF Prompts!AllAnswered(x) THEN "advance" ELSE "stay"]
    BY DEF Prompts!Answers, Prompts!Then
<1> HIDE DEF x
<1> QED BY <1>1, <1>2 DEF WritingOK, Prompts!AllAnswered

LEMMA PromptsLeave ==
    ASSUME NEW r, NEW P, WritingOK(r, P), NEW p
    PROVE  /\ Prompts!Leave(r, p).then \in {"advance", "stay"}
           /\ Prompts!Leave(r, p).then = "stay" => WritingOK(Prompts!Leave(r, p).round, P \ {p})
<1> DEFINE x == [seated |-> r.seated \ {p}, written |-> r.written \ {p},
                 votes |-> [q \in Prompts!Voters(r) \ {p} |-> r.votes[q]]]
<1>1. /\ DOMAIN x = {"seated", "written", "votes"}
      /\ x.seated = r.seated \ {p} /\ x.written = r.written \ {p}
    OBVIOUS
<1>2. Prompts!Leave(r, p) =
          [round |-> x, then |-> IF Prompts!AllAnswered(x) THEN "advance" ELSE "stay"]
    BY DEF Prompts!Leave, Prompts!Then
<1> HIDE DEF x
<1> QED BY <1>1, <1>2 DEF WritingOK, Prompts!AllAnswered

-----------------------------------------------------------------------------
(* The steps of a night.                                                   *)

(* The same people at the same game, whatever has become of the rest.      *)
SameTable(t, s) ==
    /\ t.game = s.game /\ t.players = s.players /\ t.joined = s.joined
    /\ t.hadPlayer = s.hadPlayer /\ t.waiting \in {s.waiting, {}}

LEMMA SameTableOK ==
    ASSUME NEW s, TableOK(s), NEW t, t \in SessionWith({t.round}), SameTable(t, s),
           t.phase # "invited" \/ s.phase = "invited"
    PROVE  TableOK(t)
BY DEF TableOK, SameTable, Players

LEMMA IndexSet ==
    ASSUME NEW s, s \in SessionWith({s.round}), NEW n \in Nat
    PROVE  LET t == [s EXCEPT !.index = n]
           IN /\ t \in SessionWith({t.round}) /\ SameTable(t, s) /\ t.waiting = s.waiting
              /\ t.index = n /\ t.phase = s.phase /\ t.tallies = s.tallies
BY DEF SessionWith, SameTable

Scored(s, n, b, r, a) == [s EXCEPT !.tallies = n, !.best = b, !.round = r, !.age = a]

LEMMA RoundScored ==
    ASSUME NEW s, s \in SessionWith({s.round}), NEW n \in Nat, NEW b \in BOOLEAN, NEW r,
           NEW a \in Nat
    PROVE  LET t == Scored(s, n, b, r, a)
           IN /\ t \in SessionWith({t.round}) /\ SameTable(t, s) /\ t.waiting = s.waiting
              /\ t.tallies = n /\ t.index = s.index
BY DEF SessionWith, SameTable, Scored

(* A round begins.                                                         *)
LEMMA StartRoundOK ==
    ASSUME NEW s, TableOK(s), CountOK(s), s.phase \in {"lobby", "intermission"}
    PROVE  ResultOK(StartRound(s))
<1> DEFINE counted == [s EXCEPT !.index = @ + 1]
           round == Dealt(counted)
           dealt == [counted EXCEPT !.phase = "round", !.round = round, !.age = 0]
           hold == RoundHold(dealt)
           t == [dealt EXCEPT !.ends = hold]
<1>1. s \in SessionWith({s.round}) /\ s.index \in Nat /\ s.game \in GameTypes
    BY DEF TableOK, SessionWith
<1>2. /\ counted \in SessionWith({counted.round}) /\ SameTable(counted, s)
      /\ counted.index = s.index + 1 /\ counted.phase = s.phase /\ counted.tallies = s.tallies
      /\ counted.waiting = s.waiting
    <2>1. s.index + 1 \in Nat
        BY <1>1
    <2> QED BY <1>1, <2>1, IndexSet
<1>3. TableOK(counted)
    <2> HIDE DEF counted
    <2> QED BY <1>2, SameTableOK
<1> HIDE DEF counted
<1>4. /\ s.game = "wheel" => WheelOK(round, Players(s) \ s.waiting)
      /\ s.game = "hangman" => GallowsOK(round, Players(s) \ s.waiting)
      /\ s.game = "prompts" => WritingOK(round, Players(s) \ s.waiting)
    BY <1>2, <1>3, DealtOK DEF SameTable, Players
<1> HIDE DEF round
<1>5. /\ dealt \in SessionWith({dealt.round}) /\ SameTable(dealt, s)
      /\ dealt.index = s.index + 1 /\ dealt.phase = "round" /\ dealt.tallies = s.tallies
      /\ dealt.waiting = s.waiting /\ dealt.round = round
    BY <1>2 DEF SameTable, SessionWith, Phases
<1> HIDE DEF dealt
<1>6. hold \in Nat
    <2>1. dealt.game \in GameTypes
        BY <1>5 DEF SessionWith
    <2>2. hold \in {Of(dealt).turn, Of(dealt).pick, Of(dealt).round}
        BY DEF RoundHold
    <2> QED BY <2>1, <2>2, SettingsTypes
<1> HIDE DEF hold
<1>7. /\ t \in SessionWith({t.round}) /\ SameTable(t, s) /\ t.index = s.index + 1
      /\ t.phase = "round" /\ t.tallies = s.tallies /\ t.waiting = s.waiting /\ t.round = round
    BY <1>5, <1>6 DEF SameTable, SessionWith
<1>8. StartRound(s) = Push(t, "round", hold, FALSE)
    BY DEF StartRound, counted, round, dealt, hold
<1> HIDE DEF t
<1>9. TableOK(t)
    BY <1>7, SameTableOK
<1>10. CountOK(t)
    <2>1. Of(s).rounds \in Nat \ {0} /\ Of(t).rounds = Of(s).rounds
        BY <1>1, <1>7, SettingsTypes DEF SameTable, Of
    <2> QED BY <1>1, <1>7, <2>1 DEF CountOK
<1>11. RoundOK(t)
    BY <1>4, <1>7 DEF RoundOK, SameTable, Players
<1>12. t.game \in GameTypes /\ "round" \in GameCards
    BY <1>1, <1>7 DEF SameTable, GameCards
<1>13. /\ Push(t, "round", hold, FALSE).s = t
       /\ Push(t, "round", hold, FALSE).made \in Seq(CallType)
    BY <1>6, <1>12, PushType
<1> QED BY <1>8, <1>9, <1>10, <1>11, <1>13 DEF ResultOK, SessionInv

(* A round is over.                                                        *)
LEMMA FinishRoundOK ==
    ASSUME NEW s, TableOK(s), CountOK(s), s.phase \in {"round", "voting"}
    PROVE  ResultOK(FinishRound(s))
<1> DEFINE best == s.best \/ HasWinner(s)
           scored == [s EXCEPT !.tallies = @ + 1, !.best = best, !.round = <<>>, !.age = 0]
           pause == Of(s).intermission
           rest == [scored EXCEPT !.phase = "intermission", !.ends = pause, !.waiting = {}]
           long == IF scored.best THEN 2 * pause ELSE pause
           last == [scored EXCEPT !.phase = "final", !.ends = long]
<1>1. s \in SessionWith({s.round}) /\ s.tallies \in Nat /\ s.game \in GameTypes /\ s.index \in Nat
    BY DEF TableOK, SessionWith
<1>2. best \in BOOLEAN
    OBVIOUS
<1>3. pause \in Nat /\ Of(s).rounds \in Nat
    BY <1>1, SettingsTypes
<1>4. long \in Nat
    BY <1>3
<1>5. FinishRound(s) = IF s.index < Of(s).rounds
                       THEN Push(rest, "intermission", pause, FALSE)
                       ELSE Push(last, "final", pause, FALSE)
    BY DEF FinishRound
<1> HIDE DEF best, long, pause
<1>6. /\ scored \in SessionWith({scored.round}) /\ SameTable(scored, s)
      /\ scored.tallies = s.tallies + 1 /\ scored.index = s.index /\ scored.waiting = s.waiting
    <2> DEFINE n == s.tallies + 1
               over == <<>>
               start == 0
    <2>1. n \in Nat /\ start \in Nat
        BY <1>1
    <2>2. scored = Scored(s, n, best, over, start)
        BY DEF Scored
    <2> HIDE DEF scored, n, over, start
    <2> QED BY <1>1, <1>2, <2>1, <2>2, RoundScored DEF n
<1> HIDE DEF scored
<1>7. /\ rest \in SessionWith({rest.round}) /\ SameTable(rest, s) /\ rest.phase = "intermission"
      /\ rest.tallies = s.tallies + 1 /\ rest.index = s.index
    BY <1>3, <1>6 DEF SessionWith, SameTable, Phases
<1>8. /\ last \in SessionWith({last.round}) /\ SameTable(last, s) /\ last.phase = "final"
      /\ last.tallies = s.tallies + 1 /\ last.index = s.index
    BY <1>4, <1>6 DEF SessionWith, SameTable, Phases
<1> HIDE DEF rest, last
<1>9. /\ TableOK(rest) /\ RoundOK(rest) /\ TableOK(last) /\ RoundOK(last)
      /\ Of(rest).rounds = Of(s).rounds /\ Of(last).rounds = Of(s).rounds
      /\ rest.game \in GameTypes /\ last.game \in GameTypes
    BY <1>1, <1>7, <1>8, SameTableOK DEF RoundOK, Of, SameTable
<1>10. {"intermission", "final"} \subseteq GameCards
    BY DEF GameCards
<1>11. CASE s.index < Of(s).rounds
    <2>1. CountOK(rest)
        BY <1>1, <1>3, <1>7, <1>9, <1>11 DEF CountOK
    <2>2. /\ Push(rest, "intermission", pause, FALSE).s = rest
          /\ Push(rest, "intermission", pause, FALSE).made \in Seq(CallType)
        BY <1>3, <1>9, <1>10, PushType
    <2>3. FinishRound(s) = Push(rest, "intermission", pause, FALSE)
        BY <1>5, <1>11
    <2> QED BY <1>9, <2>1, <2>2, <2>3 DEF ResultOK, SessionInv
<1>12. CASE ~(s.index < Of(s).rounds)
    <2>1. CountOK(last)
        BY <1>1, <1>3, <1>8, <1>9, <1>12 DEF CountOK
    <2>2. /\ Push(last, "final", pause, FALSE).s = last
          /\ Push(last, "final", pause, FALSE).made \in Seq(CallType)
        BY <1>3, <1>9, <1>10, PushType
    <2>3. FinishRound(s) = Push(last, "final", pause, FALSE)
        BY <1>5, <1>12
    <2> QED BY <1>9, <2>1, <2>2, <2>3 DEF ResultOK, SessionInv
<1> QED BY <1>11, <1>12

(* Something that leaves the table alone goes on with a card.              *)
LEMMA CardOK ==
    ASSUME NEW s, SessionInv(s), NEW card \in GameCards, NEW hold \in Nat
    PROVE  ResultOK(Push(s, card, hold, FALSE))
<1>1. s.game \in GameTypes
    BY DEF SessionInv, TableOK, SessionWith
<1>2. FALSE \in BOOLEAN
    OBVIOUS
<1>3. /\ Push(s, card, hold, FALSE).s = s
      /\ Push(s, card, hold, FALSE).made \in Seq(CallType)
    BY <1>1, PushType
<1> QED BY <1>3 DEF ResultOK

Clocked(s, f, e) == [s EXCEPT !.phase = f, !.ends = e]

LEMMA ClockSet ==
    ASSUME NEW s, s \in SessionWith({s.round}), NEW f \in Phases, NEW e \in Nat
    PROVE  LET t == Clocked(s, f, e)
           IN /\ t \in SessionWith({t.round}) /\ SameTable(t, s) /\ t.waiting = s.waiting
              /\ t.phase = f /\ t.index = s.index /\ t.tallies = s.tallies /\ t.round = s.round
BY DEF SessionWith, SameTable, Clocked

(* The writing is over.                                                    *)
LEMMA StartVotingOK ==
    ASSUME NEW s, TableOK(s), CountOK(s), s.phase = "round", s.game = "prompts"
    PROVE  ResultOK(StartVoting(s))
<1> DEFINE time == Of(s).voting
           t == [s EXCEPT !.phase = "voting", !.ends = time]
<1>1. s \in SessionWith({s.round}) /\ s.game \in GameTypes
    BY DEF TableOK, SessionWith
<1>2. time \in Nat /\ "voting" \in Phases /\ "voting" \in GameCards
    BY <1>1, SettingsTypes DEF Phases, GameCards
<1>3. StartVoting(s) = IF Prompts!CanVote(s.round) THEN Push(t, "voting", time, FALSE)
                       ELSE FinishRound(s)
    BY DEF StartVoting
<1>4. ResultOK(FinishRound(s))
    BY FinishRoundOK
<1>5. /\ t \in SessionWith({t.round}) /\ SameTable(t, s)
      /\ t.phase = "voting" /\ t.index = s.index /\ t.tallies = s.tallies
    <2>1. t = Clocked(s, "voting", time)
        BY DEF Clocked
    <2> HIDE DEF t, time
    <2> QED BY <1>1, <1>2, <2>1, ClockSet
<1> HIDE DEF t
<1>6. SessionInv(t)
    <2>1. TableOK(t) /\ RoundOK(t)
        BY <1>5, SameTableOK DEF RoundOK
    <2>2. Of(t) = Of(s) /\ t.game = "prompts"
        BY <1>5 DEF Of, SameTable
    <2>3. CountOK(t)
        BY <1>5, <2>2 DEF CountOK
    <2> QED BY <2>1, <2>3 DEF SessionInv
<1> HIDE DEF time
<1>7. ResultOK(Push(t, "voting", time, FALSE))
    BY <1>2, <1>6, CardOK
<1> QED BY <1>3, <1>4, <1>7

(* A round as the players find it: what its mode says of its turns.        *)
Played(s, r) == [s EXCEPT !.round = r]

LEMMA PlayedOn ==
    ASSUME NEW s, s \in SessionWith({s.round}), NEW r
    PROVE  LET t == Played(s, r)
           IN /\ t \in SessionWith({t.round}) /\ SameTable(t, s) /\ t.waiting = s.waiting
              /\ t.phase = s.phase /\ t.index = s.index /\ t.tallies = s.tallies /\ t.round = r
              /\ t.ends = s.ends
BY DEF SessionWith, SameTable, Played

Timed(s, r, e) == [s EXCEPT !.round = r, !.ends = e]

LEMMA TurnGoesOn ==
    ASSUME NEW s, s \in SessionWith({s.round}), NEW r, NEW e \in Nat
    PROVE  LET t == Timed(s, r, e)
           IN /\ t \in SessionWith({t.round}) /\ SameTable(t, s) /\ t.waiting = s.waiting
              /\ t.phase = s.phase /\ t.index = s.index /\ t.tallies = s.tallies /\ t.round = r
BY DEF SessionWith, SameTable, Timed

(* The same night, a little later.                                         *)
LEMMA SameCountOK ==
    ASSUME NEW s, CountOK(s), NEW t, SameTable(t, s), t.phase = s.phase,
           t.index = s.index, t.tallies = s.tallies
    PROVE  CountOK(t)
<1>1. Of(t) = Of(s) /\ t.game = s.game
    BY DEF Of, SameTable
<1> QED BY <1>1 DEF CountOK

(* The turn's clock has run out.                                           *)
LEMMA TurnTimedOut ==
    ASSUME NEW s, SessionInv(s), s.phase = "round", s.game \in {"wheel", "hangman"}
    PROVE  ResultOK(Advance(s))
<1> DEFINE out == TimeoutOf(s)
           time == Of(s).turn
           t == [s EXCEPT !.round = out.round, !.ends = time]
<1>1. TableOK(s) /\ CountOK(s) /\ RoundOK(s)
    BY DEF SessionInv
<1>2. s \in SessionWith({s.round}) /\ s.game \in GameTypes
    BY <1>1 DEF TableOK, SessionWith
<1>3. time \in Nat /\ "round" \in GameCards
    BY <1>2, SettingsTypes DEF GameCards
<1>4. /\ s.game = "wheel" => WheelOK(out.round, Players(s) \ s.waiting)
      /\ s.game = "hangman" => GallowsOK(out.round, Players(s) \ s.waiting)
    <2>1. CASE s.game = "wheel"
        BY <1>1, <2>1, WheelTimeout DEF RoundOK, TimeoutOf, WheelOut
    <2>2. CASE s.game = "hangman"
        BY <1>1, <2>2, GallowsTimeout DEF RoundOK, TimeoutOf, GallowsOut
    <2> QED BY <2>1, <2>2
<1>5. Advance(s) = IF out.then = "finish" THEN FinishRound(s) ELSE Push(t, "round", time, FALSE)
    BY DEF Advance
<1>6. ResultOK(FinishRound(s))
    BY <1>1, FinishRoundOK
<1> DEFINE r == out.round
<1>7. t = Timed(s, r, time)
    BY DEF Timed
<1> HIDE DEF t, time, r
<1>8. /\ t \in SessionWith({t.round}) /\ SameTable(t, s) /\ t.waiting = s.waiting
      /\ t.phase = s.phase /\ t.index = s.index /\ t.tallies = s.tallies /\ t.round = r
    BY <1>2, <1>3, <1>7, TurnGoesOn
<1>9. TableOK(t) /\ CountOK(t)
    BY <1>1, <1>8, SameTableOK, SameCountOK
<1>10. RoundOK(t)
    BY <1>4, <1>8 DEF RoundOK, SameTable, Players, r
<1>11. ResultOK(Push(t, "round", time, FALSE))
    BY <1>3, <1>9, <1>10, CardOK DEF SessionInv
<1> HIDE DEF out
<1> QED BY <1>5, <1>6, <1>11

(* The clock of a phase has run out, or its mode is done with it.  What    *)
(* the players made of the round only matters to the games with turns.     *)
LEMMA AdvanceOK ==
    ASSUME NEW s, TableOK(s), CountOK(s), s.game \in {"wheel", "hangman"} => RoundOK(s)
    PROVE  ResultOK(Advance(s))
<1>1. s.game \in GameTypes /\ s.phase \in Phases
    BY DEF TableOK, SessionWith
<1>2. s.game \in {"scramble", "prompts", "wheel", "hangman"}
    BY <1>1, GamesAssumption
<1>3. CASE s.phase = "invited"
    BY <1>1, <1>3, CloseOK DEF Advance
<1>4. CASE s.phase = "lobby"
    <2>1. Advance(s) \in {CloseSession(s, "invite-expired"), CloseSession(s, "not-enough-players"),
                          StartRound(s)}
        BY <1>4 DEF Advance
    <2> QED BY <1>1, <1>4, <2>1, CloseOK, StartRoundOK
<1>5. CASE s.phase = "round" /\ s.game \in {"wheel", "hangman"}
    BY <1>5, TurnTimedOut DEF SessionInv
<1>6. CASE s.phase = "round" /\ s.game = "prompts"
    BY <1>6, StartVotingOK DEF Advance
<1>7. CASE s.phase = "round" /\ s.game = "scramble"
    BY <1>7, FinishRoundOK DEF Advance
<1>8. CASE s.phase = "voting"
    BY <1>8, FinishRoundOK DEF Advance
<1>9. CASE s.phase = "intermission"
    BY <1>9, StartRoundOK DEF Advance
<1>10. CASE s.phase = "final"
    BY <1>1, <1>10, CloseOK DEF Advance
<1> QED BY <1>1, <1>2, <1>3, <1>4, <1>5, <1>6, <1>7, <1>8, <1>9, <1>10 DEF Phases

(* What a mode may answer to a play or a leave in the session s.           *)
AnswerOK(out, s) ==
    /\ out.then \in {"stay", "refresh", "finish", "advance"}
    /\ s.game = "wheel" => WheelOK(out.round, Players(s) \ s.waiting)
    /\ s.game = "hangman" => GallowsOK(out.round, Players(s) \ s.waiting)
    /\ s.game = "prompts" /\ s.phase = "round" /\ out.then = "stay" =>
           WritingOK(out.round, Players(s) \ s.waiting)
    /\ s.game \notin {"wheel", "hangman"} => out.then # "refresh"

LEMMA FollowOK ==
    ASSUME NEW s, TableOK(s), CountOK(s), s.phase \in {"round", "voting"},
           NEW out, AnswerOK(out, s)
    PROVE  ResultOK(Follow(s, out))
<1> DEFINE played == [s EXCEPT !.round = out.round]
           time == Of(s).turn
           t == [played EXCEPT !.ends = time]
           r == out.round
<1>1. s \in SessionWith({s.round}) /\ s.game \in GameTypes
    BY DEF TableOK, SessionWith
<1>2. time \in Nat /\ {"round", "voting"} \subseteq GameCards
    BY <1>1, SettingsTypes DEF GameCards
<1>3. /\ out.then = "finish" => Follow(s, out) = FinishRound(played)
      /\ out.then = "advance" => Follow(s, out) = Advance(played)
      /\ out.then = "refresh" => Follow(s, out) = Push(t, s.phase, time, FALSE)
      /\ out.then = "stay" => Follow(s, out) = Result(played, <<>>)
    BY DEF Follow
<1>4. played = Played(s, r) /\ t = Timed(s, r, time)
    BY DEF Played, Timed
<1> HIDE DEF played, t, time, r
<1>5. /\ played \in SessionWith({played.round}) /\ SameTable(played, s) /\ played.waiting = s.waiting
      /\ played.phase = s.phase /\ played.index = s.index /\ played.tallies = s.tallies
      /\ played.round = r
    BY <1>1, <1>4, PlayedOn
<1>6. /\ t \in SessionWith({t.round}) /\ SameTable(t, s) /\ t.waiting = s.waiting
      /\ t.phase = s.phase /\ t.index = s.index /\ t.tallies = s.tallies /\ t.round = r
    BY <1>1, <1>2, <1>4, TurnGoesOn
<1>7. TableOK(played) /\ CountOK(played) /\ TableOK(t) /\ CountOK(t)
    BY <1>5, <1>6, SameTableOK, SameCountOK
<1>8. CASE out.then = "finish"
    BY <1>3, <1>5, <1>7, <1>8, FinishRoundOK
<1>9. CASE out.then = "advance"
    <2>1. played.game \in {"wheel", "hangman"} => RoundOK(played)
        BY <1>5 DEF RoundOK, SameTable, Players, AnswerOK, r
    <2> QED BY <1>3, <1>7, <1>9, <2>1, AdvanceOK
<1>10. CASE out.then = "refresh"
    <2>1. RoundOK(t)
        BY <1>6, <1>10 DEF RoundOK, SameTable, Players, AnswerOK, r
    <2>2. ResultOK(Push(t, s.phase, time, FALSE))
        BY <1>2, <1>7, <2>1, CardOK DEF SessionInv
    <2> QED BY <1>3, <1>10, <2>2
<1>11. CASE out.then = "stay"
    <2>1. RoundOK(played)
        BY <1>5, <1>11 DEF RoundOK, SameTable, Players, AnswerOK, r
    <2>2. ResultOK(Result(played, <<>>))
        BY <1>7, <2>1 DEF ResultOK, Result, SessionInv
    <2> QED BY <1>3, <1>11, <2>2
<1> QED BY <1>8, <1>9, <1>10, <1>11 DEF AnswerOK

(* What a mode answers to a play is what Follow may be given.              *)
LEMMA PlaysOK ==
    ASSUME NEW s, SessionInv(s), s.phase \in {"round", "voting"},
           NEW p, NEW out \in PlaysOf(s, p)
    PROVE  AnswerOK(out, s)
<1>1. s.game \in {"scramble", "prompts", "wheel", "hangman"}
    BY GamesAssumption DEF SessionInv, TableOK, SessionWith
<1>2. s.phase = "voting" => s.game = "prompts"
    BY DEF SessionInv, CountOK
<1>3. CASE s.game = "wheel"
    <2>1. WheelOK(s.round, Players(s) \ s.waiting) /\ out \in Wheel!Plays(s.round, p)
        BY <1>2, <1>3 DEF PlaysOf, SessionInv, RoundOK
    <2>2. WheelOut(out, Players(s) \ s.waiting) /\ out.then \in {"refresh", "finish"}
        BY <2>1, WheelPlays
    <2> QED BY <1>3, <2>2 DEF AnswerOK, WheelOut
<1>4. CASE s.game = "hangman"
    <2>1. GallowsOK(s.round, Players(s) \ s.waiting) /\ out \in Gallows!Plays(s.round, p)
        BY <1>2, <1>4 DEF PlaysOf, SessionInv, RoundOK
    <2>2. GallowsOut(out, Players(s) \ s.waiting) /\ out.then \in {"refresh", "finish"}
        BY <2>1, GallowsPlays
    <2> QED BY <1>4, <2>2 DEF AnswerOK, GallowsOut
<1>5. CASE s.game = "prompts"
    <2>1. p \in s.round.seated /\ out \in Prompts!Plays(s.round, p, s.phase)
        BY <1>5 DEF PlaysOf, Prompts!IsSeated
    <2>2. CASE s.phase = "round"
        <3>1. WritingOK(s.round, Players(s) \ s.waiting) /\ out \in Prompts!Answers(s.round, p)
            BY <1>5, <2>1, <2>2 DEF SessionInv, RoundOK, Prompts!Plays
        <3>2. /\ out.then \in {"advance", "stay"}
              /\ out.then = "stay" => WritingOK(out.round, Players(s) \ s.waiting)
            BY <2>1, <3>1, PromptsWritten
        <3> QED BY <1>5, <3>2 DEF AnswerOK
    <2>3. CASE s.phase = "voting"
        <3>1. out \in Prompts!Votes(s.round, p)
            BY <2>1, <2>3 DEF Prompts!Plays
        <3>2. out.then = "stay"
            BY <3>1 DEF Prompts!Votes, Prompts!Then
        <3> QED BY <1>5, <2>3, <3>2 DEF AnswerOK
    <2> QED BY <2>2, <2>3
<1>6. CASE s.game = "scramble"
    <2>1. out \in Scramble!Plays(s.round, p)
        BY <1>6 DEF PlaysOf
    <2>2. out.then = "stay"
        BY <2>1 DEF Scramble!Plays, Scramble!Then
    <2> QED BY <1>6, <2>2 DEF AnswerOK
<1> QED BY <1>1, <1>3, <1>4, <1>5, <1>6

LEMMA NoMembers ==
    ASSUME NEW S, NEW q \in Seq(S), Members(q) = {}
    PROVE  q = <<>>
BY FirstMember

Gone(s, q, W) == [s EXCEPT !.players = q, !.waiting = W]

WentAway(t, s, q, W) ==
    /\ t \in SessionWith({t.round}) /\ t.players = q /\ t.waiting = W
    /\ t.game = s.game /\ t.phase = s.phase /\ t.joined = s.joined
    /\ t.hadPlayer = s.hadPlayer /\ t.index = s.index /\ t.tallies = s.tallies
    /\ t.round = s.round

LEMMA PlayerGone ==
    ASSUME NEW s, s \in SessionWith({s.round}), NEW q \in Seq(Nat), NEW W \in SUBSET Nat
    PROVE  WentAway(Gone(s, q, W), s, q, W)
BY DEF SessionWith, Gone, WentAway

(* What is left of a session when player p has left.                       *)
Left(s, p) == [s EXCEPT !.players = Dismiss(@, p), !.waiting = @ \ {p}]

LEMMA LeftOK ==
    ASSUME NEW s, TableOK(s), CountOK(s), NEW p
    PROVE  LET t == Left(s, p)
           IN /\ TableOK(t) /\ CountOK(t)
              /\ t.game = s.game /\ t.phase = s.phase /\ t.round = s.round
              /\ Players(t) = Players(s) \ {p} /\ t.waiting = s.waiting \ {p}
<1> DEFINE q == Dismiss(s.players, p)
           W == s.waiting \ {p}
           t == Left(s, p)
<1>1. s \in SessionWith({s.round}) /\ s.players \in Seq(Nat) /\ s.waiting \in SUBSET Nat
    BY DEF TableOK, SessionWith
<1>2. q \in Seq(Nat) /\ Members(q) = Players(s) \ {p} /\ Distinct(q)
    BY <1>1, DismissProperties DEF TableOK, Players
<1>3. W \in SUBSET Nat
    BY <1>1
<1>4. t = Gone(s, q, W)
    BY DEF Left, Gone
<1> HIDE DEF q, t
<1> HIDE DEF W
<1>5. /\ t \in SessionWith({t.round}) /\ t.players = q /\ t.waiting = W
      /\ t.game = s.game /\ t.phase = s.phase /\ t.joined = s.joined
      /\ t.hadPlayer = s.hadPlayer /\ t.index = s.index /\ t.tallies = s.tallies
      /\ t.round = s.round
    <2>1. WentAway(t, s, q, W)
        BY <1>1, <1>2, <1>3, <1>4, PlayerGone
    <2> QED BY <2>1 DEF WentAway
<1>6. Players(t) = Players(s) \ {p}
    BY <1>2, <1>5 DEF Players
<1>7. t.phase = "invited" => t.players = <<>>
    <2> SUFFICES ASSUME t.phase = "invited" PROVE q = <<>>
        BY <1>5
    <2>1. s.players = <<>>
        BY <1>5 DEF TableOK
    <2>2. Members(q) = {}
        BY <1>2, <2>1 DEF Players, Members
    <2> QED BY <1>2, <2>2, NoMembers
<1>8. TableOK(t)
    BY <1>2, <1>5, <1>6, <1>7 DEF TableOK, W
<1>9. CountOK(t)
    BY <1>5 DEF CountOK, Of
<1> QED BY <1>5, <1>6, <1>8, <1>9 DEF t, W

(* What a mode answers to a leave.                                         *)
LEMMA LeavingOK ==
    ASSUME NEW s, SessionInv(s), s.phase = "round", NEW p
    PROVE  AnswerOK(LeavingOf(Left(s, p), p), Left(s, p))
<1> DEFINE t == Left(s, p)
           out == LeavingOf(t, p)
           T == Players(s) \ s.waiting
<1>1. /\ t.game = s.game /\ t.phase = s.phase /\ t.round = s.round
      /\ Players(t) = Players(s) \ {p} /\ t.waiting = s.waiting \ {p}
    BY LeftOK DEF SessionInv
<1>2. s.game \in {"scramble", "prompts", "wheel", "hangman"}
    BY GamesAssumption DEF SessionInv, TableOK, SessionWith
<1>3. Players(t) \ t.waiting = T \ {p}
    BY <1>1
<1>4. Nobody \notin T
    BY DEF SessionInv, TableOK, Nobody
<1> SUFFICES AnswerOK(out, t)
    OBVIOUS
<1> HIDE DEF t
<1>5. CASE s.game = "wheel"
    <2>1. WheelOK(s.round, T)
        BY <1>5 DEF SessionInv, RoundOK
    <2>2. out = Wheel!Leave(s.round, p)
        BY <1>1, <1>5 DEF LeavingOf
    <2> HIDE DEF out
    <2>3. WheelOut(out, T \ {p}) /\ out.then \in {"stay", "refresh"}
        BY <2>1, <2>2, WheelLeave
    <2> QED BY <1>1, <1>3, <1>5, <2>3 DEF AnswerOK, WheelOut
<1>6. CASE s.game = "hangman"
    <2>1. GallowsOK(s.round, T)
        BY <1>6 DEF SessionInv, RoundOK
    <2>2. out = Gallows!Leave(s.round, p)
        BY <1>1, <1>6 DEF LeavingOf
    <2> HIDE DEF out, T
    <2>3. GallowsOut(out, T \ {p}) /\ out.then \in {"stay", "refresh"}
        BY <1>4, <2>1, <2>2, GallowsLeave
    <2> QED BY <1>1, <1>3, <1>6, <2>3 DEF AnswerOK, GallowsOut
<1>7. CASE s.game = "prompts"
    <2>1. WritingOK(s.round, T)
        BY <1>7 DEF SessionInv, RoundOK
    <2>2. out = Prompts!Leave(s.round, p)
        BY <1>1, <1>7 DEF LeavingOf
    <2> HIDE DEF out, T
    <2>3. /\ out.then \in {"advance", "stay"}
          /\ out.then = "stay" => WritingOK(out.round, T \ {p})
        BY <2>1, <2>2, PromptsLeave
    <2> QED BY <1>1, <1>3, <1>7, <2>3 DEF AnswerOK
<1>8. CASE s.game = "scramble"
    <2>1. out.then = "stay"
        BY <1>1, <1>8 DEF LeavingOf, Scramble!Then
    <2> HIDE DEF out
    <2> QED BY <1>1, <1>8, <2>1 DEF AnswerOK
<1> QED BY <1>2, <1>5, <1>6, <1>7, <1>8

(* A leave, whoever it is and whenever: the last one out closes.           *)
LEMMA LeaveOK ==
    ASSUME NEW s, SessionInv(s), NEW p
    PROVE  LET t == Left(s, p)
           IN /\ ResultOK(CloseSession(t, "empty"))
              /\ s.phase = "round" => ResultOK(Follow(t, LeavingOf(t, p)))
              /\ s.phase # "round" => ResultOK(Result(t, <<>>))
<1> DEFINE t == Left(s, p)
<1>1. TableOK(t) /\ CountOK(t) /\ t.phase = s.phase
    BY LeftOK DEF SessionInv
<1>2. t.game \in GameTypes
    BY <1>1 DEF TableOK, SessionWith
<1>3. s.phase = "round" => AnswerOK(LeavingOf(t, p), t)
    BY LeavingOK
<1> HIDE DEF t
<1>4. s.phase = "round" => ResultOK(Follow(t, LeavingOf(t, p)))
    <2> DEFINE out == LeavingOf(t, p)
    <2> SUFFICES ASSUME s.phase = "round" PROVE ResultOK(Follow(t, out))
        OBVIOUS
    <2>1. AnswerOK(out, t)
        BY <1>3
    <2> HIDE DEF out
    <2> QED BY <1>1, <2>1, FollowOK
<1>5. s.phase # "round" => ResultOK(Result(t, <<>>))
    BY <1>1 DEF ResultOK, Result, SessionInv, RoundOK
<1>6. ResultOK(CloseSession(t, "empty"))
    BY <1>2, CloseOK
<1> QED BY <1>4, <1>5, <1>6 DEF t

(* The table a player was just welcomed at: an invite with a player is     *)
(* about to become a lobby.                                                *)
SeatsOK(s) ==
    /\ s \in SessionWith({s.round})
    /\ Players(s) \subseteq 1..s.joined
    /\ s.waiting \subseteq 1..s.joined
    /\ Distinct(s.players)
    /\ s.hadPlayer = (s.joined > 0)

Lobbied(s, f, e, W, x) == [s EXCEPT !.phase = f, !.ends = e, !.waiting = W, !.expires = x]

InLobby(t, s, f, e, W) ==
    /\ t \in SessionWith({t.round}) /\ t.phase = f /\ t.ends = e /\ t.waiting = W
    /\ t.game = s.game /\ t.players = s.players /\ t.joined = s.joined
    /\ t.hadPlayer = s.hadPlayer /\ t.index = s.index /\ t.tallies = s.tallies

LEMMA LobbyStarted ==
    ASSUME NEW s, s \in SessionWith({s.round}), NEW f \in Phases, NEW e \in Nat,
           NEW W \in SUBSET Nat, NEW x \in Nat
    PROVE  InLobby(Lobbied(s, f, e, W, x), s, f, e, W)
BY DEF SessionWith, Lobbied, InLobby

LEMMA RemainingNat ==
    ASSUME NEW s, s \in SessionWith({s.round})
    PROVE  Remaining(s) \in Nat
BY DEF SessionWith, Remaining, Untimed

LEMMA StartLobbyOK ==
    ASSUME NEW s, SeatsOK(s), CountOK(s), s.phase = "invited"
    PROVE  ResultOK(StartLobby(s))
<1> DEFINE f == "lobby"
           time == Of(s).lobby
           W == {}
           x == 0
           t == [s EXCEPT !.phase = "lobby", !.ends = Of(s).lobby, !.waiting = {}, !.expires = 0]
<1>1. s \in SessionWith({s.round}) /\ s.game \in GameTypes
    BY DEF SeatsOK, SessionWith
<1>2. time \in Nat /\ f \in Phases /\ f \in GameCards /\ x \in Nat /\ W \in SUBSET Nat
    BY <1>1, SettingsTypes DEF Phases, GameCards
<1>3. t = Lobbied(s, f, time, W, x)
    BY DEF Lobbied
<1>4. StartLobby(s) = Push(t, f, Remaining(t), FALSE)
    BY DEF StartLobby
<1>5. W = {} /\ f \notin {"invited", "round", "voting", "intermission", "final"}
    OBVIOUS
<1> HIDE DEF t, f, time, W, x
<1>6. /\ t \in SessionWith({t.round}) /\ t.phase = f /\ t.ends = time /\ t.waiting = W
      /\ t.game = s.game /\ t.players = s.players /\ t.joined = s.joined
      /\ t.hadPlayer = s.hadPlayer /\ t.index = s.index /\ t.tallies = s.tallies
    <2>1. InLobby(t, s, f, time, W)
        BY <1>1, <1>2, <1>3, LobbyStarted
    <2> QED BY <2>1 DEF InLobby
<1>7. TableOK(t)
    BY <1>5, <1>6 DEF SeatsOK, TableOK, Players
<1>8. CountOK(t)
    BY <1>5, <1>6 DEF CountOK, Of
<1>9. RoundOK(t)
    BY <1>5, <1>6 DEF RoundOK
<1> QED BY <1>2, <1>4, <1>6, <1>7, <1>8, <1>9, CardOK, RemainingNat DEF SessionInv

(* What join does once there is a player.                                  *)
LEMMA WelcomeOK ==
    ASSUME NEW s, SeatsOK(s), CountOK(s), RoundOK(s)
    PROVE  ResultOK(Welcome(s))
<1>1. s.phase # "invited" => SessionInv(s)
    BY DEF SeatsOK, TableOK, SessionInv
<1>2. CASE s.phase = "invited"
    BY <1>2, StartLobbyOK DEF Welcome
<1>3. CASE s.phase = "lobby"
    <2>1. Remaining(s) \in Nat /\ "lobby" \in GameCards
        BY RemainingNat DEF SeatsOK, GameCards
    <2>2. Welcome(s) = Push(s, "lobby", Remaining(s), FALSE)
        BY <1>3 DEF Welcome
    <2> QED BY <1>1, <1>3, <2>1, <2>2, CardOK
<1>4. CASE s.phase \notin {"invited", "lobby"}
    <2>1. Welcome(s) = Result(s, <<>>)
        BY <1>4 DEF Welcome
    <2>2. ResultOK(Result(s, <<>>))
        BY <1>1, <1>4 DEF Result, ResultOK
    <2> QED BY <2>1, <2>2
<1> QED BY <1>2, <1>3, <1>4

Sat(s, p, q, b, x, W) ==
    [s EXCEPT !.joined = p, !.players = q, !.hadPlayer = b, !.idle = x, !.waiting = W]

SatDown(t, s, p, q, b, W) ==
    /\ t \in SessionWith({t.round}) /\ t.joined = p /\ t.players = q
    /\ t.hadPlayer = b /\ t.waiting = W
    /\ t.game = s.game /\ t.phase = s.phase /\ t.index = s.index
    /\ t.tallies = s.tallies /\ t.round = s.round

LEMMA PlayerSat ==
    ASSUME NEW s, s \in SessionWith({s.round}), NEW p \in 0..MaxJoined, NEW q \in Seq(Nat),
           NEW b \in BOOLEAN, NEW x \in Nat, NEW W \in SUBSET Nat
    PROVE  SatDown(Sat(s, p, q, b, x, W), s, p, q, b, W)
BY DEF SessionWith, Sat, SatDown

(* Somebody new sits down; who comes during a round waits for the next.    *)
Joined(s) ==
    LET p == s.joined + 1
    IN [s EXCEPT !.joined = p, !.players = Append(@, p), !.hadPlayer = TRUE, !.idle = 0,
                 !.waiting = IF s.phase \in {"round", "voting"} THEN @ \cup {p} ELSE @]

LEMMA JoinOK ==
    ASSUME NEW s, SessionInv(s), s.joined < MaxJoined
    PROVE  ResultOK(Welcome(Joined(s)))
<1> DEFINE p == s.joined + 1
           q == Append(s.players, p)
           W == IF s.phase \in {"round", "voting"} THEN s.waiting \cup {p} ELSE s.waiting
           b == TRUE
           x == 0
           t == Joined(s)
<1>1. /\ s \in SessionWith({s.round}) /\ s.players \in Seq(Nat) /\ s.waiting \in SUBSET Nat
      /\ s.joined \in 0..MaxJoined /\ MaxJoined \in Nat
    BY GamesAssumption DEF SessionInv, TableOK, SessionWith
<1>2. /\ TableOK(s) /\ CountOK(s) /\ RoundOK(s)
      /\ Players(s) \subseteq 1..s.joined /\ s.waiting \subseteq 1..s.joined /\ Distinct(s.players)
    BY DEF SessionInv, TableOK
<1>3. p \in Nat /\ p \in 0..MaxJoined /\ p > 0 /\ 1..p = (1..s.joined) \cup {p} /\ p \notin 1..s.joined
    BY <1>1
<1>4. W \in SUBSET Nat /\ b \in BOOLEAN /\ x \in Nat /\ b = TRUE
    BY <1>1, <1>3
<1>5. q \in Seq(Nat) /\ Members(q) = Players(s) \cup {p} /\ Distinct(q)
    <2>1. p \notin Members(s.players)
        BY <1>2, <1>3 DEF Players
    <2> HIDE DEF p
    <2> QED BY <1>1, <1>2, <1>3, <2>1, SeatTaken DEF Players
<1>6. t = Sat(s, p, q, b, x, W)
    BY DEF Joined, Sat
<1>7. /\ W \subseteq s.waiting \cup {p}
      /\ s.phase = "round" => W = s.waiting \cup {p}
    OBVIOUS
<1> SUFFICES ResultOK(Welcome(t))
    OBVIOUS
<1> HIDE DEF t, b, x, q, W, p
<1>8. /\ t \in SessionWith({t.round}) /\ t.joined = p /\ t.players = q
      /\ t.hadPlayer = b /\ t.waiting = W
      /\ t.game = s.game /\ t.phase = s.phase /\ t.index = s.index
      /\ t.tallies = s.tallies /\ t.round = s.round
    <2>1. p \in 0..MaxJoined
        BY <1>3
    <2>2. W \in SUBSET Nat /\ b \in BOOLEAN /\ x \in Nat
        BY <1>4
    <2>3. q \in Seq(Nat)
        BY <1>5
    <2>4. s \in SessionWith({s.round})
        BY <1>1
    <2>5. SatDown(t, s, p, q, b, W)
        BY <1>6, <2>1, <2>2, <2>3, <2>4, PlayerSat
    <2> QED BY <2>5 DEF SatDown
<1>9. Players(t) = Players(s) \cup {p}
    BY <1>5, <1>8 DEF Players
<1>10. SeatsOK(t)
    BY <1>2, <1>3, <1>4, <1>5, <1>7, <1>8, <1>9 DEF SeatsOK
<1>11. CountOK(t)
    BY <1>2, <1>8 DEF CountOK, Of
<1>12. RoundOK(t)
    <2> SUFFICES ASSUME t.phase = "round" PROVE RoundOK(t)
        BY DEF RoundOK
    <2>1. Players(t) \ t.waiting = Players(s) \ s.waiting
        BY <1>2, <1>3, <1>7, <1>8, <1>9
    <2> QED BY <1>2, <1>8, <2>1 DEF RoundOK
<1> QED BY <1>10, <1>11, <1>12, WelcomeOK

(* A session that differs in its clocks and phones only.                   *)
SameNight(t, s) ==
    /\ t \in SessionWith({t.round})
    /\ t.game = s.game /\ t.phase = s.phase /\ t.players = s.players /\ t.waiting = s.waiting
    /\ t.joined = s.joined /\ t.hadPlayer = s.hadPlayer /\ t.index = s.index
    /\ t.tallies = s.tallies /\ t.round = s.round

LEMMA SameNightOK ==
    ASSUME NEW s, SessionInv(s), NEW t, SameNight(t, s)
    PROVE  SessionInv(t)
<1>1. TableOK(t)
    BY DEF SessionInv, TableOK, SameNight, Players
<1>2. CountOK(t)
    BY DEF SessionInv, CountOK, SameNight, Of
<1>3. RoundOK(t)
    BY DEF SessionInv, RoundOK, SameNight, Players
<1> QED BY <1>1, <1>2, <1>3 DEF SessionInv

Listened(s, n, x) == [s EXCEPT !.phones = n, !.idle = x]

LEMMA PhonesSet ==
    ASSUME NEW s, s \in SessionWith({s.round}), NEW n \in 0..MaxPhones, NEW x \in Nat
    PROVE  SameNight(Listened(s, n, x), s)
BY DEF SessionWith, SameNight, Listened

Stamped(s, x) == [s EXCEPT !.idle = x]

LEMMA IdleSet ==
    ASSUME NEW s, s \in SessionWith({s.round}), NEW x \in Nat
    PROVE  SameNight(Stamped(s, x), s)
BY DEF SessionWith, SameNight, Stamped

Clocks(s, e, x, n, a) == [s EXCEPT !.ends = e, !.expires = x, !.idle = n, !.age = a]

LEMMA ClocksSet ==
    ASSUME NEW s, s \in SessionWith({s.round}), NEW e \in Nat \cup {Untimed}, NEW x \in Nat,
           NEW n \in Nat, NEW a \in Nat
    PROVE  SameNight(Clocks(s, e, x, n, a), s)
BY DEF SessionWith, SameNight, Clocks

LEMMA RejoinOK ==
    ASSUME NEW s, SessionInv(s)
    PROVE  ResultOK(Welcome([s EXCEPT !.idle = 0]))
<1> DEFINE x == 0
           t == [s EXCEPT !.idle = 0]
<1>1. t = Stamped(s, x) /\ x \in Nat
    BY DEF Stamped
<1> SUFFICES ResultOK(Welcome(t))
    OBVIOUS
<1> HIDE DEF t, x
<1>2. SameNight(t, s)
    BY <1>1, IdleSet DEF SessionInv, TableOK
<1>3. SessionInv(t)
    BY <1>2, SameNightOK
<1>4. SeatsOK(t) /\ CountOK(t) /\ RoundOK(t)
    BY <1>3 DEF SessionInv, TableOK, SeatsOK
<1> QED BY <1>4, WelcomeOK

OneMore(s) == [s EXCEPT !.phones = @ + 1, !.idle = 0]

OneLess(s) == [s EXCEPT !.phones = @ - 1, !.idle = 0]

LEMMA PhonesOK ==
    ASSUME NEW s, SessionInv(s)
    PROVE  /\ s.phones < MaxPhones => SessionInv(OneMore(s))
           /\ s.phones > 0 => SessionInv(OneLess(s))
<1> DEFINE x == 0
<1>1. s \in SessionWith({s.round}) /\ s.phones \in 0..MaxPhones /\ MaxPhones \in Nat /\ x \in Nat
    BY GamesAssumption DEF SessionInv, TableOK, SessionWith
<1>2. ASSUME NEW n \in 0..MaxPhones PROVE SessionInv(Listened(s, n, x))
    <2> HIDE DEF x
    <2>1. SameNight(Listened(s, n, x), s)
        BY <1>1, PhonesSet
    <2> QED BY <2>1, SameNightOK
<1>3. ASSUME s.phones < MaxPhones PROVE SessionInv(OneMore(s))
    <2> DEFINE n == s.phones + 1
               t == OneMore(s)
    <2>1. n \in 0..MaxPhones
        BY <1>1, <1>3
    <2>2. t = Listened(s, n, x)
        BY DEF Listened, OneMore
    <2> HIDE DEF n, x
    <2>3. SessionInv(Listened(s, n, x))
        BY <1>2, <2>1
    <2> HIDE DEF t
    <2> QED BY <2>2, <2>3 DEF t
<1>4. ASSUME s.phones > 0 PROVE SessionInv(OneLess(s))
    <2> DEFINE n == s.phones - 1
               t == OneLess(s)
    <2>1. n \in 0..MaxPhones
        BY <1>1, <1>4
    <2>2. t = Listened(s, n, x)
        BY DEF Listened, OneLess
    <2> HIDE DEF n, x
    <2>3. SessionInv(Listened(s, n, x))
        BY <1>2, <2>1
    <2> HIDE DEF t
    <2> QED BY <2>2, <2>3 DEF t
<1> QED BY <1>3, <1>4

LEMMA AgedOK ==
    ASSUME NEW s, SessionInv(s), s # NoSession
    PROVE  SessionInv(Aged(s))
<1> DEFINE e == Down(s.ends)
           x == Down(s.expires)
           n == IF s.phones > 0 THEN 0 ELSE Up(s.idle, Of(s).idle)
           a == IF s.phase = "round" THEN Up(s.age, Of(s).round) ELSE s.age
           t == Aged(s)
<1>1. /\ s \in SessionWith({s.round}) /\ s.ends \in Nat \cup {Untimed} /\ s.expires \in Nat
      /\ s.idle \in Nat /\ s.age \in Nat /\ s.game \in GameTypes
    BY DEF SessionInv, TableOK, SessionWith
<1>2. Of(s).idle \in Nat /\ Of(s).round \in Nat
    BY <1>1, SettingsTypes
<1>3. e \in Nat \cup {Untimed} /\ x \in Nat /\ n \in Nat /\ a \in Nat
    BY <1>1, <1>2 DEF Down, Up, Untimed
<1>4. t = Clocks(s, e, x, n, a)
    BY DEF Aged, Clocks
<1> HIDE DEF e, x, n, a, t
<1>5. SameNight(t, s)
    BY <1>1, <1>3, <1>4, ClocksSet
<1> QED BY <1>5, SameNightOK DEF t

LEMMA FreshOK ==
    ASSUME NEW g \in GameTypes
    PROVE  SessionInv(Fresh(g))
<1> DEFINE t == Fresh(g)
           W == {}
           q == <<>>
<1>1. Settings[g].invite \in Nat /\ MaxJoined \in Nat /\ MaxPhones \in Nat
      /\ Settings[g].rounds \in Nat
    BY GamesAssumption DEF SettingsType
<1>2. t \in SessionWith({t.round})
    <2> DEFINE invite == Settings[g].invite
    <2>1. /\ "invited" \in Phases /\ Untimed \in Nat \cup {Untimed} /\ FALSE \in BOOLEAN
          /\ <<>> \in Seq(Nat) /\ {} \in SUBSET Nat /\ 0 \in 0..MaxJoined /\ 0 \in 0..MaxPhones
          /\ 0 \in Nat /\ invite \in Nat
        BY <1>1 DEF Phases
    <2> HIDE DEF invite
    <2> QED BY <2>1 DEF Fresh, SessionWith, invite
<1>3. /\ t.game = g /\ t.phase = "invited" /\ t.players = <<>> /\ t.waiting = {} /\ t.joined = 0
      /\ t.hadPlayer = FALSE /\ t.index = 0 /\ t.tallies = 0
    BY DEF Fresh
<1> HIDE DEF t
<1>4. TableOK(t)
    <2>0. DOMAIN t.players = {}
        BY <1>3
    <2>1. Players(t) = {} /\ Distinct(t.players)
        <3>1. Players(t) = {}
            BY <2>0 DEF Players, Members
        <3>2. Distinct(t.players)
            BY <2>0 DEF Distinct
        <3> QED BY <3>1, <3>2
    <2>2. t.hadPlayer = (t.joined > 0)
        <3>1. (t.joined > 0) = FALSE
            BY <1>3
        <3>2. t.hadPlayer = FALSE
            BY <1>3
        <3> HIDE DEF t
        <3> QED BY <3>1, <3>2
    <2>3. Players(t) \subseteq 1..t.joined /\ t.waiting \subseteq 1..t.joined
        BY <1>3, <2>1
    <2> QED BY <1>2, <1>3, <2>1, <2>2, <2>3 DEF TableOK
<1>5. CountOK(t)
    BY <1>1, <1>3 DEF CountOK, Of
<1> QED BY <1>3, <1>4, <1>5 DEF SessionInv, RoundOK, t

-----------------------------------------------------------------------------
(* The handlers.                                                           *)

LEMMA BecomesOK ==
    ASSUME GamesInv, NEW res, ResultOK(res), Becomes(res), housed' = housed
    PROVE  GamesInv'
<1>1. session' = res.s /\ calls' = IF housed THEN res.made ELSE <<>>
    BY DEF Becomes
<1>2. calls' \in Seq(CallType)
    BY <1>1 DEF ResultOK
<1>3. session' = NoSession \/ SessionInv(session')
    BY <1>1 DEF ResultOK
<1> QED BY <1>2, <1>3 DEF GamesInv, Open

LEMMA OpenGame ==
    ASSUME GamesInv, Open
    PROVE  SessionInv(session) /\ session # NoSession /\ session.game \in GameTypes
BY DEF GamesInv, Open, SessionInv, TableOK, SessionWith

(* create ends what there is first.                                        *)
LEMMA CreateKeeps ==
    ASSUME GamesInv, NEW g \in GameTypes, Create(g)
    PROVE  GamesInv'
<1> DEFINE ended == IF Open THEN CloseSession(session, "preempted").made ELSE <<>>
           lobby == Settings[g].lobby
           card == "invite"
           invited == Push(Fresh(g), "invite", Settings[g].lobby, TRUE)
           res == Result(invited.s, ended \o invited.made)
<1>1. Becomes(res) /\ housed' = housed
    BY DEF Create
<1>2. ended \in Seq(CallType)
    BY OpenGame, CloseOK DEF ResultOK
<1>3. SessionInv(Fresh(g)) /\ Fresh(g).game \in GameTypes
    BY FreshOK DEF Fresh
<1>4. lobby \in Nat /\ card \in GameCards
    BY GamesAssumption DEF SettingsType, GameCards
<1>5. invited.s = Fresh(g) /\ invited.made \in Seq(CallType)
    <2>1. invited = Push(Fresh(g), card, lobby, TRUE)
        OBVIOUS
    <2> HIDE DEF invited, card, lobby
    <2> QED BY <1>3, <1>4, <2>1, PushType
<1> HIDE DEF ended, invited
<1>6. ResultOK(res)
    BY <1>2, <1>3, <1>5 DEF ResultOK, Result
<1> HIDE DEF res
<1> QED BY <1>1, <1>6, BecomesOK

LEMMA JoinKeeps ==
    ASSUME GamesInv, Join
    PROVE  GamesInv'
<1> DEFINE res == Welcome(Joined(session))
<1>1. Open /\ session.joined < MaxJoined /\ Becomes(res) /\ housed' = housed
    BY DEF Join, Joined
<1>2. ResultOK(res)
    BY <1>1, OpenGame, JoinOK
<1> HIDE DEF res
<1> QED BY <1>1, <1>2, BecomesOK

LEMMA RejoinKeeps ==
    ASSUME GamesInv, NEW p, Rejoin(p)
    PROVE  GamesInv'
<1> DEFINE res == Welcome([session EXCEPT !.idle = 0])
<1>1. Open /\ Becomes(res) /\ housed' = housed
    BY DEF Rejoin
<1>2. ResultOK(res)
    BY <1>1, OpenGame, RejoinOK
<1> HIDE DEF res
<1> QED BY <1>1, <1>2, BecomesOK

LEMMA PlayKeeps ==
    ASSUME GamesInv, NEW p, Play(p)
    PROVE  GamesInv'
<1>1. Open /\ session.phase \in {"round", "voting"} /\ housed' = housed
    BY DEF Play
<1>2. PICK out \in PlaysOf(session, p) : Becomes(Follow(session, out))
    BY DEF Play
<1>3. SessionInv(session)
    BY <1>1, OpenGame
<1>4. AnswerOK(out, session)
    BY <1>1, <1>3, PlaysOK
<1>5. ResultOK(Follow(session, out))
    BY <1>1, <1>3, <1>4, FollowOK DEF SessionInv
<1> QED BY <1>1, <1>2, <1>5, BecomesOK

LEMMA LeaveKeeps ==
    ASSUME GamesInv, NEW p, Leave(p)
    PROVE  GamesInv'
<1> DEFINE left == Left(session, p)
           res == IF left.players = <<>> THEN CloseSession(left, "empty")
                  ELSE IF session.phase = "round" THEN Follow(left, LeavingOf(left, p))
                  ELSE Result(left, <<>>)
<1>1. Open /\ Becomes(res) /\ housed' = housed
    BY DEF Leave, Left
<1>2. SessionInv(session)
    BY <1>1, OpenGame
<1>3. /\ ResultOK(CloseSession(left, "empty"))
      /\ session.phase = "round" => ResultOK(Follow(left, LeavingOf(left, p)))
      /\ session.phase # "round" => ResultOK(Result(left, <<>>))
    BY <1>2, LeaveOK
<1> HIDE DEF left
<1>4. ResultOK(res)
    BY <1>3
<1> HIDE DEF res
<1> QED BY <1>1, <1>4, BecomesOK

LEMMA PhonesKeep ==
    ASSUME GamesInv, Subscribe \/ Unsubscribe
    PROVE  GamesInv'
<1>1. Open /\ UNCHANGED <<calls, housed>>
    BY DEF Subscribe, Unsubscribe
<1>2. SessionInv(session)
    BY <1>1, OpenGame
<1>3. SessionInv(session')
    <2>1. CASE Subscribe
        <3>1. session.phones < MaxPhones /\ session' = OneMore(session)
            BY <2>1 DEF Subscribe, OneMore
        <3> QED BY <1>2, <3>1, PhonesOK
    <2>2. CASE Unsubscribe
        <3>1. session.phones > 0 /\ session' = OneLess(session)
            BY <2>2 DEF Unsubscribe, OneLess
        <3> QED BY <1>2, <3>1, PhonesOK
    <2> QED BY <2>1, <2>2
<1> QED BY <1>1, <1>3 DEF GamesInv, Open

LEMMA EndKeeps ==
    ASSUME GamesInv, End
    PROVE  GamesInv'
<1>1. Open /\ Becomes(CloseSession(session, "ended")) /\ housed' = housed
    BY DEF End
<1>2. ResultOK(CloseSession(session, "ended"))
    BY <1>1, OpenGame, CloseOK
<1> QED BY <1>1, <1>2, BecomesOK

LEMMA TickKeeps ==
    ASSUME GamesInv, GamesTick
    PROVE  GamesInv'
<1>1. Open /\ housed' = housed
    BY DEF GamesTick, InviteExpires, IdleEnds, PhaseEnds
<1>2. SessionInv(session) /\ session.game \in GameTypes
    BY <1>1, OpenGame
<1>3. PICK res \in {CloseSession(session, "invite-expired"), CloseSession(session, "idle"),
                    Advance(session)} : Becomes(res)
    BY DEF GamesTick, InviteExpires, IdleEnds, PhaseEnds
<1>4. ResultOK(Advance(session))
    BY <1>2, AdvanceOK DEF SessionInv
<1>5. ResultOK(res)
    BY <1>2, <1>3, <1>4, CloseOK
<1> QED BY <1>1, <1>3, <1>5, BecomesOK

LEMMA TimeKeeps ==
    ASSUME GamesInv, GamesTimePasses
    PROVE  GamesInv'
<1>1. session' = Aged(session) /\ UNCHANGED <<calls, housed>>
    BY DEF GamesTimePasses
<1>2. CASE Open
    BY <1>1, <1>2, OpenGame, AgedOK DEF GamesInv
<1>3. CASE ~Open
    BY <1>1, <1>3 DEF GamesInv, Aged, Open
<1> QED BY <1>2, <1>3

(* A session is told that its game has the board no more, and a restart.   *)
Told == Open /\ session' = NoSession /\ calls' = Preempted.made /\ housed' = housed

LEMMA ToldKeeps ==
    ASSUME GamesInv, Told
    PROVE  GamesInv'
<1>1. Preempted.made \in Seq(CallType)
    BY OpenGame, CloseOK DEF Told, Preempted, ResultOK
<1> QED BY <1>1 DEF Told, GamesInv, Open

LEMMA RestartKeeps ==
    ASSUME GamesInv, HouseRestart
    PROVE  GamesInv'
BY DEF HouseRestart, GamesInv, Open

(* A call of a handler is carried out.                                     *)
LEMMA CarryKeeps ==
    ASSUME GamesInv, Carry
    PROVE  GamesInv'
<1>1. calls # <<>> /\ calls' = Tail(calls) /\ session' = session /\ housed' = housed
    BY DEF Carry, Settled
<1>2. calls' \in Seq(CallType)
    BY <1>1 DEF GamesInv
<1> QED BY <1>1, <1>2 DEF GamesInv, Open

(* Everything else the queue of the house does concerns a session in one   *)
(* way only: its game has the board, and is told that it has it no more.   *)
LEMMA QueueHeard ==
    ASSUME \/ \E c \in Cards : HouseSubmit(c)
           \/ \E skip \in BOOLEAN : HouseTick(skip)
           \/ HouseAnswer \/ HouseReleaseHolds \/ HouseSkip \/ HouseLockExpires
    PROVE  Told \/ games' = games
<1>0. SUFFICES ASSUME NEW displaced, displaced => Open, Hears(displaced)
               PROVE  Told \/ games' = games
    <2>1. CASE \E c \in Cards : HouseSubmit(c)
        <3>1. PICK c \in Cards : HouseSubmit(c)
            BY <2>1
        <3>2. Hears(DisplacesGame(c))
            BY <3>1 DEF HouseSubmit
        <3>3. DisplacesGame(c) => Open
            BY DEF DisplacesGame, GameHas
        <3> QED BY <1>0, <3>2, <3>3
    <2>2. CASE \E skip \in BOOLEAN : HouseTick(skip)
        <3>1. PICK skip \in BOOLEAN : HouseTick(skip)
            BY <2>2
        <3>2. CASE HouseRestore(skip)
            <4> DEFINE displaced == DisplacesGame(RestoredCard(lastSnapshot))
            <4>1. Hears(displaced)
                BY <3>2 DEF HouseRestore
            <4>2. displaced => Open
                BY DEF DisplacesGame, GameHas
            <4> HIDE DEF displaced
            <4> QED BY <1>0, <4>1, <4>2
        <3>3. CASE UNCHANGED games
            BY <3>3
        <3> QED BY <3>1, <3>2, <3>3 DEF HouseTick
    <2>3. CASE HouseAnswer \/ HouseLockExpires
        BY <2>3 DEF HouseAnswer, HouseLockExpires
    <2>4. CASE HouseReleaseHolds
        <3>1. Hears(GameHas(laneLock))
            BY <2>4 DEF HouseReleaseHolds
        <3>2. GameHas(laneLock) => Open
            BY DEF GameHas
        <3> QED BY <1>0, <3>1, <3>2
    <2>5. CASE HouseSkip
        <3> DEFINE next == IF items' = <<>> THEN None ELSE items'[1].meta.source
                   stays == items' # <<>> /\ Lane(items'[1].face) = "game"
                            /\ GameHas([source |-> next])
                   shows == lastSnapshot # None /\ items' # <<>>
                            /\ lastSnapshot.card.source # next
                   displaced == IF laneLock # None THEN GameHas(laneLock) /\ ~stays
                                ELSE shows /\ GameHas(lastSnapshot.card)
        <3>1. Hears(displaced)
            BY <2>5 DEF HouseSkip
        <3>2. displaced => Open
            BY DEF GameHas
        <3> HIDE DEF displaced
        <3> QED BY <1>0, <3>1, <3>2
    <2> QED BY <2>1, <2>2, <2>3, <2>4, <2>5
<1>1. CASE displaced
    BY <1>0, <1>1 DEF Hears, Told
<1>2. CASE ~displaced
    BY <1>0, <1>2 DEF Hears
<1> QED BY <1>1, <1>2

(* Every step of the house keeps the games in order.                       *)
LEMMA HouseKeeps ==
    ASSUME GamesInv, [HouseNext]_<<vars, games>>
    PROVE  GamesInv'
<1>1. CASE UNCHANGED <<vars, games>>
    BY <1>1 DEF games, GamesInv, Open
<1>2. CASE PeoplePlay
    BY <1>2, CreateKeeps, JoinKeeps, PhonesKeep, EndKeeps, RejoinKeeps, PlayKeeps, LeaveKeeps
       DEF PeoplePlay
<1>3. CASE TimesUp
    BY <1>3, TickKeeps DEF TimesUp
<1>4. CASE Carry
    BY <1>4, CarryKeeps
<1>5. CASE \/ \E c \in Cards : HouseSubmit(c)
           \/ \E skip \in BOOLEAN : HouseTick(skip)
           \/ HouseAnswer \/ HouseReleaseHolds \/ HouseSkip \/ HouseLockExpires
    <2>1. Told \/ games' = games
        BY <1>5, QueueHeard
    <2>2. CASE games' = games
        BY <2>2 DEF games, GamesInv, Open
    <2>3. CASE Told
        BY <2>3, ToldKeeps
    <2> QED BY <2>1, <2>2, <2>3
<1>6. CASE HouseRestart
    BY <1>6, RestartKeeps
<1>7. CASE GamesTimePasses
    BY <1>7, TimeKeeps
<1> QED BY <1>1, <1>2, <1>3, <1>4, <1>5, <1>6, <1>7 DEF HouseNext, HouseTime

LEMMA GamesStart ==
    ASSUME HouseInit
    PROVE  GamesInv
BY DEF HouseInit, GamesInit, GamesInv, Open

-----------------------------------------------------------------------------

(* Whatever the people and the house do, no player sits twice, what is     *)
(* counted is what was played, and a round is with those who can go on     *)
(* with it (games/sessions.js and its modes).                              *)
THEOREM GamesInvariant == HouseSpec => []GamesInv
<1>1. HouseInit => GamesInv
    BY GamesStart
<1>2. GamesInv /\ [HouseNext]_<<vars, games>> => GamesInv'
    BY HouseKeeps
<1> QED BY <1>1, <1>2, PTL DEF HouseSpec

LEMMA TypesFollow ==
    ASSUME GamesInv
    PROVE  GamesTypeOK
<1>1. ASSUME Open PROVE SessionOK(session)
    <2>1. SessionInv(session)
        BY <1>1 DEF GamesInv
    <2>2. Cardinality(Players(session)) = Len(session.players)
        BY <2>1, DistinctCounts DEF SessionInv, TableOK, SessionWith, Players
    <2>3. session.index \in 0..Settings[session.game].rounds
        BY <2>1, SettingsTypes DEF SessionInv, TableOK, SessionWith, CountOK, Of
    <2>4. session.phase \notin {"invited", "lobby"} => session.index > 0
        BY <2>1 DEF SessionInv, TableOK, SessionWith, CountOK, Phases
    <2>5. /\ session.game \in GameTypes /\ session.phase \in Phases
          /\ session.joined \in 0..MaxJoined /\ session.phones \in 0..MaxPhones
          /\ session.ends \in Nat \cup {Untimed} /\ session.tallies \in Nat
        BY <2>1 DEF SessionInv, TableOK, SessionWith
    <2> QED BY <2>1, <2>2, <2>3, <2>4, <2>5 DEF SessionOK, SessionInv, TableOK
<1> QED BY <1>1 DEF GamesInv, GamesTypeOK

(* A session, its table of players without doubles included, and the calls *)
(* it makes of the board are what they should be.                          *)
THEOREM GamesTypes == HouseSpec => []GamesTypeOK
BY GamesInvariant, TypesFollow, PTL

(* Every round is added to the points exactly once, whether the clock, the *)
(* last answer or a leaver ends it (finishRound).                          *)
THEOREM RoundsScoredOnce == HouseSpec => []EveryRoundScoredOnce
<1>1. GamesInv => EveryRoundScoredOnce
    BY DEF GamesInv, SessionInv, CountOK, EveryRoundScoredOnce
<1> QED BY <1>1, GamesInvariant, PTL

(* A turn never waits for somebody who left, who waits for the next round  *)
(* or who set the word (modes/wheel.js, modes/hangman.js).                 *)
THEOREM TurnsAreLive == HouseSpec => []TurnIsLive
<1>1. GamesInv => TurnIsLive
    <2> DEFINE r == session.round
               T == Players(session) \ session.waiting
    <2> SUFFICES ASSUME GamesInv, Open, session.phase = "round",
                        session.game \in {"wheel", "hangman"}, r.order # <<>>
                 PROVE  /\ \E i \in DOMAIN r.order : r.order[i] = r.turn
                        /\ r.turn \in T
                        /\ session.game = "hangman" => r.turn # r.setter
        BY DEF TurnIsLive
    <2>1. RoundOK(session)
        BY DEF GamesInv, SessionInv
    <2>2. /\ r.order \in Seq(T) /\ r.turn \in Members(r.order)
          /\ session.game = "hangman" => r.setter \notin Members(r.order)
        BY <2>1 DEF RoundOK, WheelOK, GallowsOK, TurnOK
    <2> HIDE DEF r, T
    <2>3. PICK i \in DOMAIN r.order : r.order[i] = r.turn
        BY <2>2 DEF Members
    <2>4. r.turn \in T
        BY <2>2, <2>3
    <2> QED BY <2>2, <2>3, <2>4
<1> QED BY <1>1, GamesInvariant, PTL

(* While anybody is at the table who does not wait for the next prompt,    *)
(* the writing of this one waits for such a player who has not written     *)
(* (modes/prompts.js; seats and leavers, sessions.js).                     *)
THEOREM WritingWaits == HouseSpec => []WritingWaitsForSomebody
<1>1. GamesInv => WritingWaitsForSomebody
    <2> SUFFICES ASSUME GamesInv, Open, session.phase = "round", session.game = "prompts",
                        Players(session) \ session.waiting # {}
                 PROVE  \E p \in Players(session) \ session.waiting :
                            p \notin session.round.written
        BY DEF WritingWaitsForSomebody
    <2>1. WritingOK(session.round, Players(session) \ session.waiting)
        BY DEF GamesInv, SessionInv, RoundOK
    <2> QED BY <2>1 DEF WritingOK
<1> QED BY <1>1, GamesInvariant, PTL

=============================================================================
