------------------------------- MODULE Lines -------------------------------
(***************************************************************************)
(* A waiting line as the code keeps it: an array it splices and filters.   *)
(* Positions taken out of a sequence, pages put into it, and the first     *)
(* position with some quality.                                             *)
(***************************************************************************)
EXTENDS Integers, Sequences, FiniteSets

Least(I) == CHOOSE i \in I : \A j \in I : i <= j

(* How many members of I are no greater than i, and the member with k.     *)
RankIn(I, i) == Cardinality({j \in I : j <= i})

Nth(I, k) == CHOOSE i \in I : RankIn(I, i) = k

(* What stands at the positions I of s, in the order it stands.            *)
At(s, I) == [k \in 1..Cardinality(I) |-> s[Nth(I, k)]]

(* items.splice(i, 1) for every i of I.                                    *)
Without(s, I) == At(s, (1..Len(s)) \ I)

Members(s) == {s[i] : i \in DOMAIN s}

(* Nothing stands in the line twice.                                       *)
Distinct(s) == \A i, j \in DOMAIN s : s[i] = s[j] => i = j

(* order.filter((id) => id !== p).                                         *)
Dismiss(s, p) == Without(s, {i \in DOMAIN s : s[i] = p})

(* items.splice(n, 0, ...t).                                               *)
Insert(s, n, t) == SubSeq(s, 1, n) \o t \o SubSeq(s, n + 1, Len(s))

=============================================================================
