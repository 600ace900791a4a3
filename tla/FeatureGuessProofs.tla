-------------------------- MODULE FeatureGuessProofs --------------------------
(***************************************************************************)
(* bsort_min_to_max and bsort_max_to_min sort, whatever the arrays, and    *)
(* keep the pairs: by themselves, and when DVDGetInfo ranks the title sets *)
(* with them.  And what the weighing of the ranks comes to, for every disc *)
(* with any number of title sets and titles.                               *)
(***************************************************************************)
EXTENDS FeatureGuess, FiniteSetTheorems, WellFoundedInduction, TLAPS

-----------------------------------------------------------------------------
(* The sort.                                                                *)

\* The arrays and loop variables, whatever the caller sorts.
Typed ==
  /\ order \in {"min_to_max", "max_to_min"}
  /\ size \in Nat /\ sector \in [Index -> Int] /\ DOMAIN title = Index
  /\ i \in 0..size /\ j \in 0..size

\* What SortInv says of them.
PassInv == Typed /\ PrefixSorted /\ PassedAreBefore /\ LastIsFound

(* The order of either function is a total preorder on the keys.            *)
LEMMA OrderProperties ==
  ASSUME Typed
  PROVE  /\ \A a \in Int : InOrder(a, a)
         /\ \A a, b \in Int : InOrder(a, b) \/ InOrder(b, a)
         /\ \A a, b, c \in Int : InOrder(a, b) /\ InOrder(b, c) => InOrder(a, c)
         /\ \A a, b \in Int : Exchanges(a, b) => InOrder(a, b) /\ ~InOrder(b, a)
         /\ \A a, b \in Int : ~Exchanges(a, b) => InOrder(b, a)
BY DEF Typed, InOrder, Exchanges

(* An exchange changes places i and j, and no other.                        *)
LEMMA ExchangeMeans ==
  ASSUME Typed, Exchange
  PROVE  /\ i \in Index /\ j \in Index /\ i # j
         /\ sector[i] \in Int /\ sector[j] \in Int
         /\ sector' \in [Index -> Int] /\ DOMAIN title' = Index
         /\ sector'[i] = sector[j] /\ sector'[j] = sector[i]
         /\ title'[i] = title[j] /\ title'[j] = title[i]
         /\ \A k \in Index : k # i /\ k # j => sector'[k] = sector[k] /\ title'[k] = title[k]
<1>1. i \in Index /\ j \in Index
  BY DEF Typed, Exchange, Index
<1>2. sector[i] \in Int /\ sector[j] \in Int
  BY <1>1 DEF Typed
<1>3. i # j
  BY <1>2, OrderProperties DEF Exchange
<1> QED BY <1>1, <1>2, <1>3 DEF Typed, Exchange

(* The types are kept.                                                      *)
LEMMA StepTyped ==
  ASSUME Typed, [Next]_vars
  PROVE  Typed'
<1>1. CASE Exchange
  <2>1. sector' \in [Index -> Int] /\ DOMAIN title' = Index
    BY <1>1, ExchangeMeans
  <2> QED BY <1>1, <2>1 DEF Exchange, Typed, Index
<1>2. CASE Keep
  BY <1>2 DEF Keep, Typed, Index
<1>3. CASE NextPass
  BY <1>3 DEF NextPass, Typed, Index
<1>4. CASE Returned \/ UNCHANGED vars
  BY <1>4 DEF Returned, Typed, vars, Index
<1> QED BY <1>1, <1>2, <1>3, <1>4 DEF Next

(* An exchange keeps the invariant.  With j < i the smaller of the two goes *)
(* to place j, between its neighbours there; with j > i, which happens only *)
(* in the first pass, the larger one comes to the front.                    *)
LEMMA ExchangePreserves ==
  ASSUME PassInv, Exchange
  PROVE  PassInv'
<1>1. /\ Typed /\ Typed' /\ PrefixSorted /\ PassedAreBefore /\ LastIsFound
  BY StepTyped DEF PassInv, Next
<1>2. /\ i \in Index /\ j \in Index /\ i # j
      /\ sector'[i] = sector[j] /\ sector'[j] = sector[i]
      /\ \A k \in Index : k # i /\ k # j => sector'[k] = sector[k]
  BY <1>1, ExchangeMeans
<1>3. /\ i' = i /\ j' = j + 1 /\ size' = size /\ order' = order /\ Index' = Index
      /\ size \in Nat /\ i \in Nat /\ j \in Nat /\ i < size /\ j < size
      /\ \A k \in Index : k \in Nat /\ k < size
  BY <1>1 DEF Exchange, Typed, Index
<1>4. \A a, b : InOrder(a, b)' <=> InOrder(a, b)
  BY <1>3 DEF InOrder, Exchanges
<1> DEFINE x == sector[i]
           y == sector[j]
<1>5. x \in Int /\ y \in Int /\ \A k \in Index : sector[k] \in Int
  BY <1>1, <1>2 DEF Typed
<1>6. InOrder(x, y) /\ ~InOrder(y, x)
  BY <1>1, <1>5, OrderProperties DEF Exchange
<1>7. \A a, b, c \in Int : InOrder(a, b) /\ InOrder(b, c) => InOrder(a, c)
  BY <1>1, OrderProperties
<1>8. \A k \in Index : k < j => InOrder(sector[k], x)
  BY <1>1, <1>3 DEF PassedAreBefore
<1>9. j < i \/ i = 0
  <2>1. i > 0 /\ j >= i => InOrder(y, x)
    BY <1>1, <1>2, <1>3 DEF LastIsFound, Last
  <2> QED BY <2>1, <1>6, <1>3
<1>10. PrefixSorted'
  <2> SUFFICES ASSUME NEW k \in Index, NEW l \in Index, k < l, l < i
               PROVE  InOrder(sector'[k], sector'[l])
    BY <1>3, <1>4 DEF PrefixSorted
  <2>1. k # i /\ l # i /\ InOrder(sector[k], sector[l])
    BY <1>1, <1>3 DEF PrefixSorted
  <2>2. CASE k # j /\ l # j
    BY <2>1, <2>2, <1>2
  <2>3. CASE l = j
    BY <2>1, <2>3, <1>2, <1>3, <1>8
  <2>4. CASE k = j
    <3>1. sector'[k] = x /\ sector'[l] = sector[l]
      BY <2>1, <2>4, <1>2, <1>3
    <3> QED BY <3>1, <2>1, <2>4, <1>5, <1>6, <1>7
  <2> QED BY <2>2, <2>3, <2>4
<1>11. PassedAreBefore'
  <2> SUFFICES ASSUME NEW k \in Index, k < j + 1
               PROVE  InOrder(sector'[k], sector'[i])
    BY <1>3, <1>4 DEF PassedAreBefore
  <2>1. CASE k = j
    BY <2>1, <1>2, <1>6
  <2>2. CASE k # j /\ k # i
    <3>1. k < j /\ sector'[k] = sector[k] /\ InOrder(sector[k], x)
      BY <2>2, <1>2, <1>3, <1>8
    <3> QED BY <3>1, <1>2, <1>5, <1>6, <1>7
  <2>3. CASE k = i
    BY <2>3, <1>1, <1>2, <1>5, OrderProperties
  <2> QED BY <2>1, <2>2, <2>3
<1>12. LastIsFound'
  <2>1. CASE i = 0
    BY <2>1, <1>3 DEF LastIsFound
  <2>2. CASE i > 0 /\ j = i - 1
    <3>1. \A l \in Index : InOrder(sector[l], y)
      BY <2>2, <1>1, <1>3 DEF LastIsFound, Last
    <3>2. \A l \in Index : InOrder(sector'[l], y)
      BY <3>1, <1>2
    <3>3. Last(i)'
      BY <3>2, <1>2, <1>3, <1>4 DEF Last
    <3> QED BY <3>3, <2>2, <1>3 DEF LastIsFound
  <2>3. CASE i > 0 /\ j < i - 1
    <3>1. i - 1 \in Index /\ i - 1 # i /\ i - 1 # j /\ sector'[i - 1] = sector[i - 1]
      BY <2>3, <1>2, <1>3 DEF Index
    <3>2. \A l \in Index : InOrder(sector[l], sector[i - 1])
      BY <2>3, <1>1, <1>3 DEF LastIsFound, Last
    <3>3. \A l \in Index : InOrder(sector'[l], sector[i - 1])
      BY <3>2, <1>2
    <3>4. Last(i - 1)'
      BY <3>1, <3>3, <1>3, <1>4 DEF Last
    <3> QED BY <3>4, <2>3, <1>3 DEF LastIsFound
  <2> QED BY <2>1, <2>2, <2>3, <1>3, <1>9
<1> QED BY <1>1, <1>10, <1>11, <1>12 DEF PassInv

(* Passing over an element that stays where it is keeps the invariant.      *)
LEMMA KeepPreserves ==
  ASSUME PassInv, Keep
  PROVE  PassInv'
<1>1. /\ Typed /\ Typed' /\ PrefixSorted /\ PassedAreBefore /\ LastIsFound
  BY StepTyped DEF PassInv, Next
<1>2. /\ i' = i /\ j' = j + 1 /\ size' = size /\ order' = order /\ sector' = sector
      /\ Index' = Index
      /\ size \in Nat /\ i \in Nat /\ j \in Nat /\ i < size /\ j < size
      /\ i \in Index /\ j \in Index /\ \A k \in Index : k \in Nat /\ sector[k] \in Int
  BY <1>1 DEF Keep, Typed, Index
<1>3. \A a, b : InOrder(a, b)' <=> InOrder(a, b)
  BY <1>2 DEF InOrder, Exchanges
<1>4. InOrder(sector[j], sector[i])
  BY <1>1, <1>2, OrderProperties DEF Keep
<1>5. PrefixSorted'
  BY <1>1, <1>2, <1>3 DEF PrefixSorted
<1>6. PassedAreBefore'
  <2> SUFFICES ASSUME NEW k \in Index, k < j + 1
               PROVE  InOrder(sector[k], sector[i])
    BY <1>2, <1>3 DEF PassedAreBefore
  <2>1. k = j \/ k < j
    BY <1>2
  <2> QED BY <2>1, <1>1, <1>2, <1>4 DEF PassedAreBefore
<1>7. \A k : Last(k)' <=> Last(k)
  BY <1>2, <1>3 DEF Last
<1>8. CASE i > 0 /\ j = i - 1
  <2>1. \A l \in Index : InOrder(sector[l], sector[j])
    BY <1>8, <1>1, <1>2 DEF LastIsFound, Last
  <2>2. \A l \in Index : InOrder(sector[l], sector[i])
    BY <2>1, <1>1, <1>2, <1>4, OrderProperties
  <2>3. Last(i)
    BY <2>2 DEF Last
  <2> QED BY <2>3, <1>1, <1>2, <1>5, <1>6, <1>7, <1>8 DEF PassInv, LastIsFound
<1>9. CASE i = 0 \/ j # i - 1
  <2>1. LastIsFound'
    BY <1>9, <1>1, <1>2, <1>7 DEF LastIsFound
  <2> QED BY <2>1, <1>1, <1>5, <1>6 DEF PassInv
<1> QED BY <1>2, <1>8, <1>9

(* At the end of a pass element i joins the sorted ones.                    *)
LEMMA NextPassPreserves ==
  ASSUME PassInv, NextPass
  PROVE  PassInv'
<1>1. /\ Typed /\ Typed' /\ PrefixSorted /\ PassedAreBefore /\ LastIsFound
  BY StepTyped DEF PassInv, Next
<1>2. /\ i' = i + 1 /\ j' = 0 /\ size' = size /\ order' = order /\ sector' = sector
      /\ Index' = Index
      /\ size \in Nat /\ i \in Nat /\ i < size /\ j = size
      /\ i \in Index /\ \A k \in Index : k \in Nat /\ k < size
  BY <1>1 DEF NextPass, Typed, Index
<1>3. \A a, b : InOrder(a, b)' <=> InOrder(a, b)
  BY <1>2 DEF InOrder, Exchanges
<1>4. \A k \in Index : InOrder(sector[k], sector[i])
  BY <1>1, <1>2 DEF PassedAreBefore
<1>5. PrefixSorted'
  <2> SUFFICES ASSUME NEW k \in Index, NEW l \in Index, k < l, l < i + 1
               PROVE  InOrder(sector[k], sector[l])
    BY <1>2, <1>3 DEF PrefixSorted
  <2>1. l = i \/ l < i
    BY <1>2
  <2> QED BY <2>1, <1>1, <1>4 DEF PrefixSorted
<1>6. PassedAreBefore'
  BY <1>2 DEF PassedAreBefore
<1>7. Last(i - 1)'
  <2>1. i' - 1 = i
    BY <1>2
  <2> QED BY <2>1, <1>2, <1>3, <1>4 DEF Last
<1>8. LastIsFound'
  BY <1>2, <1>7 DEF LastIsFound
<1> QED BY <1>1, <1>5, <1>6, <1>8 DEF PassInv

-----------------------------------------------------------------------------
(* The pairs.                                                               *)

(* An exchange rearranges the rearranged pairs.                             *)
LEMMA ExchangeRearranges ==
  ASSUME Typed, Exchange, Rearranged
  PROVE  Rearranged'
<1>1. /\ i \in Index /\ j \in Index /\ i # j
      /\ sector'[i] = sector[j] /\ sector'[j] = sector[i]
      /\ title'[i] = title[j] /\ title'[j] = title[i]
      /\ \A k \in Index : k # i /\ k # j => sector'[k] = sector[k] /\ title'[k] = title[k]
  BY ExchangeMeans
<1>2. Index' = Index /\ given' = given
  BY DEF Exchange, Index
<1>3. PICK p \in [Index -> Index] : IsArrangement(p)
  BY DEF Rearranged
<1>4. PICK q : q = [k \in Index |-> IF k = i THEN p[j] ELSE IF k = j THEN p[i] ELSE p[k]]
  OBVIOUS
<1>5. q \in [Index -> Index]
  BY <1>1, <1>4
<1>6. \A k, l \in Index : q[k] = q[l] => k = l
  BY <1>1, <1>3, <1>4 DEF IsArrangement
<1>7. \A k \in Index : sector'[k] = given.sector[q[k]] /\ title'[k] = given.title[q[k]]
  BY <1>1, <1>3, <1>4 DEF IsArrangement
<1>8. IsArrangement(q)'
  BY <1>2, <1>5, <1>6, <1>7 DEF IsArrangement
<1> QED BY <1>2, <1>5, <1>8 DEF Rearranged

\* What the sort has done so far.
SortsSo == PassInv /\ Rearranged

LEMMA SortStep ==
  ASSUME SortsSo, [Next]_vars
  PROVE  SortsSo'
<1>1. PassInv /\ Rearranged /\ Typed
  BY DEF SortsSo, PassInv
<1>2. CASE Returned \/ UNCHANGED vars
  <2>1. UNCHANGED vars
    BY <1>2 DEF Returned
  <2>2. PassInv'
    BY <1>1, <2>1 DEF vars, PassInv, Typed, PrefixSorted, PassedAreBefore, LastIsFound,
                      Last, InOrder, Exchanges, Index
  <2>3. Rearranged'
    BY <1>1, <2>1 DEF vars, Rearranged, IsArrangement, Index
  <2> QED BY <2>2, <2>3 DEF SortsSo
<1>3. CASE Exchange
  BY <1>1, <1>3, ExchangePreserves, ExchangeRearranges DEF SortsSo
<1>4. CASE Keep \/ NextPass
  <2>1. PassInv'
    BY <1>1, <1>4, KeepPreserves, NextPassPreserves
  <2>2. UNCHANGED <<size, given, sector, title>>
    BY <1>4 DEF Keep, NextPass
  <2>3. Rearranged'
    BY <1>1, <2>2 DEF Rearranged, IsArrangement, Index
  <2> QED BY <2>1, <2>3 DEF SortsSo
<1> QED BY <1>2, <1>3, <1>4 DEF Next

(* The arrays as they are passed are where a sort begins.                   *)
LEMMA SortStarts ==
  ASSUME order \in {"min_to_max", "max_to_min"}, size \in Nat,
         sector \in [Index -> Int], DOMAIN title = Index,
         given.sector = sector, given.title = title, i = 0, j = 0
  PROVE  SortsSo
<1>1. PassInv
  BY DEF PassInv, Typed, PrefixSorted, PassedAreBefore, LastIsFound, Index
<1>2. [k \in Index |-> k] \in [Index -> Index] /\ IsArrangement([k \in Index |-> k])
  BY DEF IsArrangement
<1> QED BY <1>1, <1>2 DEF SortsSo, Rearranged

LEMMA Types ==
  ASSUME TypeOK
  PROVE  Typed
<1>1. size \in Nat /\ Keys \subseteq Int
  BY SortAssumption DEF TypeOK
<1>2. sector \in [Index -> Keys] /\ title \in [Index -> Tags]
  BY DEF TypeOK
<1>3. sector \in [Index -> Int] /\ DOMAIN title = Index
  BY <1>1, <1>2
<1> QED BY <1>1, <1>3 DEF TypeOK, Typed

(* The values stay those of the arrays.                                     *)
LEMMA StepTypeOK ==
  ASSUME TypeOK, [Next]_vars
  PROVE  TypeOK'
<1>1. Typed
  BY Types
<1>2. CASE Exchange
  <2>1. i \in Index /\ j \in Index
    BY <1>1, <1>2, ExchangeMeans
  <2>2. /\ sector' = [sector EXCEPT ![i] = sector[j], ![j] = sector[i]]
        /\ title' = [title EXCEPT ![i] = title[j], ![j] = title[i]]
    BY <1>2 DEF Exchange
  <2>3. sector' \in [Index -> Keys] /\ title' \in [Index -> Tags]
    BY <2>1, <2>2 DEF TypeOK
  <2> QED BY <1>2, <2>3, SortAssumption DEF Exchange, TypeOK, Index
<1>3. CASE Keep
  BY <1>3, SortAssumption DEF Keep, TypeOK, Index
<1>4. CASE NextPass
  BY <1>4, SortAssumption DEF NextPass, TypeOK, Index
<1>5. CASE Returned \/ UNCHANGED vars
  BY <1>5 DEF Returned, TypeOK, vars, Index
<1> QED BY <1>2, <1>3, <1>4, <1>5 DEF Next

(* A call of either function by itself.                                     *)
LEMMA InitSorts ==
  ASSUME Init
  PROVE  TypeOK /\ SortsSo
<1>1. TypeOK
  BY SortAssumption DEF Init, TypeOK, Index
<1>2. Typed
  BY <1>1, Types
<1> QED BY <1>1, <1>2, SortStarts DEF Init, Typed

THEOREM SortInvariant == Spec => [](TypeOK /\ SortsSo)
<1>1. TypeOK /\ SortsSo /\ [Next]_vars => TypeOK' /\ SortsSo'
  BY StepTypeOK, SortStep
<1> QED BY <1>1, InitSorts, PTL DEF Spec

(* The functions only ever compare and move elements of the arrays.         *)
THEOREM SortTypeOK == Spec => []TypeOK
BY SortInvariant, PTL

(* The sort, at every moment, in terms of what the passes have done.        *)
THEOREM SortKeepsSortInv == Spec => []SortInv
<1>1. TypeOK /\ SortsSo => SortInv
  BY DEF SortsSo, PassInv, SortInv
<1> QED BY <1>1, SortInvariant, PTL

LEMMA SortsSoMeans ==
  ASSUME SortsSo
  PROVE  Sorted /\ Rearranged
BY DEF SortsSo, PassInv, Sorted, Typed, PrefixSorted, Index

(* On return sector[] is sorted, for arrays of every length and with ties.  *)
THEOREM SortSorts == Spec => []Sorted
BY SortsSoMeans, SortInvariant, PTL

(* At every moment the pairs are those that were passed, rearranged.        *)
THEOREM SortRearranges == Spec => []Rearranged
BY SortsSoMeans, SortInvariant, PTL

-----------------------------------------------------------------------------
(* The guess.                                                               *)

SizeOf(f) == IF f = "chapters" THEN titles ELSE title_sets
Original(f) == IF f = "chapters" THEN ByTitle ELSE BySet(f)

\* a is b, sorted from the largest; both are of length m.
IsRanking(a, b, m) ==
  /\ \A k, l \in 0..(m - 1) : k < l => a.sector[k] >= a.sector[l]
  /\ \E p \in [0..(m - 1) -> 0..(m - 1)] :
       /\ \A k, l \in 0..(m - 1) : p[k] = p[l] => k = l
       /\ \A k \in 0..(m - 1) : a.sector[k] = b.sector[p[k]] /\ a.title[k] = b.title[p[k]]

\* The first n measures are ranked, the others are as they were collected.
AllRanked ==
  \A k \in 1..5 :
    IF k <= n THEN IsRanking(arrays[Fields[k]], Original(Fields[k]), SizeOf(Fields[k]))
              ELSE arrays[Fields[k]] = Original(Fields[k])

Weighing == {"check", "several", "check_several", "biggest", "done"}

\* Which measures have been ranked.
Ranking ==
  /\ pc \in {"alone", "open", "failed", "rank", "sort"} \cup Weighing
  /\ n \in 0..5 /\ DOMAIN arrays = {Fields[k] : k \in 1..5}
  /\ pc \in {"alone", "open", "failed"} => n = 0
  /\ pc \in Weighing => n = 5
  /\ pc \notin {"alone", "open", "failed"} => disc \in Discs /\ AllRanked
  /\ pc = "open" => disc \in Discs
  /\ pc = "sort" =>
       /\ n < 5 /\ order = "max_to_min"
       /\ \A k \in 1..5 : k = n + 1 =>
            given = Original(Fields[k]) /\ size = SizeOf(Fields[k])

\* One film in two aspect ratios, and the version that is preferred; and the
\* title set of the title with the most chapters.
InTwoAspects ==
  /\ TwoFilms /\ AspectOf(BySize(0)) # AspectOf(BySize(1))
  /\ MostChapters(BySize(0)) = MostChapters(BySize(1))
PreferredIsFound == CheckAudioSubChannels(Preferred) = 3 /\ found_chapter(Preferred) < 3
Longest == arrays["chapters"].title[0]

\* What the candidate is, as the ranks are weighed.
Weighed ==
  /\ pc \in {"open", "rank", "sort"} => multi = 0 /\ dual = 0
  /\ pc \in Weighing =>
       /\ dual = IF InTwoAspects THEN 1 ELSE 0
       /\ multi = 0 \/ (multi = 1 /\ dual = 0)
  /\ pc = "check" => candidate = IF dual = 1 THEN Preferred ELSE BySize(0)
  /\ pc = "several" => multi = 1 /\ candidate = BySize(0)
  /\ pc = "check_several" => multi = 1 /\ candidate \in {BySize(0), Longest}
  /\ pc = "biggest" => ~(dual = 1 /\ PreferredIsFound)
  /\ pc = "done" =>
       \/ main_title_set = BySize(0) /\ ~(dual = 1 /\ PreferredIsFound)
       \/ main_title_set = Preferred /\ dual = 1 /\ PreferredIsFound
       \/ main_title_set = Longest /\ multi = 1 /\ CheckAudioSubChannels(Longest) = 3

GInv == SortsSo /\ Ranking /\ Weighed

-----------------------------------------------------------------------------
(* What the disc gives.                                                     *)

(* A set of numbers with an upper bound has a greatest one.                 *)
LEMMA Greatest ==
  ASSUME NEW S, S \subseteq Nat, S # {}, NEW b \in Nat, \A x \in S : x <= b
  PROVE  \E x \in S : \A y \in S : y <= x
<1> DEFINE Below == {ss \in Nat \X Nat : ss[1] < ss[2]}
           Left == {m \in Nat : b - m \in S}
<1>1. Left \subseteq Nat /\ Left # {}
  <2>1. PICK x \in S : TRUE
    OBVIOUS
  <2>2. b - x \in Nat /\ b - (b - x) = x
    BY <2>1
  <2>3. b - x \in Left
    BY <2>1, <2>2
  <2> QED BY <2>3
<1>2. PICK m \in Left : \A l \in Left : ~(<<l, m>> \in Below)
  <2>1. IsWellFoundedOn(Below, Nat)
    BY NatLessThanWellFounded DEF OpToRel
  <2> HIDE DEF Below, Left
  <2> QED BY <1>1, <2>1, WFMin
<1>3. m \in Nat /\ b - m \in S
  BY <1>2
<1>4. ASSUME NEW y \in S PROVE y <= b - m
  <2>1. y \in Nat /\ b - y \in Nat /\ b - (b - y) = y
    BY <1>4
  <2>2. b - y \in Left
    BY <2>1
  <2>3. ~(b - y < m)
    BY <1>2, <1>3, <2>1, <2>2
  <2> QED BY <1>3, <2>1, <2>3
<1> QED BY <1>3, <1>4

(* A finite list of numbers is bounded.                                     *)
LEMMA Bounded ==
  ASSUME NEW m \in Nat, NEW f, \A k \in 1..m : f[k] \in Nat
  PROVE  \E b \in Nat : \A k \in 1..m : f[k] <= b
<1> DEFINE T == {f[k] : k \in 1..m}
           B(l) == \E b \in Nat : \A k \in 1..l : f[k] <= b
           S == {l \in Nat : l <= m => B(l)}
<1>1. 0 \in S
  <2>1. \A k \in 1..0 : f[k] <= 0
    OBVIOUS
  <2> QED BY <2>1
<1>2. ASSUME NEW l \in Nat, l \in S PROVE l + 1 \in S
  <2> SUFFICES ASSUME l + 1 <= m PROVE B(l + 1)
    OBVIOUS
  <2>1. PICK b \in Nat : \A k \in 1..l : f[k] <= b
    BY <1>2
  <2>2. f[l + 1] \in Nat
    OBVIOUS
  <2>3. ASSUME NEW k \in 1..l + 1 PROVE f[k] <= b + f[l + 1]
    <3>1. f[k] \in Nat
      OBVIOUS
    <3>2. k \in 1..l \/ k = l + 1
      OBVIOUS
    <3> QED BY <2>1, <2>2, <3>1, <3>2
  <2> QED BY <2>2, <2>3
<1> DEFINE Below == {ss \in Nat \X Nat : ss[1] < ss[2]}
           Missing == Nat \ S
<1>3. ASSUME Missing # {} PROVE FALSE
  <2>1. PICK x \in Missing : \A y \in Missing : ~(<<y, x>> \in Below)
    <3>1. IsWellFoundedOn(Below, Nat)
      BY NatLessThanWellFounded DEF OpToRel
    <3>2. Missing \subseteq Nat
      OBVIOUS
    <3> HIDE DEF Below, Missing
    <3> QED BY <1>3, <3>1, <3>2, WFMin
  <2> HIDE DEF S
  <2>2. x \in Nat /\ x # 0
    BY <1>1, <2>1
  <2>3. x - 1 \in Nat /\ x - 1 \notin S
    <3>1. x - 1 \in Nat /\ (x - 1) + 1 = x
      BY <2>2
    <3> QED BY <1>2, <2>1, <3>1
  <2>4. <<x - 1, x>> \in Below
    BY <2>2, <2>3
  <2> QED BY <2>1, <2>3, <2>4
<1>4. m \in S
  <2> HIDE DEF S
  <2> QED BY <1>3
<1> QED BY <1>4

(* The largest number of channels is one less than nine.                    *)
LEMMA ChannelsType ==
  ASSUME NEW t, t.channels \in Seq(0..7)
  PROVE  Channels(t) \in Nat
<1> DEFINE S == {m \in 0..8 : m = 0 \/ \E k \in 1..Len(t.channels) : t.channels[k] + 1 = m}
<1>1. \A k \in 1..Len(t.channels) : t.channels[k] \in 0..7
  OBVIOUS
<1>2. S \subseteq Nat /\ 0 \in S /\ \A x \in S : x <= 8
  OBVIOUS
<1>3. PICK m \in S : \A y \in S : y <= m
  <2>1. 8 \in Nat
    OBVIOUS
  <2> HIDE DEF S
  <2> QED BY <1>2, <2>1, Greatest
<1>4. \A k \in 1..Len(t.channels) : t.channels[k] + 1 <= m
  <2> TAKE k \in 1..Len(t.channels)
  <2>1. t.channels[k] + 1 \in 0..8
    <3>1. \A c \in 0..7 : c + 1 \in 0..8
      OBVIOUS
    <3> QED BY ONLY <1>1, <3>1, k \in 1..Len(t.channels)
  <2>2. t.channels[k] + 1 \in S
    BY ONLY <2>1, k \in 1..Len(t.channels)
  <2> QED BY <1>3, <2>2
<1>5. \E x \in 0..8 :
        /\ \A k \in 1..Len(t.channels) : t.channels[k] + 1 <= x
        /\ x = 0 \/ \E k \in 1..Len(t.channels) : t.channels[k] + 1 = x
  BY <1>3, <1>4
<1>6. Channels(t) \in 0..8
  BY <1>5 DEF Channels
<1> QED BY <1>6

\* The measures of a title set.
PerSet == {"subp", "audio", "size", "channels"}

LEMMA DiscFacts ==
  ASSUME disc \in Discs
  PROVE  /\ title_sets \in Nat \ {0} /\ titles \in Nat \ {0}
         /\ \A s \in Sets : \A f \in PerSet : M(s)[f] \in Nat
         /\ \A k \in 1..titles : disc.titles[k].title_set \in Sets /\ disc.titles[k].chapters \in Nat
<1> DEFINE SetType == [size : Nat, channels : Seq(0..7), subp : Nat, aspect : 0..3]
           TitleType == [title_set : Sets, chapters : Nat]
<1>1. /\ Len(disc.sets) > 0 /\ Len(disc.titles) > 0
      /\ disc.sets \in Seq(SetType) /\ disc.titles \in Seq(TitleType)
  BY GuessAssumption DEF IsDisc, Sets, title_sets
<1>2. title_sets \in Nat \ {0} /\ titles \in Nat \ {0}
  <2> HIDE DEF SetType, TitleType
  <2>1. Len(disc.sets) \in Nat /\ Len(disc.titles) \in Nat
    BY <1>1
  <2> QED BY <1>1, <2>1 DEF title_sets, titles
<1>3. ASSUME NEW s \in Sets, NEW f \in PerSet PROVE M(s)[f] \in Nat
  <2> DEFINE t == disc.sets[s]
  <2>1. t \in SetType
    <3> HIDE DEF SetType
    <3> QED BY <1>1 DEF Sets, title_sets
  <2>2. t.size \in Nat /\ t.channels \in Seq(0..7) /\ t.subp \in Nat
    BY <2>1
  <2>3. Channels(t) \in Nat /\ Len(t.channels) \in Nat
    BY <2>2, ChannelsType
  <2> HIDE DEF t
  <2>4. Measure(t)[f] \in Nat
    BY <2>2, <2>3 DEF Measure, PerSet
  <2> QED BY <2>4 DEF M, t
<1>4. ASSUME NEW k \in 1..titles
      PROVE  disc.titles[k].title_set \in Sets /\ disc.titles[k].chapters \in Nat
  <2>1. disc.titles[k] \in TitleType
    <3> HIDE DEF TitleType
    <3> QED BY <1>1 DEF titles
  <2> QED BY <2>1
<1> QED BY <1>2, <1>3, <1>4

(* The arrays as they are collected.                                        *)
LEMMA OriginalFacts ==
  ASSUME disc \in Discs, NEW f \in PerSet \cup {"chapters"}
  PROVE  /\ SizeOf(f) \in Nat \ {0}
         /\ Original(f).sector \in [0..(SizeOf(f) - 1) -> Int]
         /\ DOMAIN Original(f).title = 0..(SizeOf(f) - 1)
<1>1. /\ title_sets \in Nat \ {0} /\ titles \in Nat \ {0}
      /\ \A s \in Sets : \A g \in PerSet : M(s)[g] \in Nat
      /\ \A k \in 1..titles : disc.titles[k].chapters \in Nat
  BY DiscFacts
<1>2. CASE f = "chapters"
  <2>1. Original(f) = ByTitle /\ SizeOf(f) = titles
    BY <1>2 DEF Original, SizeOf
  <2>2. \A k \in 0..(titles - 1) : disc.titles[k + 1].chapters \in Int
    BY <1>1
  <2> QED BY <1>1, <2>1, <2>2 DEF ByTitle
<1>3. CASE f \in PerSet
  <2>1. Original(f) = BySet(f) /\ SizeOf(f) = title_sets
    BY <1>3 DEF Original, SizeOf, PerSet
  <2>2. \A k \in 0..(title_sets - 1) : Measure(disc.sets[k + 1])[f] \in Int
    <3> TAKE k \in 0..(title_sets - 1)
    <3>1. k + 1 \in Sets
      BY <1>1 DEF Sets
    <3>2. M(k + 1)[f] \in Nat
      BY <1>1, <1>3, <3>1
    <3> QED BY <3>2 DEF M
  <2> QED BY <1>1, <2>1, <2>2 DEF BySet
<1> QED BY <1>2, <1>3


-----------------------------------------------------------------------------
(* Collecting and ranking.                                                  *)

LEMMA FieldFacts ==
  /\ {Fields[k] : k \in 1..5} = PerSet \cup {"chapters"}
  /\ \A k \in 1..5 : Fields[k] \in PerSet \cup {"chapters"}
  /\ \A k, l \in 1..5 : Fields[k] = Fields[l] => k = l
<1>1. /\ Fields[1] = "chapters" /\ Fields[2] = "subp" /\ Fields[3] = "audio"
      /\ Fields[4] = "size" /\ Fields[5] = "channels"
  BY DEF Fields
<1>2. \A k \in 1..5 : k = 1 \/ k = 2 \/ k = 3 \/ k = 4 \/ k = 5
  OBVIOUS
<1>3. 1 \in 1..5 /\ 2 \in 1..5 /\ 3 \in 1..5 /\ 4 \in 1..5 /\ 5 \in 1..5
  OBVIOUS
<1>4. \A k \in 1..5 : Fields[k] \in PerSet \cup {"chapters"}
  BY <1>1, <1>2 DEF PerSet
<1>5. \A k, l \in 1..5 : Fields[k] = Fields[l] => k = l
  BY <1>1, <1>2
<1>6. \A f \in PerSet \cup {"chapters"} : \E k \in 1..5 : Fields[k] = f
  BY <1>1, <1>3 DEF PerSet
<1> QED BY <1>4, <1>5, <1>6

(* What is collected depends on the disc alone.                             *)
LEMMA OriginalStays ==
  ASSUME disc' = disc
  PROVE  \A f : Original(f)' = Original(f) /\ SizeOf(f)' = SizeOf(f)
<1>1. title_sets' = title_sets /\ titles' = titles
  BY DEF title_sets, titles
<1> QED BY <1>1 DEF Original, SizeOf, ByTitle, BySet

LEMMA AllRankedStays ==
  ASSUME AllRanked, disc' = disc, n' = n, arrays' = arrays
  PROVE  AllRanked'
<1>1. \A f : Original(f)' = Original(f) /\ SizeOf(f)' = SizeOf(f)
  BY OriginalStays
<1> QED BY <1>1 DEF AllRanked, IsRanking

LEMMA GuessStarts ==
  ASSUME GuessInit
  PROVE  GInv
<1>1. n = 0 /\ multi = 0 /\ dual = 0 /\ DOMAIN arrays = {Fields[k] : k \in 1..5}
  BY DEF GuessInit
<1>2. CASE pc = "alone" /\ Init
  <2>1. SortsSo
    BY <1>2, InitSorts
  <2>2. Ranking
    BY <1>1, <1>2 DEF Ranking, Weighing
  <2>3. Weighed
    BY <1>2 DEF Weighed, Weighing
  <2> QED BY <2>1, <2>2, <2>3 DEF GInv
<1>3. CASE /\ pc = "open" /\ disc \in Discs
           /\ order = "max_to_min" /\ size = 0 /\ given = NoArray
           /\ sector = <<>> /\ title = <<>> /\ i = 0 /\ j = 0
  <2>1. Index = {}
    BY <1>3 DEF Index
  <2>2. sector \in [Index -> Int] /\ DOMAIN title = Index
    BY <1>3, <2>1
  <2>3. given.sector = sector /\ given.title = title
    BY <1>3 DEF NoArray
  <2>4. SortsSo
    BY <1>3, <2>2, <2>3, SortStarts
  <2>5. Ranking
    BY <1>1, <1>3 DEF Ranking, Weighing
  <2>6. Weighed
    BY <1>1, <1>3 DEF Weighed, Weighing
  <2> QED BY <2>4, <2>5, <2>6 DEF GInv
<1> QED BY <1>2, <1>3 DEF GuessInit

LEMMA OpenKeepsGInv ==
  ASSUME GInv, Open \/ OpenFails
  PROVE  GInv'
<1>1. pc = "open" /\ UNCHANGED <<vars, disc, aspect, n, guess>>
  BY DEF Open, OpenFails
<1>2. /\ n = 0 /\ multi = 0 /\ dual = 0 /\ disc \in Discs
      /\ DOMAIN arrays = {Fields[k] : k \in 1..5}
  BY <1>1 DEF GInv, Ranking, Weighed
<1>3. SortsSo'
  BY <1>1, SortStep DEF GInv
<1>4. CASE OpenFails
  <2>1. pc' = "failed" /\ arrays' = arrays
    BY <1>4 DEF OpenFails
  <2>2. Ranking' /\ Weighed'
    BY <1>1, <1>2, <2>1 DEF Ranking, Weighed, Weighing
  <2> QED BY <1>3, <2>2 DEF GInv
<1>5. CASE Open
  <2>1. /\ pc' = "rank"
        /\ arrays' = [f \in DOMAIN arrays |-> IF f = "chapters" THEN ByTitle ELSE BySet(f)]
    BY <1>5 DEF Open
  <2>2. \A k \in 1..5 : arrays'[Fields[k]] = Original(Fields[k])
    BY <1>2, <2>1 DEF Original
  <2>3. \A f : Original(f)' = Original(f)
    BY <1>1, OriginalStays
  <2>4. AllRanked'
    BY <1>1, <1>2, <2>2, <2>3 DEF AllRanked
  <2>5. Ranking'
    BY <1>1, <1>2, <2>1, <2>4 DEF Ranking, Weighing
  <2>6. Weighed'
    BY <1>1, <1>2, <2>1 DEF Weighed, Weighing, guess
  <2> QED BY <1>3, <2>5, <2>6 DEF GInv
<1> QED BY <1>4, <1>5

LEMMA CallKeepsGInv ==
  ASSUME GInv, Call
  PROVE  GInv'
<1> DEFINE f == Fields[n + 1]
<1>1. /\ pc = "rank" /\ n < 5 /\ order' = "max_to_min" /\ given' = arrays[f]
      /\ sector' = given'.sector /\ title' = given'.title
      /\ size' = SizeOf(f) /\ i' = 0 /\ j' = 0 /\ pc' = "sort"
      /\ UNCHANGED <<disc, aspect, n, arrays, guess>>
  BY DEF Call, SizeOf
<1>2. /\ n \in 0..5 /\ multi = 0 /\ dual = 0 /\ disc \in Discs /\ AllRanked
      /\ DOMAIN arrays = {Fields[k] : k \in 1..5}
  BY <1>1 DEF GInv, Ranking, Weighed
<1>3. n + 1 \in 1..5 /\ f \in PerSet \cup {"chapters"}
  BY <1>1, <1>2, FieldFacts
<1>4. arrays[f] = Original(f)
  <2>1. ~(n + 1 <= n)
    BY <1>2
  <2> QED BY <1>2, <1>3, <2>1 DEF AllRanked
<1>5. /\ SizeOf(f) \in Nat \ {0}
      /\ Original(f).sector \in [0..(SizeOf(f) - 1) -> Int]
      /\ DOMAIN Original(f).title = 0..(SizeOf(f) - 1)
  BY <1>2, <1>3, OriginalFacts
<1>6. \A g : Original(g)' = Original(g) /\ SizeOf(g)' = SizeOf(g)
  BY <1>1, OriginalStays
<1> HIDE DEF f
<1>7. SortsSo'
  <2>1. Index' = 0..(SizeOf(f) - 1)
    BY <1>1 DEF Index
  <2>2. sector' \in [Index' -> Int] /\ DOMAIN title' = Index'
    BY <1>1, <1>4, <1>5, <2>1
  <2>3. PassInv'
    BY <1>1, <1>5, <2>1, <2>2 DEF PassInv, Typed, PrefixSorted, PassedAreBefore, LastIsFound
  <2>4. Rearranged'
    <3> DEFINE Place == 0..(SizeOf(f) - 1)
               p == [k \in Place |-> k]
    <3>1. p \in [Place -> Place] /\ \A k \in Place : p[k] = k
      OBVIOUS
    <3>2. /\ \A k, l \in Place : p[k] = p[l] => k = l
          /\ \A k \in Place : sector'[k] = given'.sector[p[k]] /\ title'[k] = given'.title[p[k]]
      BY <1>1, <3>1
    <3> HIDE DEF p, Place
    <3>3. Index' = Place
      BY <2>1 DEF Place
    <3>4. \E q \in [Place -> Place] :
            /\ \A k, l \in Place : q[k] = q[l] => k = l
            /\ \A k \in Place : sector'[k] = given'.sector[q[k]] /\ title'[k] = given'.title[q[k]]
      BY <3>1, <3>2
    <3> QED BY <3>3, <3>4 DEF Rearranged, IsArrangement
  <2> QED BY <2>3, <2>4 DEF SortsSo
<1>8. AllRanked'
  BY <1>1, <1>2, AllRankedStays
<1>9. \A k \in 1..5 : k = n' + 1 =>
        given' = Original(Fields[k])' /\ size' = SizeOf(Fields[k])'
  <2> TAKE k \in 1..5
  <2>1. k = n' + 1 => Fields[k] = f
    BY <1>1 DEF f
  <2> QED BY <1>1, <1>4, <1>6, <2>1
<1>10. Ranking'
  BY <1>1, <1>2, <1>8, <1>9 DEF Ranking, Weighing
<1>11. Weighed'
  BY <1>1, <1>2 DEF Weighed, Weighing, guess
<1> QED BY <1>7, <1>10, <1>11 DEF GInv


LEMMA SortingKeepsGInv ==
  ASSUME GInv, Sorting
  PROVE  GInv'
<1>1. /\ pc \in {"sort", "alone"} /\ (Exchange \/ Keep \/ NextPass)
      /\ UNCHANGED <<disc, aspect, pc, n, arrays, guess>>
  BY DEF Sorting
<1>2. SortsSo'
  BY <1>1, SortStep DEF GInv, Next
<1>3. order' = order /\ given' = given /\ size' = size
  BY <1>1 DEF Exchange, Keep, NextPass
<1>4. Ranking'
  <2>1. \A f : Original(f)' = Original(f) /\ SizeOf(f)' = SizeOf(f)
    BY <1>1, OriginalStays
  <2>2. CASE pc = "alone"
    BY <1>1, <2>2 DEF GInv, Ranking, Weighing
  <2>3. CASE pc = "sort"
    <3>1. AllRanked'
      BY <1>1, <2>3, AllRankedStays DEF GInv, Ranking
    <3> QED BY <1>1, <1>3, <2>1, <2>3, <3>1 DEF GInv, Ranking, Weighing
  <2> QED BY <1>1, <2>2, <2>3
<1>5. Weighed'
  BY <1>1 DEF GInv, Weighed, Weighing, guess
<1> QED BY <1>2, <1>4, <1>5 DEF GInv

LEMMA RankedKeepsGInv ==
  ASSUME GInv, Ranked
  PROVE  GInv'
<1> DEFINE f == Fields[n + 1]
           Place == 0..(SizeOf(f) - 1)
<1>1. /\ pc = "sort" /\ i >= size /\ n' = n + 1 /\ pc' = "rank"
      /\ arrays' = [arrays EXCEPT ![f] = [sector |-> sector, title |-> title]]
      /\ UNCHANGED <<vars, disc, aspect, guess>>
  BY DEF Ranked
<1>2. /\ n \in 0..4 /\ multi = 0 /\ dual = 0 /\ disc \in Discs /\ AllRanked
      /\ DOMAIN arrays = {Fields[k] : k \in 1..5} /\ order = "max_to_min"
  BY <1>1 DEF GInv, Ranking, Weighed
<1>3. n + 1 \in 1..5 /\ f \in PerSet \cup {"chapters"}
  BY <1>2, FieldFacts
<1>4. given = Original(f) /\ size = SizeOf(f)
  BY <1>1, <1>3 DEF GInv, Ranking
<1>5. SortsSo' /\ PassInv /\ Rearranged
  BY <1>1, SortStep DEF GInv, SortsSo
<1>6. \A g : Original(g)' = Original(g) /\ SizeOf(g)' = SizeOf(g)
  BY <1>1, OriginalStays
<1> DEFINE a == [sector |-> sector, title |-> title]
<1>7. IsRanking(a, Original(f), SizeOf(f))
  <2>1. Index = Place
    BY <1>4 DEF Index
  <2>2. i = size /\ sector \in [Index -> Int] /\ \A k \in Index : k < size
    BY <1>1, <1>5 DEF PassInv, Typed, Index
  <2>3. \A k, l \in Place : k < l => sector[k] >= sector[l]
    <3> TAKE k, l \in Place
    <3>1. k < l => ~(sector[l] > sector[k])
      BY <1>2, <1>5, <2>1, <2>2 DEF PassInv, PrefixSorted, InOrder, Exchanges
    <3>2. sector[k] \in Int /\ sector[l] \in Int
      BY <2>1, <2>2
    <3> QED BY <3>1, <3>2
  <2>4. \E p \in [Place -> Place] :
          /\ \A k, l \in Place : p[k] = p[l] => k = l
          /\ \A k \in Place : sector[k] = Original(f).sector[p[k]] /\ title[k] = Original(f).title[p[k]]
    <3>1. PICK p \in [Index -> Index] : IsArrangement(p)
      BY <1>5 DEF Rearranged
    <3>2. /\ \A k, l \in Index : p[k] = p[l] => k = l
          /\ \A k \in Index : sector[k] = given.sector[p[k]] /\ title[k] = given.title[p[k]]
      BY <3>1 DEF IsArrangement
    <3> HIDE DEF f, Place
    <3> QED BY <1>4, <2>1, <3>1, <3>2
  <2>5. a.sector = sector /\ a.title = title
    OBVIOUS
  <2> HIDE DEF a
  <2> QED BY <2>3, <2>4, <2>5 DEF IsRanking
<1>8. arrays'[f] = a /\ \A k \in 1..5 : k # n + 1 => arrays'[Fields[k]] = arrays[Fields[k]]
  BY <1>1, <1>2, <1>3, FieldFacts
<1>9. AllRanked'
  <2> SUFFICES ASSUME NEW k \in 1..5
               PROVE  IF k <= n + 1
                      THEN IsRanking(arrays'[Fields[k]], Original(Fields[k]), SizeOf(Fields[k]))
                      ELSE arrays'[Fields[k]] = Original(Fields[k])
    <3>1. \A k \in 1..5 : IsRanking(arrays[Fields[k]], Original(Fields[k]), SizeOf(Fields[k]))'
                           <=> IsRanking(arrays'[Fields[k]], Original(Fields[k]), SizeOf(Fields[k]))
      <4> TAKE k \in 1..5
      <4>1. Original(Fields[k])' = Original(Fields[k]) /\ SizeOf(Fields[k])' = SizeOf(Fields[k])
        BY <1>6
      <4> QED BY <4>1 DEF IsRanking
    <3> QED BY <1>1, <1>6, <3>1 DEF AllRanked
  <2>1. CASE k = n + 1
    BY <1>2, <1>7, <1>8, <2>1
  <2>2. CASE k # n + 1
    <3>1. k <= n <=> k <= n + 1
      BY <1>2, <2>2
    <3> QED BY <1>2, <1>8, <2>2, <3>1 DEF AllRanked
  <2> QED BY <2>1, <2>2
<1> HIDE DEF f
<1>10. Ranking'
  <2>1. n' \in 0..5
    BY <1>1, <1>2
  <2>2. DOMAIN arrays' = DOMAIN arrays
    BY <1>1
  <2> QED BY <1>1, <1>2, <1>9, <2>1, <2>2 DEF Ranking, Weighing
<1>11. Weighed'
  BY <1>1, <1>2 DEF Weighed, Weighing, guess
<1> QED BY <1>5, <1>10, <1>11 DEF GInv

-----------------------------------------------------------------------------
(* Weighing.                                                                *)

\* What does not move any more while the ranks are weighed.
Settled == vars' = vars /\ disc' = disc /\ aspect' = aspect /\ n' = n /\ arrays' = arrays

LEMMA RanksStay ==
  ASSUME Settled
  PROVE  /\ BySize(0)' = BySize(0) /\ Longest' = Longest /\ Preferred' = Preferred
         /\ InTwoAspects' = InTwoAspects /\ PreferredIsFound' = PreferredIsFound
         /\ \A s : CheckAudioSubChannels(s)' = CheckAudioSubChannels(s)
<1>1. title_sets' = title_sets /\ titles' = titles /\ disc' = disc /\ aspect' = aspect
      /\ arrays' = arrays
  BY DEF Settled, title_sets, titles
<1>2. \A k : BySize(k)' = BySize(k)
  BY <1>1 DEF BySize
<1>3. \A s : AspectOf(s)' = AspectOf(s) /\ MostChapters(s)' = MostChapters(s)
  BY <1>1 DEF AspectOf, MostChapters
<1>4. Preferred' = Preferred /\ BySize(0)' = BySize(0) /\ BySize(1)' = BySize(1)
      /\ AspectOf(BySize(0))' = AspectOf(BySize(0)) /\ AspectOf(BySize(1))' = AspectOf(BySize(1))
      /\ MostChapters(BySize(0))' = MostChapters(BySize(0))
      /\ MostChapters(BySize(1))' = MostChapters(BySize(1))
  BY <1>1 DEF Preferred, BySize, AspectOf, MostChapters
<1>5. InTwoAspects' = InTwoAspects
  BY <1>1, <1>4 DEF InTwoAspects, TwoFilms, CheckSizeArray
<1>6. \A s : CheckAudioSubChannels(s)' = CheckAudioSubChannels(s)
  BY <1>1 DEF CheckAudioSubChannels, IsAtTop
<1>7. PreferredIsFound' = PreferredIsFound
  BY <1>1, <1>4 DEF PreferredIsFound, CheckAudioSubChannels, IsAtTop, found_chapter
<1> QED BY <1>1, <1>4, <1>5, <1>6, <1>7 DEF Longest

\* The steps that weigh keep the ranks.
LEMMA WeighingKeepsRanks ==
  ASSUME GInv, Settled, n = 5, pc \in Weighing \cup {"rank"}, pc' \in Weighing
  PROVE  SortsSo' /\ Ranking'
<1>1. SortsSo'
  BY SortStep DEF GInv, Settled
<1>2. AllRanked'
  BY AllRankedStays DEF GInv, Ranking, Settled, Weighing
<1> QED BY <1>1, <1>2 DEF GInv, Ranking, Settled, Weighing

LEMMA CompareKeepsGInv ==
  ASSUME GInv, OneFilm \/ Episodes \/ TwoAspects \/ Unrelated
  PROVE  GInv'
<1>1. /\ pc = "rank" /\ n = 5 /\ pc' = "check" /\ Settled
  BY DEF OneFilm, Episodes, TwoAspects, Unrelated, Compare, Weigh, Settled
<1>2. multi = 0 /\ dual = 0
  BY <1>1 DEF GInv, Weighed
<1>3. /\ BySize(0)' = BySize(0) /\ Preferred' = Preferred /\ InTwoAspects' = InTwoAspects
  BY <1>1, RanksStay
<1>4. SortsSo' /\ Ranking'
  BY <1>1, WeighingKeepsRanks DEF Weighing
<1>5. CASE OneFilm
  <2>1. ~InTwoAspects /\ candidate' = BySize(0) /\ multi' = 0 /\ dual' = 0
    BY <1>2, <1>5 DEF OneFilm, Weigh, InTwoAspects
  <2>2. Weighed'
    BY <1>1, <1>3, <2>1 DEF Weighed, Weighing
  <2> QED BY <1>4, <2>2 DEF GInv
<1>6. CASE Episodes
  <2>1. ~InTwoAspects /\ candidate' = BySize(0) /\ multi' = 1 /\ dual' = 0
    BY <1>2, <1>6 DEF Episodes, Weigh, InTwoAspects
  <2>2. Weighed'
    BY <1>1, <1>3, <2>1 DEF Weighed, Weighing
  <2> QED BY <1>4, <2>2 DEF GInv
<1>7. CASE TwoAspects
  <2>1. InTwoAspects /\ candidate' = Preferred /\ multi' = 0 /\ dual' = 1
    BY <1>2, <1>7 DEF TwoAspects, Weigh, InTwoAspects
  <2>2. Weighed'
    BY <1>1, <1>3, <2>1 DEF Weighed, Weighing
  <2> QED BY <1>4, <2>2 DEF GInv
<1>8. CASE Unrelated
  <2>1. ~InTwoAspects /\ candidate' = BySize(0) /\ multi' = 0 /\ dual' = 0
    BY <1>2, <1>8 DEF Unrelated, Weigh, InTwoAspects
  <2>2. Weighed'
    BY <1>1, <1>3, <2>1 DEF Weighed, Weighing
  <2> QED BY <1>4, <2>2 DEF GInv
<1> QED BY <1>5, <1>6, <1>7, <1>8

LEMMA DecideKeepsGInv ==
  ASSUME GInv, Accept \/ Doubt \/ Several \/ AcceptSeveral \/ DoubtSeveral \/ GiveUp
  PROVE  GInv'
<1>1. /\ pc \in Weighing /\ pc # "done" /\ pc' \in Weighing /\ Settled
      /\ multi' = multi /\ dual' = dual
  BY DEF Accept, Doubt, Several, AcceptSeveral, DoubtSeveral, GiveUp, Answer, Weigh, Settled,
         guess, Weighing
<1>2. n = 5
  BY <1>1 DEF GInv, Ranking
<1>3. /\ BySize(0)' = BySize(0) /\ Longest' = Longest /\ Preferred' = Preferred
      /\ InTwoAspects' = InTwoAspects /\ PreferredIsFound' = PreferredIsFound
  BY <1>1, RanksStay
<1>4. SortsSo' /\ Ranking'
  BY <1>1, <1>2, WeighingKeepsRanks
<1>5. /\ dual = IF InTwoAspects THEN 1 ELSE 0
      /\ multi = 0 \/ (multi = 1 /\ dual = 0)
  BY <1>1 DEF GInv, Weighed
<1>6. CASE Accept
  <2>1. /\ pc' = "done" /\ main_title_set' = candidate /\ IsFound
        /\ candidate = IF dual = 1 THEN Preferred ELSE BySize(0)
    BY <1>6 DEF Accept, Answer, GInv, Weighed
  <2>2. dual = 1 => PreferredIsFound
    BY <2>1, <1>5 DEF IsFound, PreferredIsFound
  <2>3. Weighed'
    BY <1>1, <1>3, <1>5, <2>1, <2>2 DEF Weighed, Weighing
  <2> QED BY <1>4, <2>3 DEF GInv
<1>7. CASE Doubt
  <2>1. /\ pc' = (IF multi = 1 THEN "several" ELSE "biggest") /\ ~IsFound
        /\ candidate' = candidate
        /\ candidate = IF dual = 1 THEN Preferred ELSE BySize(0)
    BY <1>7 DEF Doubt, GInv, Weighed, guess
  <2>2. ~(dual = 1 /\ PreferredIsFound)
    BY <2>1, <1>5 DEF IsFound, PreferredIsFound
  <2>3. Weighed'
    BY <1>1, <1>3, <1>5, <2>1, <2>2 DEF Weighed, Weighing
  <2> QED BY <1>4, <2>3 DEF GInv
<1>8. CASE Several
  <2>1. /\ pc' = "check_several" /\ candidate' \in {Longest, candidate}
        /\ multi = 1 /\ candidate = BySize(0)
    BY <1>8 DEF Several, Weigh, Longest, GInv, Weighed
  <2>2. Weighed'
    BY <1>1, <1>3, <1>5, <2>1 DEF Weighed, Weighing
  <2> QED BY <1>4, <2>2 DEF GInv
<1>9. CASE AcceptSeveral
  <2>1. /\ pc' = "done" /\ main_title_set' = candidate
        /\ CheckAudioSubChannels(candidate) = 3
        /\ multi = 1 /\ candidate \in {BySize(0), Longest}
    BY <1>9 DEF AcceptSeveral, Answer, GInv, Weighed
  <2>2. dual # 1
    BY <1>5, <2>1
  <2>3. main_title_set' = Longest => CheckAudioSubChannels(Longest)' = 3
    <3>1. CheckAudioSubChannels(Longest)' = CheckAudioSubChannels(Longest)
      BY <1>1, <1>3 DEF Settled, CheckAudioSubChannels, IsAtTop, title_sets
    <3> QED BY <2>1, <3>1
  <2>4. Weighed'
    BY <1>1, <1>3, <1>5, <2>1, <2>2, <2>3 DEF Weighed, Weighing
  <2> QED BY <1>4, <2>4 DEF GInv
<1>10. CASE DoubtSeveral
  <2>1. pc' = "biggest" /\ multi = 1
    BY <1>10 DEF DoubtSeveral, GInv, Weighed
  <2>2. Weighed'
    BY <1>1, <1>3, <1>5, <2>1 DEF Weighed, Weighing
  <2> QED BY <1>4, <2>2 DEF GInv
<1>11. CASE GiveUp
  <2>1. pc' = "done" /\ main_title_set' = BySize(0) /\ ~(dual = 1 /\ PreferredIsFound)
    BY <1>11 DEF GiveUp, Answer, GInv, Weighed
  <2>2. Weighed'
    BY <1>1, <1>3, <1>5, <2>1 DEF Weighed, Weighing
  <2> QED BY <1>4, <2>2 DEF GInv
<1> QED BY <1>6, <1>7, <1>8, <1>9, <1>10, <1>11


LEMMA GuessStutters ==
  ASSUME GInv, UNCHANGED guess_vars
  PROVE  GInv'
<1>1. /\ UNCHANGED <<pc, candidate, multi, dual, main_title_set>> /\ Settled
      /\ order' = order /\ given' = given /\ size' = size
  BY DEF guess_vars, guess, Settled, vars
<1>2. SortsSo'
  BY <1>1, SortStep DEF GInv, Settled
<1>3. Ranking'
  <2>1. \A f : Original(f)' = Original(f) /\ SizeOf(f)' = SizeOf(f)
    BY <1>1, OriginalStays DEF Settled
  <2>2. AllRanked => AllRanked'
    BY <1>1, AllRankedStays DEF Settled
  <2> QED BY <1>1, <2>1, <2>2 DEF GInv, Ranking, Settled, Weighing
<1>4. Weighed'
  <2>1. /\ BySize(0)' = BySize(0) /\ Longest' = Longest /\ Preferred' = Preferred
        /\ InTwoAspects' = InTwoAspects /\ PreferredIsFound' = PreferredIsFound
    BY <1>1, RanksStay
  <2>2. CheckAudioSubChannels(Longest)' = CheckAudioSubChannels(Longest)
    BY <1>1, <2>1 DEF Settled, CheckAudioSubChannels, IsAtTop, title_sets
  <2> QED BY <1>1, <2>1, <2>2 DEF GInv, Weighed, Weighing
<1> QED BY <1>2, <1>3, <1>4 DEF GInv

(* DVDGetInfo: which measures have been ranked, what the sort has done of   *)
(* the next, and which title set the weighing has come to.                  *)
THEOREM GuessInvariant == GuessSpec => []GInv
<1>1. GInv /\ [GuessNext]_guess_vars => GInv'
  <2> SUFFICES ASSUME GInv, [GuessNext]_guess_vars PROVE GInv'
    OBVIOUS
  <2>1. CASE UNCHANGED guess_vars
    BY <2>1, GuessStutters
  <2>2. CASE GuessNext
    <3>1. GuessReturned => UNCHANGED guess_vars
      BY DEF GuessReturned
    <3> QED BY <2>1, <2>2, <3>1, OpenKeepsGInv, CallKeepsGInv, SortingKeepsGInv, RankedKeepsGInv,
               CompareKeepsGInv, DecideKeepsGInv DEF GuessNext
  <2> QED BY <2>1, <2>2
<1> QED BY <1>1, GuessStarts, PTL DEF GuessSpec

(* The sort as DVDGetInfo calls it, for one measure after the other.        *)
THEOREM GuessSorts == GuessSpec => [](Sorted /\ Rearranged)
<1>1. GInv => Sorted /\ Rearranged
  BY SortsSoMeans DEF GInv
<1> QED BY <1>1, GuessInvariant, PTL

-----------------------------------------------------------------------------
(* What the ranks are.                                                      *)

(* A rearrangement takes every place.                                       *)
LEMMA Onto ==
  ASSUME NEW m \in Nat, NEW p \in [0..(m - 1) -> 0..(m - 1)],
         \A k, l \in 0..(m - 1) : p[k] = p[l] => k = l
  PROVE  \A x \in 0..(m - 1) : \E k \in 0..(m - 1) : p[k] = x
<1>1. p \in Injection(0..(m - 1), 0..(m - 1))
  BY DEF Injection, IsInjective
<1>2. IsFiniteSet(0..(m - 1))
  BY FS_Interval
<1>3. p \in Surjection(0..(m - 1), 0..(m - 1))
  BY <1>1, <1>2, FS_Injection
<1> QED BY <1>3 DEF Surjection

LEMMA RankedSets ==
  ASSUME Ranking, n = 5, NEW f \in PerSet
  PROVE  /\ disc \in Discs /\ title_sets \in Nat \ {0}
         /\ \A k \in 0..(title_sets - 1) :
              /\ arrays[f].title[k] \in Sets /\ arrays[f].sector[k] \in Nat
              /\ arrays[f].sector[k] = M(arrays[f].title[k])[f]
         /\ \A s \in Sets : \E k \in 0..(title_sets - 1) : arrays[f].title[k] = s
         /\ \A k, l \in 0..(title_sets - 1) : arrays[f].title[k] = arrays[f].title[l] => k = l
         /\ \A k, l \in 0..(title_sets - 1) : k < l => arrays[f].sector[k] >= arrays[f].sector[l]
<1>1. disc \in Discs /\ AllRanked
  BY DEF Ranking
<1>2. title_sets \in Nat \ {0} /\ \A s \in Sets : M(s)[f] \in Nat
  BY <1>1, DiscFacts
<1> DEFINE Place == 0..(title_sets - 1)
           a == arrays[f]
           b == BySet(f)
<1>3. IsRanking(a, b, title_sets)
  <2>1. PICK k \in 1..5 : Fields[k] = f
    BY FieldFacts
  <2>2. IsRanking(arrays[f], Original(f), SizeOf(f))
    BY <1>1, <2>1 DEF AllRanked
  <2> QED BY <2>2 DEF Original, SizeOf, PerSet
<1>4. \A x \in Place : b.sector[x] = M(x + 1)[f] /\ b.title[x] = x + 1
  BY DEF BySet, M
<1> HIDE DEF a, b
<1>5. PICK p \in [Place -> Place] :
        /\ \A k, l \in Place : p[k] = p[l] => k = l
        /\ \A k \in Place : a.sector[k] = b.sector[p[k]] /\ a.title[k] = b.title[p[k]]
  BY <1>3 DEF IsRanking
<1>6. \A k \in Place : p[k] \in Place /\ p[k] + 1 \in Sets
  BY <1>2, <1>5 DEF Sets
<1>7. \A k \in Place : a.title[k] = p[k] + 1 /\ a.sector[k] = M(p[k] + 1)[f]
  <2> TAKE k \in Place
  <2>1. /\ p[k] \in Place /\ a.sector[k] = b.sector[p[k]]
        /\ a.title[k] = b.title[p[k]]
    BY <1>5, <1>6
  <2>2. b.sector[p[k]] = M(p[k] + 1)[f] /\ b.title[p[k]] = p[k] + 1
    BY <1>4, <2>1
  <2> QED BY <2>1, <2>2
<1>8. \A k \in Place : a.title[k] \in Sets /\ a.sector[k] \in Nat /\ a.sector[k] = M(a.title[k])[f]
  BY <1>2, <1>6, <1>7
<1>9. ASSUME NEW s \in Sets PROVE \E k \in Place : a.title[k] = s
  <2>1. s - 1 \in Place /\ (s - 1) + 1 = s
    BY <1>2 DEF Sets
  <2>2. PICK k \in Place : p[k] = s - 1
    <3>1. title_sets \in Nat /\ p \in [Place -> Place] /\ \A k, l \in Place : p[k] = p[l] => k = l
      BY <1>2, <1>5
    <3>2. \A x \in Place : \E k \in Place : p[k] = x
      BY ONLY <3>1, Onto
    <3> QED BY <2>1, <3>2
  <2> QED BY <1>7, <2>1, <2>2
<1>10. \A k, l \in Place : a.title[k] = a.title[l] => k = l
  <2> TAKE k, l \in Place
  <2>1. p[k] \in Int /\ p[l] \in Int
    BY <1>2, <1>6
  <2>2. a.title[k] = p[k] + 1 /\ a.title[l] = p[l] + 1
    BY <1>7
  <2>3. a.title[k] = a.title[l] => p[k] = p[l]
    BY ONLY <2>1, <2>2
  <2> QED BY <1>5, <2>3
<1>11. \A k, l \in Place : k < l => a.sector[k] >= a.sector[l]
  BY <1>3 DEF IsRanking
<1> QED BY <1>1, <1>2, <1>8, <1>9, <1>10, <1>11 DEF a

(* The largest is at the front.                                             *)
LEMMA FrontIsBest ==
  ASSUME Ranking, n = 5, NEW f \in PerSet
  PROVE  /\ 0 \in 0..(title_sets - 1) /\ HasBest(f, arrays[f].title[0])
         /\ arrays[f].title[0] \in Sets
<1>1. 0 \in 0..(title_sets - 1)
  BY RankedSets
<1>2. ASSUME NEW t \in Sets PROVE M(t)[f] <= M(arrays[f].title[0])[f]
  <2>1. PICK k \in 0..(title_sets - 1) : arrays[f].title[k] = t
    BY RankedSets
  <2>2. /\ arrays[f].sector[k] = M(t)[f] /\ arrays[f].sector[0] = M(arrays[f].title[0])[f]
        /\ arrays[f].sector[k] \in Nat /\ arrays[f].sector[0] \in Nat
    BY <1>1, <2>1, RankedSets
  <2>3. k = 0 \/ arrays[f].sector[0] >= arrays[f].sector[k]
    BY <1>1, RankedSets
  <2> QED BY <2>2, <2>3
<1>3. arrays[f].title[0] \in Sets
  BY <1>1, RankedSets
<1> QED BY <1>1, <1>2, <1>3 DEF HasBest

(* The search from the front finds the best, and no other.                  *)
LEMMA AtTopIsBest ==
  ASSUME Ranking, n = 5, NEW f \in PerSet, NEW s \in Sets
  PROVE  IsAtTop(f, s) <=> HasBest(f, s)
<1>1. 0 \in 0..(title_sets - 1) /\ HasBest(f, arrays[f].title[0])
  BY FrontIsBest
<1>2. PICK m : m = title_sets - 1
  OBVIOUS
<1>3. /\ \A k \in 0..m : /\ arrays[f].title[k] \in Sets /\ arrays[f].sector[k] \in Nat
                         /\ arrays[f].sector[k] = M(arrays[f].title[k])[f]
      /\ \E k \in 0..m : arrays[f].title[k] = s
      /\ \A k, l \in 0..m : k < l => arrays[f].sector[k] >= arrays[f].sector[l]
      /\ m \in Nat
  <2>1. m \in Nat
    BY <1>2, RankedSets
  <2> QED BY <1>2, <2>1, RankedSets
<1>4. ASSUME IsAtTop(f, s) PROVE HasBest(f, s)
  <2>1. PICK k \in 0..m : arrays[f].title[k] = s /\ \A l \in 0..k : arrays[f].sector[l] >= arrays[f].sector[0]
    BY <1>2, <1>4 DEF IsAtTop
  <2>2. arrays[f].sector[k] >= arrays[f].sector[0] /\ k \in 0..k
    BY <1>3, <2>1
  <2>3. M(s)[f] >= M(arrays[f].title[0])[f] /\ M(s)[f] \in Nat /\ M(arrays[f].title[0])[f] \in Nat
    BY <1>1, <1>2, <1>3, <2>1, <2>2
  <2>4. ASSUME NEW t \in Sets PROVE M(t)[f] <= M(s)[f]
    <3>1. M(t)[f] <= M(arrays[f].title[0])[f]
      BY <1>1 DEF HasBest
    <3>2. M(t)[f] \in Nat
      BY DiscFacts, RankedSets
    <3> QED BY <2>3, <3>1, <3>2
  <2> QED BY <2>4 DEF HasBest
<1>5. ASSUME HasBest(f, s) PROVE IsAtTop(f, s)
  <2>1. PICK k \in 0..m : arrays[f].title[k] = s
    BY <1>3
  <2>2. M(arrays[f].title[0])[f] <= M(s)[f]
    BY <1>1, <1>2, <1>3, <1>5 DEF HasBest
  <2>3. arrays[f].sector[k] >= arrays[f].sector[0] /\ arrays[f].sector[k] \in Nat
    BY <1>1, <1>2, <1>3, <2>1, <2>2
  <2>4. ASSUME NEW l \in 0..k PROVE arrays[f].sector[l] >= arrays[f].sector[0]
    <3>1. l \in 0..m /\ (l = k \/ l < k)
      BY <1>3, <2>1
    <3>2. arrays[f].sector[l] \in Nat /\ arrays[f].sector[0] \in Nat
      BY <1>1, <1>2, <1>3, <3>1
    <3>3. l = k \/ arrays[f].sector[l] >= arrays[f].sector[k]
      BY <1>3, <2>1, <3>1
    <3> QED BY <2>3, <3>2, <3>3
  <2> QED BY <1>2, <2>1, <2>4 DEF IsAtTop
<1> QED BY <1>4, <1>5

(* dvdbackup.c:124: the search counts the measures in which no title set is *)
(* better, ties included.                                                   *)
THEOREM GuessFoundMeansBest == GuessSpec => []FoundMeansBest
<1>1. GInv => FoundMeansBest
  <2> SUFFICES ASSUME GInv, n = 5, NEW s \in Sets
               PROVE  CheckAudioSubChannels(s) =
                        Cardinality({f \in {"audio", "subp", "channels"} : HasBest(f, s)})
    BY DEF FoundMeansBest
  <2>1. \A f \in {"audio", "subp", "channels"} : IsAtTop(f, s) <=> HasBest(f, s)
    BY AtTopIsBest DEF GInv, PerSet
  <2>2. {f \in {"audio", "subp", "channels"} : IsAtTop(f, s)}
          = {f \in {"audio", "subp", "channels"} : HasBest(f, s)}
    BY <2>1
  <2> QED BY <2>2 DEF CheckAudioSubChannels
<1> QED BY <1>1, GuessInvariant, PTL


-----------------------------------------------------------------------------
(* What the weighing comes to.                                              *)

(* All three measures of the streams, or not.                               *)
LEMMA ThreeMeansBestStreams ==
  ASSUME GInv, n = 5, NEW s \in Sets
  PROVE  CheckAudioSubChannels(s) = 3 <=> HasBestStreams(s)
<1> DEFINE T == {"audio", "subp", "channels"}
           B == {f \in T : HasBest(f, s)}
<1>1. CheckAudioSubChannels(s) = Cardinality(B)
  <2>1. \A f \in T : IsAtTop(f, s) <=> HasBest(f, s)
    BY AtTopIsBest DEF GInv, PerSet
  <2>2. {f \in T : IsAtTop(f, s)} = B
    BY <2>1
  <2> QED BY <2>2 DEF CheckAudioSubChannels
<1>2. IsFiniteSet(T) /\ Cardinality(T) = 3
  <2>1. IsFiniteSet({"audio"}) /\ Cardinality({"audio"}) = 1
    BY FS_Singleton
  <2>2. IsFiniteSet({"audio"} \cup {"subp"}) /\ Cardinality({"audio"} \cup {"subp"}) = 1 + 1
    BY <2>1, FS_AddElement
  <2>3. /\ IsFiniteSet(({"audio"} \cup {"subp"}) \cup {"channels"})
        /\ Cardinality(({"audio"} \cup {"subp"}) \cup {"channels"}) = 1 + 1 + 1
    BY <2>2, FS_AddElement
  <2>4. T = ({"audio"} \cup {"subp"}) \cup {"channels"}
    OBVIOUS
  <2> QED BY <2>3, <2>4
<1>3. B \subseteq T
  OBVIOUS
<1>4. B = T <=> HasBestStreams(s)
  BY DEF HasBestStreams
<1> HIDE DEF B, T
<1>5. Cardinality(B) = 3 <=> B = T
  BY <1>2, <1>3, FS_Subset
<1> QED BY <1>1, <1>4, <1>5

(* Dividing by something more than half as large.                           *)
LEMMA DivOne ==
  ASSUME NEW a \in Nat, NEW b \in Nat, b # 0, b <= a, a < 2 * b
  PROVE  a \div b = 1 /\ a % b = a - b
<1>1. a \div b \in Int /\ a % b \in 0..(b - 1) /\ a = b * (a \div b) + (a % b)
  OBVIOUS
<1> DEFINE q == a \div b
<1>2. q \in Int /\ b * q <= a /\ a < b * q + b
  BY <1>1
<1> HIDE DEF q
<1>3. ~(q <= 0)
  <2> SUFFICES ASSUME q <= 0 PROVE FALSE
    OBVIOUS
  <2>1. b * q <= 0
    BY <1>2
  <2> QED BY <1>2, <2>1
<1>4. ~(q >= 2)
  <2> SUFFICES ASSUME q >= 2 PROVE FALSE
    OBVIOUS
  <2>1. b * q >= b * 2
    BY <1>2
  <2> QED BY <1>2, <2>1
<1>5. q = 1
  BY <1>2, <1>3, <1>4
<1> QED BY <1>1, <1>5 DEF q

LEMMA DivisionIsOne ==
  ASSUME NEW a \in Nat, NEW b \in Nat, b # 0, a \div b = 1
  PROVE  b <= a /\ a < 2 * b /\ a % b = a - b
OBVIOUS

(* The three integer divisions of CheckSizeArray, of the two biggest.       *)
LEMMA TwoFilmsMeans ==
  ASSUME GInv, n = 5
  PROVE  TwoFilms <=> title_sets > 1 /\ NearlyAsBig(BySize(1), BySize(0))
<1> SUFFICES ASSUME title_sets > 1
             PROVE  CheckSizeArray(0, 1) <=> NearlyAsBig(BySize(1), BySize(0))
  BY DEF TwoFilms
<1> DEFINE r == arrays["size"].sector[0]
           t == arrays["size"].sector[1]
<1>1. "size" \in PerSet /\ Ranking
  BY DEF PerSet, GInv
<1>2. 0 \in 0..(title_sets - 1) /\ 1 \in 0..(title_sets - 1)
  BY <1>1, RankedSets
<1>3. r \in Nat /\ t \in Nat /\ t <= r
  BY <1>1, <1>2, RankedSets
<1>4. r = M(BySize(0)).size /\ t = M(BySize(1)).size
  <2>1. r = M(BySize(0))["size"] /\ t = M(BySize(1))["size"]
    BY <1>1, <1>2, RankedSets DEF BySize
  <2> QED BY <2>1
<1>5. CheckSizeArray(0, 1) <=>
        t # 0 /\ r \div t = 1 /\ (2 * r - t) \div t = 1 /\ (r % t) * 3 < r
  BY DEF CheckSizeArray
<1>6. NearlyAsBig(BySize(1), BySize(0)) <=> 2 * r < 3 * t
  BY <1>3, <1>4 DEF NearlyAsBig
<1> HIDE DEF r, t
<1>7. ASSUME CheckSizeArray(0, 1) PROVE 2 * r < 3 * t
  <2>1. r % t = r - t /\ (r % t) * 3 < r
    BY <1>3, <1>5, <1>7, DivisionIsOne
  <2> QED BY <1>3, <2>1
<1>8. ASSUME 2 * r < 3 * t PROVE CheckSizeArray(0, 1)
  <2>1. t # 0 /\ r < 2 * t
    BY <1>3, <1>8
  <2>2. r \div t = 1 /\ r % t = r - t
    BY <1>3, <2>1, DivOne
  <2>3. 2 * r - t \in Nat /\ t <= 2 * r - t /\ 2 * r - t < 2 * t
    BY <1>3, <1>8
  <2>4. (2 * r - t) \div t = 1
    <3> DEFINE a == 2 * r - t
    <3>1. a \in Nat /\ t <= a /\ a < 2 * t
      BY <2>3
    <3> HIDE DEF a
    <3>2. a \div t = 1
      BY <1>3, <2>1, <3>1, DivOne
    <3> QED BY <3>2 DEF a
  <2>5. (r - t) * 3 < r
    BY <1>3, <1>8
  <2> QED BY <1>5, <2>1, <2>2, <2>4, <2>5
<1> QED BY <1>6, <1>7, <1>8

(* The largest number of chapters of a title set.                           *)
LEMMA MostChaptersMeans ==
  ASSUME disc \in Discs, NEW s
  PROVE  /\ MostChapters(s) \in Nat
         /\ \A k \in 1..titles : disc.titles[k].title_set = s => disc.titles[k].chapters <= MostChapters(s)
         /\ MostChapters(s) = 0 \/ \E k \in 1..titles :
              disc.titles[k].title_set = s /\ disc.titles[k].chapters = MostChapters(s)
<1>1. titles \in Nat /\ \A k \in 1..titles : disc.titles[k].chapters \in Nat
  BY DiscFacts
<1> DEFINE f == [k \in 1..titles |-> disc.titles[k].chapters]
           S == {m \in {0} \cup {f[k] : k \in 1..titles} :
                  m = 0 \/ \E k \in 1..titles : disc.titles[k].title_set = s /\ f[k] = m}
<1>2. \A k \in 1..titles : f[k] = disc.titles[k].chapters /\ f[k] \in Nat
  BY <1>1
<1> HIDE DEF f
<1>3. PICK b \in Nat : \A k \in 1..titles : f[k] <= b
  BY <1>1, <1>2, Bounded
<1>4. S \subseteq Nat /\ 0 \in S /\ \A x \in S : x <= b
  BY <1>2, <1>3
<1>5. PICK m \in S : \A y \in S : y <= m
  <2> HIDE DEF S
  <2> QED BY <1>4, Greatest
<1>6. \A k \in 1..titles : disc.titles[k].title_set = s => disc.titles[k].chapters <= m
  <2> SUFFICES ASSUME NEW k \in 1..titles, disc.titles[k].title_set = s PROVE f[k] <= m
    BY <1>2
  <2>1. f[k] \in S
    OBVIOUS
  <2> QED BY <1>5, <2>1
<1>7. m = 0 \/ \E k \in 1..titles : disc.titles[k].title_set = s /\ disc.titles[k].chapters = m
  BY <1>2, <1>5
<1> DEFINE Pool == {0} \cup {disc.titles[k].chapters : k \in 1..titles}
<1>8. m \in Pool /\ Pool \subseteq Nat
  BY <1>1, <1>2, <1>5
<1> DEFINE Fits(x) ==
             /\ \A k \in 1..titles : disc.titles[k].title_set = s => disc.titles[k].chapters <= x
             /\ x = 0 \/ \E k \in 1..titles : disc.titles[k].title_set = s /\ disc.titles[k].chapters = x
<1>9. \E x \in Pool : Fits(x)
  BY <1>6, <1>7, <1>8
<1>10. MostChapters(s) = CHOOSE x \in Pool : Fits(x)
  BY DEF MostChapters
<1>11. MostChapters(s) \in Pool /\ Fits(MostChapters(s))
  <2> HIDE DEF Pool, Fits
  <2> QED BY <1>9, <1>10
<1> QED BY <1>8, <1>11

(* The titles, ranked by their chapters.                                    *)
LEMMA RankedTitles ==
  ASSUME Ranking, n = 5
  PROVE  LET Place == 0..(titles - 1)
         IN  /\ disc \in Discs /\ titles \in Nat \ {0}
             /\ \E p \in [Place -> 1..titles] :
                  /\ \A k, l \in Place : p[k] = p[l] => k = l
                  /\ \A x \in 1..titles : \E k \in Place : p[k] = x
                  /\ \A k \in Place : arrays["chapters"].title[k] = disc.titles[p[k]].title_set
                  /\ \A k, l \in Place : k < l =>
                       disc.titles[p[k]].chapters >= disc.titles[p[l]].chapters
<1> DEFINE Place == 0..(titles - 1)
           a == arrays["chapters"]
           b == ByTitle
<1>1. disc \in Discs /\ AllRanked
  BY DEF Ranking
<1>2. titles \in Nat \ {0}
  BY <1>1, DiscFacts
<1>3. IsRanking(a, b, titles)
  <2>1. PICK k \in 1..5 : Fields[k] = "chapters"
    BY FieldFacts
  <2>2. IsRanking(arrays["chapters"], Original("chapters"), SizeOf("chapters"))
    BY <1>1, <2>1 DEF AllRanked
  <2> QED BY <2>2 DEF Original, SizeOf
<1>4. \A x \in Place : b.sector[x] = disc.titles[x + 1].chapters /\ b.title[x] = disc.titles[x + 1].title_set
  BY DEF ByTitle
<1> HIDE DEF a, b
<1>5. PICK p \in [Place -> Place] :
        /\ \A k, l \in Place : p[k] = p[l] => k = l
        /\ \A k \in Place : a.sector[k] = b.sector[p[k]] /\ a.title[k] = b.title[p[k]]
  BY <1>3 DEF IsRanking
<1> DEFINE q == [k \in Place |-> p[k] + 1]
<1>6. \A k \in Place : p[k] \in Place /\ q[k] = p[k] + 1 /\ q[k] \in 1..titles
  <2> TAKE k \in Place
  <2>1. p[k] \in Place
    BY <1>5
  <2>2. \A x \in Place : x + 1 \in 1..titles
    BY <1>2
  <2>3. q[k] = p[k] + 1
    OBVIOUS
  <2> QED BY <2>1, <2>2, <2>3
<1>7. q \in [Place -> 1..titles]
  BY <1>6
<1> HIDE DEF q
<1>8. \A k, l \in Place : q[k] = q[l] => k = l
  <2> TAKE k, l \in Place
  <2>1. p[k] \in Int /\ p[l] \in Int
    BY <1>2, <1>6
  <2>2. q[k] = q[l] => p[k] = p[l]
    BY <1>6, <2>1
  <2> QED BY <1>5, <2>2
<1>9. \A x \in 1..titles : \E k \in Place : q[k] = x
  <2> TAKE x \in 1..titles
  <2>1. x - 1 \in Place /\ (x - 1) + 1 = x
    BY <1>2
  <2>2. \A y \in Place : \E k \in Place : p[k] = y
    <3>1. titles \in Nat /\ p \in [Place -> Place] /\ \A k, l \in Place : p[k] = p[l] => k = l
      BY <1>2, <1>5
    <3> QED BY ONLY <3>1, Onto
  <2>3. PICK k \in Place : p[k] = x - 1
    BY <2>1, <2>2
  <2> QED BY <1>6, <2>1, <2>3
<1>10. \A k \in Place : a.title[k] = disc.titles[q[k]].title_set /\ a.sector[k] = disc.titles[q[k]].chapters
  <2> TAKE k \in Place
  <2>1. /\ p[k] \in Place /\ q[k] = p[k] + 1
        /\ a.sector[k] = b.sector[p[k]] /\ a.title[k] = b.title[p[k]]
    BY <1>5, <1>6
  <2>2. /\ b.sector[p[k]] = disc.titles[p[k] + 1].chapters
        /\ b.title[p[k]] = disc.titles[p[k] + 1].title_set
    BY <1>4, <2>1
  <2> QED BY <2>1, <2>2
<1>11. \A k, l \in Place : k < l => disc.titles[q[k]].chapters >= disc.titles[q[l]].chapters
  BY <1>3, <1>10 DEF IsRanking
<1> QED BY <1>1, <1>2, <1>7, <1>8, <1>9, <1>10, <1>11 DEF a

(* The title set of the longest title has the most chapters.                *)
LEMMA LongestLeads ==
  ASSUME Ranking, n = 5
  PROVE  Longest \in Sets /\ \A t \in Sets : MostChapters(t) <= MostChapters(Longest)
<1> DEFINE Place == 0..(titles - 1)
<1>1. disc \in Discs /\ titles \in Nat \ {0} /\ 0 \in Place
  BY RankedTitles
<1>2. PICK p \in [Place -> 1..titles] :
        /\ \A x \in 1..titles : \E k \in Place : p[k] = x
        /\ \A k \in Place : arrays["chapters"].title[k] = disc.titles[p[k]].title_set
        /\ \A k, l \in Place : k < l => disc.titles[p[k]].chapters >= disc.titles[p[l]].chapters
  BY RankedTitles
<1>3. p[0] \in 1..titles /\ Longest = disc.titles[p[0]].title_set
  BY <1>1, <1>2 DEF Longest
<1>4. Longest \in Sets /\ disc.titles[p[0]].chapters \in Nat
  BY <1>1, <1>3, DiscFacts
<1>5. MostChapters(Longest) \in Nat /\ disc.titles[p[0]].chapters <= MostChapters(Longest)
  BY <1>1, <1>3, MostChaptersMeans
<1>6. ASSUME NEW t \in Sets PROVE MostChapters(t) <= MostChapters(Longest)
  <2>1. CASE MostChapters(t) = 0
    BY <1>5, <2>1
  <2>2. CASE MostChapters(t) # 0
    <3>1. PICK x \in 1..titles : disc.titles[x].chapters = MostChapters(t)
      BY <1>1, <2>2, MostChaptersMeans
    <3>2. PICK k \in Place : p[k] = x
      BY <1>2
    <3>3. k = 0 \/ disc.titles[p[0]].chapters >= disc.titles[x].chapters
      <4>1. k = 0 \/ 0 < k
        BY <1>1
      <4>2. \A l \in Place : 0 < l => disc.titles[p[0]].chapters >= disc.titles[p[l]].chapters
        BY <1>1, <1>2
      <4> QED BY <3>2, <4>1, <4>2
    <3>4. MostChapters(t) \in Nat
      BY <1>1, MostChaptersMeans
    <3> QED BY <1>4, <1>5, <3>1, <3>2, <3>3, <3>4
  <2> QED BY <2>1, <2>2
<1> QED BY <1>4, <1>6

(* The two biggest title sets.                                              *)
LEMMA TwoBiggest ==
  ASSUME GInv, n = 5
  PROVE  /\ disc \in Discs /\ BySize(0) \in Sets /\ HasBest("size", BySize(0))
         /\ title_sets > 1 => BySize(1) \in Sets /\ BySize(1) # BySize(0)
         /\ \A s \in Sets : s # BySize(0) => title_sets > 1 /\ M(s).size <= M(BySize(1)).size
<1>1. "size" \in PerSet /\ Ranking
  BY DEF PerSet, GInv
<1>2. /\ disc \in Discs /\ title_sets \in Nat \ {0} /\ 0 \in 0..(title_sets - 1)
      /\ BySize(0) \in Sets /\ HasBest("size", BySize(0))
  BY <1>1, RankedSets, FrontIsBest DEF BySize
<1>3. title_sets > 1 => 1 \in 0..(title_sets - 1) /\ BySize(1) \in Sets /\ BySize(1) # BySize(0)
  BY <1>1, <1>2, RankedSets DEF BySize
<1>4. ASSUME NEW s \in Sets, s # BySize(0)
      PROVE  title_sets > 1 /\ M(s).size <= M(BySize(1)).size
  <2>1. PICK k \in 0..(title_sets - 1) : arrays["size"].title[k] = s
    BY <1>1, RankedSets
  <2>2. k >= 1 /\ title_sets > 1
    BY <1>2, <1>4, <2>1 DEF BySize
  <2>3. 1 \in 0..(title_sets - 1)
    BY <1>3, <2>2
  <2>4. /\ arrays["size"].sector[k] = M(s)["size"] /\ arrays["size"].sector[k] \in Nat
        /\ arrays["size"].sector[1] = M(BySize(1))["size"] /\ arrays["size"].sector[1] \in Nat
    BY <1>1, <2>1, <2>3, RankedSets DEF BySize
  <2>5. k = 1 \/ arrays["size"].sector[1] >= arrays["size"].sector[k]
    BY <1>1, <2>2, <2>3, RankedSets
  <2> QED BY <2>2, <2>4, <2>5
<1> QED BY <1>2, <1>3, <1>4


-----------------------------------------------------------------------------
(* What is guessed.                                                         *)

(* dvdbackup.c:668: a title set that is bigger and has more chapters than  *)
(* any other is what DVDGetInfo returns.                                    *)
THEOREM GuessDominantIsGuessed == GuessSpec => []DominantIsGuessed
<1>1. GInv => DominantIsGuessed
  <2> SUFFICES ASSUME GInv, pc = "done", NEW s \in Sets, LeadsInChapters(s),
                      \A t \in Sets \ {s} : M(t).size < M(s).size
               PROVE  main_title_set = s
    BY DEF DominantIsGuessed
  <2>1. n = 5 /\ Ranking /\ Weighed /\ pc \in Weighing
    BY DEF GInv, Ranking, Weighing
  <2>2. disc \in Discs /\ \A t \in Sets : M(t).size \in Nat /\ MostChapters(t) \in Nat
    <3>1. disc \in Discs
      BY <2>1, TwoBiggest
    <3>2. \A t \in Sets : M(t)["size"] \in Nat
      BY <3>1, DiscFacts DEF PerSet
    <3> QED BY <3>1, <3>2, MostChaptersMeans
  <2>3. BySize(0) = s
    <3>1. BySize(0) \in Sets /\ M(s).size <= M(BySize(0)).size
      BY <2>1, TwoBiggest DEF HasBest
    <3>2. BySize(0) # s => M(BySize(0)).size < M(s).size
      BY <3>1
    <3> QED BY <2>2, <3>1, <3>2
  <2>4. Longest = s
    <3>1. Longest \in Sets /\ MostChapters(s) <= MostChapters(Longest)
      BY <2>1, LongestLeads
    <3>2. Longest # s => MostChapters(Longest) < MostChapters(s)
      BY <3>1 DEF LeadsInChapters
    <3> QED BY <2>2, <3>1, <3>2
  <2>5. ~InTwoAspects
    <3> SUFFICES ASSUME InTwoAspects PROVE FALSE
      OBVIOUS
    <3>1. title_sets > 1 /\ MostChapters(BySize(0)) = MostChapters(BySize(1))
      BY DEF InTwoAspects, TwoFilms
    <3>2. BySize(1) \in Sets \ {s}
      BY <2>1, <2>3, <3>1, TwoBiggest
    <3>3. MostChapters(BySize(1)) < MostChapters(s)
      BY <3>2 DEF LeadsInChapters
    <3> QED BY <2>2, <2>3, <3>1, <3>2, <3>3
  <2>6. dual = 0
    BY <2>1, <2>5 DEF Weighed
  <2> QED BY <2>1, <2>3, <2>4, <2>6 DEF Weighed
<1> QED BY <1>1, GuessInvariant, PTL

(* Of two title sets that lead all others in their chapters, with one title *)
(* of full length each, either is found at the first or the second place.   *)
LEMMA FoundAtTheFront ==
  ASSUME Ranking, n = 5, NEW s \in Sets, NEW t \in Sets, s # t,
         MostChapters(s) = MostChapters(t), MostChapters(s) > 0,
         \A u \in Sets \ {s, t} : MostChapters(u) < MostChapters(s),
         \A k, l \in 1..titles :
           /\ disc.titles[k].title_set = disc.titles[l].title_set
           /\ disc.titles[k].chapters = MostChapters(s)
           /\ disc.titles[l].chapters = MostChapters(s)
           => k = l
  PROVE  found_chapter(s) < 3
<1> DEFINE Place == 0..(titles - 1)
           T(x) == disc.titles[x]
           m == MostChapters(s)
           a == arrays["chapters"].title
<1>1. disc \in Discs /\ titles \in Nat \ {0}
  BY RankedTitles
<1>2. m \in Nat \ {0} /\ \A x \in 1..titles : T(x).title_set \in Sets /\ T(x).chapters \in Nat
  BY <1>1, DiscFacts, MostChaptersMeans
<1>3. PICK p \in [Place -> 1..titles] :
        /\ \A k, l \in Place : p[k] = p[l] => k = l
        /\ \A x \in 1..titles : \E k \in Place : p[k] = x
        /\ \A k \in Place : a[k] = T(p[k]).title_set
        /\ \A k, l \in Place : k < l => T(p[k]).chapters >= T(p[l]).chapters
  BY RankedTitles
<1>4. PICK x \in 1..titles : T(x).title_set = s /\ T(x).chapters = m
  BY <1>1, <1>2, MostChaptersMeans
<1>5. PICK k \in Place : p[k] = x
  BY <1>3
<1>6. \A y \in 1..titles : T(y).chapters >= m => T(y).chapters = m /\ T(y).title_set \in {s, t}
  <2> SUFFICES ASSUME NEW y \in 1..titles, T(y).chapters >= m
               PROVE  T(y).chapters = m /\ T(y).title_set \in {s, t}
    OBVIOUS
  <2>1. PICK u \in Sets : u = T(y).title_set
    BY <1>2
  <2>2. T(y).chapters <= MostChapters(u) /\ MostChapters(u) \in Nat
    BY <1>1, <2>1, MostChaptersMeans
  <2>3. u \in {s, t}
    <3>1. u \notin {s, t} => MostChapters(u) < m
      BY <2>1
    <3> QED BY <1>2, <2>2, <3>1
  <2>4. MostChapters(u) = m
    BY <2>3
  <2> QED BY <1>2, <2>1, <2>2, <2>3, <2>4
<1>7. k < 2
  <2> SUFFICES ASSUME k >= 2 PROVE FALSE
    BY <1>1
  <2>1. 0 \in Place /\ 1 \in Place /\ 0 < k /\ 1 < k
    BY <1>1
  <2>2. p[0] \in 1..titles /\ p[1] \in 1..titles /\ p[0] # x /\ p[1] # x /\ p[0] # p[1]
    BY <1>3, <1>5, <2>1
  <2>3. T(p[0]).chapters >= m /\ T(p[1]).chapters >= m
    BY <1>3, <1>4, <1>5, <2>1
  <2>4. /\ T(p[0]).chapters = m /\ T(p[0]).title_set \in {s, t}
        /\ T(p[1]).chapters = m /\ T(p[1]).title_set \in {s, t}
    BY <1>6, <2>2, <2>3
  <2>5. T(p[0]).title_set # s /\ T(p[1]).title_set # s
    BY <1>4, <2>2, <2>4
  <2> QED BY <2>2, <2>4, <2>5
<1> DEFINE at == {l \in 0..3 : l < titles /\ a[l] = s}
<1>8. k \in at /\ at \subseteq 0..3
  BY <1>1, <1>3, <1>4, <1>5, <1>7
<1>9. \E l \in at : \A q \in at : l <= q
  <2>1. CASE 0 \in at
    BY <1>8, <2>1
  <2>2. CASE 0 \notin at
    <3>1. k = 1 /\ \A q \in at : 1 <= q
      BY <1>1, <1>7, <1>8, <2>2
    <3> QED BY <1>8, <3>1
  <2> QED BY <2>1, <2>2
<1>10. PICK c : c = CHOOSE l \in at : \A q \in at : l <= q
  OBVIOUS
<1>11. c \in 0..3 /\ c <= k
  <2> HIDE DEF at
  <2> QED BY <1>8, <1>9, <1>10
<1>12. found_chapter(s) = 1 + c
  BY <1>8, <1>10 DEF found_chapter
<1> QED BY <1>1, <1>7, <1>11, <1>12

(* Two versions of a film are the two biggest title sets, and pass all the  *)
(* tests of one film in two aspect ratios.                                  *)
LEMMA VersionsAreRecognised ==
  ASSUME GInv, n = 5, NEW s \in Sets, NEW t \in Sets, Versions(s, t)
  PROVE  InTwoAspects /\ Preferred = s /\ PreferredIsFound
<1>1. Ranking /\ disc \in Discs
  BY TwoBiggest DEF GInv
<1>2. \A u \in Sets : M(u).size \in Nat
  <2>1. \A u \in Sets : M(u)["size"] \in Nat
    BY <1>1, DiscFacts DEF PerSet
  <2> QED BY <2>1
<1>3. /\ s # t /\ (NearlyAsBig(s, t) \/ NearlyAsBig(t, s))
      /\ AspectOf(s) = aspect /\ AspectOf(t) # aspect
      /\ MostChapters(s) = MostChapters(t) /\ MostChapters(s) > 0
      /\ \A u \in Sets \ {s, t} : M(u).size < M(s).size /\ M(u).size < M(t).size
      /\ \A u \in Sets \ {s, t} : MostChapters(u) < MostChapters(s)
  BY DEF Versions
<1>4. BySize(0) \in {s, t} /\ BySize(0) \in Sets
  <2>1. BySize(0) \in Sets /\ M(s).size <= M(BySize(0)).size
    BY TwoBiggest DEF HasBest
  <2>2. BySize(0) \notin {s, t} => M(BySize(0)).size < M(s).size
    BY <1>3, <2>1
  <2> QED BY <1>2, <2>1, <2>2
<1>5. PICK o \in {s, t} : o # BySize(0)
  BY <1>3, <1>4
<1>6. o \in Sets /\ {BySize(0), o} = {s, t}
  BY <1>3, <1>4, <1>5
<1>7. BySize(1) = o /\ title_sets > 1
  <2>1. title_sets > 1 /\ M(o).size <= M(BySize(1)).size
    BY <1>5, <1>6, TwoBiggest
  <2>2. BySize(1) \in Sets /\ BySize(1) # BySize(0)
    BY <2>1, TwoBiggest
  <2>3. BySize(1) \notin {s, t} => M(BySize(1)).size < M(o).size
    BY <1>3, <1>5, <2>2
  <2>4. BySize(1) \in {s, t}
    BY <1>2, <1>6, <2>1, <2>2, <2>3
  <2> QED BY <1>4, <1>5, <2>1, <2>2, <2>4
<1>8. {BySize(0), BySize(1)} = {s, t}
  BY <1>6, <1>7
<1>9. TwoFilms
  <2>1. M(BySize(1)).size <= M(BySize(0)).size
    BY <1>6, <1>7, TwoBiggest DEF HasBest
  <2>2. M(BySize(0)).size \in Nat /\ M(BySize(1)).size \in Nat
    BY <1>2, <1>4, <1>6, <1>7
  <2>3. NearlyAsBig(BySize(1), BySize(0)) \/ NearlyAsBig(BySize(0), BySize(1))
    BY <1>3, <1>8
  <2>4. NearlyAsBig(BySize(1), BySize(0))
    BY <2>1, <2>2, <2>3 DEF NearlyAsBig
  <2> QED BY <1>7, <2>4, TwoFilmsMeans
<1>10. (BySize(0) = s /\ BySize(1) = t) \/ (BySize(0) = t /\ BySize(1) = s)
  BY <1>3, <1>8
<1>11. InTwoAspects
  BY <1>3, <1>9, <1>10 DEF InTwoAspects
<1>12. Preferred = s
  BY <1>3, <1>10 DEF Preferred
<1>13. CheckAudioSubChannels(s) = 3
  BY ThreeMeansBestStreams DEF Versions
<1>14. found_chapter(s) < 3
  <2>1. \A k, l \in 1..titles :
          /\ disc.titles[k].title_set = disc.titles[l].title_set
          /\ disc.titles[k].chapters = MostChapters(s)
          /\ disc.titles[l].chapters = MostChapters(s)
          => k = l
    BY DEF Versions
  <2> QED BY <1>1, <1>3, <2>1, FoundAtTheFront
<1> QED BY <1>11, <1>12, <1>13, <1>14 DEF PreferredIsFound

(* README:49, dvdbackup.c:624: of a film in two versions the one with the  *)
(* aspect ratio asked for is returned.                                      *)
THEOREM GuessAspectIsHonoured == GuessSpec => []AspectIsHonoured
<1>1. GInv => AspectIsHonoured
  <2> SUFFICES ASSUME GInv, pc = "done", NEW s \in Sets, NEW t \in Sets, Versions(s, t)
               PROVE  main_title_set = s
    BY DEF AspectIsHonoured
  <2>1. n = 5 /\ Weighed /\ pc \in Weighing
    BY DEF GInv, Ranking, Weighing
  <2>2. InTwoAspects /\ Preferred = s /\ PreferredIsFound
    BY <2>1, VersionsAreRecognised
  <2>3. dual = 1 /\ multi # 1
    BY <2>1, <2>2 DEF Weighed
  <2> QED BY <2>1, <2>2, <2>3 DEF Weighed
<1> QED BY <1>1, GuessInvariant, PTL

(* dvdbackup.c:668: a smaller title set than the biggest is only returned  *)
(* with the best of every stream, as a version of the biggest or as the     *)
(* longest of several episodes.                                             *)
THEOREM GuessSmallerIsJustified == GuessSpec => []SmallerIsJustified
<1>1. GInv => SmallerIsJustified
  <2> DEFINE m == main_title_set
             Version == /\ dual = 1
                        /\ \E t \in Sets : /\ HasBest("size", t) /\ NearlyAsBig(m, t)
                                           /\ AspectOf(t) # AspectOf(m)
                                           /\ MostChapters(t) = MostChapters(m)
             Episode == multi = 1 /\ \A t \in Sets : MostChapters(t) <= MostChapters(m)
  <2> SUFFICES ASSUME GInv, pc = "done", ~HasBest("size", m)
               PROVE  HasBestStreams(m) /\ (Version \/ Episode)
    BY DEF SmallerIsJustified
  <2>1. n = 5 /\ Ranking /\ Weighed /\ pc \in Weighing
    BY DEF GInv, Ranking, Weighing
  <2>2. BySize(0) \in Sets /\ HasBest("size", BySize(0)) /\ m # BySize(0)
    BY <2>1, TwoBiggest
  <2>3. CASE m = Preferred /\ dual = 1 /\ PreferredIsFound
    <3>1. InTwoAspects
      BY <2>1, <2>3 DEF Weighed
    <3>2. m = BySize(1)
      BY <2>2, <2>3 DEF Preferred
    <3>3. title_sets > 1 /\ NearlyAsBig(BySize(1), BySize(0))
      BY <2>1, <3>1, TwoFilmsMeans DEF InTwoAspects
    <3>4. m \in Sets
      BY <2>1, <3>2, <3>3, TwoBiggest
    <3>5. HasBestStreams(m)
      BY <2>1, <2>3, <3>4, ThreeMeansBestStreams DEF PreferredIsFound
    <3>6. AspectOf(BySize(0)) # AspectOf(m) /\ MostChapters(BySize(0)) = MostChapters(m)
      BY <3>1, <3>2 DEF InTwoAspects
    <3> QED BY <2>2, <2>3, <3>2, <3>3, <3>5, <3>6
  <2>4. CASE m = Longest /\ multi = 1 /\ CheckAudioSubChannels(Longest) = 3
    <3>1. m \in Sets /\ \A t \in Sets : MostChapters(t) <= MostChapters(m)
      BY <2>1, <2>4, LongestLeads
    <3>2. HasBestStreams(m)
      BY <2>1, <2>4, <3>1, ThreeMeansBestStreams
    <3> QED BY <2>4, <3>1, <3>2
  <2> QED BY <2>1, <2>2, <2>3, <2>4 DEF Weighed
<1> QED BY <1>1, GuessInvariant, PTL

=============================================================================
