------------------------------ MODULE SortPairs ------------------------------
(***************************************************************************)
(* bsort_min_to_max and bsort_max_to_min of dvdbackup.c: two parallel      *)
(* arrays, sorted by the first.  The inner loop runs over all indexes, so  *)
(* that element i is compared with those before it, those after it, and    *)
(* with itself; and the comparison looks inverted.                         *)
(*                                                                         *)
(* A definition named X_Something is a plausible slip in X, kept to show   *)
(* that a property notices it; nothing else refers to it.                  *)
(***************************************************************************)
EXTENDS Integers

CONSTANTS
  MaxSize,   \* no array is longer
  Keys,      \* the values of sector[]
  Tags       \* the values of title[]

ASSUME SortAssumption == MaxSize \in Nat /\ Keys \subseteq Int

VARIABLES
  order,           \* which of the two functions
  size,
  given,           \* history: the arrays as they were passed
  sector, title,   \* the arrays
  i, j             \* the loop variables

vars == <<order, size, given, sector, title, i, j>>

Index == 0..(size - 1)

Init ==
  /\ order \in {"min_to_max", "max_to_min"}
  /\ size \in 0..MaxSize
  /\ sector \in [Index -> Keys] /\ title \in [Index -> Tags]
  /\ given = [sector |-> sector, title |-> title]
  /\ i = 0 /\ j = 0

\* The condition of the exchange.
Exchanges(a, b) == IF order = "min_to_max" THEN a < b ELSE a > b

Exchange_KeyOnly ==
  /\ i < size /\ j < size /\ Exchanges(sector[i], sector[j])
  /\ sector' = [sector EXCEPT ![i] = sector[j], ![j] = sector[i]]
  /\ j' = j + 1
  /\ UNCHANGED <<order, size, given, title, i>>
Exchange ==
  /\ i < size /\ j < size /\ Exchanges(sector[i], sector[j])
  /\ sector' = [sector EXCEPT ![i] = sector[j], ![j] = sector[i]]
  /\ title' = [title EXCEPT ![i] = title[j], ![j] = title[i]]
  /\ j' = j + 1
  /\ UNCHANGED <<order, size, given, i>>

Keep ==
  /\ i < size /\ j < size /\ ~Exchanges(sector[i], sector[j])
  /\ j' = j + 1
  /\ UNCHANGED <<order, size, given, sector, title, i>>

\* The end of the inner loop.
NextPass_FromI ==
  /\ i < size /\ j >= size
  /\ i' = i + 1 /\ j' = i + 1
  /\ UNCHANGED <<order, size, given, sector, title>>
NextPass_Stuck ==
  /\ i < size /\ j >= size
  /\ j' = 0
  /\ UNCHANGED <<order, size, given, sector, title, i>>
NextPass ==
  /\ i < size /\ j >= size
  /\ i' = i + 1 /\ j' = 0
  /\ UNCHANGED <<order, size, given, sector, title>>

Returned == i >= size /\ UNCHANGED vars

Next == Exchange \/ Keep \/ NextPass \/ Returned

Spec == Init /\ [][Next]_vars

-----------------------------------------------------------------------------
\* a may stand before b in the result.
InOrder(a, b) == ~Exchanges(b, a)

(* The arrays keep their length and the loop variables stay in range.      *)
TypeOK ==
  /\ order \in {"min_to_max", "max_to_min"}
  /\ size \in 0..MaxSize
  /\ sector \in [Index -> Keys] /\ title \in [Index -> Tags]
  /\ given \in [sector : [Index -> Keys], title : [Index -> Tags]]
  /\ i \in 0..size /\ j \in 0..size

(* When the function returns, sector[] is sorted: align_end_sector and the *)
(* guess of the main feature rely on it.                                   *)
Sorted == i = size => \A k, l \in Index : k < l => InOrder(sector[k], sector[l])

(* At every moment the pairs are the ones that were passed, rearranged: no *)
(* pair is lost, duplicated, or torn apart.                                *)
IsArrangement(p) ==
  /\ p \in [Index -> Index]
  /\ \A k, l \in Index : p[k] = p[l] => k = l
  /\ \A k \in Index : sector[k] = given.sector[p[k]] /\ title[k] = given.title[p[k]]

Rearranged == \E p \in [Index -> Index] : IsArrangement(p)

-----------------------------------------------------------------------------
(* Why it sorts: the first pass brings the last element of the order to    *)
(* the front, and every later pass inserts element i among the sorted      *)
(* elements before it, which carries the last element along to place i.    *)

\* The elements of the passes that are done are sorted ...
PrefixSorted == \A k, l \in Index : k < l /\ l < i => InOrder(sector[k], sector[l])

\* ... those that element i was compared with are before it in the order ...
PassedAreBefore == i < size => \A k \in Index : k < j => InOrder(sector[k], sector[i])

\* ... and the last element of the order is where the passes have left it.
Last(k) == \A l \in Index : InOrder(sector[l], sector[k])
LastIsFound ==
  /\ i > 0 /\ (i = size \/ j < i) => Last(i - 1)
  /\ i > 0 /\ i < size /\ j >= i => Last(i)

(* What each step keeps: the conjunction is inductive, and with i = size   *)
(* the first part is Sorted.                                               *)
SortInv == TypeOK /\ PrefixSorted /\ PassedAreBefore /\ LastIsFound
=============================================================================
