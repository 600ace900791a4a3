------------------------------ MODULE RangeList ------------------------------
(***************************************************************************)
(* The sorted list of sector ranges of find-sector.c: a GSList of          *)
(* sector_range nodes, here a sequence of [start, end] records with both   *)
(* ends included.  add_sector_range_list and find_next_sectors are pure    *)
(* functions of the list and their arguments, and each stops at the first  *)
(* node that satisfies a condition.                                        *)
(*                                                                         *)
(* A definition named X_Something is a plausible slip in X, kept to show   *)
(* that a property notices it; nothing else refers to it.                  *)
(***************************************************************************)
EXTENDS Integers, Sequences

\* The value whose negation find_next_sectors returns at the end of the list.
CONSTANT INT_MAX

ASSUME IntMaxAssumption == INT_MAX \in Nat \ {0}

\* typedef struct sector_range { int start; int end; }
sector_range == [start : Nat, end : Nat]

Smaller(a, b) == IF a < b THEN a ELSE b

\* The first index of K, or n + 1 when there is none.
FirstOf(K, n) == IF K = {} THEN n + 1 ELSE CHOOSE k \in K : \A m \in K : k <= m

-----------------------------------------------------------------------------
(* add_sector_range_list                                                    *)

\* Where the scan stops: at the first node that begins beyond the new range,
\* leaving a gap, or that does not end before it.
StopNode(list, end) ==
  FirstOf({k \in 1..Len(list) : end + 1 < list[k].start \/ end <= list[k].end},
          Len(list))

\* The new range reaches back to previous_node, the last node passed.
JoinsPrevious_Overlap(list, k, start) == k > 1 /\ start <= list[k - 1].end
JoinsPrevious_Always(list, k, start) == k > 1
JoinsPrevious(list, k, start) == k > 1 /\ start <= list[k - 1].end + 1

Insert(list, k, node) ==
  [i \in 1..(Len(list) + 1) |->
     IF i < k THEN list[i] ELSE IF i = k THEN node ELSE list[i - 1]]

\* The new range lies wholly in the gap before node k (or after the last node).
AddBefore(list, k, start, end) ==
  IF JoinsPrevious(list, k, start)
  THEN [list EXCEPT ![k - 1].end = end]
  ELSE Insert(list, k, [start |-> start, end |-> end])

\* Nodes k - 1 and k become one.
Fuse_LoseSecond(list, k) ==
  [i \in 1..(Len(list) - 1) |-> IF i < k THEN list[i] ELSE list[i + 1]]
Fuse(list, k) ==
  [i \in 1..(Len(list) - 1) |->
     IF i < k - 1 THEN list[i]
     ELSE IF i = k - 1 THEN [list[i] EXCEPT !.end = list[k].end]
     ELSE list[i + 1]]

\* The new range ends inside node k, or next to its beginning.
AddInto(list, k, start) ==
  IF start >= list[k].start THEN list
  ELSE IF JoinsPrevious(list, k, start) THEN Fuse(list, k)
  ELSE [list EXCEPT ![k].start = start]

add_sector_range_list(list, start, end) ==
  LET k == StopNode(list, end)
  IN  IF start > end THEN list
      ELSE IF k <= Len(list) /\ list[k].start <= end + 1 THEN AddInto(list, k, start)
      ELSE AddBefore(list, k, start, end)

-----------------------------------------------------------------------------
(* find_next_sectors: the length of the run of known sectors at offset, or  *)
(* minus the distance to the next known sector.                             *)

\* The first node that begins after offset or does not end before it.
LookupNode(list, offset) ==
  FirstOf({k \in 1..Len(list) : offset < list[k].start \/ offset <= list[k].end},
          Len(list))

find_next_sectors_Exclusive(list, offset) ==
  LET k == LookupNode(list, offset)
  IN  IF k > Len(list) THEN -INT_MAX
      ELSE IF offset < list[k].start THEN offset - list[k].start
      ELSE list[k].end - offset
find_next_sectors(list, offset) ==
  LET k == LookupNode(list, offset)
  IN  IF k > Len(list) THEN -INT_MAX
      ELSE IF offset < list[k].start THEN offset - list[k].start
      ELSE list[k].end - offset + 1

-----------------------------------------------------------------------------
(* What a list means, for the properties of this module and its clients.    *)

\* Sector n is on the list.
Known(list, n) == \E k \in 1..Len(list) : list[k].start <= n /\ n <= list[k].end

\* Every node is a range, and a gap separates each node from the next.
WellFormed(list) ==
  /\ list \in Seq(sector_range)
  /\ \A k \in 1..Len(list) : list[k].start <= list[k].end
  /\ \A j, k \in 1..Len(list) : j < k => list[j].end + 1 < list[k].start

\* The new range begins before some node and ends after it.
Engulfs(list, start, end) ==
  \E k \in 1..Len(list) : start < list[k].start /\ list[k].end < end
=============================================================================
