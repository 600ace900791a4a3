----------------------------- MODULE SectorRanges -----------------------------
(***************************************************************************)
(* The life of one range list in find-sector.c: create_titleset_range_list *)
(* adds the sectors of one cell after another, in whatever order the       *)
(* programs and the cell commands of the title set visit them, and         *)
(* DVDCopyBlocks then looks sectors up.                                    *)
(***************************************************************************)
EXTENDS RangeList

CONSTANT MaxSector   \* the sectors of the title set are 0..MaxSector

ASSUME MaxSectorAssumption == MaxSector \in Nat /\ MaxSector < INT_MAX

Sector == 0..MaxSector

VARIABLES
  range_list,   \* the list of create_titleset_range_list's caller
  referenced    \* history: the sectors of all the cells added so far

vars == <<range_list, referenced>>

Init == range_list = <<>> /\ referenced = {}

\* One cell [first_sector, last_sector] of a program chain.
AddCell(first, last) ==
  /\ range_list' = add_sector_range_list(range_list, first, last)
  /\ referenced' = referenced \cup (first..last)

Next == \E first, last \in Sector : AddCell(first, last)

Spec == Init /\ [][Next]_vars

-----------------------------------------------------------------------------
(* The list holds sectors of the title set, and so does the history.       *)
TypeOK ==
  /\ range_list \in Seq([start : Sector, end : Sector])
  /\ referenced \subseteq Sector

(* find-sector.c:60: the list stays sorted, and ranges that overlap or     *)
(* touch are one node.  find_next_sectors relies on it when it stops at    *)
(* the first node.                                                         *)
SortedAndCombined == WellFormed(range_list)

(* However the ranges were merged, a sector that no cell referenced never  *)
(* enters the list: -r u copies nothing it was told to skip.               *)
NothingInvented ==
  \A k \in 1..Len(range_list) :
    range_list[k].start..range_list[k].end \subseteq referenced

(* Inserting, growing or fusing nodes for a new cell never drops a sector  *)
(* that an earlier cell put on the list, and the new cell is on the list   *)
(* entirely, unless it began before a node and ended after it: in that one *)
(* case the code only moves the node's end.                                *)
KeepsAndAdds ==
  [][\A first, last \in Sector : AddCell(first, last) =>
       \A n \in Sector :
         Known(range_list, n) \/ (n \in first..last /\ ~Engulfs(range_list, first, last))
           => Known(range_list', n)]_vars

(* find_next_sectors answers with the longest run of known sectors at      *)
(* offset, or with the exact distance to the next known one.               *)
LookupExact ==
  \A offset \in Sector :
    LET n == find_next_sectors(range_list, offset)
    IN  \/ /\ n > 0
           /\ \A m \in offset..(offset + n - 1) : Known(range_list, m)
           /\ ~Known(range_list, offset + n)
        \/ /\ n < 0 /\ n # -INT_MAX
           /\ \A m \in offset..(offset - n - 1) : ~Known(range_list, m)
           /\ Known(range_list, offset - n)
        \/ /\ n = -INT_MAX
           /\ \A m \in offset..MaxSector : ~Known(range_list, m)

(* find-sector.c:60 and dvdbackup.c:898: every sector of every cell is on  *)
(* the list, so that only unreferenced blocks are seeked over.             *)
EveryCellKnown == \A n \in referenced : Known(range_list, n)
=============================================================================
