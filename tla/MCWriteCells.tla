----------------------------- MODULE MCWriteCells -----------------------------
(***************************************************************************)
(* One or two cells whose boundaries fall inside a part, fill it exactly,  *)
(* or need several; an empty cell, as align_end_sector leaves of two cells *)
(* with the same first sector; no cell at all; the VMG domain; and a       *)
(* directory that is not writable any more.                                *)
(***************************************************************************)
EXTENDS WriteCells

C(s, e) == [start |-> s, end |-> e]

CellLists == {
  <<>>,
  <<C(4, 6)>>,
  <<C(0, 9)>>,                     \* three full parts
  <<C(0, 3), C(5, 7)>>,            \* the first cell fills a part
  <<C(0, 2), C(3, 7)>>,            \* the second one crosses into the next
  <<C(2, 1), C(2, 6)>>,            \* an empty cell
  <<C(0, 0), C(1, 4), C(6, 7)>>}

Titles == [title_set : {1}, cells : CellLists, writable : {TRUE}]

AllRequests ==
  Titles \cup [title_set : {0}, cells : {<<C(4, 6)>>}, writable : {TRUE}]
         \cup [title_set : {1}, cells : {<<C(0, 5)>>}, writable : {FALSE}]
=============================================================================
