-------------------------------- MODULE Cells --------------------------------
(***************************************************************************)
(* The cells that DVDMirrorChapters hands to DVDWriteCells: the two arrays *)
(* cell_start_sector and cell_end_sector, as one sequence of records.      *)
(***************************************************************************)
EXTENDS Integers, Sequences

Cell == [start : Nat, end : Int]
SectorsOf(cell) == cell.start..cell.end

\* What one function promises and the other relies on: the cells are in the
\* order of the disc and share no sector.  A cell may be empty.
InOrder(cells) ==
  /\ \A k \in 1..Len(cells) : cells[k].start <= cells[k].end + 1
  /\ \A k, l \in 1..Len(cells) : k < l => cells[k].end < cells[l].start
=============================================================================
