------------------------------- MODULE Chapters -------------------------------
(***************************************************************************)
(* From the options -t, -s and -e to the cells that are copied: the checks *)
(* of main(), DVDMirrorTitles and DVDMirrorChapters, with                  *)
(* align_end_sector.  The cells go to DVDWriteCells (module WriteCells).   *)
(*                                                                         *)
(* A title is a sequence of chapters (PTTs), each naming a program chain   *)
(* and a program of it; a program chain maps its programs to their first   *)
(* cells.  The guess of a title (titles = 0) is left out: main() never     *)
(* asks for it.                                                            *)
(*                                                                         *)
(* A definition named X_Something is a plausible slip in X, kept to show   *)
(* that a property notices it; nothing else refers to it.                  *)
(***************************************************************************)
EXTENDS Cells, FiniteSets

CONSTANTS
  Discs,        \* the discs considered
  MaxChapter    \* the largest chapter number accepted; 99 in the code

(***************************************************************************)
(* A disc: its titles, each in a title set and with the program chain and  *)
(* the program of each chapter; and the program chains of the title sets.  *)
(* The code follows these numbers without a check: a disc on which the     *)
(* program of a chapter is not one of the chain it is looked up in makes   *)
(* it read beyond the table, and is left out.                              *)
(***************************************************************************)
IsPgc(p) ==
  /\ p.cell_playback \in Seq(Cell)
  /\ \A c \in 1..Len(p.cell_playback) : p.cell_playback[c].start <= p.cell_playback[c].end
  /\ p.program_map \in Seq(1..Len(p.cell_playback))

IsTitle(t, pgcs) ==
  /\ t.title_set \in DOMAIN pgcs
  /\ t.ptt \in Seq([pgcn : 1..Len(pgcs[t.title_set]), pgn : Nat])
  /\ Len(t.ptt) \in 1..MaxChapter
  /\ \A c, d \in 1..Len(t.ptt) :
       t.ptt[c].pgn \in 1..Len(pgcs[t.title_set][t.ptt[d].pgcn].program_map)

IsDisc(d) ==
  /\ \A s \in DOMAIN d.pgcs : \A p \in 1..Len(d.pgcs[s]) : IsPgc(d.pgcs[s][p])
  /\ Len(d.titles) \in Nat
  /\ \A t \in 1..Len(d.titles) : IsTitle(d.titles[t], d.pgcs)

ASSUME ChaptersAssumption ==
  /\ MaxChapter \in Nat \ {0}
  /\ \A d \in Discs : IsDisc(d)

VARIABLES
  disc,                        \* the disc in the drive
  options,                     \* t, s and e; 0 is an option not given
  pc,                          \* the next step
  start_chapter, end_chapter,  \* as far as they are checked and clamped
  start_cell, end_cell,        \* numbers of cells in the program chain
  cells,                       \* the dual array
  result                       \* exit status so far, or "none"

vars == <<disc, options, pc, start_chapter, end_chapter, start_cell, end_cell, cells, result>>

Title == disc.titles[options.t]
Chapters == Len(Title.ptt)
PgcOf(chapter) == disc.pgcs[Title.title_set][Title.ptt[chapter].pgcn]

Init ==
  /\ disc \in Discs
  /\ options \in [t : 0..Len(disc.titles), s : 0..MaxChapter, e : 0..MaxChapter]
  /\ pc = "options" /\ start_chapter = 0 /\ end_chapter = 0
  /\ start_cell = 0 /\ end_cell = 0 /\ cells = <<>> /\ result = "none"

Exit(code) == pc' = "exit" /\ result' = code

-----------------------------------------------------------------------------
(* The command line.                                                        *)

do_chapter == options.t # 0 /\ (options.s # 0 \/ options.e # 0)
do_titles == options.t # 0 /\ options.s = 0 /\ options.e = 0

\* One of -s and -e gives the other its default.
FirstAsked == IF options.s = 0 THEN 1 ELSE options.s
LastAsked == IF options.e = 0 THEN MaxChapter ELSE options.e

\* Chapters the wrong way round, or nothing to do: the help is printed.
UsageError ==
  /\ pc = "options"
  /\ \/ (options.s # 0 \/ options.e # 0) /\ LastAsked < FirstAsked
     \/ ~do_chapter /\ ~do_titles
  /\ Exit("usage")
  /\ UNCHANGED <<disc, options, start_chapter, end_chapter, start_cell, end_cell, cells>>

AskChapters ==
  /\ pc = "options" /\ do_chapter /\ FirstAsked <= LastAsked
  /\ start_chapter' = FirstAsked /\ end_chapter' = LastAsked
  /\ pc' = "open"
  /\ UNCHANGED <<disc, options, start_cell, end_cell, cells, result>>

\* -t alone: DVDMirrorTitles asks for the chapters from 1 to the last.
AskTitle ==
  /\ pc = "options" /\ do_titles
  /\ start_chapter' = 1 /\ end_chapter' = Chapters
  /\ pc' = "open"
  /\ UNCHANGED <<disc, options, start_cell, end_cell, cells, result>>

-----------------------------------------------------------------------------
(* DVDMirrorChapters.                                                       *)

\* DVDGetInfo, DVDGetFileSet or ifoOpen fails.
OpenFails ==
  /\ pc = "open" /\ Exit("failure")
  /\ UNCHANGED <<disc, options, start_chapter, end_chapter, start_cell, end_cell, cells>>

Clamp(chapter) == IF chapter > Chapters THEN Chapters ELSE chapter

Truncate ==
  /\ pc = "open"
  /\ end_chapter' = Clamp(end_chapter) /\ start_chapter' = Clamp(start_chapter)
  /\ pc' = "lookup"
  /\ UNCHANGED <<disc, options, start_cell, end_cell, cells, result>>

\* The program chain of the first chapter is taken for all chapters.
PGC == PgcOf(start_chapter)

\* The cell before the first one of the next chapter; ptt[end_chapter] of the
\* code counts from 0, so that it is the chapter after end_chapter.
LastCell_Inclusive ==
  IF end_chapter < Chapters
  THEN PGC.program_map[Title.ptt[end_chapter + 1].pgn]
  ELSE Len(PGC.cell_playback)
LastCell ==
  IF end_chapter < Chapters
  THEN PGC.program_map[Title.ptt[end_chapter + 1].pgn] - 1
  ELSE Len(PGC.cell_playback)

Lookup ==
  /\ pc = "lookup"
  /\ start_cell' = PGC.program_map[Title.ptt[start_chapter].pgn]
  /\ end_cell' = LastCell
  /\ pc' = "collect"
  /\ UNCHANGED <<disc, options, start_chapter, end_chapter, cells, result>>

HowMany == end_cell - start_cell + 1

\* A negative number of cells is a huge size for malloc(); a small one may
\* fail as well.
NoMemory ==
  /\ pc = "collect" /\ Exit("failure")
  /\ UNCHANGED <<disc, options, start_chapter, end_chapter, start_cell, end_cell, cells>>

Collect ==
  /\ pc = "collect" /\ HowMany >= 0
  /\ cells' = [k \in 1..HowMany |-> PGC.cell_playback[start_cell + k - 1]]
  /\ pc' = "sort"
  /\ UNCHANGED <<disc, options, start_chapter, end_chapter, start_cell, end_cell, result>>

\* bsort_min_to_max: module SortPairs shows that it gives one of these.
Orders(n) == {f \in [1..n -> 1..n] : \A k, l \in 1..n : f[k] = f[l] => k = l}
Sorted(s) == \A k, l \in 1..Len(s) : k < l => s[k].start <= s[l].start

Sort_Not ==
  /\ pc = "sort" /\ pc' = "align"
  /\ UNCHANGED <<disc, options, start_chapter, end_chapter, start_cell, end_cell, cells, result>>
Sort ==
  /\ pc = "sort"
  /\ \E f \in Orders(Len(cells)) :
       /\ cells' = [k \in 1..Len(cells) |-> cells[f[k]]]
       /\ Sorted(cells')
  /\ pc' = "align"
  /\ UNCHANGED <<disc, options, start_chapter, end_chapter, start_cell, end_cell, result>>

\* Only the cell that follows is looked at, and it does not change before.
align_end_sector_OneShort(s) ==
  [k \in 1..Len(s) |->
    IF k < Len(s) /\ s[k].end >= s[k + 1].start
    THEN [start |-> s[k].start, end |-> s[k + 1].start - 2]
    ELSE s[k]]
align_end_sector(s) ==
  [k \in 1..Len(s) |->
    IF k < Len(s) /\ s[k].end >= s[k + 1].start
    THEN [start |-> s[k].start, end |-> s[k + 1].start - 1]
    ELSE s[k]]

Align ==
  /\ pc = "align"
  /\ cells' = align_end_sector(cells)
  /\ pc' = "write"
  /\ UNCHANGED <<disc, options, start_chapter, end_chapter, start_cell, end_cell, result>>

\* DVDWriteCells, for which see module WriteCells.
Write ==
  /\ pc = "write"
  /\ \E code \in {"success", "failure"} : Exit(code)
  /\ UNCHANGED <<disc, options, start_chapter, end_chapter, start_cell, end_cell, cells>>

Exited == pc = "exit" /\ UNCHANGED vars

Next ==
  \/ UsageError \/ AskChapters \/ AskTitle \/ OpenFails \/ Truncate \/ Lookup
  \/ NoMemory \/ Collect \/ Sort \/ Align \/ Write \/ Exited

Spec == Init /\ [][Next]_vars

-----------------------------------------------------------------------------
TypeOK ==
  /\ disc \in Discs
  /\ options \in [t : 0..Len(disc.titles), s : 0..MaxChapter, e : 0..MaxChapter]
  /\ pc \in {"options", "open", "lookup", "collect", "sort", "align", "write", "exit"}
  /\ start_chapter \in 0..MaxChapter /\ end_chapter \in 0..MaxChapter
  /\ start_cell \in Nat /\ end_cell \in Int
  /\ cells \in Seq(Cell)
  /\ result \in {"none", "usage", "success", "failure"}

\* What was asked for, in terms of the disc alone.  A chapter is its program
\* and the programs up to that of the next chapter.
Asked(chapter) ==
  /\ Clamp(FirstAsked) <= chapter /\ chapter <= Clamp(LastAsked)
FirstCell(chapter) == PgcOf(chapter).program_map[Title.ptt[chapter].pgn]
InChapter(c, p, chapter) ==
  /\ Title.ptt[chapter].pgcn = p
  /\ FirstCell(chapter) <= c
  /\ \A later \in chapter + 1..Chapters : Title.ptt[later].pgcn = p => c < FirstCell(later)

\* The chapters are all in one program chain, and in the order of its cells.
OnePgc == \A chapter \in 1..Chapters : Title.ptt[chapter].pgcn = Title.ptt[1].pgcn
InProgramOrder ==
  \A chapter, later \in 1..Chapters :
    chapter < later /\ Title.ptt[chapter].pgcn = Title.ptt[later].pgcn
      => FirstCell(chapter) <= FirstCell(later)

\* The cells of the chapters, as <<chain, number>>, and their sectors.
AskedCells ==
  {pair \in UNION {{p} \X (1..Len(disc.pgcs[Title.title_set][p].cell_playback)) :
                    p \in 1..Len(disc.pgcs[Title.title_set])} :
     \E chapter \in 1..Chapters : Asked(chapter) /\ InChapter(pair[2], pair[1], chapter)}
CellAt(pair) == disc.pgcs[Title.title_set][pair[1]].cell_playback[pair[2]]
AskedSectors == UNION {SectorsOf(CellAt(pair)) : pair \in AskedCells}
ChosenSectors == UNION {SectorsOf(cells[k]) : k \in 1..Len(cells)}

(* In a title of one program chain, with its chapters in order, the cells  *)
(* collected are those of the chapters asked for, after -s and -e have got *)
(* their defaults and have been clamped (README:96-97): no chapter too     *)
(* many, none too few, and each cell as often as the chapters have it.     *)
RightCells ==
  pc \in {"sort", "align"} /\ OnePgc /\ InProgramOrder =>
    /\ {cells[k] : k \in 1..Len(cells)} = {CellAt(pair) : pair \in AskedCells}
    /\ \A c \in {cells[k] : k \in 1..Len(cells)} :
         Cardinality({k \in 1..Len(cells) : cells[k] = c})
           = Cardinality({pair \in AskedCells : CellAt(pair) = c})

(* What DVDWriteCells relies on: the cells handed over are in the order of *)
(* the disc and share no sector, however the cells of the disc overlap.    *)
HandsOverInOrder == pc = "write" => InOrder(cells)

(* No sector outside the chapters is copied; and none inside is lost by    *)
(* aligning, unless a cell reaches beyond the end of one that starts       *)
(* later.                                                                  *)
Engulfs == \E a, b \in AskedCells :
  CellAt(a).start <= CellAt(b).start /\ CellAt(b).end < CellAt(a).end
RightSectors ==
  pc = "write" /\ OnePgc /\ InProgramOrder =>
    /\ ChosenSectors \subseteq AskedSectors
    /\ ~Engulfs => AskedSectors \subseteq ChosenSectors
=============================================================================
