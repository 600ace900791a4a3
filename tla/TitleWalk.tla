------------------------------ MODULE TitleWalk ------------------------------
(***************************************************************************)
(* create_titleset_range_list and check_vm of find-sector.c: for -r u, the *)
(* program chains of a title set are walked cell by cell, and the commands *)
(* on the way are executed in the virtual machine of libdvdnav.  Each cell *)
(* passed is added to the list of module SectorRanges.                     *)
(*                                                                         *)
(* The virtual machine is external.  A command is the set of effects that  *)
(* it may have, depending on registers that are not modelled:              *)
(*   none      registers only                                              *)
(*   link      it links to a cell, of this program chain or another        *)
(*   menu      it calls a menu, to resume at a cell (0: the present one)   *)
(*   leave     it jumps to another title set                               *)
(*   stop, first_play, past_end                                            *)
(*             it exits, jumps to the first play chain, or runs past the   *)
(*             last program                                                *)
(* From the titles a menu is reached by a call only, which always saves    *)
(* where to resume.  Which chain the machine is in matters to nobody: only *)
(* the number of the cell is used, as one of the chain being walked.       *)
(*                                                                         *)
(* A definition named X_Something is a plausible slip in X, kept to show   *)
(* that a property notices it; nothing else refers to it.                  *)
(***************************************************************************)
EXTENDS SectorRanges, FiniteSets

CONSTANT TitleSets   \* the title sets considered

Kinds == {"none", "link", "menu", "leave", "stop", "first_play", "past_end"}
Effect == [kind : Kinds, cell : Nat]
IsCommand(cmd) == cmd # {} /\ cmd \subseteq Effect

(***************************************************************************)
(* A title set: for each title of the disc whether it belongs to it, and   *)
(* the program chain of each of its chapters; and the program chains.  A   *)
(* cell has one command or none.  A number of a chain may be wrong, and so *)
(* may that of a program: far are the chapters whose chain has fewer.      *)
(***************************************************************************)
Chain == [pre : Seq(SUBSET Effect), post : Seq(SUBSET Effect),
          cells : Seq([first : Sector, last : Sector, cmd : SUBSET Effect])]
IsChain(p) ==
  /\ \A k \in 1..Len(p.pre) : IsCommand(p.pre[k])
  /\ \A k \in 1..Len(p.post) : IsCommand(p.post[k])
  /\ \A k \in 1..Len(p.cells) : p.cells[k].first <= p.cells[k].last

IsTitleSet(d) ==
  /\ d.titles \in Seq([here : BOOLEAN, ptt : Seq(Nat), far : SUBSET Nat])
  /\ d.pgcs \in Seq(Chain) /\ \A p \in 1..Len(d.pgcs) : IsChain(d.pgcs[p])

ASSUME TitleWalkAssumption == \A d \in TitleSets : IsTitleSet(d)

VARIABLES
  titleset,      \* the title set of the call
  pc,            \* the next step
  titleid, c,    \* the title and the chapter
  prev_pgc_id,   \* the program chain walked last in this title, or -1
  i,             \* the command or the cell of the program chain
  vm,            \* what the code reads of the virtual machine
  left           \* history: the titles that were abandoned

position == <<titleid, c, prev_pgc_id, i>>
walk_vars == <<range_list, referenced, titleset, pc, titleid, c, prev_pgc_id, i, vm, left>>

Titles == titleset.titles
pgc_id == Titles[titleid].ptt[c]
cur_pgc == titleset.pgcs[pgc_id]
\* pgn is beyond nr_of_programs.
IsFar == c \in Titles[titleid].far

\* resume is where the last call of a menu resumes; nobody asks before one.
Reset == [domain |-> "FP", here |-> FALSE, cellN |-> 0, past_end |-> FALSE,
          stopped |-> FALSE, resume |-> [here |-> FALSE, cellN |-> 0]]

Machine == [domain : {"FP", "VTS", "menu"}, here : BOOLEAN, cellN : Nat,
            past_end : BOOLEAN, stopped : BOOLEAN,
            resume : [here : BOOLEAN, cellN : Nat]]

WalkInit ==
  /\ Init
  /\ titleset \in TitleSets /\ pc = "open"
  /\ titleid = 1 /\ c = 1 /\ prev_pgc_id = -1 /\ i = 1
  /\ vm = Reset /\ left = {}

SameList == UNCHANGED <<range_list, referenced>>

-----------------------------------------------------------------------------
(* The virtual machine after a command, and what the code makes of it.      *)

vm_exec_cmd(m, e) ==
  CASE e.kind = "none" -> m
    [] e.kind = "link" -> [m EXCEPT !.cellN = e.cell, !.past_end = FALSE]
    [] e.kind = "menu" ->
         [m EXCEPT !.domain = "menu",
                   !.resume = [here |-> m.here,
                               cellN |-> IF e.cell = 0 THEN m.cellN ELSE e.cell]]
    [] e.kind = "leave" -> [m EXCEPT !.here = FALSE, !.cellN = 1]
    [] e.kind = "stop" -> [m EXCEPT !.stopped = TRUE]
    [] e.kind = "first_play" -> [m EXCEPT !.domain = "FP"]
    [] e.kind = "past_end" -> [m EXCEPT !.past_end = TRUE]

\* Menus are not entered: the title goes on where it would be resumed.
Resume_InMenu(m) == m
Resume(m) ==
  IF m.domain # "menu" THEN m
  ELSE [m EXCEPT !.domain = "VTS", !.past_end = IsFar,
                 !.here = m.resume.here, !.cellN = m.resume.cellN]

\* check_vm returns 1, and not -1.
check_vm(m) == m.domain # "FP" /\ ~m.past_end /\ ~m.stopped /\ m.here

\* The states of the machine after command cmd.
After(m, cmd) == {Resume(vm_exec_cmd(m, e)) : e \in cmd}

-----------------------------------------------------------------------------
(* Titles and chapters.                                                     *)

Open ==
  /\ pc = "open"
  /\ pc' = "title"
  /\ UNCHANGED <<titleset, vm, left>> /\ UNCHANGED position /\ SameList

\* An IFO cannot be opened: the list stays empty.
OpenFails ==
  /\ pc = "open"
  /\ pc' = "failed"
  /\ UNCHANGED <<titleset, vm, left>> /\ UNCHANGED position /\ SameList

MoreTitles == pc = "title" /\ titleid <= Len(Titles)

OtherTitle ==
  /\ MoreTitles /\ ~Titles[titleid].here
  /\ titleid' = titleid + 1
  /\ UNCHANGED <<titleset, pc, c, prev_pgc_id, i, vm, left>> /\ SameList

StartTitle_SameSet ==
  /\ MoreTitles /\ Titles[titleid].here
  /\ c' = 1 /\ prev_pgc_id' = -1
  /\ pc' = "chapter"
  /\ UNCHANGED <<titleset, titleid, i, vm, left>> /\ SameList
StartTitle ==
  /\ MoreTitles /\ Titles[titleid].here
  /\ vm' = [vm EXCEPT !.here = TRUE]
  /\ c' = 1 /\ prev_pgc_id' = -1
  /\ pc' = "chapter"
  /\ UNCHANGED <<titleset, titleid, i, left>> /\ SameList

\* The rest of the title is given up; stopped is never reset.
LeaveTitle ==
  /\ left' = left \cup {titleid}
  /\ titleid' = titleid + 1 /\ pc' = "title"
  /\ UNCHANGED <<titleset, c, prev_pgc_id, i>>

MoreChapters == pc = "chapter" /\ c <= Len(Titles[titleid].ptt)
IsWalked_OneShort == pgc_id # 0 /\ pgc_id < Len(titleset.pgcs) /\ pgc_id # prev_pgc_id
IsWalked == pgc_id # 0 /\ pgc_id <= Len(titleset.pgcs) /\ pgc_id # prev_pgc_id

\* Zero, out of range, or the program chain just walked.
SkipChapter ==
  /\ MoreChapters /\ ~IsWalked
  /\ c' = c + 1
  /\ UNCHANGED <<titleset, pc, titleid, prev_pgc_id, i, vm, left>> /\ SameList

StartChain ==
  /\ MoreChapters /\ IsWalked
  /\ vm' = [vm EXCEPT !.domain = "VTS", !.past_end = IsFar, !.cellN = 0]
  /\ i' = 1 /\ pc' = "pre"
  /\ UNCHANGED <<titleset, titleid, c, prev_pgc_id, left>> /\ SameList

EndTitle ==
  /\ pc = "chapter" /\ c > Len(Titles[titleid].ptt)
  /\ titleid' = titleid + 1 /\ pc' = "title"
  /\ UNCHANGED <<titleset, c, prev_pgc_id, i, vm, left>> /\ SameList

Finish ==
  /\ pc = "title" /\ titleid > Len(Titles)
  /\ pc' = "done"
  /\ UNCHANGED <<titleset, vm, left>> /\ UNCHANGED position /\ SameList

-----------------------------------------------------------------------------
(* One program chain.                                                       *)

PreCommand ==
  /\ pc = "pre" /\ i <= Len(cur_pgc.pre)
  /\ vm' \in After(vm, cur_pgc.pre[i])
  /\ IF check_vm(vm')
     THEN i' = i + 1 /\ UNCHANGED <<titleset, pc, titleid, c, prev_pgc_id, left>>
     ELSE LeaveTitle
  /\ SameList

StartCells ==
  /\ pc = "pre" /\ i > Len(cur_pgc.pre)
  /\ i' = 1 /\ pc' = "cell"
  /\ UNCHANGED <<titleset, titleid, c, prev_pgc_id, vm, left>> /\ SameList

Cell == cur_pgc.cells[i]

PlainCell ==
  /\ pc = "cell" /\ i <= Len(cur_pgc.cells) /\ Cell.cmd = {}
  /\ AddCell(Cell.first, Cell.last)
  /\ i' = i + 1
  /\ UNCHANGED <<titleset, pc, titleid, c, prev_pgc_id, vm, left>>

\* The cell that follows, unless the machine is at some other one.
next_cell_Stale(m) == IF m.cellN > 0 THEN m.cellN ELSE i + 1
next_cell(m) == IF m.cellN > 0 /\ m.cellN # i THEN m.cellN ELSE i + 1

CellWithCommand ==
  /\ pc = "cell" /\ i <= Len(cur_pgc.cells) /\ Cell.cmd # {}
  /\ AddCell(Cell.first, Cell.last)
  /\ vm' \in After([vm EXCEPT !.cellN = i], Cell.cmd)
  /\ IF check_vm(vm')
     THEN i' = next_cell(vm') /\ UNCHANGED <<titleset, pc, titleid, c, prev_pgc_id, left>>
     ELSE LeaveTitle

EndCells ==
  /\ pc = "cell" /\ i > Len(cur_pgc.cells)
  /\ i' = 1 /\ pc' = "post"
  /\ UNCHANGED <<titleset, titleid, c, prev_pgc_id, vm, left>> /\ SameList

\* A second check hides the first: the title goes on with its next chapter,
\* though the machine may have stopped or be in another title set.
EndChain ==
  /\ prev_pgc_id' = pgc_id /\ c' = c + 1 /\ pc' = "chapter"
  /\ UNCHANGED <<titleset, titleid, i, left>>

PostCommand ==
  /\ pc = "post" /\ i <= Len(cur_pgc.post)
  /\ vm' \in After(vm, cur_pgc.post[i])
  /\ IF check_vm(vm')
     THEN i' = i + 1 /\ UNCHANGED <<titleset, pc, titleid, c, prev_pgc_id, left>>
     ELSE EndChain
  /\ SameList

EndPost ==
  /\ pc = "post" /\ i > Len(cur_pgc.post)
  /\ EndChain
  /\ UNCHANGED vm /\ SameList

Returned == pc \in {"done", "failed"} /\ UNCHANGED walk_vars

WalkNext ==
  \/ Open \/ OpenFails \/ OtherTitle \/ StartTitle \/ SkipChapter \/ StartChain
  \/ PreCommand \/ StartCells \/ PlainCell \/ CellWithCommand \/ EndCells
  \/ PostCommand \/ EndPost \/ EndTitle \/ Finish \/ Returned

WalkSpec == WalkInit /\ [][WalkNext]_walk_vars

\* The walk is a function that runs until it returns, if it does.
FairWalkSpec == WalkSpec /\ WF_walk_vars(WalkNext)

-----------------------------------------------------------------------------
(* The walk stays within the title set, and so does the list.              *)
WalkTypeOK ==
  /\ range_list \in Seq([start : Sector, end : Sector]) /\ referenced \subseteq Sector
  /\ IsTitleSet(titleset)
  /\ pc \in {"open", "title", "chapter", "pre", "cell", "post", "done", "failed"}
  /\ titleid \in 1..Len(Titles) + 1
  /\ pc \in {"pre", "cell", "post"} => IsWalked
  /\ c \in Nat \ {0} /\ i \in Nat \ {0}
  /\ vm \in Machine /\ vm.domain # "menu"
  /\ left \subseteq 1..Len(Titles)

\* The program chains of the chapters of title t, and the sectors of cell k.
ChainsOf(t) ==
  {Titles[t].ptt[k] : k \in 1..Len(Titles[t].ptt)} \cap 1..Len(titleset.pgcs)
CellSectors(p, k) == titleset.pgcs[p].cells[k].first..titleset.pgcs[p].cells[k].last
CellsOf(p) == 1..Len(titleset.pgcs[p].cells)

Links(p) == \E k \in CellsOf(p) : \E e \in titleset.pgcs[p].cells[k].cmd :
              e.kind = "link" \/ (e.kind = "menu" /\ e.cell # 0)

(* READMEX: the walk follows "each title in the title set".  Of a title    *)
(* that was not abandoned, the first cell of every program chain has been  *)
(* added, and all cells of one in which nothing links to a cell.           *)
WalkIsComplete ==
  pc = "done" =>
    \A t \in 1..Len(Titles) : Titles[t].here /\ t \notin left =>
      \A p \in ChainsOf(t) : \A k \in CellsOf(p) :
        k = 1 \/ ~Links(p) => CellSectors(p, k) \subseteq referenced

\* The commands that a walk of title t may execute, and whether they, or the
\* number of a program, may take it away.
CommandsOf(p) ==
  LET chain == titleset.pgcs[p]
  IN  {chain.pre[k] : k \in 1..Len(chain.pre)}
        \cup {chain.post[k] : k \in 1..Len(chain.post)}
        \cup {chain.cells[k].cmd : k \in CellsOf(p)}
MayLeave(t) ==
  \/ Titles[t].far # {}
  \/ \E p \in ChainsOf(t) : \E cmd \in CommandsOf(p) : \E e \in cmd :
       e.kind \in {"leave", "stop", "first_play", "past_end"}

(* One machine serves all titles, and what earlier ones leave behind in it *)
(* does not end a later one: a title is abandoned on account of one of its *)
(* own commands or chapters, or else a command of an earlier title has     *)
(* stopped the machine for good.                                           *)
LeftForAReason == \A t \in left : MayLeave(t) \/ vm.stopped

(* Unless a command goes back to a cell, or to the cell it is in, the walk *)
(* ends.  (A link to the first cell of another program chain counts: it is *)
(* taken for the first cell of the present one.)                           *)
GoesBack ==
  \E p \in 1..Len(titleset.pgcs) : \E k \in CellsOf(p) :
    \E e \in titleset.pgcs[p].cells[k].cmd :
      e.kind \in {"link", "menu"} /\ e.cell \in 1..k - 1
WalkEnds == ~GoesBack => <>(pc \in {"done", "failed"})
=============================================================================
