------------------------------ MODULE WriteCells ------------------------------
(***************************************************************************)
(* DVDWriteCells of dvdbackup.c: the cells of a title or of some chapters, *)
(* sorted and aligned by the caller, are appended to VTS_XX_1.VOB,         *)
(* VTS_XX_2.VOB and so on, a new part being opened whenever one is full.   *)
(*                                                                         *)
(* A behaviour is a series of runs of the program on the same target       *)
(* directory: each run may succeed, fail, or be killed at any step, and    *)
(* the files it leaves behind are there when the next run starts.          *)
(*                                                                         *)
(* A definition named X_Something is a plausible slip in X, kept to show   *)
(* that a property notices it; nothing else refers to it.                  *)
(***************************************************************************)
EXTENDS Cells, SequencesExt

CONSTANTS
  BUFFER_SIZE,    \* blocks per read; 512 in the code
  MAX_VOB_SIZE,   \* blocks per part; 524288 in the code
  PARTS,          \* parts a title set can have; 10 in the code
  Requests,       \* the calls considered
  MaxRuns,        \* bound on the number of runs
  ABSENT          \* a file that does not exist

Part == 1..PARTS

(***************************************************************************)
(* A call: the cells, the title set they are in, and whether the target    *)
(* directory is writable in this run, that is, whether unlink() works and  *)
(* files can be created.  The cells are as align_end_sector leaves them:   *)
(* InOrder is what ChaptersProofs proves of them.  The parts are those of  *)
(* one title set, which the calls are for, unless they are for the VMG, 0. *)
(***************************************************************************)
IsRequest(r) ==
  /\ r.title_set \in Nat /\ r.writable \in BOOLEAN
  /\ r.cells \in Seq(Cell) /\ InOrder(r.cells)

\* What the code takes from a cell: all but its last sector.
CellBlocks(cell) == [n \in 1..(cell.end - cell.start) |-> cell.start + n - 1]
Wanted(cells) == FlattenSeq([k \in 1..Len(cells) |-> CellBlocks(cells[k])])

ASSUME WriteAssumption ==
  /\ BUFFER_SIZE \in Nat \ {0} /\ MAX_VOB_SIZE \in Nat \ {0} /\ PARTS \in Nat \ {0}
  /\ MaxRuns \in Nat \ {0} /\ ABSENT \notin Seq(Nat)
  /\ \A r \in Requests : IsRequest(r) /\ Len(Wanted(r.cells)) <= PARTS * MAX_VOB_SIZE
  /\ \A r, q \in Requests : 0 \in {r.title_set, q.title_set} \/ r.title_set = q.title_set

VARIABLES
  request, runs,   \* the call of this run; the number of runs
  pc,              \* the next step
  i,               \* cells taken up so far
  left, soffset,   \* blocks left of the cell, and the next one
  size, vob,       \* blocks in the current part, and its number
  have_read,       \* the result of the last read
  files,           \* the parts on disk, each a sequence of source blocks
  streams,         \* open output descriptors of this run
  held,            \* "targetname", "buffer", "dvd_file": what is allocated
  result           \* what the function returned, or -1

vars == <<request, runs, pc, i, left, soffset, size, vob, have_read, files,
          streams, held, result>>
loop == <<i, left, soffset, size, vob, have_read>>

Init ==
  /\ request \in Requests /\ runs = 1
  /\ pc = "unlink" /\ i = 0 /\ left = 0 /\ soffset = 0 /\ size = 0 /\ vob = 1
  /\ have_read = 0 /\ streams = 0 /\ held = {} /\ result = -1
  /\ files = [v \in Part |-> ABSENT]

Return(code) == pc' = "returned" /\ result' = code
Fail(keeps) == Return(1) /\ held' = keeps /\ streams' = 0

-----------------------------------------------------------------------------
(* Before the copy.                                                         *)

\* Out of memory for the filename: nothing has happened yet.
NoName ==
  /\ pc = "unlink" /\ Fail({})
  /\ UNCHANGED <<request, runs, loop, files>>

\* All parts of an earlier run are removed; errors are ignored.  For title set
\* 0 the names are those of no part.
Removes == request.writable /\ request.title_set # 0
Unlink_OffByOne ==
  /\ pc = "unlink"
  /\ files' = [v \in Part |-> IF Removes /\ v < PARTS THEN ABSENT ELSE files[v]]
  /\ held' = {"targetname"}
  /\ pc' = "create"
  /\ UNCHANGED <<request, runs, loop, streams, result>>
Unlink ==
  /\ pc = "unlink"
  /\ files' = [v \in Part |-> IF Removes THEN ABSENT ELSE files[v]]
  /\ held' = {"targetname"}
  /\ pc' = "create"
  /\ UNCHANGED <<request, runs, loop, streams, result>>

\* The VMG domain has no chapters; or there is no memory for the buffer.
Refuse ==
  /\ pc = "create"
  /\ Fail({})
  /\ UNCHANGED <<request, runs, loop, files>>

\* open() with O_CREAT | O_APPEND.
CanOpen(v) == request.writable \/ files[v] # ABSENT
Open(v) == files' = [files EXCEPT ![v] = IF @ = ABSENT THEN <<>> ELSE @]

Create ==
  /\ pc = "create" /\ request.title_set # 0 /\ CanOpen(vob)
  /\ Open(vob)
  /\ streams' = streams + 1 /\ held' = held \cup {"buffer"}
  /\ pc' = "opendvd"
  /\ UNCHANGED <<request, runs, loop, result>>

\* The buffer is not freed.
CreateFails ==
  /\ pc = "create" /\ request.title_set # 0
  /\ Fail({"buffer"})
  /\ UNCHANGED <<request, runs, loop, files>>

OpenDvd ==
  /\ pc = "opendvd"
  /\ held' = held \cup {"dvd_file"}
  /\ pc' = "cell"
  /\ UNCHANGED <<request, runs, loop, files, streams, result>>

OpenDvdFails ==
  /\ pc = "opendvd" /\ Fail({})
  /\ UNCHANGED <<request, runs, loop, files>>

-----------------------------------------------------------------------------
(* The copy.                                                                *)

NextCell_KeepOffset ==
  /\ pc = "cell" /\ i < Len(request.cells)
  /\ i' = i + 1
  /\ left' = request.cells[i + 1].end - request.cells[i + 1].start
  /\ pc' = "read"
  /\ UNCHANGED <<request, runs, soffset, size, vob, have_read, files, streams, held, result>>
NextCell ==
  /\ pc = "cell" /\ i < Len(request.cells)
  /\ i' = i + 1
  /\ left' = request.cells[i + 1].end - request.cells[i + 1].start
  /\ soffset' = request.cells[i + 1].start
  /\ pc' = "read"
  /\ UNCHANGED <<request, runs, size, vob, have_read, files, streams, held, result>>

EndOfCell ==
  /\ pc = "read" /\ left <= 0
  /\ pc' = "cell"
  /\ UNCHANGED <<request, runs, loop, files, streams, held, result>>

Smallest(S) == CHOOSE n \in S : \A m \in S : n <= m

\* No more than is left of the cell, fits in the part, or fits in the buffer.
\* It is 0 when the last cell has filled the part.
to_read_AnyPart == Smallest({left, BUFFER_SIZE})
to_read == Smallest({left, MAX_VOB_SIZE - size, BUFFER_SIZE})

\* DVDReadBlocks may read less than it is asked for.
Reads(n) ==
  /\ pc = "read" /\ left > 0
  /\ have_read' = n
  /\ pc' = "write"
  /\ UNCHANGED <<request, runs, i, left, soffset, size, vob, files, streams, held, result>>

Read == \E n \in 0..to_read : Reads(n)
ReadSome == \E n \in 1..to_read : Reads(n)

ReadFails ==
  /\ pc = "read" /\ left > 0 /\ to_read > 0
  /\ Fail({})
  /\ UNCHANGED <<request, runs, loop, files>>

\* write() of the first n blocks that were read, at the end of the part.
Append_(n) ==
  files' = [files EXCEPT ![vob] = @ \o [k \in 1..n |-> soffset + k - 1]]

\* A part that is full is closed if there is more to come in this cell.
PartIsFull_Strict == size + have_read > MAX_VOB_SIZE /\ left - have_read > 0
PartIsFull == size + have_read >= MAX_VOB_SIZE /\ left - have_read > 0

Write_KeepOpen ==
  /\ pc = "write"
  /\ Append_(have_read)
  /\ soffset' = soffset + have_read
  /\ left' = left - have_read
  /\ size' = size + have_read
  /\ pc' = IF PartIsFull THEN "rotate" ELSE "read"
  /\ UNCHANGED <<request, runs, i, vob, have_read, streams, held, result>>
Write ==
  /\ pc = "write"
  /\ Append_(have_read)
  /\ soffset' = soffset + have_read
  /\ left' = left - have_read
  /\ size' = size + have_read
  /\ pc' = IF PartIsFull THEN "rotate" ELSE "read"
  /\ streams' = IF PartIsFull THEN streams - 1 ELSE streams
  /\ UNCHANGED <<request, runs, i, vob, have_read, held, result>>

\* A full disk.  The DVD file is not closed.
WriteFails ==
  /\ pc = "write"
  /\ \E n \in 0..(have_read - 1) : Append_(n)
  /\ Fail({"dvd_file"})
  /\ UNCHANGED <<request, runs, loop>>

Rotate ==
  /\ pc = "rotate" /\ CanOpen(vob + 1)
  /\ vob' = vob + 1 /\ size' = 0
  /\ Open(vob + 1)
  /\ streams' = streams + 1
  /\ pc' = "read"
  /\ UNCHANGED <<request, runs, i, left, soffset, have_read, held, result>>

\* Neither the DVD file nor the buffer is released.
RotateFails ==
  /\ pc = "rotate"
  /\ vob' = vob + 1 /\ size' = 0
  /\ Fail({"dvd_file", "buffer"})
  /\ UNCHANGED <<request, runs, i, left, soffset, have_read, files>>

Finish ==
  /\ pc = "cell" /\ i >= Len(request.cells)
  /\ Return(0) /\ held' = {} /\ streams' = streams - 1
  /\ UNCHANGED <<request, runs, loop, files>>

Step ==
  \/ NoName \/ Unlink \/ Refuse \/ Create \/ CreateFails \/ OpenDvd \/ OpenDvdFails
  \/ NextCell \/ EndOfCell \/ Read \/ ReadFails \/ Write \/ WriteFails
  \/ Rotate \/ RotateFails \/ Finish

-----------------------------------------------------------------------------
(* Around the call.                                                         *)

Ended == pc \in {"returned", "killed"}

\* The user interrupts the program: only the files survive.
Killed ==
  /\ ~Ended
  /\ pc' = "killed" /\ streams' = 0 /\ held' = {}
  /\ UNCHANGED <<request, runs, loop, files, result>>

RunAgain ==
  /\ Ended /\ runs < MaxRuns
  /\ request' \in Requests /\ runs' = runs + 1
  /\ pc' = "unlink" /\ i' = 0 /\ left' = 0 /\ soffset' = 0 /\ size' = 0 /\ vob' = 1
  /\ have_read' = 0 /\ streams' = 0 /\ held' = {} /\ result' = -1
  /\ UNCHANGED files

AllRunsEnded == Ended /\ runs = MaxRuns /\ UNCHANGED vars

Next == Step \/ Killed \/ RunAgain \/ AllRunsEnded

Spec == Init /\ [][Next]_vars

\* The function is sequential code; and a drive is only useful if it delivers
\* something in the end.  (One that returns 0 for ever is read for ever.)
FairSpec == Spec /\ WF_vars(Step) /\ SF_vars(ReadSome)

-----------------------------------------------------------------------------
TypeOK ==
  /\ IsRequest(request) /\ runs \in 1..MaxRuns
  /\ pc \in {"unlink", "create", "opendvd", "cell", "read", "write", "rotate",
             "returned", "killed"}
  /\ i \in 0..Len(request.cells) /\ left \in Int /\ soffset \in Nat
  /\ size \in 0..MAX_VOB_SIZE /\ vob \in 1..PARTS
  /\ have_read \in 0..BUFFER_SIZE
  /\ \A v \in Part : files[v] = ABSENT \/ files[v] \in Seq(Nat)
  /\ streams \in Nat /\ held \subseteq {"targetname", "buffer", "dvd_file"}
  /\ result \in {-1, 0, 1}

\* This run has removed what was there before, and created its first part.
Started == request.writable /\ pc \notin {"unlink", "create"} /\ files[1] # ABSENT
Copying == Started /\ pc \in {"opendvd", "cell", "read", "write", "rotate"}
Succeeded == request.writable /\ pc = "returned" /\ result = 0

\* Everything that is on disk, in the order a player reads it.
Existing == {v \in Part : files[v] # ABSENT}
Stream == FlattenSeq([v \in 1..Cardinality(Existing) |-> files[v]])

(* Whatever the boundaries of buffers, parts and cells, and whatever was   *)
(* left by runs that failed or were killed: the parts on disk are numbered *)
(* without a gap and hold a prefix of the blocks of the cells, in order,   *)
(* nothing twice and nothing left out.                                     *)
PrefixOnDisk ==
  Copying => /\ Existing = 1..vob
             /\ IsPrefix(Stream, Wanted(request.cells))

(* A run that succeeds leaves the blocks of its cells and nothing else, so *)
(* that no part of a longer earlier title survives behind them.            *)
OnlyTheCells == Succeeded => Existing = 1..vob /\ Stream = Wanted(request.cells)

(* No part is larger than a VOB may be, and every part but the last is     *)
(* exactly that large.                                                     *)
PartsAreFull ==
  Copying \/ Succeeded =>
    \A v \in Existing : /\ Len(files[v]) <= MAX_VOB_SIZE
                        /\ v < vob => Len(files[v]) = MAX_VOB_SIZE

(* On every path the part being left is closed before the next is opened   *)
(* or the function returns; and a run that succeeds holds nothing.         *)
StreamsAreClosed ==
  /\ streams <= 1
  /\ pc = "returned" => streams = 0 /\ "targetname" \notin held
  /\ result = 0 => held = {}

(* A run ends, if it is not killed before: in particular the read of 0     *)
(* blocks when a cell has filled a part leads on to the next part.         *)
EveryRunEnds == pc = "unlink" ~> Ended

(* README:83-87: all sectors of the chapters are backed up.                *)
EverySectorOfTheCells ==
  Succeeded =>
    \A k \in 1..Len(request.cells) :
      \A n \in SectorsOf(request.cells[k]) :
        \E p \in 1..Len(Stream) : Stream[p] = n
=============================================================================
