-------------------------------- MODULE Mirror --------------------------------
(***************************************************************************)
(* The whole-file copies: DVDMirror, DVDMirrorTitleSet and                 *)
(* DVDMirrorMainFeature with DVDGetFileSet, DVDMirrorTitleX,               *)
(* DVDCopyIfoBup, DVDCopyMenu and DVDCopyTitleVobX, as main() calls them.  *)
(* DVDCopyBlocks appears by its outcome, as module BlockCopy promises it:  *)
(* it succeeds and the file is complete, or fails somewhere in between.    *)
(*                                                                         *)
(* A behaviour is a series of runs on the same target directory.  A run    *)
(* may succeed, fail or be killed; its files are there for the next run,   *)
(* which may ask for something else or have another disc of that name.     *)
(*                                                                         *)
(* A definition named X_Something is a plausible slip in X, kept to show   *)
(* that a property notices it; nothing else refers to it.                  *)
(***************************************************************************)
EXTENDS Integers, Sequences, FiniteSets, SequencesExt

CONSTANTS
  DVD_VIDEO_LB_LEN,   \* bytes of a block; 2048 in libdvdread
  Discs,              \* the discs considered
  MaxSet,             \* the largest title set of any of them
  MaxPart,            \* the largest number of a VOB of any of them
  Obstacles,          \* sets of target files that are not ordinary files
  MaxRuns             \* bound on the number of runs

(***************************************************************************)
(* The size in bytes of each file of each title set of a disc, 0 if there  *)
(* is none.  Title set 0 is the video manager and has no title VOBs.       *)
(***************************************************************************)
IsDisc(d) ==
  /\ \E n \in 0..MaxSet : DOMAIN d = 0..n
  /\ d[0].size_vob = <<>>
  /\ \A t \in DOMAIN d : /\ d[t].size_ifo \in Nat /\ d[t].size_menu \in Nat
                         /\ d[t].size_vob \in Seq(Nat) /\ Len(d[t].size_vob) <= MaxPart

ASSUME MirrorAssumption ==
  /\ DVD_VIDEO_LB_LEN \in Nat \ {0} /\ MaxSet \in Nat /\ MaxPart \in Nat
  /\ MaxRuns \in Nat \ {0}
  /\ \A d \in Discs : IsDisc(d)

\* Target files: VTS_tt_0.IFO and .BUP, and VTS_tt_0.VOB, VTS_tt_1.VOB, ...
IFO == -2
BUP == -1
MENU == 0
File == (0..MaxSet) \X (IFO..MaxPart)

\* A file: "absent", "other" than ordinary, "begun" or "done"; the run that
\* wrote it; and the blocks of its domain that it holds when it is done.
Content(state, r, from, blocks) ==
  [state |-> state, run |-> r, from |-> from, blocks |-> blocks]
Absent == Content("absent", 0, 0, 0)
Other == Content("other", 0, 0, 0)

VARIABLES
  disc, call, run,   \* the disc, what is asked for, the number of this run
  pc,                \* the next step
  title_set, vob,    \* the title set and the VOB being copied
  files,             \* the target directory
  streams,           \* output descriptors of the process
  closed,            \* how often the DVD handle has been closed
  result             \* -1 until the function returns, then 0 or 1

vars == <<disc, call, run, pc, title_set, vob, files, streams, closed, result>>
request == <<disc, call, run>>
report == <<closed, result>>

Calls == {[mode |-> "mirror"], [mode |-> "feature"]}
           \cup [mode : {"title_set"}, title_set : 0..MaxSet + 1]

Init ==
  /\ disc \in Discs /\ call \in Calls /\ run = 1
  /\ pc = "file_set" /\ title_set = 0 /\ vob = 0
  /\ \E blocked \in Obstacles :
       files = [f \in File |-> IF f \in blocked THEN Other ELSE Absent]
  /\ streams = 0 /\ closed = 0 /\ result = -1

-----------------------------------------------------------------------------
number_of_title_sets == Cardinality(DOMAIN disc) - 1
Set == disc[title_set]

IsValidSize(bytes) == bytes % DVD_VIDEO_LB_LEN = 0
Blocks(bytes) == bytes \div DVD_VIDEO_LB_LEN

\* Where a VOB begins in the title domain of its title set.
Offset_AllVobs(v) == FoldLeft(LAMBDA n, bytes : n + Blocks(bytes), 0, Set.size_vob)
Offset(v) ==
  FoldLeft(LAMBDA n, bytes : n + Blocks(bytes), 0, SubSeq(Set.size_vob, 1, v - 1))

At(slot) == <<title_set, slot>>
Begin(slot) == files' = [files EXCEPT ![At(slot)] = Content("begun", run, 0, 0)]
Done(slot, from, blocks) ==
  files' = [files EXCEPT ![At(slot)] = Content("done", run, from, blocks)]

Return(code) == pc' = "returned" /\ result' = code
Stay == UNCHANGED <<title_set, vob>>

\* A function fails; n of its descriptors are closed.
Fail(n) ==
  /\ Return(1) /\ streams' = streams - n
  /\ UNCHANGED <<request, files, closed>> /\ Stay

-----------------------------------------------------------------------------
(* What to copy.                                                            *)

\* DVDMirror and DVDMirrorTitleSet close the DVD, and main() closes it again.
FileSetFails ==
  /\ pc = "file_set"
  /\ Return(1)
  /\ closed' = closed + (IF call.mode = "feature" THEN 0 ELSE 1)
  /\ UNCHANGED <<request, files, streams>> /\ Stay

NoSuchTitleSet ==
  /\ pc = "file_set" /\ call.mode = "title_set"
  /\ call.title_set > number_of_title_sets
  /\ Return(1)
  /\ UNCHANGED <<request, files, streams, closed>> /\ Stay

\* The main feature is in the title set that DVDGetInfo guesses.
Chosen ==
  CASE call.mode = "mirror" -> {0}
    [] call.mode = "title_set" -> {call.title_set}
    [] call.mode = "feature" -> 1..number_of_title_sets

FileSet ==
  /\ pc = "file_set"
  /\ title_set' \in Chosen \cap DOMAIN disc
  /\ pc' = "ifo"
  /\ UNCHANGED <<request, vob, files, streams, closed, result>>

-----------------------------------------------------------------------------
(* DVDCopyIfoBup.                                                           *)

SkipIfo ==
  /\ pc = "ifo" /\ Set.size_ifo = 0
  /\ pc' = "menu"
  /\ UNCHANGED <<request, files, streams, report>> /\ Stay

\* The size is odd, or the name of one of the two files is taken.
RefuseIfo ==
  /\ pc = "ifo" /\ Set.size_ifo # 0
  /\ ~IsValidSize(Set.size_ifo) \/ Other \in {files[At(IFO)], files[At(BUP)]}
  /\ Fail(0)

OpenIfo ==
  /\ pc = "ifo" /\ Set.size_ifo # 0 /\ IsValidSize(Set.size_ifo)
  /\ Other \notin {files[At(IFO)], files[At(BUP)]}
  /\ Begin(IFO) /\ streams' = streams + 1
  /\ pc' = "bup"
  /\ UNCHANGED <<request, report>> /\ Stay

\* No memory for the names, or no descriptor.
OpenIfoFails == pc = "ifo" /\ Set.size_ifo # 0 /\ Fail(0)

OpenBup ==
  /\ pc = "bup"
  /\ Begin(BUP) /\ streams' = streams + 1
  /\ pc' = "read_ifo"
  /\ UNCHANGED <<request, report>> /\ Stay

OpenBupFails == pc = "bup" /\ Fail(1)

\* Both files are truncated before the first byte is read.
ReadIfo ==
  /\ pc = "read_ifo"
  /\ pc' = "write_ifo"
  /\ UNCHANGED <<request, files, streams, report>> /\ Stay

WriteIfo_Nothing ==
  /\ pc = "write_ifo"
  /\ pc' = "write_bup"
  /\ UNCHANGED <<request, files, streams, report>> /\ Stay
WriteIfo ==
  /\ pc = "write_ifo"
  /\ Done(IFO, 0, Blocks(Set.size_ifo))
  /\ pc' = "write_bup"
  /\ UNCHANGED <<request, streams, report>> /\ Stay

\* Neither file is closed.
WriteBup ==
  /\ pc = "write_bup"
  /\ Done(BUP, 0, Blocks(Set.size_ifo))
  /\ pc' = "menu"
  /\ UNCHANGED <<request, streams, report>> /\ Stay

\* The IFO cannot be opened or read, or the disk is full.
IfoFails_GoesOn ==
  /\ pc \in {"read_ifo", "write_ifo", "write_bup"}
  /\ pc' = "menu" /\ streams' = streams - 2
  /\ UNCHANGED <<request, files, report>> /\ Stay
IfoFails == pc \in {"read_ifo", "write_ifo", "write_bup"} /\ Fail(2)

-----------------------------------------------------------------------------
(* DVDCopyMenu.                                                             *)

SkipMenu ==
  /\ pc = "menu" /\ Set.size_menu = 0
  /\ pc' = "vob" /\ vob' = 1
  /\ UNCHANGED <<request, title_set, files, streams, report>>

OpenMenu ==
  /\ pc = "menu" /\ Set.size_menu # 0 /\ files[At(MENU)] # Other
  /\ Begin(MENU) /\ streams' = streams + 1
  /\ pc' = "copy_menu"
  /\ UNCHANGED <<request, report>> /\ Stay

\* The name is taken, or the DVD file, the name or the file fails.
OpenMenuFails == pc = "menu" /\ Set.size_menu # 0 /\ Fail(0)

\* An odd size is warned of; what remains of the last block is not copied.
CopyMenu ==
  /\ pc = "copy_menu"
  /\ Done(MENU, 0, Blocks(Set.size_menu)) /\ streams' = streams - 1
  /\ pc' = "vob" /\ vob' = 1
  /\ UNCHANGED <<request, title_set, report>>

CopyMenuFails == pc = "copy_menu" /\ Fail(1)

-----------------------------------------------------------------------------
(* DVDCopyTitleVobX, for each VOB of the title set.                         *)

number_of_vob_files == Len(Set.size_vob)
MoreVobs == pc = "vob" /\ vob <= number_of_vob_files
IsEmptyVob == Set.size_vob[1] = 0 \/ Set.size_vob[vob] = 0

SkipVob ==
  /\ MoreVobs /\ IsEmptyVob
  /\ vob' = vob + 1
  /\ UNCHANGED <<request, pc, title_set, files, streams, report>>

CanCopyVob ==
  /\ MoreVobs /\ ~IsEmptyVob
  /\ \A v \in 1..vob : IsValidSize(Set.size_vob[v])
  /\ files[At(vob)] # Other

OpenVob ==
  /\ CanCopyVob
  /\ Begin(vob) /\ streams' = streams + 1
  /\ pc' = "copy_vob"
  /\ UNCHANGED <<request, report>> /\ Stay

\* It cannot be copied, or there is no memory or descriptor for it.
OpenVobFails == MoreVobs /\ ~IsEmptyVob /\ Fail(0)

CopyVob_NotClosed ==
  /\ pc = "copy_vob"
  /\ Done(vob, Offset(vob), Blocks(Set.size_vob[vob]))
  /\ pc' = "vob" /\ vob' = vob + 1
  /\ UNCHANGED <<request, title_set, streams, report>>
CopyVob ==
  /\ pc = "copy_vob"
  /\ Done(vob, Offset(vob), Blocks(Set.size_vob[vob])) /\ streams' = streams - 1
  /\ pc' = "vob" /\ vob' = vob + 1
  /\ UNCHANGED <<request, title_set, report>>

\* The DVD file cannot be opened, or DVDCopyBlocks fails.
CopyVobFails == pc = "copy_vob" /\ Fail(1)

-----------------------------------------------------------------------------
(* The loop of DVDMirror, and main().                                       *)

SetIsDone == pc = "vob" /\ vob > number_of_vob_files

NextSet_AnyMode ==
  /\ SetIsDone /\ title_set < number_of_title_sets
  /\ title_set' = title_set + 1
  /\ pc' = "ifo"
  /\ UNCHANGED <<request, vob, files, streams, report>>
NextSet ==
  /\ SetIsDone /\ call.mode = "mirror" /\ title_set < number_of_title_sets
  /\ title_set' = title_set + 1
  /\ pc' = "ifo"
  /\ UNCHANGED <<request, vob, files, streams, report>>

AllDone_OneShort ==
  /\ SetIsDone /\ (call.mode = "mirror" => title_set >= number_of_title_sets - 1)
  /\ Return(0)
  /\ UNCHANGED <<request, files, streams, closed>> /\ Stay
AllDone ==
  /\ SetIsDone /\ (call.mode = "mirror" => title_set >= number_of_title_sets)
  /\ Return(0)
  /\ UNCHANGED <<request, files, streams, closed>> /\ Stay

\* main() closes the DVD; the exit status is 0 or -1.
Exit ==
  /\ pc = "returned"
  /\ closed' = closed + 1 /\ streams' = 0
  /\ pc' = "exited"
  /\ UNCHANGED <<request, files, result>> /\ Stay

Step ==
  \/ FileSetFails \/ NoSuchTitleSet \/ FileSet
  \/ SkipIfo \/ RefuseIfo \/ OpenIfo \/ OpenIfoFails \/ OpenBup \/ OpenBupFails
  \/ ReadIfo \/ WriteIfo \/ WriteBup \/ IfoFails
  \/ SkipMenu \/ OpenMenu \/ OpenMenuFails \/ CopyMenu \/ CopyMenuFails
  \/ SkipVob \/ OpenVob \/ OpenVobFails \/ CopyVob \/ CopyVobFails
  \/ NextSet \/ AllDone \/ Exit

Ended == pc \in {"exited", "killed"}

Killed ==
  /\ ~Ended
  /\ pc' = "killed" /\ streams' = 0
  /\ UNCHANGED <<request, files, report>> /\ Stay

RunAgain ==
  /\ Ended /\ run < MaxRuns
  /\ disc' \in Discs /\ call' \in Calls /\ run' = run + 1
  /\ pc' = "file_set" /\ title_set' = 0 /\ vob' = 0
  /\ streams' = 0 /\ closed' = 0 /\ result' = -1
  /\ UNCHANGED files

AllRunsEnded == Ended /\ run = MaxRuns /\ UNCHANGED vars

Next == Step \/ Killed \/ RunAgain \/ AllRunsEnded

Spec == Init /\ [][Next]_vars

-----------------------------------------------------------------------------
TypeOK ==
  /\ disc \in Discs /\ call \in Calls /\ run \in 1..MaxRuns
  /\ pc \in {"file_set", "ifo", "bup", "read_ifo", "write_ifo", "write_bup", "menu",
             "copy_menu", "vob", "copy_vob", "returned", "exited", "killed"}
  /\ title_set \in DOMAIN disc /\ vob \in 0..MaxPart + 1
  /\ files \in [File -> [state : {"absent", "other", "begun", "done"}, run : 0..MaxRuns,
                         from : Nat, blocks : Nat]]
  /\ streams \in Nat /\ closed \in 0..2 /\ result \in {-1, 0, 1}

Working == pc \notin {"file_set", "returned", "exited", "killed"}
Succeeded == pc \in {"returned", "exited"} /\ result = 0

\* The files of a title set of the disc that have something in them.
Bytes(t, slot) ==
  CASE slot \in {IFO, BUP} -> disc[t].size_ifo
    [] slot = MENU -> disc[t].size_menu
    [] slot \in 1..Len(disc[t].size_vob) -> disc[t].size_vob[slot]
    [] OTHER -> 0
Present(t) == {slot \in IFO..MaxPart : Bytes(t, slot) > 0}

\* Written by this run: to the end, that is, to the last whole block; and to
\* the last byte.
IsDone(t, slot) ==
  /\ files[<<t, slot>>].state = "done" /\ files[<<t, slot>>].run = run
  /\ files[<<t, slot>>].blocks = Blocks(Bytes(t, slot))
IsWhole(t, slot) ==
  /\ files[<<t, slot>>].state = "done" /\ files[<<t, slot>>].run = run
  /\ files[<<t, slot>>].blocks * DVD_VIDEO_LB_LEN = Bytes(t, slot)

\* A menu that is not a number of whole blocks loses its end; and behind an
\* empty first VOB the others are passed over.
CutOff(t) == IF IsValidSize(disc[t].size_menu) THEN {} ELSE {MENU}
PassedOver(t) ==
  IF disc[t].size_vob # <<>> /\ disc[t].size_vob[1] = 0 THEN Present(t) \cap 1..MaxPart
  ELSE {}

\* No file of the title set is short or missing but these, and these are.
IsCopied(t) == {slot \in Present(t) : ~IsWhole(t, slot)} = CutOff(t) \cup PassedOver(t)

Selected ==
  CASE call.mode = "mirror" -> DOMAIN disc
    [] call.mode = "title_set" -> {call.title_set}
    [] call.mode = "feature" -> {title_set}

(* What "0 on success" (README:99-103) is worth: of the title sets asked   *)
(* for, each file that the disc has was written by this very run in its    *)
(* full size, whatever runs before it left, except a menu of an odd size,  *)
(* which is cut off, and the VOBs behind an empty first one, which are     *)
(* passed over; their IFO, BUP and menu are not.  (1034, 1157-1160)        *)
(* README:22-24 promises an exact duplicate, with neither exception.       *)
WhatSuccessLeavesOut == Succeeded => \A t \in Selected : IsCopied(t)

(* The mirror proceeds title set by title set: if anything of one has been *)
(* written in this run, all those before it are as complete as they ever   *)
(* get.  A run that failed or was killed has damaged one title set at most.*)
OneSetAtATime ==
  \A t \in DOMAIN disc : (\E slot \in IFO..MaxPart : files[<<t, slot>>].run = run) =>
    \A u \in DOMAIN disc : u < t /\ call.mode = "mirror" => IsCopied(u)

(* The BUP is the copy to fall back on when the IFO is damaged.  It is     *)
(* complete only after its IFO was in the same run, though a later run may *)
(* have damaged the IFO since: it is opened, and so truncated, first.      *)
BackupComesSecond ==
  \A t \in 0..MaxSet :
    LET ifo == files[<<t, IFO>>]
        bup == files[<<t, BUP>>]
    IN bup.state = "done" => ifo.run > bup.run \/ (ifo.state = "done" /\ ifo = bup)

(* A run opens, and so truncates, what earlier runs made, and may end      *)
(* before it has filled it again.  However each of several runs ends, the  *)
(* files it leaves torn are one file, or an IFO and its BUP: these are     *)
(* both truncated before a byte is read (1299-1325), so that both copies   *)
(* may be lost, but never those of another title set, or a VOB besides.    *)
TornFilesBelongTogether ==
  \A f, g \in File :
    /\ f # g /\ files[f].state = "begun" /\ files[g].state = "begun"
    /\ files[f].run = files[g].run
    => f[1] = g[1] /\ {f[2], g[2]} = {IFO, BUP}

(* The VOBs of a title set written by one run are consecutive pieces of    *)
(* its title domain: nothing is missing or twice at the joints.            *)
VobsFitTogether ==
  \A t \in DOMAIN disc : \A v \in 1..MaxPart - 1 :
    IsDone(t, v) /\ IsDone(t, v + 1) =>
      files[<<t, v + 1>>].from = files[<<t, v>>].from + files[<<t, v>>].blocks

(* Files of title sets that were not asked for are never touched, nor is   *)
(* anything that is not an ordinary file.                                  *)
OnlyWhatIsAsked ==
  [][\A f \in File :
       files[f] = Other \/ f[1] \notin Selected => files'[f] = files[f]]_vars

(* Two descriptors stay open for each title set that is mirrored, the IFO  *)
(* and the BUP; besides these at most one is ever open, so that the 100    *)
(* title sets of a DVD stay far from the usual limit of 1024.              *)
DescriptorsAreBounded ==
  streams <= 2 * (IF call.mode = "mirror" THEN title_set + 1 ELSE 1) + 1

(* README:16-17 and 22-24: one directory serves for all backups, and a     *)
(* mirror is an exact duplicate, so it has no file that the disc has not.  *)
ExactDuplicate ==
  Succeeded /\ call.mode = "mirror" =>
    \A f \in File : files[f].state # "absent" =>
      f[1] \in DOMAIN disc /\ f[2] \in Present(f[1])
=============================================================================
