------------------------------ MODULE CommandLine ------------------------------
(***************************************************************************)
(* main() of main.c from its arguments to its exit status, for several     *)
(* runs of the program at a time: which command lines are accepted, where  *)
(* the title name comes from, and how the directories                      *)
(* <targetdir>/<title name>/VIDEO_TS are made, by a stat() and a mkdir()   *)
(* each, between which the other runs go on.  The backup itself is in      *)
(* modules Mirror and Chapters, and has an outcome only.                   *)
(*                                                                         *)
(* A definition named X_Something is a plausible slip in X, kept to show   *)
(* that a property notices it; nothing else refers to it.                  *)
(***************************************************************************)
EXTENDS TitleName, FiniteSets

CONSTANTS
  Runs,      \* the runs of the program
  Calls,     \* what the runs are called with, and the label of their discs
  Trees,     \* the directories and files that are there before
  Generic    \* the label that stands for DVD_VIDEO

\* help: -h or -V.  asked: the options of a mode.  wrong: an unknown option
\* or an operand, or a value that is not accepted.  name: that of -n, in
\* which there is no slash.
Command == [help : BOOLEAN, asked : SUBSET {"I", "M", "F", "T", "t", "s", "e"},
            wrong : SUBSET {"option", "strategy", "aspect", "number"},
            name : {<<NUL>>} \cup Seq(Char)]
NoName == <<NUL>>

\* The directory in which a directory is.
Up(path) ==
  IF Len(path) = 2 /\ path[1] # <<>> THEN <<path[1]>> ELSE <<>>
IsTree(t) ==
  /\ t.dirs \cap t.files = {}
  /\ \A path \in t.dirs : path # <<>> => Up(path) \in t.dirs

ASSUME CommandLineAssumption ==
  /\ IsFiniteSet(Runs) /\ \A t \in Trees : IsTree(t)
  /\ \A call \in Calls : call \in [Runs -> [command : Command, label : Label]]
  /\ Generic \in Seq(Char)

VARIABLES
  call,            \* the arguments of each run
  pc,              \* the next step of each run
  title_name,      \* the title name, once it is known
  level,           \* which of the three directories comes next
  status,          \* the exit status, 0 before the exit
  dirs, files,     \* the paths of the file system that are taken
  made,            \* history: the directories a run has made
  refused,         \* history: the runs whose mkdir() might have succeeded, and failed
  tree             \* history: the file system before

vars == <<call, pc, title_name, level, status, dirs, files, made, refused, tree>>

Given(r) == call[r].command

Init ==
  /\ call \in Calls
  /\ tree \in Trees /\ dirs = tree.dirs /\ files = tree.files
  /\ pc = [r \in Runs |-> "arguments"]
  /\ title_name = [r \in Runs |-> NoName]
  /\ level = [r \in Runs |-> 1]
  /\ status = [r \in Runs |-> 0]
  /\ made = [r \in Runs |-> {}]
  /\ refused = {}

SameDisk == UNCHANGED <<call, dirs, files, made, refused, tree>>

Exit(r, code) ==
  /\ pc' = [pc EXCEPT ![r] = "exited"]
  /\ status' = [status EXCEPT ![r] = code]
  /\ UNCHANGED <<title_name, level>>

GoTo(r, step) ==
  /\ pc' = [pc EXCEPT ![r] = step]
  /\ UNCHANGED status

-----------------------------------------------------------------------------
(* The arguments.                                                           *)

\* The modes; -s and -e make a mode together with -t only.
operations(c) ==
  (c.asked \cap {"I", "M", "F", "T"})
    \cup IF "t" \notin c.asked THEN {}
         ELSE IF c.asked \cap {"s", "e"} = {} THEN {"titles"} ELSE {"chapters"}

UsageError(c) ==
  \/ c.wrong \ {"aspect"} # {}
  \/ "aspect" \in c.wrong /\ "I" \notin c.asked
  \/ Cardinality(operations(c)) # 1

Help(r) ==
  /\ pc[r] = "arguments" /\ Given(r).help
  /\ Exit(r, 0) /\ SameDisk

Refuse(r) ==
  /\ pc[r] = "arguments" /\ ~Given(r).help /\ UsageError(Given(r))
  /\ Exit(r, 1) /\ SameDisk

Open(r) ==
  /\ pc[r] = "arguments" /\ ~Given(r).help /\ ~UsageError(Given(r))
  /\ GoTo(r, "opened") /\ UNCHANGED <<title_name, level>> /\ SameDisk

OpenFails(r) ==
  /\ pc[r] = "arguments" /\ ~Given(r).help /\ ~UsageError(Given(r))
  /\ Exit(r, -1) /\ SameDisk

Info(r) ==
  /\ pc[r] = "opened" /\ "I" \in Given(r).asked
  /\ Exit(r, 0) /\ SameDisk

-----------------------------------------------------------------------------
(* The title name.                                                          *)

Contains(text, part) ==
  \E k \in 0..(Len(text) - Len(part)) : SubSeq(text, k + 1, k + Len(part)) = part

NeedsName(r) == pc[r] = "opened" /\ "I" \notin Given(r).asked

NameFromDisc(r) ==
  /\ NeedsName(r) /\ Given(r).name = NoName
  /\ LET name == DVDGetTitleName(call[r].label)
     IN  IF Contains(name, Generic)
         THEN Exit(r, 2)
         ELSE /\ title_name' = [title_name EXCEPT ![r] = name]
              /\ GoTo(r, "stat") /\ UNCHANGED level
  /\ SameDisk

\* The structure is not on a device, or the device cannot be read.
NameFails(r) ==
  /\ NeedsName(r) /\ Given(r).name = NoName
  /\ Exit(r, 1) /\ SameDisk

\* A longer name is truncated.
NameFromOption(r) ==
  /\ NeedsName(r) /\ Given(r).name # NoName
  /\ LET name == Given(r).name
     IN  title_name' = [title_name EXCEPT ![r] =
           SubSeq(name, 1, IF Len(name) > Length THEN Length ELSE Len(name))]
  /\ GoTo(r, "stat") /\ UNCHANGED level /\ SameDisk

NoMemory(r) ==
  /\ pc[r] = "stat" /\ level[r] = 1
  /\ Exit(r, 1) /\ SameDisk

-----------------------------------------------------------------------------
(* The directories.                                                         *)

\* With an empty name the second path is the first with a slash behind it.
Path(r, n) ==
  CASE n = 1 -> <<>>
    [] n = 2 -> IF title_name[r] = <<>> THEN <<>> ELSE <<title_name[r]>>
    [] n = 3 -> <<title_name[r], "VIDEO_TS">>
There(r) ==
  \/ Path(r, level[r]) \in dirs
  \/ Path(r, level[r]) \in files /\ ~(level[r] = 2 /\ title_name[r] = <<>>)

NextDirectory(r) ==
  /\ GoTo(r, IF level[r] = 3 THEN "backup" ELSE "stat")
  /\ level' = [level EXCEPT ![r] = @ + 1]
  /\ UNCHANGED title_name

\* A file in the place of the directory is only reported.
StatFinds_Never(r) == FALSE
StatFinds(r) == There(r)

Found(r) ==
  /\ pc[r] = "stat" /\ StatFinds(r)
  /\ NextDirectory(r) /\ SameDisk

NotFound(r) ==
  /\ pc[r] = "stat" /\ ~StatFinds(r)
  /\ GoTo(r, "mkdir") /\ UNCHANGED <<title_name, level>> /\ SameDisk

CanMake(r) ==
  /\ Path(r, level[r]) \notin dirs \cup files
  /\ level[r] > 1 => Path(r, level[r] - 1) \in dirs

Mkdir(r) ==
  /\ pc[r] = "mkdir" /\ CanMake(r)
  /\ dirs' = dirs \cup {Path(r, level[r])}
  /\ made' = [made EXCEPT ![r] = @ \cup {Path(r, level[r])}]
  /\ NextDirectory(r)
  /\ UNCHANGED <<call, files, refused, tree>>

MkdirFails(r) ==
  /\ pc[r] = "mkdir"
  /\ Exit(r, -1)
  /\ refused' = IF CanMake(r) THEN refused \cup {r} ELSE refused
  /\ UNCHANGED <<call, dirs, files, made, tree>>

\* No file can be created where VIDEO_TS is not a directory.
Backup(r) ==
  /\ pc[r] = "backup" /\ Path(r, 3) \in dirs
  /\ Exit(r, 0) /\ SameDisk

BackupFails_Silent(r) ==
  /\ pc[r] = "backup"
  /\ Exit(r, 0) /\ SameDisk
BackupFails(r) ==
  /\ pc[r] = "backup"
  /\ Exit(r, -1) /\ SameDisk

Exited == (\A r \in Runs : pc[r] = "exited") /\ UNCHANGED vars

Next ==
  \/ \E r \in Runs :
       \/ Help(r) \/ Refuse(r) \/ Open(r) \/ OpenFails(r) \/ Info(r)
       \/ NameFromDisc(r) \/ NameFails(r) \/ NameFromOption(r) \/ NoMemory(r)
       \/ Found(r) \/ NotFound(r) \/ Mkdir(r) \/ MkdirFails(r)
       \/ Backup(r) \/ BackupFails(r)
  \/ Exited

Spec == Init /\ [][Next]_vars

-----------------------------------------------------------------------------
HasName(r) == pc[r] \in {"stat", "mkdir", "backup"}

(* The name a disc gets, against its label: without underscores, with a    *)
(* capital exactly at the beginning of each word, and without the blanks   *)
(* that pad the field (a shorter label keeps blanks before its NUL), and   *)
(* never longer than the array of main().                                  *)
NameIsTidy ==
  \A r \in Runs : HasName(r) /\ Given(r).name = NoName =>
    LET name == title_name[r]  label == call[r].label
    IN  /\ Len(name) <= Length
        /\ \A k \in 1..Len(name) :
             /\ name[k] = Space <=> label[k] \in Blank
             /\ name[k] = "A" <=> label[k] \in {"A", "a"} /\ (k = 1 \/ name[k - 1] = Space)
             /\ name[k] # Underscore
        /\ \A k \in Len(name) + 1..Length :
             label[k] = Space \/ \E l \in 1..k : label[l] = NUL
        /\ (\A k \in 1..Length : label[k] # NUL) /\ name # <<>> =>
             label[Len(name)] # Space

\* A run whose directories were made or found, and one that gave up there.
GotThrough(r) == level[r] = 4
GaveUp(r) ==
  pc[r] = "exited" /\ status[r] = -1 /\ title_name[r] # NoName /\ level[r] < 4

(* Runs that start at the same time in one directory (README:16: "you can  *)
(* use the same directory for all your DVD backups") may overtake each     *)
(* other between stat() and mkdir(), and then one fails; but they do not   *)
(* all fail unless a file is in the way or a mkdir() is refused.           *)
SomeoneGetsThrough ==
  (\E r \in Runs : GaveUp(r)) /\ (\A r \in Runs : pc[r] = "exited") /\ refused = {}
    => tree.files # {} \/ \E r \in Runs : GotThrough(r)

InTheWay(r) == \E n \in 1..level[r] : Path(r, n) \in tree.files
MadeByAnother(r) == \E q \in Runs \ {r} : Path(r, level[r]) \in made[q]

(* The exit status of each of the runs can be told from the directories.   *)
(* One that gives up at a directory has met a file in its way, or another  *)
(* run has made that very directory after its stat() did not find it, or   *)
(* its mkdir() was refused: what was there before never makes it fail.     *)
(* And a file in the place of a directory, which is only reported (444,    *)
(* 460, 475) and passed over, never ends in success.                       *)
ExitStatusIsJustified ==
  \A r \in Runs :
    /\ GaveUp(r) /\ r \notin refused => InTheWay(r) \/ MadeByAnother(r)
    /\ pc[r] = "exited" /\ status[r] = 0 /\ title_name[r] # NoName =>
         \A n \in 1..3 : Path(r, n) \in dirs

(* README:17: "If it happens to have a generic title dvdbackup will exit   *)
(* with a return value of 2."                                              *)
GenericTitleIsRefused ==
  \A r \in Runs : HasName(r) /\ Given(r).name = NoName =>
    ~Contains(Text(call[r].label), Generic)
=============================================================================
