# A TLA+ model of dvdbackup

dvdbackup reads a DVD-Video through libdvdread (and libdvdnav) and writes a
DVD-Video structure to `<targetdir>/<title>/VIDEO_TS`. It is one sequential
process. What makes it hard to get right is elsewhere: arithmetic over blocks,
ranges, cells, parts and chapters whose borders rarely coincide in a test; a
drive that delivers less than it is asked for, or nothing; writes that fail; and
runs that fail or are interrupted and are then repeated on the same directory.
The modules here model that, TLC checks their properties on small instances,
and TLAPS proves the safety properties for all instances.

Source paths are relative to `src/` of the repository; line numbers are those of
the commit the model was made from. `PROJECT.json` has the exact mapping from
each definition to the lines it stands for, the runs, the mutants that show that
each property can fail, the findings and the hazards.

## 1. Inventory

| Component | State | Operations | Hard part | What makes it correct |
|---|---|---|---|---|
| Sector range list (`find-sector.c` 52-181, 419-433) | a sorted list of `[start, end]` nodes | `add_sector_range_list`, `find_next_sectors` | cells come in any order, overlap, touch, nest | sorted, combined, nothing invented or forgotten, exact lookup |
| Range collection (`find-sector.c` 188-417) | a virtual machine, a current chain and cell | `create_titleset_range_list`, `check_vm` | loops and jumps of cell commands | what the titles refer to is added; a title ends for its own commands only; it ends |
| Block copy (`dvdbackup.c` 833-988) | source offset, remaining count, file position | `DVDCopyBlocks` with `-r a`, `b`, `m`, `u` | short reads, errors, padding and seeks in any mixture | each block of the target is the source block of its position, or padding or a gap for a reason |
| Sorting (`dvdbackup.c` 1485-1519) | two parallel arrays | `bsort_min_to_max`, `bsort_max_to_min` | an unusual double loop | sorted, pairs kept together |
| Cell writer (`dvdbackup.c` 178-361) | cell, offset, current part and its size | `DVDWriteCells` | borders of buffers, cells and parts; stale parts; cleanup | the parts are the blocks of the cells, in order, and nothing else |
| Title and chapter selection (`dvdbackup.c` 1522-1531, 1762-1961; `main.c` 327-392) | chapter numbers, cell numbers, cell arrays | option checks, `DVDMirrorTitles`, `DVDMirrorChapters`, `align_end_sector` | three levels of tables counted from 1 and from 0 | exactly the cells of the chapters, in order, apart |
| Mirroring (`dvdbackup.c` 992-1424, 1546-1759) | file sizes, the target directory, handles | `DVDGetFileSet`, `DVDCopyIfoBup`, `DVDCopyMenu`, `DVDCopyTitleVobX`, `DVDMirror*` | failure or interruption between any two files; repeated runs | success means complete but for what the code knowingly leaves out; failure is confined and reported |
| Main feature guess (`dvdbackup.c` 112-173, 365-830) | ranked arrays of titles and title sets | `DVDGetInfo` | indexes by rank and by number | a title set that leads in everything is guessed; a smaller one only for a reason; the aspect ratio asked for |
| Command line (`main.c`) | option variables, title name, directories, exit status | `main` | modes that combine; runs at the same time in one directory | an exit status that the directories justify; runs do not stop each other for good |
| Title name (`dvdbackup.c` 1426-1481) | 32 characters of a label | `DVDGetTitleName` | trimming, words | a name without padding, capitals where words begin |
| Disc information (`dvdbackup.c` 1968-2146) | none | `DVDDisplayInfo` | - | - |
| Logging (`logger.c`, `logdb.c`) | last level; a database connection | `DVDLog`, `dvdbackup_logdb` | - | no effect on the copy |
| gettext macros (`gettext.h`) | none | - | vendored | - |

How they interact. `main` parses the options, opens the disc, makes the
directories and calls one of five functions. `DVDMirror` (-M),
`DVDMirrorTitleSet` (-T) and `DVDMirrorMainFeature` (-F, after `DVDGetInfo`) get
the list of files from `DVDGetFileSet` and copy whole files, title set by title
set; menus and VOBs go through `DVDCopyBlocks`, which with `-r u` asks the range
list which blocks to seek over. `DVDMirrorTitles` (-t) and `DVDMirrorChapters`
(-t with -s, -e) look the cells of the chapters up, sort and align them and pass
them to `DVDWriteCells`. The components share no memory but arguments and
results; the only state that survives a run is the target directory.

Concurrency: none within a run; there are no threads, callbacks with effects, or
timers. Two runs may share a target directory, which README 16 invites, and meet
between `stat` and `mkdir`.
Failure: every call into libdvdread, every `open`, `write` and `malloc` may fail,
and the process may be killed anywhere. Ordering: the order in which cells reach
the list or the arrays, and files the directory. Timeouts: only those of the
drive, which appear as failed or short reads.

## 2. Modules

```
RangeList --- SectorRanges --- TitleWalk --- MCTitleWalk       Cells
   |     \                        \                           /     \
   |      RangeListProofs -------- TitleWalkProofs    Chapters    WriteCells
   |     /                                              |  \         |    \
   |    /                                        MCChapters \   MCWriteCells \
 CopyBlocks --- MCCopyBlocks                      ChaptersProofs     WriteCellsProofs
   |     \----- CopyBlocksProofs (and RangeListProofs)
BlockCopy (abstract)                         TitleName --- CommandLine --- MCCommandLine
                                                               \--- CommandLineProofs
SortPairs --- FeatureGuess --- MCFeatureGuess
                    \--- FeatureGuessProofs          Mirror --- MCMirror
                                                        \--- MirrorProofs
```

In every module a definition named `X_Something` is a plausible slip in `X`; it
is used by no specification, and is there to show that a property notices it.

**RangeList** has the list of `find-sector.c` as a sequence of records, and its
two functions as operators. The loops of the code stop at the first node that
satisfies a condition, which is how `StopNode` and `LookupNode` are written; the
case analysis after it follows the code. **SectorRanges** is the life of a list:
`AddCell` for any cell in any order, with a history variable for the sectors of
the cells added so far; this is what the proofs are about.

**TitleWalk** extends it by the function that makes the list: the loops of
`create_titleset_range_list` over titles (278-287), chapters (287-302), the
commands before the cells (317-341), the cells with their commands (344-386) and
the commands after them (389-413), and `check_vm`. A step that passes a cell is an
`AddCell` of SectorRanges. The virtual machine of libdvdnav is external: a command
is the set of *effects* it may have, since registers decide, on the five things the code
reads of the machine: its domain, whether it is in the title set, the number of
its cell, whether it ran past the last program, and whether it stopped. That the
number of a chapter's program is beyond those of its chain (`far`, 289 and 208) counts
as past the last one from the start, and ends the title at its first command. The
chains a link leads to are not among them: the code takes the number of the cell
for one of the chain it is walking. Two oddities of the code are in the model as
they are: `stopped` is never reset (an exit command ends every later title that
has a command), and the `check` of the post commands hides the one of the title
(392), so that they end nothing but themselves.

**BlockCopy** is what copying a VOB promises: blocks of the target are settled
from the front, once and for all, as copied, padded or a gap; success means all
of them are. **CopyBlocks** is `DVDCopyBlocks`, one behaviour per call, and
implements `BlockCopy`. A block of the target holds the number of the source
block it came from, `PADDING` or `UNWRITTEN`. The steps are those of the loop:
choose the span (861-877), seek over unreferenced blocks (878-907), read
(912-921), write (923-934), recover by strategy (935-970). `fpos` is the position
of the descriptor, moved by `write` and `lseek`, and `flen` the length of the
file, which only `write` moves. `DVDReadBlocks` is external: it delivers all
blocks, or stops or fails at a *flaky* block of the call, each time anew.

**SortPairs** is both sort functions with their loop variables; `Exchange`,
`Keep` and `NextPass` are the bodies of the loops. **FeatureGuess** extends it by
`DVDGetInfo`: `Open` collects the arrays from the disc, `Call`, `Sorting` (the
actions of SortPairs) and `Ranked` sort one of them after another, and the actions from
`OneFilm` on weigh the ranks, one for each branch of 594-768. In `Several` the
code reads one element beyond the sizes when all title sets are nearly as big as the
first (683); the element may be either. A behaviour that begins `alone` is a call of
either sort by itself.

**Cells** has the cells that selection hands to the writer and, in `InOrder`,
the contract between the two. **WriteCells** is `DVDWriteCells`: unlink of all
parts (237-245, not for title set 0: the names it would remove are not those of any title set),
the first part (278), the loops over cells and buffers
(300-336), the rotation of parts (337-351) and every error path with what it
leaves open (`held`, `streams`). A behaviour is a series of runs on the same
directory; `Killed` may happen at each step and loses everything but the files.

**Chapters** starts from the options and ends at the call of `DVDWriteCells`.
Chapters (PTTs), program chains and cells are sequences counted from 1, as the
disc counts them; the `- 1` of the C indexes disappears with that, and
`ptt[end_chapter]` of the code is the chapter *after* `end_chapter`. The sort
appears by its result, any sorted arrangement, which is what `FeatureGuessProofs`
proves of it (`SortSorts`, `SortRearranges`). The guess of a title (1791-1801) is left out since `main` never
calls `DVDMirrorChapters` without a title.

**Mirror** is everything done with whole files. Its state is the directory (per
file: absent, begun or done, the run that wrote it, and which blocks of its domain
it holds), the number of open output descriptors, how often the DVD handle has
been closed, and the position in the loops. It closes twice when the list of files
fails, as the code does (1684, 1711, and `main`). Each file is opened in one step and
filled in another, so that a run can fail or be killed between the two.
`DVDCopyBlocks` is one step here, with the two outcomes `BlockCopy` allows; a
partly written file is still `begun`. Sizes are in bytes, with blocks of 2 bytes
for TLC, so that sizes that are not whole blocks occur.

**TitleName** has `DVDGetTitleName` as operators on labels over an alphabet of one
letter in two cases, the blank, the underscore and NUL (`Space`, `Underscore` and `NUL` are tokens). **CommandLine** is `main`
for several runs of the program at a time on one file system: `Refuse`, `Open`, `Info` for
the arguments (292-408), `NameFromDisc` and `NameFromOption` (411-431), then for each of the
three directories `Found` or `NotFound` for its `stat` and `Mkdir` or `MkdirFails`
(443-485), and the outcome of the backup: it can only succeed where `VIDEO_TS` is a directory.
`made`, `refused` and `tree` are history variables. The
details of -t, -s and -e are in Chapters, the calls of the backups in Mirror.

## 3. Runs

| Run | Question | Bounds |
|---|---|---|
| TitleWalk | is the list right after any cells in any order, does the walk collect what the titles refer to, is a title given up only for its own commands, does the walk end? | all lists of three cells of sectors 0..4 (with lookups up to 6): every way to touch, overlap, nest and bridge two nodes; walks of three titles, two chains and repeated, absent and wrong chapters, some with a program number beyond their chain (`FarWalks`), with each kind of command before, in and after the cells |
| TitleWalk_lost | *is every cell on the list?* no | the same |
| CopyBlocks | is the target right, does the loop implement `BlockCopy`, does it end? | 5 blocks, buffer of 3, offsets 0 and 2, every two flaky blocks, every list of two ranges: a short last buffer, ranges that begin and end inside it, failures at both its ends |
| CopyBlocks_fallback | *does `-r u` pass a bad block?* no | 3 blocks, buffer of 2 |
| FeatureGuess | is the ranking right, is the guess justified, do the sorts sort, keep pairs together and end? | one to three title sets of 4 to 7 blocks, up to three titles, a disc without chapters, three kinds of streams, both options -a; by themselves, arrays of 4 elements, 3 keys, 2 tags: ties, and every permutation |
| WriteCells | are the parts right, through failed, killed and repeated runs, and does each end? | buffer 2, part 3, three parts, nine calls, two runs: cells that end inside, at and beyond a part border; empty cells; no cells; a directory that turns read-only |
| WriteCells_last | *is every sector of a cell copied?* no | the same, one run |
| Chapters | are the right cells handed over, in order, apart? | five discs (see MCChapters), chapters up to 4, every combination of -t, -s, -e |
| Mirror | what exactly does success leave out, is failure confined to one title set and one file (or an IFO with its BUP), is nothing else touched? | eight discs of up to three title sets and two VOBs, every request, one target name taken, two runs |
| Mirror_stale | *is a mirror an exact duplicate?* no | two discs of one name, two runs |
| CommandLine | are names tidy, does the exit status agree with the directories, do runs that overtake each other not all fail? | labels of four characters, all 625; all sets of options; three runs at a time with the same, two, and degenerate names; six kinds of target |
| CommandLine_generic | *is a generic title refused?* no | the same |

The properties, by run (each is stated in words above its definition):

- TitleWalk: `WalkTypeOK`, `SortedAndCombined`, `NothingInvented`, `LookupExact`,
  `KeepsAndAdds` (the list), `WalkIsComplete`, `LeftForAReason`, `WalkEnds` (the walk).
- CopyBlocks: `Aligned`, `SameSize`, `AbortIsExact`, `GapsAreUnreferenced`,
  `DamageIsLocal` (the target), `ImplementsBlockCopy`, `Terminates`.
- FeatureGuess: `Sorted`, `Rearranged` (the sorts), `FoundMeansBest` (the ranking),
  `DominantIsGuessed`, `AspectIsHonoured`, `SmallerIsJustified` (the guess), `GuessEnds`.
- WriteCells: `PrefixOnDisk`, `OnlyTheCells`, `PartsAreFull` (the parts),
  `StreamsAreClosed`, `EveryRunEnds`.
- Chapters: `RightCells`, `HandsOverInOrder`, `RightSectors`.
- Mirror: `WhatSuccessLeavesOut`, `OneSetAtATime`, `BackupComesSecond`,
  `TornFilesBelongTogether`, `VobsFitTogether`, `OnlyWhatIsAsked` (the directory),
  `DescriptorsAreBounded`.
- CommandLine: `NameIsTidy`, `ExitStatusIsJustified`, `SomeoneGetsThrough`.
- Violated: `EveryCellKnown` (TitleWalk_lost), `BadBlockIsPassed`
  (CopyBlocks_fallback), `EverySectorOfTheCells` (WriteCells_last), `ExactDuplicate`
  (Mirror_stale), `GenericTitleIsRefused` (CommandLine_generic).

Runs in italics check what a document, comment or message of the repository says
and find it violated; each is a finding in `PROJECT.json`.

Why small bounds are enough. The arithmetic only compares numbers with each
other and with the buffer, the part or the end, and in each run these are chosen
coprime or off by one so that all orders of the borders occur. In the directory
models a second run is enough to meet anything a first one leaves. For all safety
properties the proofs of section 5 remove the bounds.

Properties worth a second look:

- `GapsAreUnreferenced` with `LookupExact`: with `-r u` exactly the unreferenced
  blocks of the given list are gaps, whatever mixture of short reads happens.
- `DamageIsLocal`: padding stays within a buffer of a block the drive failed to
  deliver. It cannot say "that block": after an error of a whole read `-r b` pads
  the first block asked for, which may be a good one.
- `RightCells` and `RightSectors` are about titles whose chapters are all in one
  chain and begin at cells in the order of the chapters (`InProgramOrder`). Where a
  chapter goes back to an earlier cell, the end of one chapter is before its
  beginning, and what is copied is a range of cells that has little to do with
  the chapters (disc `Jumping` of MCChapters).
- `RightSectors` excludes nested cells for what may be lost, and `KeepsAndAdds` a
  cell around a node: both are what the code does. TitleWalk_lost shows the second.
- `WalkIsComplete` promises all cells of a chain only if nothing in it links to a
  cell, and the first cell always; `LeftForAReason` says when less is walked: for a
  command of the title, a chapter beyond the programs of its chain, or a stopped machine.
- `WhatSuccessLeavesOut` is exact in both directions: after exit status 0 the files
  that are short or missing *are* a menu of an odd size and the VOBs behind an empty
  first one, and no others. Both contradict README 22-24 (section 6).
  `OneSetAtATime` uses the same measure (`IsCopied`) for the title sets before.
- `TornFilesBelongTogether` looks at all runs: each leaves one file torn, or the IFO and
  the BUP of one title set. That it can be both, and that both were whole before, is
  what truncating them first costs (1299-1325).
- `ExitStatusIsJustified`: a run gives up at a directory only if a file is in the way,
  another run made that directory in between, or `mkdir` was refused; and exit status 0
  means that all three paths are directories, though a file in their place is only
  reported (444, 460, 475). It relies on the backup failing there, as `Backup` says: the
  one that opens no file at all (-T for a title set all of whose sizes are 0) would
  succeed, and is left out.
- `SmallerIsJustified` does not say that a smaller guess is nearly as big as the
  biggest title set: among several episodes the code compares a number of a title
  set with a number of ranks (689), and may take one of any size that has the best
  streams and the most chapters.
- `AspectIsHonoured` is about versions with one title of full length each. A second
  such title pushes the other version to the third place of the chapter list, and
  the bigger version is taken whatever -a says (657-668). They must have chapters: a
  title set without any title has as many as one whose titles have none, but is not
  found in the list (disc `NoChapters` of MCFeatureGuess).
- `SomeoneGetsThrough`: a run that finds a directory absent and then made by
  another run does fail, but the one that made it goes on.
- `OnlyTheCells` is about directories in which `unlink` works. When it does not,
  the parts are appended to what was there (244, 278).
- `BackupComesSecond` allows for a BUP older than its IFO: `DVDCopyIfoBup` truncates
  the IFO first, and both before it has read anything (1299-1361).
- `DescriptorsAreBounded` counts the two descriptors that leak per title set.

## 4. Fairness

The program is one thread that runs until it returns, so the fair specifications
assume `WF_vars(Next)` or `WF_vars(Step)`: it takes some step as long as one is
possible. In CopyBlocks nothing is assumed of the drive for `-r a`, `b` and `m`;
with `-r u` the copy is only shown to end when no block is flaky, and
CopyBlocks_fallback shows why. In WriteCells strong fairness of `ReadSome` says that
the drive does not answer with 0 blocks for ever; the code would then ask for
ever. `FairWalkSpec` and `FairGuessSpec` assume weak fairness of the whole
function and nothing of its inputs; `WalkEnds` makes its exception for commands that
go back to an earlier cell, which registers may do for ever. In CommandLine no
liveness is claimed. In Mirror `Killed` and `RunAgain` are not fair and no liveness is claimed:
nobody has to interrupt the program or to start it again.

## 5. Proofs

All proofs are checked by tlapm with Z3, Zenon and LS4 to the last leaf, for all
values of the constants under the named assumptions: any disc, any number of runs,
any sizes of buffers and parts. Every safety property of the passing runs is proved.
Each argument has an inductive invariant (`IInv`, `CInv`, `HInv`, `GInv`, `WalkInv`
and so on); those were checked by TLC on the runs' instances before they were proved.

The assumptions say that the constants are numbers of the right kind
(`IntMaxAssumption`, `MaxSectorAssumption`, `CopyAssumption`, `SortAssumption`,
`LengthAssumption`), that the discs and title sets are well-formed
(`TitleWalkAssumption`, `ChaptersAssumption`, `MirrorAssumption`, `GuessAssumption`),
that the runs of main() are finitely many and their arguments of the right type
(`CommandLineAssumption`), and that the cells of a call are in order and apart and
fit into the parts a title set may have (`WriteAssumption`; its first half is
what `ChaptersHandOverInOrder` proves of the caller).

- **RangeListProofs**: `AddProperties` (insertion keeps a list well-formed, adds
  the new sectors unless the cell engulfs a node, forgets and invents nothing) and
  `LookupFinds`. One lemma for each way an insertion changes the list: insert, grow
  the previous node, extend the end, extend the start, fuse two nodes.
- **TitleWalkProofs**: the properties of SectorRanges (`List...`), from
  `AddProperties` and the invariant that the list is well-formed and within the
  referenced sectors. A walk is a life of the list (`WalkIsALifeOfTheList`,
  WalkSpec implements Spec of SectorRanges), so that these theorems hold of it; for
  this `WalkInv` says that the walk is at titles, chapters and chains that exist,
  whatever the commands do. `ReasonInv` adds that before each command the machine is
  in the title domain, and away from the title set only if a command of the same
  title may have led it there (a post command may, and is not looked at before the
  next chapter): `LeftForAReason`. `CompleteInv` adds what has been collected of the
  titles, chapters and cells behind the walk, with the one exception of a chain
  in which cells are skipped by links: `WalkIsComplete`.
- **CopyBlocksProofs**: the invariant `IInv`, and from it `TypeOK`, `Aligned`,
  `SameSize`, `AbortIsExact`, `GapsAreUnreferenced`, `DamageIsLocal` and the
  refinement `ImplementsBlockCopy`. None of these is inductive alone: that a block lands
  at its position needs the cursors to agree (`CursorsAgree`), that needs the
  padding to fit in what remains (`SpanFits`), and that padding is near a flaky
  block needs the reason of each short read (`ShortReadHasReason`). For the gaps, a
  read must ask for known sectors only (`SpanIsKnown`), which is `LookupFinds`.
- **WriteCellsProofs**: at each step the parts on disk, joined, are the blocks
  dealt with so far (`OnDisk`, with `Taken` for those blocks: the cells before the
  current one and its blocks before `soffset`). Three cursors count the same blocks, of
  the cell, of the part and of the file, and that they agree (`CursorInCell`,
  `Accounting`) is what lets a part be left exactly when it is full (`ReadsFit`).
  `NothingLeftOver` says what `unlink` achieves of earlier runs. The assumption that
  the cells fit into the parts is used once, to show that a further part exists.
  The lemmas on `Joined` are about FlattenSeq, for sequences of any length.
- **ChaptersProofs**: `HandsOverInOrder` for every disc. Aligning looks at
  neighbours only, but since the cells are sorted a cell ends before *all* later
  ones begin (`AlignedInOrder`); the rest of the invariant says that the cells
  collected are cells of the chain, whichever way the tables lead. `Course` relates
  them to the chapters asked for: the numbers clamped so far, the cells looked up, and
  after the sort a permutation of the cells between them; with the lemma that in
  program order the cells of consecutive chapters are an interval, this gives
  `RightCells`, and with what alignment cuts off, `RightSectors`.
- **MirrorProofs**: `IInv` has three parts. `Base` relates the directory to the position in the loops: what
  the files of the current title set look like at each step (`Phase`,
  `CurrentSet`), that those before it are copied (`EarlierSets`), that this run has
  touched nothing ahead of it (`Touched`), and where its VOBs begin (`VobPlaces`,
  whose sums of sizes need lemmas on FoldLeft). `DescriptorsAreBounded` needs a count for
  each step (`Descriptors`), since the two files of an IFO are opened one after the
  other and leak together. `Sizes` says that what is written of a title set consists of
  whole blocks except for the menu, which makes `WhatSuccessLeavesOut` an equality: a
  copied file is short exactly if its size is odd. `Torn` says which files are open at
  each step, at most one or an IFO with its BUP, and since a step begins no file while
  another is open but the BUP, `TornFilesBelongTogether` is inductive with it.
- **FeatureGuessProofs**: why the exchange sort works. The first pass brings the
  last element of the order to the front; each later pass inserts element i among
  the sorted ones before it and so carries the last element along
  (`LastIsFound`), after which no comparison behind i exchanges anything. `Sorted` is
  `SortInv` for i = size; `Rearranged` is by an explicit permutation. For the guess,
  `Ranking` says that the arrays ranked so far are sorted permutations of those
  collected, and `Weighed` what the candidate is at each stage in terms of the ranks.
  The lemmas then say what the ranks mean: the search from the front finds the best and
  only those (`AtTopIsBest`), three integer divisions come to "more than two
  thirds" (`TwoFilmsMeans`), and the two versions of a film are at the first two
  places both by size and by chapters (`TwoBiggest`, `FoundAtTheFront`).
- **CommandLineProofs**: `NameIsTidy` for every label: trimming by induction on what is
  left of the text, capitals by counting the words before a character. For the runs
  at a time, `Overtaken` says that whoever gives up was overtaken by a run at a deeper
  level; since there are finitely many, the deepest one has not given up
  (`SomeoneGetsThrough`). That needs `Disk`, each directory that has appeared was
  made by a run that is past it, and `Stands`, the directory above is there. All this
  is `Base`. For `ExitStatusIsJustified`, `Tree` says that files and directories are apart
  and each directory is in one, `Passed` that a run stands below a directory or a file
  that was there from the beginning and has not made the one it is about to make, and
  `Justified` is the property, run by run.

What the proofs uncovered. `RightCells` was true of the discs that were first
checked and could not be proved: it needs the chapters to be in the order of the
cells, which no table of the disc guarantees. `AspectIsHonoured` needs chapters to
count. TLC then showed both on a disc of its own (`Jumping`, `NoChapters`), and the
properties now name the hypothesis. In the other direction, `DominantIsGuessed` turned
out to hold without any hypothesis on the streams, and now says so.

Only model-checked: liveness (`WalkEnds`, `Terminates`, `GuessEnds`, `EveryRunEnds`),
since fairness and ENABLED are beyond the prover. No module uses a RECURSIVE operator.
The library's induction theorems take an operator, which the provers cannot
instantiate; where induction is needed (sums, joined parts, greatest elements, words
of a name) it is done over a set: a non-empty set of naturals has a least element
(`WFMin`), so a set that has 0 and the successor of each member has all.

## 6. Not modelled

- Progress output, log messages, the wording and the making of file names. One
  consequence is not visible in the model: the name of a tenth part would not fit
  in the buffer of `DVDWriteCells`.
- Reads of memory beyond a table: `-t` with a title the disc does not have
  (1803), a program number of another chain (1843), a disc without a table of
  titles (452). Assumptions exclude the inputs that lead there. What the trimming of
  a blank label overwrites before the array (1459) is not modelled either.
- 32-bit widths: block numbers of a DVD are below 2^23 and file sizes of a VOB
  below 2^30, so nothing wraps. `INT_MAX`, which `find_next_sectors` returns, is a
  constant.
- Which list of ranges a copy gets: DVDCopyBlocks is right for any list, but for
  menus and for the video manager the list is that of the title domain (1210),
  and after a failed open it is empty (`find-sector.c` 269), so that all is a gap.
- DVDDisplayInfo, which prints what DVDGetInfo and DVDGetFileSet return and changes
  nothing; the logging, on which nothing depends; the vendored macros.
- The virtual machine of libdvdnav, beyond the effects of its commands.
- When `lseek` fails `DVDCopyBlocks` also closes the DVD file (898-899), which its caller
  closes too; on an ordinary file that does not happen. The model has the step and its
  effect on `handles`, not what the caller does after it.
- `PAD_SKIPPED_BLOCK` (890), with which unreferenced blocks are padded instead of
  seeked over: neither the source nor the build files define it.
- What closing the DVD twice does (1684, 1711 and `main`): the model counts it (`closed`),
  and no property is made of the count.
- `find-sector.c` 436-468 is a test program that is not built.

Disagreements with the documents that are in the model but have no run of their
own, with what shows them:

- A menu whose size is not a whole number of blocks loses its end, with a warning only
  (1157-1160), and behind an empty first VOB all others of the title set are passed over
  (1034-1038); both times the exit status is 0, and README 22-24 promise that every file
  has the size of the original: the two exceptions in `WhatSuccessLeavesOut`, with the
  discs `CutMenu` and `NoFirst` of MCMirror.
- A VOB that ends in unreferenced sectors is shorter after `-r u` than the original
  (README 22-24 promise the same size): `SameSize` is an equality without `-r u`
  only.
- Sectors behind a nested cell are lost by `align_end_sector` (README 83-87 promise all
  sectors of the chapters): the exception in `RightSectors`.
- A title that goes on in another program chain is copied without it (README 73-76;
  the comment at 1825 says so): `RightCells` is about titles of one chain.
- -s or -e without -t is a usage error, not a guess (README 93-94; `main.c` 368):
  `UsageError` of Chapters and of CommandLine.
- A title name that cannot be read gives exit status 1 (`main.c` 415), where README
  101-105 have 2: `NameFails` of CommandLine. No run ends with 2.
- An exit command in one title ends the walk of the later ones, where `READMEX` has the
  walk follow each title of the title set: the second half of `LeftForAReason`.

## 7. Plan

Done, in this order, the most important behaviour first: RangeList and
SectorRanges; BlockCopy and CopyBlocks with the refinement; SortPairs; WriteCells;
Chapters; Mirror; TitleWalk; FeatureGuess; TitleName and CommandLine; and the proofs
of all safety properties of the runs. Next:

1. An abstract **CellCopy** (the stream of blocks grows by the wanted ones, in order)
   that WriteCells implements across parts and runs, and an abstract **Backup** for
   Mirror (title sets become complete one by one).
2. The composition of Chapters with WriteCells as a theorem: what Chapters hands
   over satisfies the assumption on calls.
3. The composition of TitleWalk with CopyBlocks, menus included.
