---------------------------- MODULE ChaptersProofs ----------------------------
(***************************************************************************)
(* For every disc, every combination of -t, -s and -e and every outcome of *)
(* the sort: the cells that DVDMirrorChapters hands to DVDWriteCells are   *)
(* in order and share no sector.                                           *)
(***************************************************************************)
EXTENDS Chapters, FiniteSetTheorems, WellFoundedInduction, TLAPS

Proper(s) == \A k \in 1..Len(s) : s[k].start <= s[k].end
InTitle == options.t # 0 /\ start_chapter \in 1..Chapters

\* The inductive invariant: what each step of DVDMirrorChapters finds.
Stages ==
  /\ pc = "open" => options.t # 0 /\ start_chapter >= 1 /\ end_chapter >= 1
  /\ pc = "lookup" => InTitle /\ end_chapter \in 1..Chapters
  /\ pc = "collect" => InTitle /\ start_cell >= 1 /\ end_cell <= Len(PGC.cell_playback)
  /\ pc \in {"sort", "align"} => Proper(cells)
  /\ pc = "align" => Sorted(cells)
  /\ pc = "write" => InOrder(cells)
CInv == TypeOK /\ Stages

\* What ChaptersAssumption says of the title and of the chains its chapters
\* lead to.
LEMMA TitleFacts ==
  ASSUME TypeOK, options.t # 0
  PROVE  /\ Chapters \in 1..MaxChapter
         /\ \A c, d \in 1..Chapters :
              /\ IsPgc(PgcOf(c))
              /\ Title.ptt[d].pgn \in 1..Len(PgcOf(c).program_map)
<1>1. IsDisc(disc) /\ options.t \in 1..Len(disc.titles) /\ Len(disc.titles) \in Nat
  BY ChaptersAssumption DEF TypeOK, IsDisc
<1>2. IsTitle(Title, disc.pgcs)
  BY <1>1 DEF IsDisc, Title
<1>3. Chapters \in 1..MaxChapter
  BY <1>2 DEF IsTitle, Chapters
<1>4. ASSUME NEW c \in 1..Chapters, NEW d \in 1..Chapters
      PROVE  /\ IsPgc(PgcOf(c))
             /\ Title.ptt[d].pgn \in 1..Len(PgcOf(c).program_map)
  <2>1. Title.ptt[c].pgcn \in 1..Len(disc.pgcs[Title.title_set])
    <3> DEFINE Entry == [pgcn : 1..Len(disc.pgcs[Title.title_set]), pgn : Nat]
    <3>1. Title.ptt \in Seq(Entry)
      BY <1>2 DEF IsTitle
    <3>2. Title.ptt[c] \in Entry
      <4> HIDE DEF Entry
      <4> QED BY <3>1 DEF Chapters
    <3> QED BY <3>2
  <2>2. Title.title_set \in DOMAIN disc.pgcs
    BY <1>2 DEF IsTitle
  <2>3. IsPgc(PgcOf(c))
    BY <1>1, <2>1, <2>2 DEF IsDisc, PgcOf
  <2>4. Title.ptt[d].pgn \in 1..Len(PgcOf(c).program_map)
    BY <1>2 DEF IsTitle, PgcOf, Chapters
  <2> QED BY <2>3, <2>4
<1> QED BY <1>3, <1>4

\* The cells of a chain are proper; its programs begin at one of them.
LEMMA PgcFacts ==
  ASSUME NEW p, IsPgc(p)
  PROVE  /\ Len(p.cell_playback) \in Nat
         /\ \A c \in 1..Len(p.cell_playback) :
              /\ p.cell_playback[c] \in Cell
              /\ p.cell_playback[c].start <= p.cell_playback[c].end
         /\ \A g \in 1..Len(p.program_map) : p.program_map[g] \in 1..Len(p.cell_playback)
<1>1. p.cell_playback \in Seq(Cell) /\ p.program_map \in Seq(1..Len(p.cell_playback))
  BY DEF IsPgc
<1>2. \A c \in 1..Len(p.cell_playback) : p.cell_playback[c] \in Cell
  BY <1>1
<1>3. \A g \in 1..Len(p.program_map) : p.program_map[g] \in 1..Len(p.cell_playback)
  BY <1>1
<1> QED BY <1>1, <1>2, <1>3 DEF IsPgc

\* align_end_sector leaves sorted cells in order and apart, however they
\* overlap: a cell ends before the next one begins, and so before all later.
LEMMA AlignedInOrder ==
  ASSUME NEW s \in Seq(Cell), Proper(s), Sorted(s)
  PROVE  align_end_sector(s) \in Seq(Cell) /\ InOrder(align_end_sector(s))
<1> DEFINE t == align_end_sector(s)
           n == Len(s)
<1>0. n \in Nat /\ \A k \in 1..n : s[k] \in Cell /\ s[k].start \in Nat /\ s[k].end \in Int
  <2>1. n \in Nat /\ \A k \in 1..n : s[k] \in Cell
    OBVIOUS
  <2>2. \A c \in Cell : c.start \in Nat /\ c.end \in Int
    BY DEF Cell
  <2> QED BY <2>1, <2>2
<1>1. \A k \in 1..n :
        t[k] = IF k < n /\ s[k].end >= s[k + 1].start
               THEN [start |-> s[k].start, end |-> s[k + 1].start - 1] ELSE s[k]
  BY DEF align_end_sector
<1>2. ASSUME NEW k \in 1..n
      PROVE  /\ t[k] \in Cell /\ t[k].start = s[k].start
             /\ t[k].start <= t[k].end + 1
             /\ k < n => t[k].end < s[k + 1].start
  <2>1. CASE k < n /\ s[k].end >= s[k + 1].start
    <3>1. t[k] = [start |-> s[k].start, end |-> s[k + 1].start - 1]
      BY <1>1, <2>1
    <3>2. k + 1 \in 1..n /\ s[k + 1].start \in Nat
      BY <1>0, <2>1
    <3>3. s[k].start <= s[k + 1].start
      BY <3>2, <2>1, <1>0 DEF Sorted
    <3>4. s[k].start \in Nat
      BY <1>0
    <3>5. t[k].start = s[k].start /\ t[k].end = s[k + 1].start - 1 /\ t[k] \in Cell
      BY <3>1, <3>2, <3>4 DEF Cell
    <3> QED BY <3>2, <3>3, <3>4, <3>5
  <2>2. CASE ~(k < n /\ s[k].end >= s[k + 1].start)
    <3>1. t[k] = s[k]
      BY <1>1, <2>2
    <3>2. s[k].start <= s[k].end /\ s[k].start \in Nat /\ s[k].end \in Int
      BY <1>0 DEF Proper
    <3>3. k < n => k + 1 \in 1..n /\ s[k + 1].start \in Nat
      BY <1>0
    <3> QED BY <3>1, <3>2, <3>3, <1>0, <2>2
  <2> QED BY <2>1, <2>2
<1>3. Len(t) = n /\ t \in Seq(Cell)
  BY <1>0, <1>2 DEF align_end_sector
<1>4. ASSUME NEW k \in 1..n, NEW l \in 1..n, k < l
      PROVE  t[k].end < t[l].start
  <2>1. k + 1 \in 1..n /\ k < n
    BY <1>0, <1>4
  <2>2. s[k + 1].start <= s[l].start
    <3>1. CASE k + 1 = l
      BY <3>1, <2>1, <1>0
    <3>2. CASE k + 1 < l
      BY <3>2, <2>1 DEF Sorted
    <3> QED BY <3>1, <3>2, <1>0, <1>4
  <2>3. t[k].end < s[k + 1].start /\ t[l].start = s[l].start /\ t[k].end \in Int
    BY <1>2, <2>1 DEF Cell
  <2>4. s[k + 1].start \in Nat /\ s[l].start \in Nat
    BY <1>0, <2>1
  <2> QED BY <2>2, <2>3, <2>4
<1> QED BY <1>2, <1>3, <1>4 DEF InOrder

\* Each step establishes what the next one finds.
LEMMA StagesFollow == CInv /\ [Next]_vars => CInv'
<1> SUFFICES ASSUME CInv, [Next]_vars PROVE CInv'
  OBVIOUS
<1> USE DEF CInv
<1>c. MaxChapter \in Nat \ {0}
  BY ChaptersAssumption
<1>t. /\ disc \in Discs /\ options \in [t : 0..Len(disc.titles), s : 0..MaxChapter, e : 0..MaxChapter]
      /\ start_chapter \in 0..MaxChapter /\ end_chapter \in 0..MaxChapter
      /\ start_cell \in Nat /\ end_cell \in Int /\ cells \in Seq(Cell)
  BY DEF TypeOK
<1>1. ASSUME UsageError PROVE CInv'
  BY <1>1 DEF UsageError, Exit, TypeOK, Stages
<1>2. ASSUME AskChapters PROVE CInv'
  <2>1. FirstAsked \in 1..MaxChapter /\ LastAsked \in 1..MaxChapter
    BY <1>c, <1>t DEF FirstAsked, LastAsked
  <2>2. options.t # 0
    BY <1>2 DEF AskChapters, do_chapter
  <2> QED BY <1>2, <2>1, <2>2 DEF AskChapters, TypeOK, Stages
<1>3. ASSUME AskTitle PROVE CInv'
  <2>1. options.t # 0
    BY <1>3 DEF AskTitle, do_titles
  <2>2. Chapters \in 1..MaxChapter
    BY <2>1, TitleFacts
  <2> QED BY <1>3, <2>1, <2>2, <1>c DEF AskTitle, TypeOK, Stages
<1>4. ASSUME OpenFails PROVE CInv'
  BY <1>4 DEF OpenFails, Exit, TypeOK, Stages
<1>5. ASSUME Truncate PROVE CInv'
  <2>1. options.t # 0 /\ start_chapter >= 1 /\ end_chapter >= 1
    BY <1>5 DEF Truncate, Stages
  <2>2. Chapters \in 1..MaxChapter
    BY <2>1, TitleFacts
  <2>3. start_chapter' \in 1..Chapters /\ end_chapter' \in 1..Chapters
    BY <1>5, <2>1, <2>2, <1>t, <1>c DEF Truncate, Clamp
  <2>4. Chapters' = Chapters
    BY <1>5 DEF Truncate, Chapters, Title
  <2>5. TypeOK'
    BY <1>5, <2>2, <2>3, <1>c DEF Truncate, TypeOK
  <2>6. Stages'
    BY <1>5, <2>1, <2>3, <2>4 DEF Truncate, Stages, InTitle
  <2> QED BY <2>5, <2>6
<1>6. ASSUME Lookup PROVE CInv'
  <2>1. options.t # 0 /\ start_chapter \in 1..Chapters /\ end_chapter \in 1..Chapters
    BY <1>6 DEF Lookup, Stages, InTitle
  <2>2. Chapters \in Nat /\ IsPgc(PGC)
    BY <2>1, TitleFacts DEF PGC
  <2>3. \A d \in 1..Chapters : Title.ptt[d].pgn \in 1..Len(PGC.program_map)
    BY <2>1, TitleFacts DEF PGC
  <2>4. \A d \in 1..Chapters :
          PGC.program_map[Title.ptt[d].pgn] \in 1..Len(PGC.cell_playback)
    BY <2>2, <2>3, PgcFacts
  <2>5. Len(PGC.cell_playback) \in Nat
    BY <2>2, PgcFacts
  <2>6. start_cell' \in 1..Len(PGC.cell_playback)
    BY <1>6, <2>1, <2>4 DEF Lookup
  <2>7. end_cell' \in Int /\ end_cell' <= Len(PGC.cell_playback)
    <3>1. CASE end_chapter < Chapters
      <4>1. end_chapter + 1 \in 1..Chapters
        BY <3>1, <2>1, <2>2
      <4>2. end_cell' = PGC.program_map[Title.ptt[end_chapter + 1].pgn] - 1
        BY <1>6, <3>1 DEF Lookup, LastCell
      <4> QED BY <4>1, <4>2, <2>4, <2>5
    <3>2. CASE ~(end_chapter < Chapters)
      BY <1>6, <3>2, <2>5 DEF Lookup, LastCell
    <3> QED BY <3>1, <3>2
  <2>8. /\ Chapters' = Chapters /\ PGC' = PGC /\ pc' = "collect"
        /\ UNCHANGED <<disc, options, start_chapter, end_chapter, cells, result>>
    BY <1>6 DEF Lookup, Chapters, Title, PGC, PgcOf
  <2>9. TypeOK'
    BY <2>5, <2>6, <2>7, <2>8 DEF TypeOK
  <2>10. Stages'
    BY <2>1, <2>5, <2>6, <2>7, <2>8 DEF Stages, InTitle
  <2> QED BY <2>9, <2>10
<1>7. ASSUME NoMemory PROVE CInv'
  BY <1>7 DEF NoMemory, Exit, TypeOK, Stages
<1>8. ASSUME Collect PROVE CInv'
  <2>1. InTitle /\ start_cell >= 1 /\ end_cell <= Len(PGC.cell_playback) /\ HowMany >= 0
    BY <1>8 DEF Collect, Stages
  <2>2. IsPgc(PGC)
    BY <2>1, TitleFacts DEF InTitle, PGC
  <2>3. HowMany \in Nat
    BY <2>1, <1>t DEF HowMany
  <2>4. ASSUME NEW k \in 1..HowMany
        PROVE  /\ PGC.cell_playback[start_cell + k - 1] \in Cell
               /\ PGC.cell_playback[start_cell + k - 1].start
                    <= PGC.cell_playback[start_cell + k - 1].end
    <3>1. Len(PGC.cell_playback) \in Nat
      BY <2>2, PgcFacts
    <3>2. start_cell + k - 1 \in 1..Len(PGC.cell_playback)
      BY <2>1, <2>3, <1>t, <3>1 DEF HowMany
    <3> QED BY <3>2, <2>2, PgcFacts
  <2>5. cells' = [k \in 1..HowMany |-> PGC.cell_playback[start_cell + k - 1]]
    BY <1>8 DEF Collect
  <2>6. cells' \in Seq(Cell) /\ Len(cells') = HowMany
    BY <2>3, <2>4, <2>5
  <2>7. Proper(cells')
    BY <2>4, <2>5, <2>6 DEF Proper
  <2>8. TypeOK'
    BY <1>8, <2>6 DEF Collect, TypeOK
  <2>9. Stages'
    BY <1>8, <2>7 DEF Collect, Stages
  <2> QED BY <2>8, <2>9
<1>9. ASSUME Sort PROVE CInv'
  <2>1. Proper(cells)
    BY <1>9 DEF Sort, Stages
  <2>2. PICK f \in Orders(Len(cells)) :
          cells' = [k \in 1..Len(cells) |-> cells[f[k]]] /\ Sorted(cells')
    BY <1>9 DEF Sort
  <2>3. Len(cells) \in Nat /\ \A k \in 1..Len(cells) : f[k] \in 1..Len(cells)
    <3>1. Len(cells) \in Nat
      BY <1>t
    <3>2. f \in [1..Len(cells) -> 1..Len(cells)]
      BY DEF Orders
    <3> QED BY <3>1, <3>2
  <2>4. \A k \in 1..Len(cells) : cells[f[k]] \in Cell
    BY <1>t, <2>3
  <2>5. cells' \in Seq(Cell) /\ Len(cells') = Len(cells)
    BY <2>2, <2>3, <2>4
  <2>6. Proper(cells')
    BY <2>1, <2>2, <2>3, <2>5 DEF Proper
  <2>7. TypeOK'
    BY <1>9, <2>5 DEF Sort, TypeOK
  <2>8. Stages'
    BY <1>9, <2>2, <2>6 DEF Sort, Stages
  <2> QED BY <2>7, <2>8
<1>10. ASSUME Align PROVE CInv'
  <2>1. Proper(cells) /\ Sorted(cells)
    BY <1>10 DEF Align, Stages
  <2>2. cells' \in Seq(Cell) /\ InOrder(cells')
    BY <1>10, <1>t, <2>1, AlignedInOrder DEF Align
  <2>3. TypeOK'
    BY <1>10, <2>2 DEF Align, TypeOK
  <2>4. Stages'
    BY <1>10, <2>2 DEF Align, Stages
  <2> QED BY <2>3, <2>4
<1>11. ASSUME Write PROVE CInv'
  BY <1>11 DEF Write, Exit, TypeOK, Stages
<1>12. ASSUME UNCHANGED vars PROVE CInv'
  BY <1>12 DEF vars, TypeOK, Stages, InTitle, Chapters, Title, PGC, PgcOf
<1> QED
  BY <1>1, <1>2, <1>3, <1>4, <1>5, <1>6, <1>7, <1>8, <1>9, <1>10, <1>11, <1>12
     DEF Next, Exited

\* DVDMirrorChapters: its variables have their types, and what it has checked
\* at each step is what the following one relies on.
THEOREM ChaptersInvariant == Spec => []CInv
<1>1. Init => CInv
  <2> SUFFICES ASSUME Init PROVE CInv
    OBVIOUS
  <2>1. MaxChapter \in Nat \ {0}
    BY ChaptersAssumption
  <2>2. <<>> \in Seq(Cell)
    OBVIOUS
  <2> QED BY <2>1, <2>2 DEF Init, CInv, TypeOK, Stages
<1> QED BY <1>1, StagesFollow, PTL DEF Spec

\* DVDMirrorChapters: type correctness.
THEOREM ChaptersTypeOK == Spec => []TypeOK
<1>1. CInv => TypeOK
  BY DEF CInv
<1> QED BY <1>1, ChaptersInvariant, PTL

\* DVDMirrorChapters and align_end_sector: the cells handed to DVDWriteCells
\* are in the order of the disc and share no sector.
THEOREM ChaptersHandOverInOrder == Spec => []HandsOverInOrder
<1>1. CInv => HandsOverInOrder
  BY DEF CInv, Stages, HandsOverInOrder
<1> QED BY <1>1, ChaptersInvariant, PTL

-----------------------------------------------------------------------------
(* Which cells are copied.                                                  *)

\* The cells are those from start_cell to end_cell, in some order.
Arranged ==
  /\ HowMany >= 0
  /\ \E f \in Orders(HowMany) :
       cells = [k \in 1..HowMany |-> PGC.cell_playback[start_cell + f[k] - 1]]

\* The inductive invariant: how far the chapters asked for have become cells.
Course ==
  /\ pc = "open" =>
       /\ Clamp(start_chapter) = Clamp(FirstAsked) /\ Clamp(end_chapter) = Clamp(LastAsked)
       /\ start_chapter <= end_chapter
  /\ pc \in {"lookup", "collect", "sort", "align"} =>
       /\ start_chapter = Clamp(FirstAsked) /\ end_chapter = Clamp(LastAsked)
       /\ InTitle /\ end_chapter \in start_chapter..Chapters
  /\ pc \in {"collect", "sort", "align"} =>
       start_cell = FirstCell(start_chapter) /\ end_cell = LastCell
  /\ pc \in {"sort", "align"} => Arranged
HInv == CInv /\ Course /\ RightSectors

(* A set of numbers with an upper bound has a greatest one.                 *)
LEMMA Greatest ==
  ASSUME NEW S, S \subseteq Nat, S # {}, NEW b \in Nat, \A x \in S : x <= b
  PROVE  \E x \in S : \A y \in S : y <= x
<1> DEFINE Below == {ss \in Nat \X Nat : ss[1] < ss[2]}
           Left == {m \in Nat : b - m \in S}
<1>1. Left \subseteq Nat /\ Left # {}
  <2>1. PICK x \in S : TRUE
    OBVIOUS
  <2>2. b - x \in Nat /\ b - (b - x) = x
    BY <2>1
  <2>3. b - x \in Left
    BY <2>1, <2>2
  <2> QED BY <2>3
<1>2. PICK m \in Left : \A l \in Left : ~(<<l, m>> \in Below)
  <2>1. IsWellFoundedOn(Below, Nat)
    BY NatLessThanWellFounded DEF OpToRel
  <2> HIDE DEF Below, Left
  <2> QED BY <1>1, <2>1, WFMin
<1>3. m \in Nat /\ b - m \in S
  BY <1>2
<1>4. ASSUME NEW y \in S PROVE y <= b - m
  <2>1. y \in Nat /\ b - y \in Nat /\ b - (b - y) = y
    BY <1>4
  <2>2. b - y \in Left
    BY <2>1
  <2>3. ~(b - y < m)
    BY <1>2, <1>3, <2>1, <2>2
  <2> QED BY <1>3, <2>1, <2>3
<1> QED BY <1>3, <1>4

(* The two ends of what was asked for, and the cells of the program chain.  *)
LEMMA ChainFacts ==
  ASSUME TypeOK, Course, pc \in {"lookup", "collect", "sort", "align"}
  PROVE  /\ Chapters \in 1..MaxChapter /\ MaxChapter \in Nat
         /\ start_chapter \in 1..end_chapter /\ end_chapter \in 1..Chapters
         /\ Len(PGC.cell_playback) \in Nat
         /\ \A c \in 1..Len(PGC.cell_playback) : PGC.cell_playback[c] \in Cell
         /\ \A d \in 1..Chapters :
              PGC.program_map[Title.ptt[d].pgn] \in 1..Len(PGC.cell_playback)
<1>1. InTitle /\ end_chapter \in start_chapter..Chapters
  BY DEF Course
<1>2. Chapters \in 1..MaxChapter /\ MaxChapter \in Nat
  BY <1>1, TitleFacts, ChaptersAssumption DEF InTitle
<1>3. start_chapter \in 1..Chapters
  BY <1>1 DEF InTitle
<1>4. IsPgc(PGC) /\ \A d \in 1..Chapters : Title.ptt[d].pgn \in 1..Len(PGC.program_map)
  BY <1>1, <1>3, TitleFacts DEF InTitle, PGC
<1> QED BY <1>1, <1>2, <1>3, <1>4, PgcFacts

(* In a title of one chain, whose chapters are in order, the cells of the   *)
(* chapters asked for are those that Lookup finds.                          *)
LEMMA AskedCellsAreARange ==
  ASSUME TypeOK, Course, pc \in {"collect", "sort", "align"}, OnePgc, InProgramOrder
  PROVE  /\ AskedCells = {Title.ptt[1].pgcn} \X (start_cell..end_cell)
         /\ \A c \in start_cell..end_cell :
              CellAt(<<Title.ptt[1].pgcn, c>>) = PGC.cell_playback[c]
<1> DEFINE p == Title.ptt[1].pgcn
           n == Len(PGC.cell_playback)
           chains == disc.pgcs[Title.title_set]
<1>1. /\ Chapters \in 1..MaxChapter /\ MaxChapter \in Nat
      /\ start_chapter \in 1..end_chapter /\ end_chapter \in 1..Chapters
      /\ n \in Nat
      /\ \A d \in 1..Chapters : PGC.program_map[Title.ptt[d].pgn] \in 1..n
  BY ChainFacts
<1>2. \A d \in 1..Chapters : Title.ptt[d].pgcn = p /\ PgcOf(d) = PGC /\ PGC = chains[p]
  <2>1. \A d \in 1..Chapters : Title.ptt[d].pgcn = p
    BY DEF OnePgc
  <2>2. \A d \in 1..Chapters : PgcOf(d) = chains[p]
    BY <2>1 DEF PgcOf
  <2>3. start_chapter \in 1..Chapters
    BY <1>1
  <2>4. PGC = chains[p]
    BY <2>2, <2>3 DEF PGC
  <2> QED BY <2>1, <2>2, <2>4
<1>3. \A d \in 1..Chapters : FirstCell(d) = PGC.program_map[Title.ptt[d].pgn] /\ FirstCell(d) \in 1..n
  BY <1>1, <1>2 DEF FirstCell
<1>4. \A c, d \in 1..Chapters : c <= d => FirstCell(c) <= FirstCell(d)
  <2> TAKE c, d \in 1..Chapters
  <2>1. CASE c < d
    BY <1>2, <2>1 DEF InProgramOrder
  <2>2. CASE c = d
    BY <1>3, <2>2
  <2> QED BY <1>1, <2>1, <2>2
<1>5. start_cell = FirstCell(start_chapter) /\ end_cell = LastCell
  BY DEF Course
<1>6. /\ start_cell \in 1..n /\ end_cell \in Int /\ end_cell <= n
      /\ IF end_chapter < Chapters THEN end_cell = FirstCell(end_chapter + 1) - 1
                                   ELSE end_cell = n
  <2>1. start_cell \in 1..n
    BY <1>1, <1>3, <1>5
  <2>2. CASE end_chapter < Chapters
    <3>1. end_chapter + 1 \in 1..Chapters
      BY <1>1, <2>2
    <3>2. end_cell = FirstCell(end_chapter + 1) - 1
      BY <1>3, <1>5, <2>2, <3>1 DEF LastCell
    <3> QED BY <1>1, <1>3, <2>1, <2>2, <3>1, <3>2
  <2>3. CASE ~(end_chapter < Chapters)
    BY <1>1, <1>5, <2>1, <2>3 DEF LastCell
  <2> QED BY <2>2, <2>3
<1>7. \A d : Asked(d) <=> start_chapter <= d /\ d <= end_chapter
  <2>1. start_chapter = Clamp(FirstAsked) /\ end_chapter = Clamp(LastAsked)
    BY DEF Course
  <2> QED BY <2>1 DEF Asked
<1>8. p \in 1..Len(chains)
  <2>1. options.t # 0 /\ IsDisc(disc) /\ options.t \in 1..Len(disc.titles)
    <3>1. options.t # 0
      BY DEF Course, InTitle
    <3> QED BY <3>1, ChaptersAssumption DEF TypeOK, IsDisc
  <2>2. IsTitle(Title, disc.pgcs)
    BY <2>1 DEF IsDisc, Title
  <2> DEFINE Entry == [pgcn : 1..Len(chains), pgn : Nat]
  <2>3. Title.ptt \in Seq(Entry) /\ 1 \in 1..Len(Title.ptt)
    BY <1>1, <2>2 DEF IsTitle, Chapters
  <2>4. Title.ptt[1] \in Entry
    <3> HIDE DEF Entry
    <3> QED BY <2>3
  <2> QED BY <2>4
<1> DEFINE All == UNION {{q} \X (1..Len(chains[q].cell_playback)) : q \in 1..Len(chains)}
<1>9. ASSUME NEW pair \in AskedCells
      PROVE  pair \in {p} \X (start_cell..end_cell)
  <2>1. pair \in All /\ \E d \in 1..Chapters : Asked(d) /\ InChapter(pair[2], pair[1], d)
    BY DEF AskedCells
  <2>2. PICK q \in 1..Len(chains) : pair \in {q} \X (1..Len(chains[q].cell_playback))
    BY <2>1
  <2>3. PICK d \in 1..Chapters : Asked(d) /\ InChapter(pair[2], pair[1], d)
    BY <2>1
  <2>4. pair[1] = p /\ q = p
    BY <1>2, <2>2, <2>3 DEF InChapter
  <2> DEFINE c == pair[2]
  <2>5. pair = <<p, c>> /\ c \in 1..n
    BY <1>2, <2>2, <2>3, <2>4
  <2>6. start_chapter <= d /\ d <= end_chapter /\ FirstCell(d) <= c
    BY <1>7, <2>3 DEF InChapter
  <2>7. start_cell <= c
    <3>1. FirstCell(start_chapter) <= FirstCell(d)
      BY <1>1, <1>4, <2>6
    <3> QED BY <1>1, <1>3, <1>5, <2>5, <2>6, <3>1
  <2>8. c <= end_cell
    <3>1. CASE end_chapter < Chapters
      <4>1. end_chapter + 1 \in d + 1..Chapters /\ end_chapter + 1 \in 1..Chapters
        BY <1>1, <2>6, <3>1
      <4>2. c < FirstCell(end_chapter + 1)
        BY <1>2, <2>3, <2>4, <4>1 DEF InChapter
      <4> QED BY <1>3, <1>6, <2>5, <3>1, <4>1, <4>2
    <3>2. CASE ~(end_chapter < Chapters)
      BY <1>6, <2>5, <3>2
    <3> QED BY <3>1, <3>2
  <2>9. c \in start_cell..end_cell
    BY <1>1, <1>6, <2>5, <2>7, <2>8
  <2> QED BY <2>5, <2>9
<1>10. ASSUME NEW c \in start_cell..end_cell
       PROVE  <<p, c>> \in AskedCells
  <2>1. c \in 1..n
    BY <1>1, <1>6
  <2> DEFINE S == {d \in start_chapter..end_chapter : FirstCell(d) <= c}
  <2>2. S \subseteq Nat /\ end_chapter \in Nat /\ \A x \in S : x <= end_chapter
    BY <1>1
  <2>3. start_chapter \in S
    BY <1>1, <1>3, <1>5, <1>6
  <2>4. PICK d \in S : \A y \in S : y <= d
    <3> HIDE DEF S
    <3> QED BY <2>2, <2>3, Greatest
  <2>5. d \in 1..Chapters /\ d \in start_chapter..end_chapter /\ FirstCell(d) <= c
    BY <1>1, <2>4
  <2>6. ASSUME NEW later \in d + 1..Chapters
        PROVE  c < FirstCell(later)
    <3>1. later \in 1..Chapters /\ FirstCell(later) \in Nat
      BY <1>1, <1>3, <2>5
    <3>2. CASE later <= end_chapter
      <4>1. later \in start_chapter..end_chapter /\ ~(later <= d)
        BY <1>1, <2>5, <3>2
      <4>2. later \notin S
        BY <2>4, <4>1
      <4> QED BY <2>1, <3>1, <4>1, <4>2
    <3>3. CASE ~(later <= end_chapter)
      <4>1. end_chapter < Chapters /\ end_chapter + 1 \in 1..Chapters /\ end_chapter + 1 <= later
        BY <1>1, <3>1, <3>3
      <4>2. FirstCell(end_chapter + 1) <= FirstCell(later) /\ FirstCell(end_chapter + 1) \in Nat
        BY <1>3, <1>4, <3>1, <4>1
      <4>3. end_cell = FirstCell(end_chapter + 1) - 1
        BY <1>6, <4>1
      <4> QED BY <1>6, <2>1, <3>1, <4>2, <4>3
    <3> QED BY <3>2, <3>3
  <2>7. Asked(d) /\ InChapter(c, p, d)
    BY <1>2, <1>7, <1>1, <2>5, <2>6 DEF InChapter
  <2>8. <<p, c>> \in {p} \X (1..Len(chains[p].cell_playback))
    BY <1>2, <1>1, <2>1
  <2>9. <<p, c>> \in All
    BY <1>8, <2>8
  <2> HIDE DEF All
  <2>10. <<p, c>>[1] = p /\ <<p, c>>[2] = c
    OBVIOUS
  <2> QED BY <2>5, <2>7, <2>9, <2>10 DEF AskedCells, All
<1>11. \A c \in start_cell..end_cell : CellAt(<<p, c>>) = PGC.cell_playback[c]
  BY <1>1, <1>2 DEF CellAt
<1>12. ASSUME NEW pair \in {p} \X (start_cell..end_cell) PROVE pair \in AskedCells
  <2>1. pair = <<p, pair[2]>> /\ pair[2] \in start_cell..end_cell
    OBVIOUS
  <2> QED BY <1>10, <2>1
<1> QED BY <1>9, <1>11, <1>12

(* A chosen order takes every place exactly once.                           *)
LEMMA OrdersAreOnto ==
  ASSUME NEW n \in Nat, NEW f \in Orders(n)
  PROVE  \A m \in 1..n : \E k \in 1..n : f[k] = m
<1>1. f \in [1..n -> 1..n] /\ \A k, l \in 1..n : f[k] = f[l] => k = l
  BY DEF Orders
<1>2. f \in Injection(1..n, 1..n)
  BY <1>1 DEF Injection, IsInjective
<1>3. IsFiniteSet(1..n)
  BY FS_Interval
<1>4. f \in Surjection(1..n, 1..n)
  BY <1>2, <1>3, FS_Injection
<1> QED BY <1>4 DEF Surjection

(* The cells that were collected are those asked for, each as often.        *)
LEMMA ArrangedIsRight ==
  ASSUME TypeOK, Course, pc \in {"sort", "align"}, OnePgc, InProgramOrder
  PROVE  /\ {cells[k] : k \in 1..Len(cells)} = {CellAt(pair) : pair \in AskedCells}
         /\ \A c \in {cells[k] : k \in 1..Len(cells)} :
              Cardinality({k \in 1..Len(cells) : cells[k] = c})
                = Cardinality({pair \in AskedCells : CellAt(pair) = c})
<1> DEFINE p == Title.ptt[1].pgcn
           n == HowMany
<1>1. /\ AskedCells = {p} \X (start_cell..end_cell)
      /\ \A c \in start_cell..end_cell : CellAt(<<p, c>>) = PGC.cell_playback[c]
  BY AskedCellsAreARange
<1>2. start_cell \in Nat /\ end_cell \in Int
  BY DEF TypeOK
<1>3. n \in Nat /\ end_cell = start_cell + n - 1
  BY <1>2 DEF Course, Arranged, HowMany
<1>4. PICK f \in Orders(n) : cells = [k \in 1..n |-> PGC.cell_playback[start_cell + f[k] - 1]]
  BY DEF Course, Arranged
<1>5. /\ f \in [1..n -> 1..n] /\ \A k, l \in 1..n : f[k] = f[l] => k = l
      /\ \A m \in 1..n : \E k \in 1..n : f[k] = m
  BY <1>3, OrdersAreOnto DEF Orders
<1>6. Len(cells) = n
  BY <1>3, <1>4
<1> HIDE DEF n, p
<1> DEFINE At(k) == <<p, start_cell + f[k] - 1>>
<1>7. \A k \in 1..n : At(k) \in AskedCells /\ CellAt(At(k)) = cells[k]
  <2> TAKE k \in 1..n
  <2>1. f[k] \in 1..n
    BY <1>5
  <2>2. start_cell + f[k] - 1 \in start_cell..end_cell
    BY <1>2, <1>3, <2>1
  <2> QED BY <1>1, <1>4, <2>2
<1>8. \A pair \in AskedCells : \E k \in 1..n : At(k) = pair
  <2> TAKE pair \in AskedCells
  <2>1. pair = <<p, pair[2]>> /\ pair[2] \in start_cell..end_cell
    BY <1>1
  <2> DEFINE c == pair[2]
  <2>2. c - start_cell + 1 \in 1..n /\ start_cell + (c - start_cell + 1) - 1 = c
    BY <1>2, <1>3, <2>1
  <2>3. PICK k \in 1..n : f[k] = c - start_cell + 1
    BY <1>5, <2>2
  <2> QED BY <2>1, <2>2, <2>3
<1>9. \A k, l \in 1..n : At(k) = At(l) => k = l
  <2> TAKE k, l \in 1..n
  <2>1. f[k] \in Int /\ f[l] \in Int
    BY <1>3, <1>5
  <2>2. At(k) = At(l) => f[k] = f[l]
    BY <1>2, <2>1
  <2> QED BY <1>5, <2>2
<1> HIDE DEF At
<1>10. {cells[k] : k \in 1..Len(cells)} = {CellAt(pair) : pair \in AskedCells}
  BY <1>6, <1>7, <1>8
<1>11. ASSUME NEW c
       PROVE  Cardinality({k \in 1..Len(cells) : cells[k] = c})
                = Cardinality({pair \in AskedCells : CellAt(pair) = c})
  <2> DEFINE K == {k \in 1..Len(cells) : cells[k] = c}
             Q == {pair \in AskedCells : CellAt(pair) = c}
             g == [k \in K |-> At(k)]
  <2>1. \A k \in K : k \in 1..n /\ g[k] = At(k) /\ At(k) \in Q
    BY <1>6, <1>7
  <2>2. g \in [K -> Q]
    BY <2>1
  <2>3. \A pair \in Q : \E k \in K : g[k] = pair
    <3> TAKE pair \in Q
    <3>1. PICK k \in 1..n : At(k) = pair
      BY <1>8
    <3>2. k \in K
      BY <1>6, <1>7, <3>1
    <3> QED BY <3>1, <3>2
  <2>4. \A k, l \in K : g[k] = g[l] => k = l
    BY <1>9, <2>1
  <2>5. IsFiniteSet(K)
    <3>1. IsFiniteSet(1..n)
      BY <1>3, FS_Interval
    <3>2. K \subseteq 1..n
      BY <1>6
    <3> HIDE DEF K
    <3> QED BY <3>1, <3>2, FS_Subset
  <2> HIDE DEF K, Q, g
  <2>6. ExistsBijection(K, Q)
    <3>1. g \in Bijection(K, Q)
      BY <2>2, <2>3, <2>4 DEF Bijection, Injection, Surjection, IsInjective
    <3> QED BY <3>1 DEF ExistsBijection
  <2>7. Cardinality(Q) = Cardinality(K)
    BY <2>5, <2>6, FS_Bijection
  <2> QED BY <2>7 DEF K, Q
<1> QED BY <1>10, <1>11

(* Aligning cuts the cells, so that none gets a sector it had not; and      *)
(* where no cell reaches beyond the end of one that starts later, what is   *)
(* cut off one cell is in a later one: in the last that starts before it.   *)
LEMMA AlignKeepsSectors ==
  ASSUME NEW s \in Seq(Cell), Proper(s), Sorted(s), NEW x
  PROVE  LET t == align_end_sector(s)
         IN  /\ \A k \in 1..Len(t) : x \in SectorsOf(t[k]) =>
                  \E l \in 1..Len(s) : x \in SectorsOf(s[l])
             /\ (\A k, l \in 1..Len(s) : s[k].start <= s[l].start => s[k].end <= s[l].end)
                  => \A k \in 1..Len(s) : x \in SectorsOf(s[k]) =>
                       \E l \in 1..Len(t) : x \in SectorsOf(t[l])
<1> DEFINE t == align_end_sector(s)
           n == Len(s)
<1>1. n \in Nat /\ \A k \in 1..n : s[k] \in Cell /\ s[k].start \in Nat /\ s[k].end \in Int
  <2>1. n \in Nat /\ \A k \in 1..n : s[k] \in Cell
    OBVIOUS
  <2>2. \A c \in Cell : c.start \in Nat /\ c.end \in Int
    BY DEF Cell
  <2> QED BY <2>1, <2>2
<1>2. \A k \in 1..n :
        t[k] = IF k < n /\ s[k].end >= s[k + 1].start
               THEN [start |-> s[k].start, end |-> s[k + 1].start - 1] ELSE s[k]
  BY DEF align_end_sector
<1>3. Len(t) = n
  BY <1>1 DEF align_end_sector
<1> HIDE DEF t, n
<1>4. ASSUME NEW k \in 1..n, x \in SectorsOf(t[k])
      PROVE  \E l \in 1..n : x \in SectorsOf(s[l])
  <2>1. CASE k < n /\ s[k].end >= s[k + 1].start
    <3>1. t[k].start = s[k].start /\ t[k].end = s[k + 1].start - 1
      <4>1. t[k] = [start |-> s[k].start, end |-> s[k + 1].start - 1]
        BY <1>2, <2>1
      <4> QED BY <4>1
    <3>2. k + 1 \in 1..n /\ s[k + 1].start \in Nat
      BY <1>1, <2>1
    <3>3. x \in s[k].start..s[k].end
      BY <1>1, <1>4, <2>1, <3>1, <3>2 DEF SectorsOf
    <3> QED BY <3>3 DEF SectorsOf
  <2>2. CASE ~(k < n /\ s[k].end >= s[k + 1].start)
    BY <1>2, <1>4, <2>2
  <2> QED BY <2>1, <2>2
<1>5. ASSUME \A k, l \in 1..n : s[k].start <= s[l].start => s[k].end <= s[l].end,
             NEW k \in 1..n, x \in SectorsOf(s[k])
      PROVE  \E l \in 1..n : x \in SectorsOf(t[l])
  <2>1. x \in Nat /\ s[k].start <= x /\ x <= s[k].end
    BY <1>1, <1>5 DEF SectorsOf
  <2> DEFINE S == {l \in 1..n : s[l].start <= x}
  <2>2. S \subseteq Nat /\ k \in S /\ \A l \in S : l <= n
    BY <1>1, <2>1
  <2>3. PICK l \in S : \A m \in S : m <= l
    <3> HIDE DEF S
    <3> QED BY <1>1, <2>2, Greatest
  <2>4. l \in 1..n /\ s[l].start <= x /\ k <= l
    BY <2>2, <2>3
  <2>5. s[k].start <= s[l].start
    <3>1. k = l => s[k].start <= s[l].start
      BY <1>1
    <3>2. k < l => s[k].start <= s[l].start
      BY <2>4 DEF Sorted, n
    <3> QED BY <1>1, <2>4, <3>1, <3>2
  <2>6. x <= s[l].end
    <3>1. s[k].end <= s[l].end
      BY <1>5, <2>4, <2>5
    <3> QED BY <1>1, <2>1, <2>4, <3>1
  <2>7. CASE l < n /\ s[l].end >= s[l + 1].start
    <3>1. t[l].start = s[l].start /\ t[l].end = s[l + 1].start - 1
      <4>1. t[l] = [start |-> s[l].start, end |-> s[l + 1].start - 1]
        BY <1>2, <2>4, <2>7
      <4> QED BY <4>1
    <3>2. l + 1 \in 1..n /\ s[l + 1].start \in Nat /\ l + 1 \notin S
      BY <1>1, <2>3, <2>4, <2>7
    <3>3. x < s[l + 1].start
      BY <2>1, <3>2
    <3>4. x \in t[l].start..t[l].end
      BY <1>1, <2>1, <2>4, <3>1, <3>2, <3>3
    <3> QED BY <2>4, <3>4 DEF SectorsOf
  <2>8. CASE ~(l < n /\ s[l].end >= s[l + 1].start)
    <3>1. t[l] = s[l]
      BY <1>2, <2>4, <2>8
    <3>2. x \in s[l].start..s[l].end
      BY <1>1, <2>1, <2>4, <2>6
    <3> QED BY <2>4, <3>1, <3>2 DEF SectorsOf
  <2> QED BY <2>7, <2>8
<1> QED BY <1>3, <1>4, <1>5 DEF t, n

\* Each step establishes what the next one finds of the chapters asked for.
LEMMA CourseFollows ==
  ASSUME HInv, [Next]_vars
  PROVE  Course'
<1>1. CInv /\ TypeOK /\ Course
  BY DEF HInv, CInv
<1>2. MaxChapter \in Nat \ {0}
  BY ChaptersAssumption
<1>3. /\ options.s \in 0..MaxChapter /\ options.e \in 0..MaxChapter
      /\ start_chapter \in 0..MaxChapter /\ end_chapter \in 0..MaxChapter
      /\ start_cell \in Nat /\ end_cell \in Int /\ cells \in Seq(Cell)
  BY <1>1 DEF TypeOK
<1>4. FirstAsked \in 1..MaxChapter /\ LastAsked \in 1..MaxChapter
  BY <1>2, <1>3 DEF FirstAsked, LastAsked
<1> DEFINE Same == disc' = disc /\ options' = options
<1>5. ASSUME Same
      PROVE  /\ Title' = Title /\ Chapters' = Chapters
             /\ FirstAsked' = FirstAsked /\ LastAsked' = LastAsked
  BY <1>5 DEF Title, Chapters, FirstAsked, LastAsked
<1>6. ASSUME AskChapters PROVE Course'
  <2>1. Same /\ pc' = "open" /\ start_chapter' = FirstAsked /\ end_chapter' = LastAsked
        /\ FirstAsked <= LastAsked
    BY <1>6 DEF AskChapters
  <2>2. Clamp(start_chapter)' = Clamp(FirstAsked)' /\ Clamp(end_chapter)' = Clamp(LastAsked)'
    BY <1>5, <2>1 DEF Clamp
  <2> QED BY <1>4, <2>1, <2>2 DEF Course
<1>7. ASSUME AskTitle PROVE Course'
  <2>1. Same /\ pc' = "open" /\ start_chapter' = 1 /\ end_chapter' = Chapters
    BY <1>7 DEF AskTitle
  <2>2. options.t # 0 /\ options.s = 0 /\ options.e = 0
    BY <1>7 DEF AskTitle, do_titles
  <2>3. Chapters \in 1..MaxChapter
    BY <1>1, <2>2, TitleFacts
  <2>4. FirstAsked = 1 /\ LastAsked = MaxChapter
    BY <2>2 DEF FirstAsked, LastAsked
  <2>5. Clamp(start_chapter)' = Clamp(FirstAsked)' /\ Clamp(end_chapter)' = Clamp(LastAsked)'
    BY <1>2, <1>5, <2>1, <2>3, <2>4 DEF Clamp
  <2> QED BY <1>2, <2>1, <2>3, <2>5 DEF Course
<1>8. ASSUME Truncate PROVE Course'
  <2>1. /\ Same /\ pc' = "lookup" /\ pc = "open"
        /\ start_chapter' = Clamp(start_chapter) /\ end_chapter' = Clamp(end_chapter)
    BY <1>8 DEF Truncate
  <2>2. /\ options.t # 0 /\ start_chapter >= 1 /\ start_chapter <= end_chapter
        /\ Clamp(start_chapter) = Clamp(FirstAsked) /\ Clamp(end_chapter) = Clamp(LastAsked)
    BY <1>1, <2>1 DEF CInv, Stages, Course
  <2>3. Chapters \in 1..MaxChapter
    BY <1>1, <2>2, TitleFacts
  <2>4. Clamp(start_chapter) \in 1..Chapters /\ Clamp(end_chapter) \in Clamp(start_chapter)..Chapters
    BY <1>2, <1>3, <2>2, <2>3 DEF Clamp
  <2>5. Clamp(FirstAsked)' = Clamp(FirstAsked) /\ Clamp(LastAsked)' = Clamp(LastAsked)
    BY <1>5, <2>1 DEF Clamp
  <2>6. start_chapter' = Clamp(FirstAsked)' /\ end_chapter' = Clamp(LastAsked)'
    BY <2>1, <2>2, <2>5
  <2>7. InTitle' /\ end_chapter' \in start_chapter'..Chapters'
    BY <1>5, <2>1, <2>2, <2>4 DEF InTitle
  <2> QED BY <2>1, <2>6, <2>7 DEF Course
<1> DEFINE Chosen == /\ start_chapter = Clamp(FirstAsked) /\ end_chapter = Clamp(LastAsked)
                     /\ InTitle /\ end_chapter \in start_chapter..Chapters
           Found == start_cell = FirstCell(start_chapter) /\ end_cell = LastCell
           Stay == Same /\ UNCHANGED <<start_chapter, end_chapter>>
           Rest == Stay /\ UNCHANGED <<start_cell, end_cell>>
<1>9. ASSUME Chosen, Stay PROVE Chosen' /\ PGC' = PGC /\ LastCell' = LastCell
                                /\ FirstCell(start_chapter)' = FirstCell(start_chapter)
  BY <1>9 DEF Clamp, FirstAsked, LastAsked, InTitle, Chapters, Title, PGC, PgcOf, LastCell, FirstCell
<1>10. ASSUME Chosen, Found, Rest PROVE Chosen' /\ Found' /\ PGC' = PGC /\ HowMany' = HowMany
  <2>1. Chosen' /\ PGC' = PGC
    BY <1>9, <1>10
  <2>2. Found'
    BY <1>9, <1>10
  <2>3. HowMany' = HowMany
    BY <1>10 DEF HowMany
  <2> QED BY <2>1, <2>2, <2>3
<1>11. ASSUME Lookup PROVE Course'
  <2>1. Stay /\ pc = "lookup" /\ pc' = "collect" /\ start_cell' = FirstCell(start_chapter)
        /\ end_cell' = LastCell
    BY <1>11 DEF Lookup, FirstCell, PGC
  <2>2. Chosen
    BY <1>1, <2>1 DEF Course
  <2>3. Chosen' /\ Found'
    BY <1>9, <2>1, <2>2
  <2> QED BY <2>1, <2>3 DEF Course
<1>12. ASSUME Collect PROVE Course'
  <2>1. /\ Rest /\ pc = "collect" /\ pc' = "sort" /\ HowMany >= 0
        /\ cells' = [k \in 1..HowMany |-> PGC.cell_playback[start_cell + k - 1]]
    BY <1>12 DEF Collect
  <2>2. Chosen /\ Found
    BY <1>1, <2>1 DEF Course
  <2>3. Chosen' /\ Found' /\ PGC' = PGC /\ HowMany' = HowMany /\ start_cell' = start_cell
    BY <1>10, <2>1, <2>2
  <2>4. Arranged'
    <3> DEFINE f == [k \in 1..HowMany |-> k]
    <3>1. f \in Orders(HowMany)
      BY DEF Orders
    <3>2. cells' = [k \in 1..HowMany |-> PGC.cell_playback[start_cell + f[k] - 1]]
      BY <2>1
    <3>3. Orders(HowMany)' = Orders(HowMany)
      BY <2>3 DEF Orders
    <3> HIDE DEF f
    <3> QED BY <2>1, <2>3, <3>1, <3>2, <3>3 DEF Arranged
  <2> QED BY <2>1, <2>3, <2>4 DEF Course
<1>13. ASSUME Sort PROVE Course'
  <2>1. Rest /\ pc = "sort" /\ pc' = "align"
    BY <1>13 DEF Sort
  <2>2. PICK g \in Orders(Len(cells)) : cells' = [k \in 1..Len(cells) |-> cells[g[k]]]
    BY <1>13 DEF Sort
  <2>3. Chosen /\ Found /\ Arranged
    BY <1>1, <2>1 DEF Course
  <2>4. Chosen' /\ Found' /\ PGC' = PGC /\ HowMany' = HowMany /\ start_cell' = start_cell
    BY <1>10, <2>1, <2>3
  <2> DEFINE n == HowMany
  <2>5. PICK f \in Orders(n) : cells = [k \in 1..n |-> PGC.cell_playback[start_cell + f[k] - 1]]
    BY <2>3 DEF Arranged
  <2>6. n \in Nat /\ Len(cells) = n
    <3>1. n \in Nat
      BY <1>3, <2>3 DEF Arranged, HowMany
    <3> HIDE DEF n
    <3> QED BY <2>5, <3>1
  <2>7. Arranged'
    <3> DEFINE h == [k \in 1..n |-> f[g[k]]]
    <3>1. /\ g \in [1..n -> 1..n] /\ \A k, l \in 1..n : g[k] = g[l] => k = l
          /\ f \in [1..n -> 1..n] /\ \A k, l \in 1..n : f[k] = f[l] => k = l
      BY <2>2, <2>5, <2>6 DEF Orders
    <3>2. h \in Orders(n)
      <4> HIDE DEF n
      <4>1. h \in [1..n -> 1..n]
        BY <3>1
      <4>2. \A k, l \in 1..n : h[k] = h[l] => k = l
        BY <3>1
      <4> HIDE DEF h
      <4> QED BY <4>1, <4>2 DEF Orders
    <3>3. cells' = [k \in 1..n |-> PGC.cell_playback[start_cell + h[k] - 1]]
      <4> HIDE DEF n
      <4>1. \A k \in 1..n : cells[g[k]] = PGC.cell_playback[start_cell + h[k] - 1]
        BY <2>5, <3>1
      <4> HIDE DEF h
      <4> QED BY <2>2, <2>6, <4>1
    <3>4. Orders(n)' = Orders(n)
      BY <2>4 DEF Orders
    <3> HIDE DEF h
    <3> QED BY <2>3, <2>4, <3>2, <3>3, <3>4 DEF Arranged
  <2> QED BY <2>1, <2>4, <2>7 DEF Course
<1>14. ASSUME UsageError \/ OpenFails \/ NoMemory \/ Write PROVE Course'
  <2>1. pc' = "exit"
    BY <1>14 DEF UsageError, OpenFails, NoMemory, Write, Exit
  <2> QED BY <2>1 DEF Course
<1>15. ASSUME Align PROVE Course'
  <2>1. pc' = "write"
    BY <1>15 DEF Align
  <2> QED BY <2>1 DEF Course
<1>16. ASSUME UNCHANGED vars PROVE Course'
  <2>1. Rest /\ pc' = pc /\ cells' = cells
    BY <1>16 DEF vars
  <2>2. pc = "open" => pc' = "open" /\ Course'
    BY <1>1, <2>1 DEF Course, Clamp, FirstAsked, LastAsked, Chapters, Title
  <2>3. pc = "lookup" => Course'
    BY <1>1, <1>9, <2>1 DEF Course
  <2>4. pc = "collect" => Course'
    BY <1>1, <1>10, <2>1 DEF Course
  <2>5. pc \in {"sort", "align"} => Course'
    <3> SUFFICES ASSUME pc \in {"sort", "align"} PROVE Course'
      OBVIOUS
    <3>1. Chosen /\ Found /\ Arranged
      BY <1>1 DEF Course
    <3>2. Chosen' /\ Found' /\ PGC' = PGC /\ HowMany' = HowMany /\ start_cell' = start_cell
      BY <1>10, <2>1, <3>1
    <3>3. Arranged'
      <4>1. Orders(HowMany)' = Orders(HowMany)
        BY <3>2 DEF Orders
      <4> QED BY <2>1, <3>1, <3>2, <4>1 DEF Arranged
    <3> QED BY <2>1, <3>2, <3>3 DEF Course
  <2>6. pc \notin {"open", "lookup", "collect", "sort", "align"} => Course'
    BY <2>1 DEF Course
  <2> QED BY <2>2, <2>3, <2>4, <2>5, <2>6
<1> QED
  BY <1>6, <1>7, <1>8, <1>11, <1>12, <1>13, <1>14, <1>15, <1>16 DEF Next, Exited

\* What was asked for depends on the disc and the options, which stay.
LEMMA AskedStays ==
  ASSUME disc' = disc, options' = options
  PROVE  /\ AskedCells' = AskedCells /\ OnePgc' = OnePgc /\ InProgramOrder' = InProgramOrder
         /\ AskedSectors' = AskedSectors /\ Engulfs' = Engulfs
<1>1. Title' = Title /\ Chapters' = Chapters /\ disc' = disc
      /\ FirstAsked' = FirstAsked /\ LastAsked' = LastAsked
  BY DEF Title, Chapters, FirstAsked, LastAsked
<1>2. AskedCells' = AskedCells
  BY <1>1 DEF AskedCells, Asked, Clamp, InChapter, FirstCell, PgcOf
<1>3. OnePgc' = OnePgc /\ InProgramOrder' = InProgramOrder
  BY <1>1 DEF OnePgc, InProgramOrder, FirstCell, PgcOf
<1>4. AskedSectors' = AskedSectors /\ Engulfs' = Engulfs
  BY <1>1, <1>2 DEF AskedSectors, Engulfs, CellAt
<1> QED BY <1>2, <1>3, <1>4

\* Align turns the cells asked for into sectors asked for.
LEMMA AlignIsRight ==
  ASSUME HInv, Align
  PROVE  RightSectors'
<1>1. /\ pc = "align" /\ cells' = align_end_sector(cells)
      /\ UNCHANGED <<disc, options, start_chapter, end_chapter>>
  BY DEF Align
<1>2. TypeOK /\ Course /\ cells \in Seq(Cell) /\ Proper(cells) /\ Sorted(cells)
  BY <1>1 DEF HInv, CInv, Stages, TypeOK
<1>3. /\ AskedCells' = AskedCells /\ OnePgc' = OnePgc /\ InProgramOrder' = InProgramOrder
      /\ AskedSectors' = AskedSectors /\ Engulfs' = Engulfs
  BY <1>1, AskedStays
<1> SUFFICES ASSUME OnePgc, InProgramOrder
             PROVE  /\ ChosenSectors' \subseteq AskedSectors
                    /\ ~Engulfs => AskedSectors \subseteq ChosenSectors'
  BY <1>3 DEF RightSectors
<1>4. {cells[k] : k \in 1..Len(cells)} = {CellAt(pair) : pair \in AskedCells}
  BY <1>1, <1>2, ArrangedIsRight
<1>5. \A x : x \in AskedSectors <=> \E k \in 1..Len(cells) : x \in SectorsOf(cells[k])
  <2> TAKE x
  <2>1. x \in AskedSectors <=> \E pair \in AskedCells : x \in SectorsOf(CellAt(pair))
    BY DEF AskedSectors
  <2>2. \A pair \in AskedCells : \E k \in 1..Len(cells) : CellAt(pair) = cells[k]
    BY <1>4
  <2>3. \A k \in 1..Len(cells) : \E pair \in AskedCells : CellAt(pair) = cells[k]
    BY <1>4
  <2> QED BY <2>1, <2>2, <2>3
<1>6. \A x : x \in ChosenSectors' <=> \E k \in 1..Len(cells') : x \in SectorsOf(cells'[k])
  BY DEF ChosenSectors, SectorsOf
<1>7. ChosenSectors' \subseteq AskedSectors
  BY <1>1, <1>2, <1>5, <1>6, AlignKeepsSectors
<1>8. ASSUME ~Engulfs PROVE AskedSectors \subseteq ChosenSectors'
  <2>1. ASSUME NEW k \in 1..Len(cells), NEW l \in 1..Len(cells), cells[k].start <= cells[l].start
        PROVE  cells[k].end <= cells[l].end
    <3>1. PICK a \in AskedCells : CellAt(a) = cells[k]
      BY <1>4
    <3>2. PICK b \in AskedCells : CellAt(b) = cells[l]
      BY <1>4
    <3>3. ~(cells[l].end < cells[k].end)
      BY <1>8, <2>1, <3>1, <3>2 DEF Engulfs
    <3>4. cells[k] \in Cell /\ cells[l] \in Cell
      BY <1>2
    <3> QED BY <3>3, <3>4 DEF Cell
  <2> QED BY <1>1, <1>2, <1>5, <1>6, <2>1, AlignKeepsSectors
<1> QED BY <1>7, <1>8

\* DVDMirrorChapters: what it has checked and collected at each step, in
\* terms of the chapters asked for.
THEOREM ChaptersCourse == Spec => []HInv
<1>1. Init => HInv
  <2> SUFFICES ASSUME Init PROVE HInv
    OBVIOUS
  <2>1. MaxChapter \in Nat \ {0}
    BY ChaptersAssumption
  <2>2. CInv
    BY <2>1 DEF Init, CInv, TypeOK, Stages
  <2>3. Course /\ RightSectors
    BY DEF Init, Course, RightSectors
  <2> QED BY <2>2, <2>3 DEF HInv
<1>2. HInv /\ [Next]_vars => HInv'
  <2> SUFFICES ASSUME HInv, [Next]_vars PROVE HInv'
    OBVIOUS
  <2>1. CInv'
    BY StagesFollow DEF HInv
  <2>2. Course'
    BY CourseFollows
  <2>3. RightSectors'
    <3>1. CASE Align
      BY <3>1, AlignIsRight
    <3>2. CASE UNCHANGED vars
      <4>1. disc' = disc /\ options' = options /\ pc' = pc /\ ChosenSectors' = ChosenSectors
        BY <3>2 DEF vars, ChosenSectors
      <4> QED BY <4>1, AskedStays DEF HInv, RightSectors
    <3>3. CASE ~Align /\ ~UNCHANGED vars
      <4>1. pc' # "write"
        BY <3>3 DEF Next, UsageError, AskChapters, AskTitle, OpenFails, Truncate, Lookup,
                    NoMemory, Collect, Sort, Write, Exit, Exited
      <4> QED BY <4>1 DEF RightSectors
    <3> QED BY <3>1, <3>2, <3>3
  <2> QED BY <2>1, <2>2, <2>3 DEF HInv
<1> QED BY <1>1, <1>2, PTL DEF Spec

\* DVDMirrorChapters: the cells collected are those of the chapters asked
\* for, each as often as they have it, before and after the sort.
THEOREM ChaptersRightCells == Spec => []RightCells
<1>1. HInv => RightCells
  <2> SUFFICES ASSUME HInv, pc \in {"sort", "align"}, OnePgc, InProgramOrder
               PROVE  /\ {cells[k] : k \in 1..Len(cells)} = {CellAt(pair) : pair \in AskedCells}
                      /\ \A c \in {cells[k] : k \in 1..Len(cells)} :
                           Cardinality({k \in 1..Len(cells) : cells[k] = c})
                             = Cardinality({pair \in AskedCells : CellAt(pair) = c})
    BY DEF RightCells
  <2> QED BY ArrangedIsRight DEF HInv, CInv
<1> QED BY <1>1, ChaptersCourse, PTL

\* align_end_sector: no sector outside the chapters is handed over; and none
\* inside is lost, unless a cell reaches beyond the end of a later one.
THEOREM ChaptersRightSectors == Spec => []RightSectors
<1>1. HInv => RightSectors
  BY DEF HInv
<1> QED BY <1>1, ChaptersCourse, PTL
=============================================================================
