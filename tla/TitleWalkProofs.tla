--------------------------- MODULE TitleWalkProofs ---------------------------
(***************************************************************************)
(* The walk of create_titleset_range_list, for every title set and every   *)
(* effect of its commands: it is a life of the list of SectorRanges, so    *)
(* that what is proved of the list holds of the walk; and it gives a title *)
(* up for that title's own commands only.                                  *)
(***************************************************************************)
EXTENDS TitleWalk, RangeListProofs

-----------------------------------------------------------------------------
(* The range list of a title set (SectorRanges), whatever cells it is built *)
(* from.                                                                    *)

\* SortedAndCombined is inductive with the bounds of TypeOK; the two together
\* carry everything else.
ListInv == TypeOK /\ SortedAndCombined /\ NothingInvented

(* One cell leaves a well-formed list that relates to the old one as Added  *)
(* says.                                                                    *)
LEMMA OneCell ==
  ASSUME SortedAndCombined, NEW first \in Sector, NEW last \in Sector,
         AddCell(first, last)
  PROVE  /\ SortedAndCombined'
         /\ SameEnds(range_list, range_list', first, last) \/ range_list' = range_list
         /\ OnlyAdds(range_list, range_list', first, last)
         /\ AddsAll(range_list, range_list', first, last)
<1>1. first \in Nat /\ last \in Nat /\ WellFormed(range_list)
  BY MaxSectorAssumption DEF Sector, SortedAndCombined
<1>2. range_list' = add_sector_range_list(range_list, first, last)
  BY DEF AddCell
<1>3. CASE first <= last
  <2>1. Added(range_list, range_list', first, last)
    BY <1>1, <1>2, <1>3, AddProperties
  <2> QED BY <2>1 DEF Added, SortedAndCombined
<1>4. CASE first > last
  <2>1. range_list' = range_list
    BY <1>2, <1>4 DEF add_sector_range_list
  <2>2. \A n : n \notin first..last
    BY <1>1, <1>4
  <2> QED BY <1>1, <2>1, <2>2 DEF SortedAndCombined, OnlyAdds, AddsAll
<1> QED BY <1>1, <1>3, <1>4

(* The ends of every node are sectors of the title set.                     *)
LEMMA NodesAreSectors ==
  ASSUME TypeOK, NEW x \in 1..Len(range_list)
  PROVE  range_list[x].start \in Sector /\ range_list[x].end \in Sector
<1> DEFINE R == [start : Sector, end : Sector]
<1>1. range_list \in Seq(R)
  BY DEF TypeOK
<1>2. \A node \in R : node.start \in Sector /\ node.end \in Sector
  OBVIOUS
<1> HIDE DEF R
<1>3. range_list[x] \in R
  BY <1>1, ElementOfSeq
<1> QED BY <1>2, <1>3

(* Adding a cell keeps the types.                                           *)
LEMMA OneCellTypeOK ==
  ASSUME TypeOK, SortedAndCombined, NEW first \in Sector, NEW last \in Sector,
         AddCell(first, last)
  PROVE  TypeOK'
<1> DEFINE R == [start : Sector, end : Sector]
<1>1. WellFormed(range_list')
  BY OneCell DEF SortedAndCombined
<1>2. /\ Len(range_list') \in Nat
      /\ \A x \in 1..Len(range_list') : range_list'[x] \in sector_range
      /\ range_list' \in [1..Len(range_list') -> sector_range]
  BY <1>1, NodeType, LenProperties DEF WellFormed
<1>3. \A x \in 1..Len(range_list) : range_list[x].start \in Sector /\ range_list[x].end \in Sector
  BY NodesAreSectors
<1>4. referenced' \subseteq Sector
  BY MaxSectorAssumption DEF TypeOK, AddCell, Sector
<1>5. CASE range_list' = range_list
  BY <1>5, <1>4 DEF TypeOK
<1>6. CASE SameEnds(range_list, range_list', first, last)
  <2>1. ASSUME NEW x \in 1..Len(range_list')
        PROVE  range_list'[x] \in R
    <3>1. range_list'[x].start \in Sector /\ range_list'[x].end \in Sector
      BY <1>3, <1>6 DEF SameEnds
    <3> QED BY <1>2, <3>1 DEF sector_range
  <2>2. range_list' \in [1..Len(range_list') -> R]
    BY <1>2, <2>1
  <2> HIDE DEF R
  <2>3. range_list' \in Seq(R)
    BY <1>2, <2>2, SeqDef
  <2> QED BY <2>3, <1>4 DEF TypeOK, R
<1> QED BY <1>5, <1>6, OneCell

(* Adding a cell puts no sector on the list that no cell references.        *)
LEMMA OneCellNothingInvented ==
  ASSUME SortedAndCombined, NothingInvented, NEW first \in Sector, NEW last \in Sector,
         AddCell(first, last)
  PROVE  NothingInvented'
<1>1. WellFormed(range_list) /\ WellFormed(range_list')
  BY OneCell DEF SortedAndCombined
<1>2. SUFFICES ASSUME NEW x \in 1..Len(range_list'),
                      NEW n \in range_list'[x].start..range_list'[x].end
               PROVE  n \in referenced'
  BY DEF NothingInvented
<1>3. range_list'[x].start \in Nat /\ range_list'[x].end \in Nat
  BY <1>1, NodeType DEF WellFormed
<1>4. n \in Nat /\ Known(range_list', n)
  BY <1>3 DEF Known
<1>5. Known(range_list, n) \/ n \in first..last
  BY <1>4, OneCell DEF OnlyAdds
<1>6. CASE Known(range_list, n)
  <2>1. PICK k \in 1..Len(range_list) : range_list[k].start <= n /\ n <= range_list[k].end
    BY <1>6 DEF Known
  <2>2. range_list[k].start \in Nat /\ range_list[k].end \in Nat
    BY <1>1, NodeType DEF WellFormed
  <2>3. n \in range_list[k].start..range_list[k].end
    BY <1>4, <2>1, <2>2
  <2> QED BY <2>3 DEF NothingInvented, AddCell
<1>7. CASE n \in first..last
  BY <1>7 DEF AddCell
<1> QED BY <1>5, <1>6, <1>7

(* The inductive invariant holds however the cells come.                    *)
LEMMA ListInvariant == Spec => []ListInv
<1>1. Init => ListInv
  <2> SUFFICES ASSUME Init
               PROVE  ListInv
    OBVIOUS
  <2>1. range_list = <<>> /\ referenced = {}
    BY DEF Init
  <2>2. TypeOK
    BY <2>1, EmptySeq DEF TypeOK
  <2>3. SortedAndCombined
    BY <2>1, EmptySeq DEF SortedAndCombined, WellFormed
  <2>4. NothingInvented
    BY <2>1, EmptySeq DEF NothingInvented
  <2> QED BY <2>2, <2>3, <2>4 DEF ListInv
<1>2. ListInv /\ [Next]_vars => ListInv'
  <2> SUFFICES ASSUME ListInv, [Next]_vars
               PROVE  ListInv'
    OBVIOUS
  <2>1. CASE Next
    <3>1. PICK first \in Sector, last \in Sector : AddCell(first, last)
      BY <2>1 DEF Next
    <3> QED BY <3>1, OneCell, OneCellTypeOK, OneCellNothingInvented DEF ListInv
  <2>2. CASE UNCHANGED vars
    BY <2>2 DEF vars, ListInv, TypeOK, SortedAndCombined, NothingInvented
  <2> QED BY <2>1, <2>2
<1> QED BY <1>1, <1>2, PTL DEF Spec

(* Whatever cells are added, in whatever order, the list holds sectors of   *)
(* the title set only.                                                      *)
THEOREM ListTypeOK == Spec => []TypeOK
<1>1. ListInv => TypeOK
  BY DEF ListInv
<1> QED BY <1>1, ListInvariant, PTL

(* It stays sorted, with a gap between any two nodes.                       *)
THEOREM ListStaysSorted == Spec => []SortedAndCombined
<1>1. ListInv => SortedAndCombined
  BY DEF ListInv
<1> QED BY <1>1, ListInvariant, PTL

(* No sector enters it that no cell references.                             *)
THEOREM ListInventsNothing == Spec => []NothingInvented
<1>1. ListInv => NothingInvented
  BY DEF ListInv
<1> QED BY <1>1, ListInvariant, PTL

(* No cell is dropped from the list, and one that engulfs no node enters   *)
(* entirely.                                                                *)
THEOREM ListKeepsAndAdds == Spec => KeepsAndAdds
<1>1. ListInv /\ [Next]_vars
        => [\A first, last \in Sector : AddCell(first, last) =>
              \A n \in Sector :
                Known(range_list, n) \/ (n \in first..last /\ ~Engulfs(range_list, first, last))
                  => Known(range_list', n)]_vars
  <2> SUFFICES ASSUME ListInv, NEW first \in Sector, NEW last \in Sector,
                      AddCell(first, last), NEW n \in Sector
               PROVE  /\ Known(range_list, n) => Known(range_list', n)
                      /\ n \in first..last /\ ~Engulfs(range_list, first, last)
                           => Known(range_list', n)
    OBVIOUS
  <2>1. n \in Nat
    BY MaxSectorAssumption DEF Sector
  <2>2. Known(range_list, n) => Known(range_list', n)
    BY <2>1, OneCell DEF ListInv, OnlyAdds
  <2>3. n \in first..last /\ ~Engulfs(range_list, first, last) => Known(range_list', n)
    BY OneCell DEF ListInv, AddsAll
  <2> QED BY <2>2, <2>3
<1> QED BY <1>1, ListInvariant, PTL DEF Spec, KeepsAndAdds

(* Looking a sector up on it is exact.                                      *)
THEOREM ListLookupIsExact == Spec => []LookupExact
<1>1. ListInv => LookupExact
  <2> SUFFICES ASSUME ListInv, NEW offset \in Sector
               PROVE  LET n == find_next_sectors(range_list, offset)
                      IN  \/ /\ n > 0
                             /\ \A m \in offset..(offset + n - 1) : Known(range_list, m)
                             /\ ~Known(range_list, offset + n)
                          \/ /\ n < 0 /\ n # -INT_MAX
                             /\ \A m \in offset..(offset - n - 1) : ~Known(range_list, m)
                             /\ Known(range_list, offset - n)
                          \/ /\ n = -INT_MAX
                             /\ \A m \in offset..MaxSector : ~Known(range_list, m)
    BY DEF LookupExact
  <2> DEFINE n == find_next_sectors(range_list, offset)
  <2>1. WellFormed(range_list) /\ offset \in Nat /\ MaxSector \in Nat /\ offset <= MaxSector
    BY MaxSectorAssumption DEF ListInv, SortedAndCombined, Sector
  <2>2. CASE \E x \in Nat \ {0} :
               /\ n = x
               /\ \A m \in offset..(offset + x - 1) : Known(range_list, m)
               /\ ~Known(range_list, offset + x)
    BY <2>2
  <2>3. CASE \E k \in 1..Len(range_list) :
               /\ n = offset - range_list[k].start
               /\ offset < range_list[k].start
               /\ \A m \in offset..(range_list[k].start - 1) : ~Known(range_list, m)
               /\ Known(range_list, range_list[k].start)
    <3>1. PICK k \in 1..Len(range_list) :
               /\ n = offset - range_list[k].start
               /\ offset < range_list[k].start
               /\ \A m \in offset..(range_list[k].start - 1) : ~Known(range_list, m)
               /\ Known(range_list, range_list[k].start)
      BY <2>3
    <3>2. range_list[k].start \in Sector
      BY NodesAreSectors DEF ListInv
    <3>3. range_list[k].start \in Nat /\ range_list[k].start <= MaxSector /\ MaxSector < INT_MAX
      BY <3>2, MaxSectorAssumption DEF Sector
    <3>4. offset - n = range_list[k].start /\ n < 0 /\ n # -INT_MAX
      BY <2>1, <3>1, <3>3, IntMaxAssumption
    <3>5. \A m \in offset..(offset - n - 1) : ~Known(range_list, m)
      BY <3>1, <3>4
    <3> QED BY <3>1, <3>4, <3>5
  <2>4. CASE /\ n = -INT_MAX
             /\ \A m \in Nat : m >= offset => ~Known(range_list, m)
    BY <2>1, <2>4
  <2> QED BY <2>1, <2>2, <2>3, <2>4, LookupFinds
<1> QED BY <1>1, ListInvariant, PTL

-----------------------------------------------------------------------------
(* The walk.                                                                *)

InTitle == pc \in {"chapter", "pre", "cell", "post"}
InChain == pc \in {"pre", "cell", "post"}

\* The inductive invariant: where the walk is.
WalkInv ==
  /\ titleset \in TitleSets
  /\ pc \in {"open", "title", "chapter", "pre", "cell", "post", "done", "failed"}
  /\ titleid \in 1..Len(Titles) + 1
  /\ InTitle => titleid \in 1..Len(Titles)
  /\ InChain => c \in 1..Len(Titles[titleid].ptt) /\ IsWalked
  /\ c \in Nat \ {0} /\ i \in Nat \ {0}
  /\ vm \in Machine /\ vm.domain # "menu"
  /\ left \subseteq 1..Len(Titles)

\* What TitleWalkAssumption says of the titles.
LEMMA TitlesOfTheSet ==
  ASSUME titleset \in TitleSets
  PROVE  /\ Len(Titles) \in Nat /\ Len(titleset.pgcs) \in Nat
         /\ \A t \in 1..Len(Titles) : Titles[t].ptt \in Seq(Nat) /\ Len(Titles[t].ptt) \in Nat
<1> DEFINE Entry == [here : BOOLEAN, ptt : Seq(Nat), far : SUBSET Nat]
<1>1. Titles \in Seq(Entry) /\ titleset.pgcs \in Seq(Chain)
  BY TitleWalkAssumption DEF IsTitleSet, Titles
<1>2. Len(titleset.pgcs) \in Nat
  <2> HIDE DEF Entry
  <2> QED BY <1>1, LenProperties
<1>3. Len(Titles) \in Nat /\ \A t \in 1..Len(Titles) : Titles[t] \in Entry
  <2> HIDE DEF Entry
  <2> QED BY <1>1, LenProperties, ElementOfSeq
<1>4. ASSUME NEW t \in 1..Len(Titles)
      PROVE  Titles[t].ptt \in Seq(Nat) /\ Len(Titles[t].ptt) \in Nat
  <2>1. Titles[t].ptt \in Seq(Nat)
    BY <1>3
  <2> QED BY <2>1, LenProperties
<1> QED BY <1>2, <1>3, <1>4

\* A chapter that is walked names a program chain.
LEMMA WalkedChain ==
  ASSUME titleset \in TitleSets, titleid \in 1..Len(Titles),
         c \in 1..Len(Titles[titleid].ptt), IsWalked
  PROVE  pgc_id \in 1..Len(titleset.pgcs) /\ pgc_id \in ChainsOf(titleid)
<1>1. Titles[titleid].ptt \in Seq(Nat)
  BY TitlesOfTheSet
<1>2. pgc_id \in Nat
  BY <1>1, ElementOfSeq DEF pgc_id
<1>3. pgc_id \in 1..Len(titleset.pgcs)
  BY <1>2, TitlesOfTheSet DEF IsWalked
<1> QED BY <1>3 DEF ChainsOf, pgc_id

\* What it says of the commands and the cells of a program chain.
LEMMA PartsOfAChain ==
  ASSUME titleset \in TitleSets, NEW p \in 1..Len(titleset.pgcs)
  PROVE  LET chain == titleset.pgcs[p]
         IN  /\ Len(chain.pre) \in Nat /\ Len(chain.post) \in Nat /\ Len(chain.cells) \in Nat
             /\ \A k \in 1..Len(chain.pre) : chain.pre[k] \subseteq Effect
             /\ \A k \in 1..Len(chain.post) : chain.post[k] \subseteq Effect
             /\ \A k \in 1..Len(chain.cells) :
                  /\ chain.cells[k].first \in Sector /\ chain.cells[k].last \in Sector
                  /\ chain.cells[k].cmd \subseteq Effect
<1> DEFINE chain == titleset.pgcs[p]
<1> DEFINE CellOf == [first : Sector, last : Sector, cmd : SUBSET Effect]
<1>1. titleset.pgcs \in Seq(Chain)
  BY TitleWalkAssumption DEF IsTitleSet
<1>2. chain \in Chain
  <2> HIDE DEF CellOf
  <2> QED BY <1>1, ElementOfSeq
<1>3. /\ chain.pre \in Seq(SUBSET Effect) /\ chain.post \in Seq(SUBSET Effect)
      /\ chain.cells \in Seq(CellOf)
  BY <1>2 DEF Chain
<1>4. /\ Len(chain.pre) \in Nat /\ Len(chain.post) \in Nat
      /\ \A k \in 1..Len(chain.pre) : chain.pre[k] \in SUBSET Effect
      /\ \A k \in 1..Len(chain.post) : chain.post[k] \in SUBSET Effect
  <2> HIDE DEF chain
  <2> QED BY <1>3, LenProperties, ElementOfSeq
<1>5. Len(chain.cells) \in Nat /\ \A k \in 1..Len(chain.cells) : chain.cells[k] \in CellOf
  <2> HIDE DEF chain, CellOf
  <2> QED BY <1>3, LenProperties, ElementOfSeq
<1>6. \A cell \in CellOf : cell.first \in Sector /\ cell.last \in Sector /\ cell.cmd \subseteq Effect
  OBVIOUS
<1> HIDE DEF chain, CellOf
<1>7. \A k \in 1..Len(chain.cells) :
        /\ chain.cells[k].first \in Sector /\ chain.cells[k].last \in Sector
        /\ chain.cells[k].cmd \subseteq Effect
  BY <1>5, <1>6
<1> QED BY <1>4, <1>5, <1>7 DEF chain

-----------------------------------------------------------------------------
(* The virtual machine.                                                     *)

\* The machine after a call of the menu and the return from it.
Resumed(m, e, v) ==
  \E n \in Nat, r \in [here : BOOLEAN, cellN : Nat] :
    /\ n = IF e.cell = 0 THEN m.cellN ELSE e.cell
    /\ v = [m EXCEPT !.resume = r, !.domain = "VTS", !.past_end = IsFar, !.cellN = n]

\* What a command makes of the machine, by its kind, and a call of the menu
\* together with the return from it.
LEMMA Commands ==
  ASSUME NEW m \in Machine, m.domain # "menu", NEW e \in Effect
  PROVE  LET v == Resume(vm_exec_cmd(m, e))
         IN  \/ e.kind = "none" /\ v = m
             \/ e.kind = "link" /\ v = [m EXCEPT !.cellN = e.cell, !.past_end = FALSE]
             \/ e.kind = "menu" /\ Resumed(m, e, v)
             \/ e.kind = "leave" /\ v = [m EXCEPT !.here = FALSE, !.cellN = 1]
             \/ e.kind = "stop" /\ v = [m EXCEPT !.stopped = TRUE]
             \/ e.kind = "first_play" /\ v = [m EXCEPT !.domain = "FP"]
             \/ e.kind = "past_end" /\ v = [m EXCEPT !.past_end = TRUE]
<1> DEFINE v == Resume(vm_exec_cmd(m, e))
<1>0. e.kind \in Kinds /\ e.cell \in Nat /\ m.here \in BOOLEAN /\ m.cellN \in Nat
  BY DEF Effect, Machine
<1>1. CASE e.kind = "none"
  <2>1. vm_exec_cmd(m, e) = m
    BY <1>1 DEF vm_exec_cmd
  <2> QED BY <1>1, <2>1 DEF Resume
<1>2. CASE e.kind = "link"
  <2>1. vm_exec_cmd(m, e) = [m EXCEPT !.cellN = e.cell, !.past_end = FALSE]
    BY <1>2 DEF vm_exec_cmd
  <2>2. vm_exec_cmd(m, e).domain = m.domain
    BY <2>1 DEF Machine
  <2> QED BY <1>2, <2>1, <2>2 DEF Resume
<1>3. CASE e.kind = "menu"
  <2> DEFINE n == IF e.cell = 0 THEN m.cellN ELSE e.cell
  <2> DEFINE r == [here |-> m.here, cellN |-> n]
  <2> DEFINE w == [m EXCEPT !.domain = "menu", !.resume = r]
  <2>1. /\ n \in Nat /\ r \in [here : BOOLEAN, cellN : Nat] /\ r.here = m.here /\ r.cellN = n
        /\ n = IF e.cell = 0 THEN m.cellN ELSE e.cell
    BY <1>0
  <2>2. vm_exec_cmd(m, e) = w
    BY <1>3 DEF vm_exec_cmd
  <2> HIDE DEF n, r
  <2>3. w.domain = "menu" /\ w.resume = r
    BY DEF Machine
  <2>4. Resume(w) = [w EXCEPT !.domain = "VTS", !.past_end = IsFar,
                              !.here = m.here, !.cellN = n]
    BY <2>1, <2>3 DEF Resume
  <2>5. @ = [m EXCEPT !.resume = r, !.domain = "VTS", !.past_end = IsFar, !.cellN = n]
    BY <2>4 DEF Machine
  <2> HIDE DEF w
  <2>6. Resumed(m, e, Resume(w))
    BY <2>1, <2>4, <2>5, Zenon DEF Resumed
  <2> QED BY <1>3, <2>2, <2>6
<1>4. CASE e.kind = "leave"
  <2>1. vm_exec_cmd(m, e) = [m EXCEPT !.here = FALSE, !.cellN = 1]
    BY <1>4 DEF vm_exec_cmd
  <2>2. vm_exec_cmd(m, e).domain = m.domain
    BY <2>1 DEF Machine
  <2> QED BY <1>4, <2>1, <2>2 DEF Resume
<1>5. CASE e.kind = "stop"
  <2>1. vm_exec_cmd(m, e) = [m EXCEPT !.stopped = TRUE]
    BY <1>5 DEF vm_exec_cmd
  <2>2. vm_exec_cmd(m, e).domain = m.domain
    BY <2>1 DEF Machine
  <2> QED BY <1>5, <2>1, <2>2 DEF Resume
<1>6. CASE e.kind = "first_play"
  <2>1. vm_exec_cmd(m, e) = [m EXCEPT !.domain = "FP"]
    BY <1>6 DEF vm_exec_cmd
  <2>2. vm_exec_cmd(m, e).domain = "FP"
    BY <2>1 DEF Machine
  <2> QED BY <1>6, <2>1, <2>2 DEF Resume
<1>7. CASE e.kind = "past_end"
  <2>1. vm_exec_cmd(m, e) = [m EXCEPT !.past_end = TRUE]
    BY <1>7 DEF vm_exec_cmd
  <2>2. vm_exec_cmd(m, e).domain = m.domain
    BY <2>1 DEF Machine
  <2> QED BY <1>7, <2>1, <2>2 DEF Resume
<1> HIDE DEF v
<1> QED BY <1>0, <1>1, <1>2, <1>3, <1>4, <1>5, <1>6, <1>7 DEF Kinds, v

\* A machine stays one, and is back from the menu when the code looks at it.
LEMMA MachineStays ==
  ASSUME NEW m \in Machine, m.domain # "menu", NEW cmd \in SUBSET Effect, NEW v \in After(m, cmd)
  PROVE  v \in Machine /\ v.domain # "menu"
<1>1. PICK e \in Effect : e \in cmd /\ v = Resume(vm_exec_cmd(m, e))
  BY DEF After
<1>2. e.cell \in Nat
  BY DEF Effect
<1>3. /\ [m EXCEPT !.cellN = e.cell, !.past_end = FALSE] \in Machine
      /\ [m EXCEPT !.here = FALSE, !.cellN = 1] \in Machine
      /\ [m EXCEPT !.stopped = TRUE] \in Machine
      /\ [m EXCEPT !.domain = "FP"] \in Machine
      /\ [m EXCEPT !.past_end = TRUE] \in Machine
  BY <1>2 DEF Machine
<1>4. /\ [m EXCEPT !.cellN = e.cell, !.past_end = FALSE].domain = m.domain
      /\ [m EXCEPT !.here = FALSE, !.cellN = 1].domain = m.domain
      /\ [m EXCEPT !.stopped = TRUE].domain = m.domain
      /\ [m EXCEPT !.domain = "FP"].domain = "FP"
      /\ [m EXCEPT !.past_end = TRUE].domain = m.domain
  BY DEF Machine
<1>5. Resumed(m, e, v) => v \in Machine /\ v.domain # "menu"
  <2>1. IsFar \in BOOLEAN
    BY DEF IsFar
  <2> QED BY <2>1 DEF Resumed, Machine
<1> QED BY <1>1, <1>3, <1>4, <1>5, Commands

(* In the title domain, what check_vm refuses is due to the command just    *)
(* executed, or was so before it.                                           *)
LEMMA RefusedForAReason ==
  ASSUME NEW m \in Machine, m.domain = "VTS", m.past_end => IsFar,
         NEW cmd \in SUBSET Effect, NEW v \in After(m, cmd)
  PROVE  /\ m.stopped => v.stopped
         /\ ~check_vm(v) => \/ ~m.here \/ v.stopped \/ IsFar
                            \/ \E e \in cmd : e.kind \in {"leave", "stop", "first_play", "past_end"}
         /\ v.here \/ ~m.here \/ \E e \in cmd : e.kind = "leave"
<1>1. PICK e \in Effect : e \in cmd /\ v = Resume(vm_exec_cmd(m, e))
  BY DEF After
<1>2. CASE e.kind = "leave"
  <2>1. v = [m EXCEPT !.here = FALSE, !.cellN = 1]
    BY <1>1, <1>2, Commands
  <2>2. v.stopped = m.stopped
    BY <2>1 DEF Machine
  <2> QED BY <1>1, <1>2, <2>2
<1>3. CASE e.kind \in {"stop", "first_play", "past_end"}
  <2>1. \/ v = [m EXCEPT !.stopped = TRUE]
        \/ v = [m EXCEPT !.domain = "FP"]
        \/ v = [m EXCEPT !.past_end = TRUE]
    BY <1>1, <1>3, Commands
  <2>2. v.here = m.here /\ (m.stopped => v.stopped)
    BY <2>1 DEF Machine
  <2> QED BY <1>1, <1>3, <2>2
<1>4. CASE e.kind \notin {"leave", "stop", "first_play", "past_end"}
  <2>1. \/ v = m
        \/ v = [m EXCEPT !.cellN = e.cell, !.past_end = FALSE]
        \/ Resumed(m, e, v)
    BY <1>1, <1>4, Commands
  <2>2. v.here = m.here /\ v.stopped = m.stopped /\ v.domain = "VTS" /\ (v.past_end => IsFar)
    BY <2>1 DEF Machine, Resumed
  <2> QED BY <2>2 DEF check_vm
<1> QED BY <1>2, <1>3, <1>4

(* Without a link, a machine that check_vm accepts is at the cell it was at. *)
LEMMA CellStays ==
  ASSUME NEW m \in Machine, m.domain # "menu",
         NEW cmd \in SUBSET Effect, NEW v \in After(m, cmd), check_vm(v),
         ~\E e \in cmd : e.kind = "link" \/ (e.kind = "menu" /\ e.cell # 0)
  PROVE  v.cellN = m.cellN
<1>1. PICK e \in Effect : e \in cmd /\ v = Resume(vm_exec_cmd(m, e))
  BY DEF After
<1>2. CASE e.kind = "none"
  BY <1>1, <1>2, Commands
<1>3. CASE e.kind = "menu"
  <2>1. Resumed(m, e, v) /\ e.cell = 0
    BY <1>1, <1>3, Commands
  <2> QED BY <2>1 DEF Resumed, Machine
<1>4. CASE e.kind \in {"leave", "stop", "first_play", "past_end"}
  <2>1. \/ v = [m EXCEPT !.here = FALSE, !.cellN = 1]
        \/ v = [m EXCEPT !.stopped = TRUE]
        \/ v = [m EXCEPT !.domain = "FP"]
        \/ v = [m EXCEPT !.past_end = TRUE]
    BY <1>1, <1>4, Commands
  <2>2. ~v.here \/ v.stopped \/ v.domain = "FP" \/ v.past_end
    BY <2>1 DEF Machine
  <2> QED BY <2>2 DEF check_vm
<1> QED BY <1>1, <1>2, <1>3, <1>4 DEF Effect, Kinds

-----------------------------------------------------------------------------
(* Where the walk is.                                                       *)

\* A walk that goes on in the same title, and one that gives it up.
LEMMA LeavingKeeps ==
  ASSUME WalkInv, InTitle, LeaveTitle, vm' \in Machine, vm'.domain # "menu"
  PROVE  WalkInv'
<1>1. titleid \in 1..Len(Titles) /\ Len(Titles) \in Nat
  BY TitlesOfTheSet DEF WalkInv
<1>2. titleid' \in 1..Len(Titles') + 1
  BY <1>1 DEF LeaveTitle, Titles
<1>3. left' \subseteq 1..Len(Titles')
  BY <1>1 DEF LeaveTitle, WalkInv, Titles
<1> QED BY <1>2, <1>3 DEF LeaveTitle, WalkInv, InTitle, InChain, Titles

LEMMA WalkingKeeps ==
  ASSUME WalkInv, InChain, pc' = pc, i' \in Nat \ {0},
         UNCHANGED <<titleset, titleid, c, prev_pgc_id, left>>,
         vm' \in Machine, vm'.domain # "menu"
  PROVE  WalkInv'
BY DEF WalkInv, InTitle, InChain, Titles, IsWalked, pgc_id

\* The program chain of the walk, and the machine after one of its commands.
LEMMA InTheChain ==
  ASSUME WalkInv, InChain
  PROVE  /\ pgc_id \in 1..Len(titleset.pgcs) /\ pgc_id \in ChainsOf(titleid)
         /\ titleid \in 1..Len(Titles) /\ i \in Nat
         /\ \A cmd \in SUBSET Effect : \A v \in After(vm, cmd) : v \in Machine /\ v.domain # "menu"
<1>1. /\ titleset \in TitleSets /\ titleid \in 1..Len(Titles)
      /\ c \in 1..Len(Titles[titleid].ptt) /\ IsWalked
  BY DEF WalkInv, InChain, InTitle
<1>2. i \in Nat /\ vm \in Machine /\ vm.domain # "menu"
  BY DEF WalkInv
<1> QED BY <1>1, <1>2, WalkedChain, MachineStays

\* The cell of the walk.
LEMMA CellOfTheChain ==
  ASSUME WalkInv, pc = "cell", i <= Len(cur_pgc.cells)
  PROVE  /\ pgc_id \in 1..Len(titleset.pgcs) /\ i \in CellsOf(pgc_id)
         /\ Cell = titleset.pgcs[pgc_id].cells[i]
         /\ Cell.first \in Sector /\ Cell.last \in Sector /\ Cell.cmd \in SUBSET Effect
<1>1. titleset \in TitleSets /\ pgc_id \in 1..Len(titleset.pgcs) /\ i \in Nat \ {0}
  BY InTheChain DEF InChain, WalkInv
<1>2. Len(cur_pgc.cells) \in Nat
  BY <1>1, PartsOfAChain DEF cur_pgc
<1>3. i \in 1..Len(cur_pgc.cells)
  BY <1>1, <1>2
<1>4. Cell = titleset.pgcs[pgc_id].cells[i] /\ i \in CellsOf(pgc_id)
  BY <1>3 DEF Cell, cur_pgc, CellsOf
<1>5. /\ Cell.first \in Sector /\ Cell.last \in Sector /\ Cell.cmd \subseteq Effect
  BY <1>1, <1>3, <1>4, PartsOfAChain DEF cur_pgc
<1> QED BY <1>1, <1>4, <1>5

\* The invariant is inductive.
LEMMA WalkInvStep == WalkInv /\ [WalkNext]_walk_vars => WalkInv'
<1> SUFFICES ASSUME WalkInv, [WalkNext]_walk_vars
             PROVE  WalkInv'
  OBVIOUS
<1>t. /\ Len(Titles) \in Nat /\ titleid \in 1..Len(Titles) + 1
      /\ titleset \in TitleSets /\ c \in Nat \ {0} /\ i \in Nat \ {0}
      /\ vm \in Machine /\ vm.domain # "menu"
  BY TitlesOfTheSet DEF WalkInv
<1>1. ASSUME Open \/ OpenFails \/ Finish PROVE WalkInv'
  <2>1. pc' \in {"title", "failed", "done"} /\ UNCHANGED <<titleset, titleid, c, i, vm, left>>
    BY <1>1 DEF Open, OpenFails, Finish, position
  <2> QED BY <2>1 DEF WalkInv, InTitle, InChain, Titles
<1>2. ASSUME OtherTitle PROVE WalkInv'
  <2>1. titleid' \in 1..Len(Titles) + 1
    BY <1>t, <1>2 DEF OtherTitle, MoreTitles
  <2> QED BY <1>2, <2>1 DEF OtherTitle, MoreTitles, WalkInv, InTitle, InChain, Titles
<1>3. ASSUME StartTitle PROVE WalkInv'
  <2>1. titleid \in 1..Len(Titles)
    BY <1>t, <1>3 DEF StartTitle, MoreTitles
  <2>2. vm' \in Machine /\ vm'.domain # "menu"
    BY <1>t, <1>3 DEF StartTitle, Machine
  <2> QED BY <1>3, <2>1, <2>2 DEF StartTitle, MoreTitles, WalkInv, InTitle, InChain, Titles
<1>4. ASSUME SkipChapter PROVE WalkInv'
  <2>1. c' \in Nat \ {0}
    BY <1>t, <1>4 DEF SkipChapter
  <2> QED BY <1>4, <2>1 DEF SkipChapter, MoreChapters, WalkInv, InTitle, InChain, Titles
<1>5. ASSUME StartChain PROVE WalkInv'
  <2>1. titleid \in 1..Len(Titles) /\ c <= Len(Titles[titleid].ptt)
    BY <1>5 DEF StartChain, MoreChapters, WalkInv, InTitle
  <2>2. c \in 1..Len(Titles[titleid].ptt)
    BY <1>t, <2>1, TitlesOfTheSet
  <2>3. vm' \in Machine /\ vm'.domain # "menu"
    <3>1. IsFar \in BOOLEAN
      BY DEF IsFar
    <3> QED BY <1>t, <1>5, <3>1 DEF StartChain, Machine
  <2>4. i' \in Nat \ {0}
    BY <1>5 DEF StartChain
  <2> QED BY <1>5, <2>1, <2>2, <2>3, <2>4
          DEF StartChain, MoreChapters, WalkInv, InTitle, InChain, Titles, IsWalked, pgc_id
<1>6. ASSUME EndTitle PROVE WalkInv'
  <2>1. titleid' \in 1..Len(Titles) + 1
    BY <1>t, <1>6 DEF EndTitle, WalkInv, InTitle
  <2> QED BY <1>6, <2>1 DEF EndTitle, WalkInv, InTitle, InChain, Titles
<1>7. ASSUME PreCommand PROVE WalkInv'
  <2>1. InChain /\ InTitle
    BY <1>7 DEF PreCommand, InChain, InTitle
  <2>2. cur_pgc.pre[i] \in SUBSET Effect
    BY <1>t, <1>7, <2>1, InTheChain, PartsOfAChain DEF PreCommand, cur_pgc
  <2>3. vm' \in Machine /\ vm'.domain # "menu"
    BY <1>7, <2>1, <2>2, InTheChain DEF PreCommand
  <2>4. CASE check_vm(vm')
    <3>1. i' \in Nat \ {0}
      BY <1>t, <1>7, <2>4 DEF PreCommand
    <3> QED BY <1>7, <2>1, <2>3, <2>4, <3>1, WalkingKeeps DEF PreCommand
  <2>5. CASE ~check_vm(vm')
    BY <1>7, <2>1, <2>3, <2>5, LeavingKeeps DEF PreCommand
  <2> QED BY <2>4, <2>5
<1>8. ASSUME StartCells \/ EndCells PROVE WalkInv'
  <2>1. InChain /\ InTitle /\ InChain' /\ i' = 1
    BY <1>8 DEF StartCells, EndCells, InChain, InTitle
  <2>2. UNCHANGED <<titleset, titleid, c, prev_pgc_id, vm, left>>
    BY <1>8 DEF StartCells, EndCells
  <2> QED BY <2>1, <2>2 DEF WalkInv, InTitle, InChain, Titles, IsWalked, pgc_id
<1>9. ASSUME PlainCell PROVE WalkInv'
  <2>1. i' \in Nat \ {0}
    BY <1>t, <1>9 DEF PlainCell
  <2>2. InChain
    BY <1>9 DEF PlainCell, InChain
  <2> QED BY <1>t, <1>9, <2>1, <2>2, WalkingKeeps DEF PlainCell
<1>10. ASSUME CellWithCommand PROVE WalkInv'
  <2>1. InChain /\ InTitle
    BY <1>10 DEF CellWithCommand, InChain, InTitle
  <2>2. Cell.cmd \in SUBSET Effect
    BY <1>10, CellOfTheChain DEF CellWithCommand
  <2> DEFINE m == [vm EXCEPT !.cellN = i]
  <2>3. m \in Machine /\ m.domain # "menu"
    BY <1>t DEF Machine
  <2>4. vm' \in After(m, Cell.cmd)
    BY <1>10 DEF CellWithCommand
  <2> HIDE DEF m
  <2>5. vm' \in Machine /\ vm'.domain # "menu"
    BY <2>2, <2>3, <2>4, MachineStays
  <2>6. CASE check_vm(vm')
    <3>1. vm'.cellN \in Nat
      BY <2>5 DEF Machine
    <3>2. i' \in Nat \ {0}
      BY <1>t, <1>10, <2>6, <3>1 DEF CellWithCommand, next_cell
    <3> QED BY <1>10, <2>1, <2>5, <2>6, <3>2, WalkingKeeps DEF CellWithCommand
  <2>7. CASE ~check_vm(vm')
    BY <1>10, <2>1, <2>5, <2>7, LeavingKeeps DEF CellWithCommand
  <2> QED BY <2>6, <2>7
<1>11. ASSUME PostCommand PROVE WalkInv'
  <2>1. InChain /\ InTitle
    BY <1>11 DEF PostCommand, InChain, InTitle
  <2>2. cur_pgc.post[i] \in SUBSET Effect
    BY <1>t, <1>11, <2>1, InTheChain, PartsOfAChain DEF PostCommand, cur_pgc
  <2>3. vm' \in Machine /\ vm'.domain # "menu"
    BY <1>11, <2>1, <2>2, InTheChain DEF PostCommand
  <2>4. CASE check_vm(vm')
    <3>1. i' \in Nat \ {0}
      BY <1>t, <1>11, <2>4 DEF PostCommand
    <3> QED BY <1>11, <2>1, <2>3, <2>4, <3>1, WalkingKeeps DEF PostCommand
  <2>5. CASE ~check_vm(vm')
    <3>1. EndChain
      BY <1>11, <2>5 DEF PostCommand
    <3>2. c' \in Nat \ {0}
      BY <1>t, <3>1 DEF EndChain
    <3> QED BY <2>1, <2>3, <3>1, <3>2 DEF EndChain, WalkInv, InTitle, InChain, Titles
  <2> QED BY <2>4, <2>5
<1>12. ASSUME EndPost PROVE WalkInv'
  <2>1. c' \in Nat \ {0}
    BY <1>t, <1>12 DEF EndPost, EndChain
  <2> QED BY <1>12, <2>1 DEF EndPost, EndChain, WalkInv, InTitle, InChain, Titles
<1>13. ASSUME Returned \/ UNCHANGED walk_vars PROVE WalkInv'
  BY <1>13 DEF Returned, walk_vars, WalkInv, InTitle, InChain, Titles, IsWalked, pgc_id
<1> QED BY <1>1, <1>2, <1>3, <1>4, <1>5, <1>6, <1>7, <1>8, <1>9, <1>10, <1>11, <1>12, <1>13
        DEF WalkNext

LEMMA WalkInvariant == WalkSpec => []WalkInv
<1>1. WalkInit => WalkInv
  <2> SUFFICES ASSUME WalkInit
               PROVE  WalkInv
    OBVIOUS
  <2>1. titleset \in TitleSets /\ Len(Titles) \in Nat
    BY TitlesOfTheSet DEF WalkInit
  <2>2. vm \in Machine /\ vm.domain # "menu"
    BY DEF WalkInit, Reset, Machine
  <2> QED BY <2>1, <2>2 DEF WalkInit, WalkInv, InTitle, InChain
<1> QED BY <1>1, WalkInvStep, PTL DEF WalkSpec

-----------------------------------------------------------------------------
(* What the walk does to the list.                                          *)

\* A cell of the chain being walked is added, or the list stays.
LEMMA WalkStep == WalkInv /\ [WalkNext]_walk_vars => [Next]_vars
<1> SUFFICES ASSUME WalkInv, [WalkNext]_walk_vars
             PROVE  [Next]_vars
  OBVIOUS
<1>1. ASSUME pc = "cell", i <= Len(cur_pgc.cells), AddCell(Cell.first, Cell.last)
      PROVE  Next
  <2>1. Cell.first \in Sector /\ Cell.last \in Sector
    BY <1>1, CellOfTheChain
  <2> QED BY <1>1, <2>1 DEF Next
<1>2. ASSUME PlainCell PROVE Next
  BY <1>1, <1>2 DEF PlainCell
<1>3. ASSUME CellWithCommand PROVE Next
  BY <1>1, <1>3 DEF CellWithCommand
<1>4. ASSUME \/ Open \/ OpenFails \/ OtherTitle \/ StartTitle \/ SkipChapter \/ StartChain
             \/ PreCommand \/ StartCells \/ EndCells \/ PostCommand \/ EndPost \/ EndTitle
             \/ Finish \/ Returned \/ UNCHANGED walk_vars
      PROVE  UNCHANGED vars
  BY <1>4 DEF Open, OpenFails, OtherTitle, StartTitle, SkipChapter, StartChain, PreCommand,
              StartCells, EndCells, PostCommand, EndPost, EndTitle, Finish, Returned,
              SameList, walk_vars, vars
<1> QED BY <1>2, <1>3, <1>4 DEF WalkNext

(* A walk is a life of the list, whatever titles, chapters and commands     *)
(* lead through the title set: create_titleset_range_list adds cells of it  *)
(* only, one at a time, and does nothing else to the list.                  *)
THEOREM WalkIsALifeOfTheList == WalkSpec => Spec
<1>1. WalkInit => Init
  BY DEF WalkInit
<1> QED BY <1>1, WalkStep, WalkInvariant, PTL DEF WalkSpec, Spec

(* The walk stays within the title set, and so does the list.               *)
THEOREM WalkTypes == WalkSpec => []WalkTypeOK
<1>1. WalkInv /\ TypeOK => WalkTypeOK
  BY TitleWalkAssumption DEF WalkInv, TypeOK, WalkTypeOK, InChain
<1> QED BY <1>1, WalkInvariant, WalkIsALifeOfTheList, ListTypeOK, PTL

(* The list of a walk stays sorted and holds nothing that no cell           *)
(* references, and looking a sector up on it is exact.                      *)
THEOREM WalkListIsRight ==
  WalkSpec => [](SortedAndCombined /\ NothingInvented /\ LookupExact)
BY WalkIsALifeOfTheList, ListStaysSorted, ListInventsNothing, ListLookupIsExact, PTL

(* It forgets no cell, and takes in every one that engulfs no node.         *)
THEOREM WalkKeepsAndAdds == WalkSpec => KeepsAndAdds
BY WalkIsALifeOfTheList, ListKeepsAndAdds, PTL

-----------------------------------------------------------------------------
(* Why a title is given up.                                                 *)

\* The inductive invariant: when a program chain is being walked the machine
\* is in the title domain; it is in the title set unless a command of the
\* title may have led it away, and only such a command or a stop ends a title.
ReasonInv ==
  /\ WalkInv
  /\ InChain => vm.domain = "VTS" /\ (vm.past_end => IsFar)
  /\ \A t \in 1..Len(Titles) : InTitle /\ titleid = t => vm.here \/ MayLeave(t)
  /\ LeftForAReason

\* What a title may do depends on the title set only.
LEMMA SameReasons ==
  ASSUME titleset' = titleset
  PROVE  Titles' = Titles /\ \A t : MayLeave(t)' <=> MayLeave(t)
BY DEF MayLeave, ChainsOf, CommandsOf, CellsOf, Titles

\* A command of the program chain being walked.
LEMMA ReasonOfCommand ==
  ASSUME ReasonInv, InChain, NEW m \in Machine, m.domain = "VTS", m.past_end => IsFar,
         m.here = vm.here, m.stopped = vm.stopped,
         NEW cmd \in CommandsOf(pgc_id), cmd \in SUBSET Effect, vm' \in After(m, cmd)
  PROVE  /\ vm.stopped => vm'.stopped
         /\ check_vm(vm') => vm'.domain = "VTS" /\ ~vm'.past_end
         /\ ~check_vm(vm') => MayLeave(titleid) \/ vm'.stopped
         /\ vm'.here \/ MayLeave(titleid)
<1>1. titleid \in 1..Len(Titles) /\ pgc_id \in ChainsOf(titleid)
  BY InTheChain DEF ReasonInv
<1>2. vm.here \/ MayLeave(titleid)
  BY <1>1 DEF ReasonInv, InChain, InTitle
<1>3. (\E e \in cmd : e.kind \in {"leave", "stop", "first_play", "past_end"}) => MayLeave(titleid)
  BY <1>1 DEF MayLeave
<1>f. IsFar => MayLeave(titleid)
  BY DEF IsFar, MayLeave
<1>4. vm' \in Machine /\ vm'.domain # "menu"
  BY MachineStays
<1>5. check_vm(vm') => vm'.domain = "VTS" /\ ~vm'.past_end
  BY <1>4 DEF check_vm, Machine
<1> QED BY <1>2, <1>3, <1>f, <1>5, RefusedForAReason

\* The title goes on, or it is given up.
LEMMA ReasonKept ==
  ASSUME ReasonInv, WalkInv', UNCHANGED <<titleset, left>>, vm.stopped => vm'.stopped,
         InChain' => vm'.domain = "VTS" /\ (vm'.past_end => IsFar'),
         InTitle' => titleid' \in 1..Len(Titles) /\ (vm'.here \/ MayLeave(titleid'))
  PROVE  ReasonInv'
<1>1. Titles' = Titles /\ \A t : MayLeave(t)' <=> MayLeave(t)
  BY SameReasons
<1>2. \A t \in 1..Len(Titles') : InTitle' /\ titleid' = t => vm'.here \/ MayLeave(t)'
  BY <1>1
<1>3. LeftForAReason'
  BY <1>1 DEF LeftForAReason, ReasonInv
<1> QED BY <1>2, <1>3 DEF ReasonInv

LEMMA ReasonToLeave ==
  ASSUME ReasonInv, WalkInv', LeaveTitle, vm.stopped => vm'.stopped,
         MayLeave(titleid) \/ vm'.stopped
  PROVE  ReasonInv'
<1>1. Titles' = Titles /\ \A t : MayLeave(t)' <=> MayLeave(t)
  BY SameReasons DEF LeaveTitle
<1>2. ~InTitle' /\ ~InChain'
  BY DEF LeaveTitle, InTitle, InChain
<1>3. LeftForAReason'
  BY <1>1 DEF LeftForAReason, ReasonInv, LeaveTitle
<1> QED BY <1>2, <1>3 DEF ReasonInv

LEMMA ReasonStep == ReasonInv /\ [WalkNext]_walk_vars => ReasonInv'
<1> SUFFICES ASSUME ReasonInv, [WalkNext]_walk_vars
             PROVE  ReasonInv'
  OBVIOUS
<1>i. WalkInv /\ WalkInv'
  BY WalkInvStep DEF ReasonInv
<1>t. InTitle => titleid \in 1..Len(Titles) /\ (vm.here \/ MayLeave(titleid))
  BY <1>i DEF ReasonInv, WalkInv
<1>m. vm \in Machine /\ titleset \in TitleSets
  BY <1>i DEF WalkInv
<1>1. ASSUME Open \/ OpenFails \/ Finish \/ OtherTitle \/ EndTitle PROVE ReasonInv'
  <2>1. ~InTitle' /\ ~InChain' /\ UNCHANGED <<titleset, left, vm>>
    BY <1>1 DEF Open, OpenFails, Finish, OtherTitle, MoreTitles, EndTitle, position, InTitle, InChain
  <2> QED BY <1>i, <2>1, ReasonKept
<1>2. ASSUME StartTitle PROVE ReasonInv'
  <2>1. vm'.here /\ vm'.stopped = vm.stopped
    BY <1>m, <1>2 DEF StartTitle, Machine
  <2>2. ~InChain' /\ InTitle' /\ UNCHANGED <<titleset, left>>
    BY <1>2 DEF StartTitle, InTitle, InChain
  <2>3. titleid' \in 1..Len(Titles)
    BY <1>i, <2>2 DEF WalkInv, Titles
  <2> QED BY <1>i, <2>1, <2>2, <2>3, ReasonKept
<1>3. ASSUME SkipChapter \/ EndPost PROVE ReasonInv'
  <2>1. /\ InTitle /\ ~InChain' /\ UNCHANGED <<titleset, titleid, left, vm>>
    BY <1>3 DEF SkipChapter, MoreChapters, EndPost, EndChain, InTitle, InChain
  <2> QED BY <1>i, <1>t, <2>1, ReasonKept
<1>4. ASSUME StartChain PROVE ReasonInv'
  <2>1. /\ vm'.domain = "VTS" /\ (vm'.past_end => IsFar')
        /\ vm'.here = vm.here /\ vm'.stopped = vm.stopped
    BY <1>m, <1>4 DEF StartChain, Machine, IsFar, Titles
  <2>2. InTitle /\ UNCHANGED <<titleset, titleid, left>>
    BY <1>4 DEF StartChain, MoreChapters, InTitle
  <2> QED BY <1>i, <1>t, <2>1, <2>2, ReasonKept
<1>5. ASSUME StartCells \/ EndCells \/ PlainCell PROVE ReasonInv'
  <2>1. InChain /\ InTitle /\ UNCHANGED <<titleset, titleid, c, left, vm>>
    BY <1>5 DEF StartCells, EndCells, PlainCell, InChain, InTitle
  <2>2. IsFar' <=> IsFar
    BY <2>1 DEF IsFar, Titles
  <2> QED BY <1>i, <1>t, <2>1, <2>2, ReasonKept DEF ReasonInv
<1>6. ASSUME PreCommand PROVE ReasonInv'
  <2>1. InChain /\ InTitle /\ vm.domain = "VTS" /\ (vm.past_end => IsFar)
    BY <1>6 DEF PreCommand, InChain, InTitle, ReasonInv
  <2>2. pgc_id \in 1..Len(titleset.pgcs) /\ i \in 1..Len(cur_pgc.pre)
    BY <1>i, <1>m, <1>6, <2>1, InTheChain, PartsOfAChain DEF PreCommand, cur_pgc, WalkInv
  <2>3. cur_pgc.pre[i] \in SUBSET Effect /\ cur_pgc.pre[i] \in CommandsOf(pgc_id)
    BY <1>m, <2>2, PartsOfAChain DEF cur_pgc, CommandsOf
  <2>4. vm' \in After(vm, cur_pgc.pre[i])
    BY <1>6 DEF PreCommand
  <2>5. /\ vm.stopped => vm'.stopped
        /\ check_vm(vm') => vm'.domain = "VTS" /\ ~vm'.past_end
        /\ ~check_vm(vm') => MayLeave(titleid) \/ vm'.stopped
        /\ vm'.here \/ MayLeave(titleid)
    BY <1>m, <2>1, <2>3, <2>4, ReasonOfCommand
  <2>6. CASE check_vm(vm')
    <3>1. UNCHANGED <<titleset, titleid, left>>
      BY <1>6, <2>6 DEF PreCommand
    <3> QED BY <1>i, <1>t, <2>1, <2>5, <2>6, <3>1, ReasonKept
  <2>7. CASE ~check_vm(vm')
    BY <1>i, <1>6, <2>5, <2>7, ReasonToLeave DEF PreCommand
  <2> QED BY <2>6, <2>7
<1>7. ASSUME CellWithCommand PROVE ReasonInv'
  <2> DEFINE m == [vm EXCEPT !.cellN = i]
  <2>1. InChain /\ InTitle /\ vm.domain = "VTS" /\ (vm.past_end => IsFar)
    BY <1>7 DEF CellWithCommand, InChain, InTitle, ReasonInv
  <2>2. i \in CellsOf(pgc_id) /\ i \in Nat /\ Cell = titleset.pgcs[pgc_id].cells[i]
    BY <1>i, <1>7, CellOfTheChain DEF CellWithCommand, WalkInv
  <2>3. Cell.cmd \in SUBSET Effect /\ Cell.cmd \in CommandsOf(pgc_id)
    BY <1>i, <1>7, <2>2, CellOfTheChain DEF CellWithCommand, CommandsOf
  <2>4. vm' \in After(m, Cell.cmd)
    BY <1>7 DEF CellWithCommand
  <2>m. /\ m \in Machine /\ m.domain = "VTS" /\ (m.past_end => IsFar)
        /\ m.here = vm.here /\ m.stopped = vm.stopped
    BY <1>m, <2>1, <2>2 DEF Machine
  <2> HIDE DEF m
  <2>5. /\ vm.stopped => vm'.stopped
        /\ check_vm(vm') => vm'.domain = "VTS" /\ ~vm'.past_end
        /\ ~check_vm(vm') => MayLeave(titleid) \/ vm'.stopped
        /\ vm'.here \/ MayLeave(titleid)
    BY <2>1, <2>3, <2>4, <2>m, ReasonOfCommand
  <2>6. CASE check_vm(vm')
    <3>1. UNCHANGED <<titleset, titleid, left>>
      BY <1>7, <2>6 DEF CellWithCommand
    <3> QED BY <1>i, <1>t, <2>1, <2>5, <2>6, <3>1, ReasonKept
  <2>7. CASE ~check_vm(vm')
    BY <1>i, <1>7, <2>5, <2>7, ReasonToLeave DEF CellWithCommand
  <2> QED BY <2>6, <2>7
<1>8. ASSUME PostCommand PROVE ReasonInv'
  <2>1. InChain /\ InTitle /\ vm.domain = "VTS" /\ (vm.past_end => IsFar)
    BY <1>8 DEF PostCommand, InChain, InTitle, ReasonInv
  <2>2. pgc_id \in 1..Len(titleset.pgcs) /\ i \in 1..Len(cur_pgc.post)
    BY <1>i, <1>m, <1>8, <2>1, InTheChain, PartsOfAChain DEF PostCommand, cur_pgc, WalkInv
  <2>3. cur_pgc.post[i] \in SUBSET Effect /\ cur_pgc.post[i] \in CommandsOf(pgc_id)
    BY <1>m, <2>2, PartsOfAChain DEF cur_pgc, CommandsOf
  <2>4. vm' \in After(vm, cur_pgc.post[i])
    BY <1>8 DEF PostCommand
  <2>5. /\ vm.stopped => vm'.stopped
        /\ check_vm(vm') => vm'.domain = "VTS" /\ ~vm'.past_end
        /\ vm'.here \/ MayLeave(titleid)
    BY <1>m, <2>1, <2>3, <2>4, ReasonOfCommand
  <2>6. UNCHANGED <<titleset, titleid, left>> /\ (InChain' => check_vm(vm'))
    BY <1>8 DEF PostCommand, EndChain, InChain
  <2> QED BY <1>i, <1>t, <2>1, <2>5, <2>6, ReasonKept
<1>9. ASSUME Returned \/ UNCHANGED walk_vars PROVE ReasonInv'
  <2>1. UNCHANGED <<titleset, titleid, c, left, vm, pc>>
    BY <1>9 DEF Returned, walk_vars
  <2>2. (InTitle' <=> InTitle) /\ (InChain' <=> InChain) /\ (IsFar' <=> IsFar)
    BY <2>1 DEF InTitle, InChain, IsFar, Titles
  <2> QED BY <1>i, <1>t, <2>1, <2>2, ReasonKept DEF ReasonInv
<1> QED BY <1>1, <1>2, <1>3, <1>4, <1>5, <1>6, <1>7, <1>8, <1>9 DEF WalkNext

(* One machine serves all titles of the set, and what the commands of one   *)
(* leave behind in it takes no other title away, unless it has stopped.     *)
THEOREM WalkLeavesForAReason == WalkSpec => []LeftForAReason
<1>1. WalkInit /\ WalkInv => ReasonInv
  BY DEF WalkInit, ReasonInv, InTitle, InChain, LeftForAReason
<1>2. ReasonInv => LeftForAReason
  BY DEF ReasonInv
<1> QED BY <1>1, <1>2, ReasonStep, WalkInvariant, PTL DEF WalkSpec

-----------------------------------------------------------------------------
(* What a walk collects.                                                    *)

\* What WalkIsComplete promises of program chain p, and how much of it has
\* been kept when the walk is at cell k of it.
Collected(p) ==
  \A k \in CellsOf(p) : k = 1 \/ ~Links(p) => CellSectors(p, k) \subseteq referenced
CollectedSoFar(p) ==
  \A k \in CellsOf(p) :
    (k = 1 /\ i # 1) \/ (k < i /\ ~Links(p)) => CellSectors(p, k) \subseteq referenced

\* What has been collected of program chain p when the walk is in a title.
InThisTitle(p) ==
  /\ \A k \in 1..Len(Titles[titleid].ptt) : k < c /\ Titles[titleid].ptt[k] = p => Collected(p)
  /\ prev_pgc_id = p => Collected(p)
  /\ pc = "cell" /\ pgc_id = p => CollectedSoFar(p)
  /\ pc = "post" /\ pgc_id = p => Collected(p)

\* The inductive invariant: titles behind the walk are complete, and so are
\* the chapters behind it in its title, the program chain walked last, and
\* the cells behind it in a chain without links.
CompleteInv ==
  /\ ReasonInv
  /\ \A t \in 1..Len(Titles) :
       t < titleid /\ Titles[t].here /\ t \notin left => \A p \in ChainsOf(t) : Collected(p)
  /\ \A t \in left : t < titleid
  /\ InTitle => \A p \in 1..Len(titleset.pgcs) : InThisTitle(p)
  /\ pc = "done" => titleid > Len(Titles)

\* What has been collected stays so.
LEMMA StaysCollected ==
  ASSUME titleset' = titleset, referenced \subseteq referenced'
  PROVE  /\ Titles' = Titles
         /\ \A p : ChainsOf(p)' = ChainsOf(p)
         /\ \A p : Collected(p) => Collected(p)'
<1>1. /\ \A p : CellsOf(p)' = CellsOf(p) /\ (Links(p)' <=> Links(p))
      /\ \A p, k : CellSectors(p, k)' = CellSectors(p, k)
  BY DEF CellsOf, Links, CellSectors
<1>2. Titles' = Titles /\ \A p : ChainsOf(p)' = ChainsOf(p)
  BY DEF Titles, ChainsOf
<1>3. \A p : Collected(p) => Collected(p)'
  BY <1>1 DEF Collected
<1> QED BY <1>2, <1>3

\* A step that stays in its title, or outside of one.
LEMMA CompleteStays ==
  ASSUME CompleteInv, ReasonInv', titleset' = titleset, referenced \subseteq referenced',
         UNCHANGED <<titleid, left>>,
         InTitle' => \A p \in 1..Len(titleset.pgcs) : InThisTitle(p)',
         pc' = "done" => titleid > Len(Titles)
  PROVE  CompleteInv'
<1>1. \A t \in 1..Len(Titles') :
        t < titleid' /\ Titles'[t].here /\ t \notin left' => \A p \in ChainsOf(t)' : Collected(p)'
  BY StaysCollected DEF CompleteInv
<1>2. \A t \in left' : t < titleid'
  BY DEF CompleteInv
<1> QED BY <1>1, <1>2, StaysCollected DEF CompleteInv

\* A title is given up.
LEMMA CompleteLeave ==
  ASSUME CompleteInv, ReasonInv', LeaveTitle, referenced \subseteq referenced'
  PROVE  CompleteInv'
<1>1. titleset' = titleset /\ titleid' = titleid + 1 /\ left' = left \cup {titleid}
  BY DEF LeaveTitle
<1>2. pc' = "title" /\ ~InTitle'
  BY DEF LeaveTitle, InTitle
<1>3. Len(Titles) \in Nat /\ titleid \in Nat
  BY TitlesOfTheSet DEF CompleteInv, ReasonInv, WalkInv
<1>4. ASSUME NEW t \in 1..Len(Titles'), t < titleid', Titles'[t].here, t \notin left',
             NEW p \in ChainsOf(t)'
      PROVE  Collected(p)'
  <2>1. t \in 1..Len(Titles) /\ t < titleid /\ Titles[t].here /\ t \notin left /\ p \in ChainsOf(t)
    BY <1>1, <1>3, <1>4, StaysCollected
  <2> QED BY <1>1, <2>1, StaysCollected DEF CompleteInv
<1>5. left \subseteq 1..Len(Titles) /\ \A t \in left : t < titleid
  BY DEF CompleteInv, ReasonInv, WalkInv
<1>6. \A t \in left' : t < titleid'
  BY <1>1, <1>3, <1>5
<1> QED BY <1>2, <1>4, <1>6 DEF CompleteInv

\* A title behind the walk that was not of the set, or was walked to its end.
LEMMA CompleteNext ==
  ASSUME CompleteInv, ReasonInv', UNCHANGED <<titleset, left, referenced>>,
         titleid \in 1..Len(Titles), titleid' = titleid + 1, pc' = "title",
         Titles[titleid].here => \A p \in ChainsOf(titleid) : Collected(p)
  PROVE  CompleteInv'
<1>2. ~InTitle'
  BY DEF InTitle
<1>3. Len(Titles) \in Nat
  BY TitlesOfTheSet DEF CompleteInv, ReasonInv, WalkInv
<1>4. ASSUME NEW t \in 1..Len(Titles'), t < titleid', Titles'[t].here, t \notin left',
             NEW p \in ChainsOf(t)'
      PROVE  Collected(p)'
  <2>1. t \in 1..Len(Titles) /\ Titles[t].here /\ t \notin left /\ p \in ChainsOf(t)
    BY <1>4, StaysCollected
  <2>2. t < titleid \/ t = titleid
    BY <1>3, <1>4, <2>1
  <2>3. Collected(p)
    BY <2>1, <2>2 DEF CompleteInv
  <2> QED BY <2>3, StaysCollected
<1>5. left \subseteq 1..Len(Titles) /\ \A t \in left : t < titleid
  BY DEF CompleteInv, ReasonInv, WalkInv
<1>6. \A t \in left' : t < titleid'
  BY <1>3, <1>5
<1> QED BY <1>2, <1>4, <1>6 DEF CompleteInv

\* In a title, at its chapter: only what is collected of the present program
\* chain has to be shown.
LEMMA ChapterStays ==
  ASSUME CompleteInv, InTitle, titleset' = titleset, referenced \subseteq referenced',
         UNCHANGED <<titleid, c, prev_pgc_id>>, NEW p \in 1..Len(titleset.pgcs),
         pc' = "cell" /\ pgc_id = p => CollectedSoFar(p)',
         pc' = "post" /\ pgc_id = p => Collected(p)'
  PROVE  InThisTitle(p)'
<1>1. Titles' = Titles /\ (Collected(p) => Collected(p)') /\ InThisTitle(p)
  BY StaysCollected DEF CompleteInv
<1>2. pgc_id' = pgc_id
  BY <1>1 DEF pgc_id
<1> QED BY <1>1, <1>2 DEF InThisTitle

\* At the end of a program chain that was collected, or of one skipped.
LEMMA ChapterEnds ==
  ASSUME CompleteInv, InTitle, titleset' = titleset, referenced \subseteq referenced',
         titleid' = titleid, pc' = "chapter", c' = c + 1,
         prev_pgc_id' \in {prev_pgc_id, pgc_id},
         NEW p \in 1..Len(titleset.pgcs), pgc_id = p => Collected(p)
  PROVE  InThisTitle(p)'
<1>1. Titles' = Titles /\ (Collected(p) => Collected(p)') /\ InThisTitle(p)
  BY StaysCollected DEF CompleteInv
<1>2. c \in Nat /\ titleid \in 1..Len(Titles) /\ titleset \in TitleSets
  BY DEF CompleteInv, ReasonInv, WalkInv
<1>3. ASSUME NEW k \in 1..Len(Titles[titleid].ptt), k < c', Titles[titleid].ptt[k] = p
      PROVE  Collected(p)
  <2>1. k < c \/ k = c
    BY <1>2, <1>3, TitlesOfTheSet
  <2> QED BY <1>1, <1>3, <2>1 DEF InThisTitle, pgc_id
<1>4. prev_pgc_id' = p => Collected(p)
  BY <1>1 DEF InThisTitle
<1> QED BY <1>1, <1>3, <1>4 DEF InThisTitle

\* Passing a cell of the program chain.
LEMMA CellIsCollected ==
  ASSUME CompleteInv, ReasonInv', pc = "cell", pc' = "cell", i <= Len(cur_pgc.cells),
         AddCell(Cell.first, Cell.last), UNCHANGED <<titleset, titleid, c, prev_pgc_id, left>>,
         ~Links(pgc_id) => i' = i + 1
  PROVE  CompleteInv'
<1>1. referenced \subseteq referenced' /\ Cell.first..Cell.last \subseteq referenced'
  BY DEF AddCell
<1>2. InTitle /\ pgc_id \in 1..Len(titleset.pgcs) /\ i \in Nat
  BY InTheChain DEF CompleteInv, ReasonInv, InChain, InTitle
<1>3. CellSectors(pgc_id, i) = Cell.first..Cell.last
  BY DEF CellSectors, Cell, cur_pgc
<1>4. \A k \in CellsOf(pgc_id) : k \in Nat
  BY <1>2, PartsOfAChain DEF CompleteInv, ReasonInv, WalkInv, CellsOf
<1>5. ASSUME NEW p \in 1..Len(titleset.pgcs), pgc_id = p
      PROVE  CollectedSoFar(p)'
  <2>1. CollectedSoFar(p)
    BY <1>2, <1>5 DEF CompleteInv, InThisTitle
  <2>2. /\ CellsOf(p)' = CellsOf(p) /\ (Links(p)' <=> Links(p))
        /\ \A k : CellSectors(p, k)' = CellSectors(p, k)
    BY DEF CellsOf, Links, CellSectors
  <2>3. ASSUME NEW k \in CellsOf(p), (k = 1 /\ i' # 1) \/ (k < i' /\ ~Links(p))
        PROVE  CellSectors(p, k) \subseteq referenced'
    <3>1. k = i \/ (k = 1 /\ i # 1) \/ (k < i /\ ~Links(p))
      BY <1>2, <1>4, <1>5, <2>3
    <3> QED BY <1>1, <1>3, <1>5, <2>1, <3>1 DEF CollectedSoFar
  <2> QED BY <2>2, <2>3 DEF CollectedSoFar
<1>6. \A p \in 1..Len(titleset.pgcs) : InThisTitle(p)'
  BY <1>1, <1>2, <1>5, ChapterStays
<1> QED BY <1>1, <1>6, CompleteStays

LEMMA CompleteStep == CompleteInv /\ [WalkNext]_walk_vars => CompleteInv'
<1> SUFFICES ASSUME CompleteInv, [WalkNext]_walk_vars
             PROVE  CompleteInv'
  OBVIOUS
<1>i. WalkInv /\ ReasonInv'
  BY ReasonStep DEF CompleteInv, ReasonInv
<1>t. /\ Len(Titles) \in Nat /\ titleid \in 1..Len(Titles) + 1 /\ titleset \in TitleSets
      /\ c \in Nat \ {0} /\ i \in Nat \ {0} /\ vm \in Machine /\ vm.domain # "menu"
  BY <1>i, TitlesOfTheSet DEF WalkInv
<1>1. ASSUME Open \/ OpenFails \/ Finish PROVE CompleteInv'
  <2>1. /\ ~InTitle' /\ UNCHANGED <<titleset, titleid, left, referenced>>
        /\ pc' = "done" => titleid > Len(Titles)
    BY <1>1 DEF Open, OpenFails, Finish, position, SameList, InTitle
  <2> QED BY <1>i, <2>1, CompleteStays
<1>2. ASSUME OtherTitle PROVE CompleteInv'
  <2>1. titleid \in 1..Len(Titles) /\ ~Titles[titleid].here
    BY <1>t, <1>2 DEF OtherTitle, MoreTitles
  <2>2. /\ UNCHANGED <<titleset, left, referenced>> /\ titleid' = titleid + 1 /\ pc' = "title"
    BY <1>2 DEF OtherTitle, MoreTitles, SameList
  <2> QED BY <1>i, <2>1, <2>2, CompleteNext
<1>3. ASSUME StartTitle PROVE CompleteInv'
  <2>1. /\ UNCHANGED <<titleset, titleid, left, referenced>>
        /\ pc' = "chapter" /\ c' = 1 /\ prev_pgc_id' = -1
    BY <1>3 DEF StartTitle, SameList
  <2>2. titleid \in 1..Len(Titles)
    BY <1>t, <1>3 DEF StartTitle, MoreTitles
  <2>3. \A k \in 1..Len(Titles[titleid].ptt) : ~(k < 1)
    BY <1>t, <2>2, TitlesOfTheSet
  <2>4. \A p \in 1..Len(titleset.pgcs) : p # -1
    BY <1>t, TitlesOfTheSet
  <2>5. Titles' = Titles
    BY <2>1 DEF Titles
  <2>6. \A p \in 1..Len(titleset.pgcs) : InThisTitle(p)'
    BY <2>1, <2>3, <2>4, <2>5 DEF InThisTitle
  <2> QED BY <1>i, <2>1, <2>6, CompleteStays
<1>4. ASSUME SkipChapter PROVE CompleteInv'
  <2>1. /\ UNCHANGED <<titleset, titleid, prev_pgc_id, left, referenced>>
        /\ InTitle /\ pc' = "chapter" /\ c' = c + 1
    BY <1>4 DEF SkipChapter, MoreChapters, SameList, InTitle
  <2>2. ASSUME NEW p \in 1..Len(titleset.pgcs), pgc_id = p
        PROVE  Collected(p)
    <3>1. p # 0 /\ p <= Len(titleset.pgcs)
      BY <1>t, TitlesOfTheSet
    <3>2. prev_pgc_id = p
      BY <1>4, <2>2, <3>1 DEF SkipChapter, IsWalked
    <3> QED BY <2>1, <3>2 DEF CompleteInv, InThisTitle
  <2>3. \A p \in 1..Len(titleset.pgcs) : InThisTitle(p)'
    BY <2>1, <2>2, ChapterEnds
  <2> QED BY <1>i, <2>1, <2>3, CompleteStays
<1>5. ASSUME StartChain PROVE CompleteInv'
  <2>1. /\ UNCHANGED <<titleset, titleid, c, prev_pgc_id, left, referenced>>
        /\ InTitle /\ pc' = "pre"
    BY <1>5 DEF StartChain, MoreChapters, SameList, InTitle
  <2> QED BY <1>i, <2>1, ChapterStays, CompleteStays
<1>6. ASSUME EndTitle PROVE CompleteInv'
  <2>1. /\ UNCHANGED <<titleset, left, referenced>> /\ titleid' = titleid + 1 /\ pc' = "title"
        /\ InTitle /\ c > Len(Titles[titleid].ptt)
    BY <1>6 DEF EndTitle, SameList, InTitle
  <2>2. titleid \in 1..Len(Titles)
    BY <1>i, <2>1 DEF WalkInv
  <2>3. ASSUME NEW p \in ChainsOf(titleid) PROVE Collected(p)
    <3>1. p \in 1..Len(titleset.pgcs)
      BY DEF ChainsOf
    <3>2. PICK k \in 1..Len(Titles[titleid].ptt) : Titles[titleid].ptt[k] = p
      BY DEF ChainsOf
    <3>3. k < c
      BY <1>t, <2>1, <2>2, TitlesOfTheSet
    <3> QED BY <2>1, <3>1, <3>2, <3>3 DEF CompleteInv, InThisTitle
  <2> QED BY <1>i, <2>1, <2>2, <2>3, CompleteNext
<1>7. ASSUME PreCommand PROVE CompleteInv'
  <2>1. referenced' = referenced /\ InTitle
    BY <1>7 DEF PreCommand, SameList, InTitle
  <2>2. CASE check_vm(vm')
    <3>1. UNCHANGED <<titleset, pc, titleid, c, prev_pgc_id, left>> /\ pc = "pre"
      BY <1>7, <2>2 DEF PreCommand
    <3> QED BY <1>i, <2>1, <3>1, ChapterStays, CompleteStays
  <2>3. CASE ~check_vm(vm')
    BY <1>i, <1>7, <2>1, <2>3, CompleteLeave DEF PreCommand
  <2> QED BY <2>2, <2>3
<1>8. ASSUME StartCells PROVE CompleteInv'
  <2>1. /\ UNCHANGED <<titleset, titleid, c, prev_pgc_id, left, referenced>>
        /\ InTitle /\ pc' = "cell" /\ i' = 1 /\ InChain
    BY <1>8 DEF StartCells, SameList, InTitle, InChain
  <2>2. ASSUME NEW p \in 1..Len(titleset.pgcs)
        PROVE  CollectedSoFar(p)'
    <3>1. CellsOf(p)' = CellsOf(p) /\ \A k \in CellsOf(p) : ~(k < 1)
      BY <1>t, <2>1, PartsOfAChain DEF CellsOf
    <3> QED BY <2>1, <3>1 DEF CollectedSoFar
  <2> QED BY <1>i, <2>1, <2>2, ChapterStays, CompleteStays
<1>9. ASSUME PlainCell PROVE CompleteInv'
  BY <1>i, <1>9, CellIsCollected DEF PlainCell
<1>10. ASSUME CellWithCommand PROVE CompleteInv'
  <2> DEFINE m == [vm EXCEPT !.cellN = i]
  <2>1. pgc_id \in 1..Len(titleset.pgcs) /\ i \in CellsOf(pgc_id)
    BY <1>i, <1>10, CellOfTheChain DEF CellWithCommand
  <2>2. Cell = titleset.pgcs[pgc_id].cells[i] /\ Cell.cmd \in SUBSET Effect
    BY <1>i, <1>10, CellOfTheChain DEF CellWithCommand
  <2>3. m \in Machine /\ m.domain # "menu" /\ m.cellN = i
    BY <1>t DEF Machine
  <2>4. vm' \in After(m, Cell.cmd) /\ pc = "cell" /\ i <= Len(cur_pgc.cells)
        /\ AddCell(Cell.first, Cell.last)
    BY <1>10 DEF CellWithCommand
  <2> HIDE DEF m
  <2>5. CASE check_vm(vm')
    <3>1. UNCHANGED <<titleset, pc, titleid, c, prev_pgc_id, left>> /\ i' = next_cell(vm')
      BY <1>10, <2>5 DEF CellWithCommand
    <3>2. ~Links(pgc_id) => ~\E e \in Cell.cmd : e.kind = "link" \/ (e.kind = "menu" /\ e.cell # 0)
      BY <2>1, <2>2 DEF Links
    <3>3. ~Links(pgc_id) => vm'.cellN = i
      BY <2>2, <2>3, <2>4, <2>5, <3>2, CellStays
    <3>4. ~Links(pgc_id) => i' = i + 1
      BY <3>1, <3>3 DEF next_cell
    <3> QED BY <1>i, <2>4, <3>1, <3>4, CellIsCollected
  <2>6. CASE ~check_vm(vm')
    <3>1. referenced \subseteq referenced'
      BY <2>4 DEF AddCell
    <3> QED BY <1>i, <1>10, <2>6, <3>1, CompleteLeave DEF CellWithCommand
  <2> QED BY <2>5, <2>6
<1>11. ASSUME EndCells PROVE CompleteInv'
  <2>1. /\ UNCHANGED <<titleset, titleid, c, prev_pgc_id, left, referenced>>
        /\ InTitle /\ pc' = "post" /\ pc = "cell" /\ InChain /\ i > Len(cur_pgc.cells)
    BY <1>11 DEF EndCells, SameList, InTitle, InChain
  <2>2. ASSUME NEW p \in 1..Len(titleset.pgcs), pgc_id = p
        PROVE  Collected(p)
    <3>1. CollectedSoFar(p)
      BY <2>1, <2>2 DEF CompleteInv, InThisTitle
    <3>2. \A k \in CellsOf(p) : k < i /\ (k = 1 => i # 1)
      BY <1>t, <2>1, <2>2, PartsOfAChain DEF CellsOf, cur_pgc
    <3> QED BY <3>1, <3>2 DEF CollectedSoFar, Collected
  <2>3. \A p \in 1..Len(titleset.pgcs) : pgc_id = p => Collected(p)'
    BY <2>1, <2>2, StaysCollected
  <2> QED BY <1>i, <2>1, <2>3, ChapterStays, CompleteStays
<1>12. ASSUME PostCommand \/ EndPost PROVE CompleteInv'
  <2>1. InTitle /\ pc = "post" /\ UNCHANGED <<titleset, titleid, left, referenced>>
    BY <1>12 DEF PostCommand, EndPost, EndChain, SameList, InTitle
  <2>2. \A p \in 1..Len(titleset.pgcs) : pgc_id = p => Collected(p)
    BY <2>1 DEF CompleteInv, InThisTitle
  <2>3. CASE EndChain
    <3>1. \A p \in 1..Len(titleset.pgcs) : InThisTitle(p)'
      BY <2>1, <2>2, <2>3, ChapterEnds DEF EndChain
    <3> QED BY <1>i, <2>1, <2>3, <3>1, CompleteStays DEF EndChain
  <2>4. CASE UNCHANGED <<pc, c, prev_pgc_id>>
    <3>1. \A p \in 1..Len(titleset.pgcs) : pgc_id = p => Collected(p)'
      BY <2>1, <2>2, StaysCollected
    <3> QED BY <1>i, <2>1, <2>4, <3>1, ChapterStays, CompleteStays
  <2> QED BY <1>12, <2>3, <2>4 DEF PostCommand, EndPost
<1>13. ASSUME Returned \/ UNCHANGED walk_vars PROVE CompleteInv'
  <2>1. UNCHANGED <<titleset, pc, titleid, c, prev_pgc_id, i, left, referenced>>
    BY <1>13 DEF Returned, walk_vars
  <2>2. (InTitle' <=> InTitle) /\ \A p : InThisTitle(p)' <=> InThisTitle(p)
    BY <2>1 DEF InTitle, InThisTitle, Titles, pgc_id, Collected, CollectedSoFar, CellsOf, Links,
                CellSectors
  <2> QED BY <1>i, <2>1, <2>2, CompleteStays DEF CompleteInv
<1> QED BY <1>1, <1>2, <1>3, <1>4, <1>5, <1>6, <1>7, <1>8, <1>9, <1>10, <1>11, <1>12, <1>13
        DEF WalkNext

(* READMEX: the walk follows "each title in the title set".  However the    *)
(* chapters and the commands lead, a title that was not given up has left   *)
(* the first cell of each of its program chains on the list, and every cell *)
(* of one in which nothing links to a cell.                                 *)
THEOREM WalkCollects == WalkSpec => []WalkIsComplete
<1>1. WalkInit /\ ReasonInv => CompleteInv
  <2> SUFFICES ASSUME WalkInit, ReasonInv
               PROVE  CompleteInv
    OBVIOUS
  <2>1. \A t \in 1..Len(Titles) : ~(t < titleid)
    BY TitlesOfTheSet DEF WalkInit
  <2> QED BY <2>1 DEF WalkInit, CompleteInv, InTitle
<1>2. CompleteInv => WalkIsComplete
  <2> SUFFICES ASSUME CompleteInv, pc = "done",
                      NEW t \in 1..Len(Titles), Titles[t].here, t \notin left,
                      NEW p \in ChainsOf(t), NEW k \in CellsOf(p), k = 1 \/ ~Links(p)
               PROVE  CellSectors(p, k) \subseteq referenced
    BY DEF WalkIsComplete
  <2>1. t < titleid
    BY TitlesOfTheSet DEF CompleteInv, ReasonInv, WalkInv
  <2> QED BY <2>1 DEF CompleteInv, Collected
<1>3. WalkInit /\ WalkInv => ReasonInv
  BY DEF WalkInit, ReasonInv, InTitle, InChain, LeftForAReason
<1> QED BY <1>1, <1>2, <1>3, CompleteStep, WalkInvariant, PTL DEF WalkSpec
=============================================================================
