--------------------------- MODULE RangeListProofs ---------------------------
(***************************************************************************)
(* What add_sector_range_list and find_next_sectors do to and find in any  *)
(* well-formed list.                                                       *)
(***************************************************************************)
EXTENDS RangeList, SequenceTheorems, WellFoundedInduction, NaturalsInduction, TLAPS

(* FirstOf is the least index of the set, if there is one.                  *)
LEMMA FirstOfIsLeast ==
  ASSUME NEW n \in Nat, NEW K \in SUBSET (1..n)
  PROVE  /\ FirstOf(K, n) \in 1..(n + 1)
         /\ \A m \in K : FirstOf(K, n) <= m
         /\ K # {} => FirstOf(K, n) \in K
         /\ K = {} => FirstOf(K, n) = n + 1
<1>1. CASE K = {}
  BY <1>1 DEF FirstOf
<1>2. CASE K # {}
  <2> DEFINE Below == {ss \in Nat \X Nat : ss[1] < ss[2]}
  <2>1. IsWellFoundedOn(Below, Nat)
    BY NatLessThanWellFounded DEF OpToRel
  <2>2. K \subseteq Nat
    OBVIOUS
  <2> HIDE DEF Below
  <2>3. PICK k \in K : \A m \in K : <<m, k>> \notin Below
    BY <1>2, <2>1, <2>2, WFMin
  <2>4. ASSUME NEW m \in K
        PROVE  k <= m
    <3>1. m \in Nat /\ k \in Nat
      BY <2>2
    <3>2. ~(m < k)
      BY <2>3, <3>1 DEF Below
    <3> QED BY <3>1, <3>2
  <2>5. FirstOf(K, n) \in K /\ \A m \in K : FirstOf(K, n) <= m
    BY <1>2, <2>4 DEF FirstOf
  <2>6. FirstOf(K, n) \in 1..n
    BY <2>5
  <2> QED BY <1>2, <2>5, <2>6
<1> QED BY <1>1, <1>2

(* A range that ends before a second one that ends before a third.          *)
LEMMA GapsChain ==
  ASSUME NEW a \in Nat, NEW b \in Nat, NEW c \in Nat, NEW d \in Nat,
         a + 1 < b, b <= c, c + 1 < d
  PROVE  a + 1 < d
OBVIOUS

(* The nodes of a list are pairs of naturals.                               *)
LEMMA NodeType ==
  ASSUME NEW list \in Seq(sector_range)
  PROVE  /\ Len(list) \in Nat
         /\ \A i \in 1..Len(list) : /\ list[i] \in sector_range
                                    /\ list[i].start \in Nat /\ list[i].end \in Nat
<1>1. Len(list) \in Nat
  BY LenProperties
<1>2. \A i \in 1..Len(list) : list[i] \in sector_range
  BY ElementOfSeq
<1>3. \A node \in sector_range : node.start \in Nat /\ node.end \in Nat
  BY DEF sector_range
<1> QED BY <1>1, <1>2, <1>3

(* Inserting a node yields a list with that node at its place.              *)
LEMMA InsertIsASeq ==
  ASSUME NEW list \in Seq(sector_range), NEW k \in 1..(Len(list) + 1),
         NEW node \in sector_range
  PROVE  /\ Insert(list, k, node) \in Seq(sector_range)
         /\ Len(Insert(list, k, node)) = Len(list) + 1
         /\ \A i \in 1..(Len(list) + 1) :
              Insert(list, k, node)[i] =
                IF i < k THEN list[i] ELSE IF i = k THEN node ELSE list[i - 1]
<1>1. Insert(list, k, node) \in [1..(Len(list) + 1) -> sector_range]
  BY DEF Insert
<1> QED BY <1>1, SeqDef DEF Insert

(* Moving one end of a node leaves the other end alone.                     *)
LEMMA ExtendNode ==
  ASSUME NEW node \in sector_range, NEW n \in Nat
  PROVE  /\ [node EXCEPT !.end = n] \in sector_range
         /\ [node EXCEPT !.end = n].start = node.start
         /\ [node EXCEPT !.end = n].end = n
         /\ [node EXCEPT !.start = n] \in sector_range
         /\ [node EXCEPT !.start = n].start = n
         /\ [node EXCEPT !.start = n].end = node.end
BY DEF sector_range

(* Fusing nodes k - 1 and k yields a list that is one node shorter.         *)
LEMMA FuseIsASeq ==
  ASSUME NEW list \in Seq(sector_range), NEW k \in 2..Len(list)
  PROVE  /\ Fuse(list, k) \in Seq(sector_range)
         /\ Len(Fuse(list, k)) = Len(list) - 1
         /\ \A i \in 1..(Len(list) - 1) :
              /\ i < k - 1 => Fuse(list, k)[i] = list[i]
              /\ i = k - 1 => /\ Fuse(list, k)[i].start = list[i].start
                              /\ Fuse(list, k)[i].end = list[k].end
              /\ i > k - 1 => Fuse(list, k)[i] = list[i + 1]
<1>1. ASSUME NEW i \in 1..(Len(list) - 1)
      PROVE  /\ Fuse(list, k)[i] \in sector_range
             /\ i < k - 1 => Fuse(list, k)[i] = list[i]
             /\ i = k - 1 => Fuse(list, k)[i] = [list[i] EXCEPT !.end = list[k].end]
             /\ i > k - 1 => Fuse(list, k)[i] = list[i + 1]
  <2>1. k \in 1..Len(list) /\ i \in 1..Len(list) /\ i + 1 \in 1..Len(list)
    BY NodeType
  <2>2. list[i] \in sector_range /\ list[i + 1] \in sector_range /\ list[k].end \in Nat
    BY <2>1, NodeType
  <2>3. [list[i] EXCEPT !.end = list[k].end] \in sector_range
    BY <2>2, ExtendNode
  <2> QED BY <2>1, <2>2, <2>3 DEF Fuse
<1>2. Fuse(list, k) \in [1..(Len(list) - 1) -> sector_range]
  BY <1>1 DEF Fuse
<1>3. Fuse(list, k) \in Seq(sector_range) /\ Len(Fuse(list, k)) = Len(list) - 1
  BY <1>2, SeqDef, NodeType
<1>4. ASSUME NEW i \in 1..(Len(list) - 1), i = k - 1
      PROVE  /\ Fuse(list, k)[i].start = list[i].start
             /\ Fuse(list, k)[i].end = list[k].end
  <2>1. k \in 1..Len(list) /\ i \in 1..Len(list)
    BY NodeType
  <2>2. list[i] \in sector_range /\ list[k].end \in Nat
    BY <2>1, NodeType
  <2> DEFINE node == [list[i] EXCEPT !.end = list[k].end]
  <2>3. Fuse(list, k)[i] = node
    BY <1>1, <1>4
  <2>4. node.start = list[i].start /\ node.end = list[k].end
    BY <2>2, ExtendNode
  <2> QED BY <2>3, <2>4
<1> QED BY <1>1, <1>3, <1>4

(* The scan passes only nodes that end before the new range, without a gap after it. *)
LEMMA StopNodeIsFirst ==
  ASSUME NEW list, WellFormed(list), NEW end \in Nat
  PROVE  /\ StopNode(list, end) \in 1..(Len(list) + 1)
         /\ \A i \in 1..(StopNode(list, end) - 1) :
              list[i].start <= end + 1 /\ list[i].end < end
         /\ StopNode(list, end) <= Len(list) =>
              \/ end + 1 < list[StopNode(list, end)].start
              \/ end <= list[StopNode(list, end)].end
<1> DEFINE K == {k \in 1..Len(list) : end + 1 < list[k].start \/ end <= list[k].end}
<1>1. Len(list) \in Nat /\ K \in SUBSET (1..Len(list))
  BY DEF WellFormed
<1>2. \A i \in 1..Len(list) : list[i].start \in Nat /\ list[i].end \in Nat
  BY NodeType DEF WellFormed
<1>3. StopNode(list, end) = FirstOf(K, Len(list))
  BY DEF StopNode
<1> HIDE DEF K
<1>4. /\ StopNode(list, end) \in 1..(Len(list) + 1)
      /\ \A m \in K : StopNode(list, end) <= m
      /\ StopNode(list, end) <= Len(list) => StopNode(list, end) \in K
  BY <1>1, <1>3, FirstOfIsLeast
<1>5. ASSUME NEW i \in 1..(StopNode(list, end) - 1)
      PROVE  list[i].start <= end + 1 /\ list[i].end < end
  <2>1. i \in 1..Len(list) /\ i \notin K
    BY <1>1, <1>4
  <2> QED BY <1>2, <2>1 DEF K
<1> QED BY <1>4, <1>5 DEF K

-----------------------------------------------------------------------------
(* What adding start..end to a list may make of it.                         *)

\* Every end of a node of new was one before, or is an end of the new range.
SameEnds(list, new, start, end) ==
  \A i \in 1..Len(new) :
    /\ new[i].start = start \/ \E j \in 1..Len(list) : new[i].start = list[j].start
    /\ new[i].end = end \/ \E j \in 1..Len(list) : new[i].end = list[j].end

\* Nothing is lost, and nothing enters but the new range.
OnlyAdds(list, new, start, end) ==
  /\ \A n \in Nat : Known(list, n) => Known(new, n)
  /\ \A n \in Nat : Known(new, n) => Known(list, n) \/ n \in start..end

\* All of the new range enters, if it engulfs no node.
AddsAll(list, new, start, end) ==
  ~Engulfs(list, start, end) => \A n \in start..end : Known(new, n)

Added(list, new, start, end) ==
  /\ WellFormed(new)
  /\ SameEnds(list, new, start, end)
  /\ OnlyAdds(list, new, start, end)
  /\ AddsAll(list, new, start, end)

\* Node k is where the scan of add_sector_range_list stops.
Stops(list, k, end) ==
  /\ k \in 1..(Len(list) + 1)
  /\ \A i \in 1..(k - 1) : list[i].start <= end + 1 /\ list[i].end < end
  /\ k <= Len(list) => end + 1 < list[k].start \/ end <= list[k].end

(* A range in a gap, with no neighbour to join.                             *)
LEMMA AddedByInsert ==
  ASSUME NEW list, WellFormed(list), NEW start \in Nat, NEW end \in Nat, start <= end,
         NEW k \in Nat, Stops(list, k, end),
         k <= Len(list) => end + 1 < list[k].start,
         ~JoinsPrevious(list, k, start)
  PROVE  Added(list, Insert(list, k, [start |-> start, end |-> end]), start, end)
<1> DEFINE node == [start |-> start, end |-> end]
           new == Insert(list, k, node)
<1>1. list \in Seq(sector_range) /\ k \in 1..(Len(list) + 1) /\ node \in sector_range
  BY DEF WellFormed, Stops, sector_range
<1>2. /\ new \in Seq(sector_range)
      /\ Len(new) = Len(list) + 1
      /\ \A i \in 1..(Len(list) + 1) :
           new[i] = IF i < k THEN list[i] ELSE IF i = k THEN node ELSE list[i - 1]
  BY <1>1, InsertIsASeq
<1>3. node.start = start /\ node.end = end
  OBVIOUS
<1>4. /\ Len(list) \in Nat
      /\ \A i \in 1..Len(list) : list[i].start \in Nat /\ list[i].end \in Nat
  BY <1>1, NodeType
<1>5. /\ \A i \in 1..Len(list) : list[i].start <= list[i].end
      /\ \A i, j \in 1..Len(list) : i < j => list[i].end + 1 < list[j].start
  BY DEF WellFormed
<1> HIDE DEF node, new
<1>6. \A i \in 1..(k - 1) : list[i].end + 1 < start
  <2> SUFFICES ASSUME NEW i \in 1..(k - 1)
               PROVE  list[i].end + 1 < start
    OBVIOUS
  <2>1. k > 1 /\ k - 1 \in 1..Len(list) /\ i \in 1..Len(list)
    BY <1>1, <1>4
  <2>2. list[k - 1].end + 1 < start
    BY <2>1, <1>4 DEF JoinsPrevious
  <2>3. i = k - 1 \/ list[i].end + 1 < list[k - 1].start
    BY <2>1, <1>5
  <2>4. /\ list[i].end \in Nat /\ start \in Nat
        /\ list[k - 1].start \in Nat /\ list[k - 1].end \in Nat
        /\ list[k - 1].start <= list[k - 1].end
    BY <2>1, <1>4, <1>5
  <2>5. CASE i = k - 1
    BY <2>2, <2>5
  <2>6. CASE list[i].end + 1 < list[k - 1].start
    BY <2>2, <2>4, <2>6, GapsChain
  <2> QED BY <2>3, <2>5, <2>6
<1>7. \A i \in k..Len(list) : end + 1 < list[i].start
  <2> SUFFICES ASSUME NEW i \in k..Len(list)
               PROVE  end + 1 < list[i].start
    OBVIOUS
  <2>1. k \in 1..Len(list) /\ i \in 1..Len(list)
    BY <1>1, <1>4
  <2>2. end + 1 < list[k].start
    BY <2>1, <1>4
  <2>3. i = k \/ list[k].end + 1 < list[i].start
    BY <2>1, <1>5
  <2> QED BY <2>1, <2>2, <2>3, <1>4, <1>5
<1>8. WellFormed(new)
  <2>1. ASSUME NEW i \in 1..Len(new)
        PROVE  new[i].start <= new[i].end
    <3>1. CASE i = k
      BY <3>1, <1>1, <1>2, <1>3, <1>4
    <3>2. CASE i < k
      BY <3>2, <1>1, <1>2, <1>4, <1>5
    <3>3. CASE i > k
      <4>1. new[i] = list[i - 1] /\ i - 1 \in 1..Len(list)
        BY <3>3, <1>1, <1>2, <1>4
      <4> QED BY <4>1, <1>5
    <3> QED BY <3>1, <3>2, <3>3, <1>1, <1>2, <1>4
  <2>2. ASSUME NEW i \in 1..Len(new), NEW j \in 1..Len(new), i < j
        PROVE  new[i].end + 1 < new[j].start
    <3>1. CASE i < k /\ j < k
      BY <2>2, <3>1, <1>1, <1>2, <1>4, <1>5
    <3>2. CASE i < k /\ j = k
      BY <2>2, <3>2, <1>1, <1>2, <1>3, <1>4, <1>6
    <3>3. CASE i < k /\ j > k
      <4>1. /\ new[i] = list[i] /\ new[j] = list[j - 1] /\ i < j - 1
            /\ i \in 1..Len(list) /\ j - 1 \in 1..Len(list)
        BY <2>2, <3>3, <1>1, <1>2, <1>4
      <4> QED BY <4>1, <1>5
    <3>4. CASE i = k
      <4>1. new[i] = node /\ new[j] = list[j - 1] /\ j - 1 \in k..Len(list)
        BY <2>2, <3>4, <1>1, <1>2, <1>4
      <4> QED BY <4>1, <1>3, <1>7
    <3>5. CASE i > k
      <4>1. /\ new[i] = list[i - 1] /\ new[j] = list[j - 1] /\ i - 1 < j - 1
            /\ i - 1 \in 1..Len(list) /\ j - 1 \in 1..Len(list)
        BY <2>2, <3>5, <1>1, <1>2, <1>4
      <4> QED BY <4>1, <1>5
    <3> QED BY <3>1, <3>2, <3>3, <3>4, <3>5, <1>1, <1>2, <1>4
  <2> QED BY <1>2, <2>1, <2>2 DEF WellFormed
<1>9. SameEnds(list, new, start, end)
  <2> SUFFICES ASSUME NEW i \in 1..Len(new)
               PROVE  \/ new[i].start = start /\ new[i].end = end
                      \/ \E j \in 1..Len(list) : new[i] = list[j]
    BY DEF SameEnds
  <2>1. CASE i < k
    BY <2>1, <1>1, <1>2, <1>4
  <2>2. CASE i = k
    BY <2>2, <1>1, <1>2, <1>3, <1>4
  <2>3. CASE i > k
    <3>1. i - 1 \in 1..Len(list) /\ new[i] = list[i - 1]
      BY <2>3, <1>1, <1>2, <1>4
    <3> QED BY <3>1
  <2> QED BY <2>1, <2>2, <2>3, <1>1, <1>2, <1>4
<1>10. \A n \in start..end : Known(new, n)
  <2>1. k \in 1..Len(new) /\ new[k] = node
    BY <1>1, <1>2, <1>4
  <2> QED BY <2>1, <1>3 DEF Known
<1>11. ASSUME NEW n \in Nat, Known(list, n)
       PROVE  Known(new, n)
  <2>1. PICK i \in 1..Len(list) : list[i].start <= n /\ n <= list[i].end
    BY <1>11 DEF Known
  <2>2. CASE i < k
    <3>1. i \in 1..Len(new) /\ new[i] = list[i]
      BY <2>2, <1>1, <1>2, <1>4
    <3> QED BY <2>1, <3>1 DEF Known
  <2>3. CASE i >= k
    <3>1. i + 1 \in 1..Len(new) /\ new[i + 1] = list[i]
      BY <2>3, <1>1, <1>2, <1>4
    <3> QED BY <2>1, <3>1 DEF Known
  <2> QED BY <2>2, <2>3, <1>1, <1>4
<1>12. ASSUME NEW n \in Nat, Known(new, n)
       PROVE  Known(list, n) \/ n \in start..end
  <2>1. PICK i \in 1..Len(new) : new[i].start <= n /\ n <= new[i].end
    BY <1>12 DEF Known
  <2>2. CASE i < k
    <3>1. i \in 1..Len(list) /\ new[i] = list[i]
      BY <2>2, <1>1, <1>2, <1>4
    <3> QED BY <2>1, <3>1 DEF Known
  <2>3. CASE i = k
    BY <2>1, <2>3, <1>1, <1>2, <1>3, <1>4
  <2>4. CASE i > k
    <3>1. i - 1 \in 1..Len(list) /\ new[i] = list[i - 1]
      BY <2>4, <1>1, <1>2, <1>4
    <3> QED BY <2>1, <3>1 DEF Known
  <2> QED BY <2>2, <2>3, <2>4, <1>1, <1>2, <1>4
<1> QED BY <1>8, <1>9, <1>10, <1>11, <1>12 DEF Added, OnlyAdds, AddsAll, new, node

(* One node grows, and stays clear of its neighbours.                       *)
LEMMA AddedByGrowing ==
  ASSUME NEW list, WellFormed(list), NEW start \in Nat, NEW end \in Nat, start <= end,
         NEW m \in 1..Len(list), NEW new \in Seq(sector_range), Len(new) = Len(list),
         \A i \in 1..Len(list) : i # m => new[i] = list[i],
         new[m].start = list[m].start \/ new[m].start = start,
         new[m].end = list[m].end \/ new[m].end = end,
         new[m].start <= list[m].start, list[m].end <= new[m].end,
         start <= list[m].end + 1, list[m].start <= end + 1,
         m > 1 => list[m - 1].end + 1 < new[m].start,
         m < Len(list) => new[m].end + 1 < list[m + 1].start,
         ~Engulfs(list, start, end) => new[m].start <= start /\ end <= new[m].end
  PROVE  Added(list, new, start, end)
<1>1. /\ Len(list) \in Nat
      /\ \A i \in 1..Len(list) : list[i].start \in Nat /\ list[i].end \in Nat
      /\ \A i \in 1..Len(new) : new[i].start \in Nat /\ new[i].end \in Nat
  BY NodeType DEF WellFormed
<1>2. /\ \A i \in 1..Len(list) : list[i].start <= list[i].end
      /\ \A i, j \in 1..Len(list) : i < j => list[i].end + 1 < list[j].start
  BY DEF WellFormed
<1>3. WellFormed(new)
  <2>1. ASSUME NEW i \in 1..Len(new)
        PROVE  new[i].start <= new[i].end
    <3>1. CASE i = m
      BY <3>1, <1>1, <1>2
    <3>2. CASE i # m
      BY <3>2, <1>2
    <3> QED BY <3>1, <3>2
  <2>2. ASSUME NEW i \in 1..Len(new), NEW j \in 1..Len(new), i < j
        PROVE  new[i].end + 1 < new[j].start
    <3>1. CASE i # m /\ j # m
      BY <2>2, <3>1, <1>2
    <3>2. CASE j = m
      <4>1. m > 1 /\ m - 1 \in 1..Len(list) /\ i \in 1..Len(list) /\ new[i] = list[i]
        BY <2>2, <3>2, <1>1
      <4>2. i = m - 1 \/ list[i].end + 1 < list[m - 1].start
        BY <2>2, <3>2, <4>1, <1>2
      <4>3. list[i].end <= list[m - 1].end
        BY SMTT(40), <4>1, <4>2, <1>1, <1>2
      <4>4. /\ list[m - 1].end + 1 < new[m].start
            /\ list[i].end \in Nat /\ list[m - 1].end \in Nat /\ new[m].start \in Nat
        BY <4>1, <1>1
      <4>5. new[i].end = list[i].end /\ new[j].start = new[m].start
        BY <3>2, <4>1
      <4> QED BY SMTT(40), <4>3, <4>4, <4>5
    <3>3. CASE i = m
      <4>1. m < Len(list) /\ m + 1 \in 1..Len(list) /\ j \in 1..Len(list) /\ new[j] = list[j]
        BY <2>2, <3>3, <1>1
      <4>2. j = m + 1 \/ list[m + 1].end + 1 < list[j].start
        BY <2>2, <3>3, <4>1, <1>2
      <4>3. list[m + 1].start <= list[j].start
        BY <4>1, <4>2, <1>1, <1>2
      <4> QED BY SMTT(40), <3>3, <4>1, <4>3, <1>1
    <3> QED BY <3>1, <3>2, <3>3
  <2> QED BY <2>1, <2>2 DEF WellFormed
<1>4. SameEnds(list, new, start, end)
  BY DEF SameEnds
<1>5. OnlyAdds(list, new, start, end)
  <2>1. ASSUME NEW n \in Nat, Known(list, n)
        PROVE  Known(new, n)
    <3>1. PICK i \in 1..Len(list) : list[i].start <= n /\ n <= list[i].end
      BY <2>1 DEF Known
    <3>2. new[i].start <= n /\ n <= new[i].end
      <4>1. CASE i = m
        BY <3>1, <4>1, <1>1
      <4>2. CASE i # m
        BY <3>1, <4>2
      <4> QED BY <4>1, <4>2
    <3> QED BY <3>2 DEF Known
  <2>2. ASSUME NEW n \in Nat, Known(new, n)
        PROVE  Known(list, n) \/ n \in start..end
    <3>1. PICK i \in 1..Len(new) : new[i].start <= n /\ n <= new[i].end
      BY <2>2 DEF Known
    <3>2. CASE i # m
      BY <3>1, <3>2 DEF Known
    <3>3. CASE i = m /\ n \notin start..end
      <4>1. n < start \/ end < n
        BY <3>3
      <4>2. list[m].start <= n /\ n <= list[m].end
        BY <3>1, <3>3, <4>1, <1>1
      <4> QED BY <4>2 DEF Known
    <3> QED BY <3>2, <3>3
  <2> QED BY <2>1, <2>2 DEF OnlyAdds
<1>6. AddsAll(list, new, start, end)
  BY <1>1 DEF AddsAll, Known
<1> QED BY <1>3, <1>4, <1>5, <1>6 DEF Added

(* A range in a gap, joining the node before it.                            *)
LEMMA AddedByExtendingEnd ==
  ASSUME NEW list, WellFormed(list), NEW start \in Nat, NEW end \in Nat, start <= end,
         NEW k \in Nat, Stops(list, k, end),
         k <= Len(list) => end + 1 < list[k].start,
         JoinsPrevious(list, k, start)
  PROVE  Added(list, [list EXCEPT ![k - 1].end = end], start, end)
<1> DEFINE new == [list EXCEPT ![k - 1].end = end]
<1>1. list \in Seq(sector_range) /\ Len(list) \in Nat /\ k - 1 \in 1..Len(list)
  BY NodeType DEF WellFormed, Stops, JoinsPrevious
<1>2. \A i \in 1..Len(list) :
        list[i] \in sector_range /\ list[i].start \in Nat /\ list[i].end \in Nat
  BY <1>1, NodeType
<1> DEFINE node == [list[k - 1] EXCEPT !.end = end]
<1>3. node \in sector_range /\ node.start = list[k - 1].start /\ node.end = end
  BY <1>1, <1>2, ExtendNode
<1>4. new = [list EXCEPT ![k - 1] = node]
  BY Zenon
<1> HIDE DEF node, new
<1>5. /\ new \in Seq(sector_range)
      /\ Len(new) = Len(list)
      /\ \A i \in 1..Len(list) : new[i] = IF i = k - 1 THEN node ELSE list[i]
  BY <1>1, <1>3, <1>4, ExceptSeq
<1>6. list[k - 1].end < end /\ list[k - 1].start <= end + 1 /\ start <= list[k - 1].end + 1
  BY <1>1 DEF Stops, JoinsPrevious
<1>7. k - 1 > 1 => list[k - 2].end + 1 < list[k - 1].start
  BY <1>1 DEF WellFormed
<1>8. ~Engulfs(list, start, end) => list[k - 1].start <= start
  BY <1>1, <1>2, <1>6 DEF Engulfs
<1>9. new[k - 1] = node
  BY <1>1, <1>5
<1>10. /\ k - 1 > 1 => list[k - 1 - 1].end + 1 < new[k - 1].start
       /\ k - 1 < Len(list) => new[k - 1].end + 1 < list[k - 1 + 1].start
       /\ ~Engulfs(list, start, end) => new[k - 1].start <= start /\ end <= new[k - 1].end
       /\ new[k - 1].start <= list[k - 1].start /\ list[k - 1].end <= new[k - 1].end
  BY <1>1, <1>2, <1>3, <1>6, <1>7, <1>8, <1>9
<1>11. new[k - 1].start = list[k - 1].start /\ new[k - 1].end = end
  BY <1>3, <1>9
<1>12. \A i \in 1..Len(list) : i # k - 1 => new[i] = list[i]
  BY <1>5
<1>13. Added(list, new, start, end)
  BY <1>1, <1>5, <1>6, <1>10, <1>11, <1>12, AddedByGrowing
<1> QED BY <1>13 DEF new

(* A range that ends in a node and begins in the gap before it.             *)
LEMMA AddedByExtendingStart ==
  ASSUME NEW list, WellFormed(list), NEW start \in Nat, NEW end \in Nat, start <= end,
         NEW k \in 1..Len(list), Stops(list, k, end),
         list[k].start <= end + 1, end <= list[k].end,
         start < list[k].start, ~JoinsPrevious(list, k, start)
  PROVE  Added(list, [list EXCEPT ![k].start = start], start, end)
<1> DEFINE new == [list EXCEPT ![k].start = start]
           node == [list[k] EXCEPT !.start = start]
<1>1. list \in Seq(sector_range) /\ Len(list) \in Nat
  BY NodeType DEF WellFormed
<1>2. \A i \in 1..Len(list) :
        list[i] \in sector_range /\ list[i].start \in Nat /\ list[i].end \in Nat
  BY <1>1, NodeType
<1>3. node \in sector_range /\ node.start = start /\ node.end = list[k].end
  BY <1>2, ExtendNode
<1>4. new = [list EXCEPT ![k] = node]
  BY Zenon
<1> HIDE DEF node, new
<1>5. /\ new \in Seq(sector_range)
      /\ Len(new) = Len(list)
      /\ \A i \in 1..Len(list) : new[i] = IF i = k THEN node ELSE list[i]
  BY <1>1, <1>3, <1>4, ExceptSeq
<1>6. new[k].start = start /\ new[k].end = list[k].end
  BY <1>3, <1>5
<1>7. k > 1 => list[k - 1].end + 1 < new[k].start
  <2> SUFFICES ASSUME k > 1
               PROVE  list[k - 1].end + 1 < start
    BY <1>6
  <2>1. k - 1 \in 1..Len(list)
    BY <1>1
  <2> QED BY <2>1, <1>2 DEF JoinsPrevious
<1>8. k < Len(list) => new[k].end + 1 < list[k + 1].start
  BY <1>1, <1>6 DEF WellFormed
<1>9. \A i \in 1..Len(list) : i # k => new[i] = list[i]
  BY <1>5
<1>10. /\ new[k].start <= list[k].start /\ list[k].end <= new[k].end
       /\ new[k].start <= start /\ end <= new[k].end
       /\ start <= list[k].end + 1
  BY <1>2, <1>6
<1>11. Added(list, new, start, end)
  BY <1>1, <1>5, <1>6, <1>7, <1>8, <1>9, <1>10, AddedByGrowing
<1> QED BY <1>11 DEF new

(* In a well-formed list both ends of the nodes grow.                       *)
LEMMA NodesInOrder ==
  ASSUME NEW list, WellFormed(list), NEW i \in 1..Len(list), NEW j \in 1..Len(list), i <= j
  PROVE  /\ list[i].start <= list[j].start
         /\ list[i].end <= list[j].end
         /\ list[i].start <= list[j].end
<1>1. /\ list[i].start \in Nat /\ list[i].end \in Nat
      /\ list[j].start \in Nat /\ list[j].end \in Nat
  BY NodeType DEF WellFormed
<1>2. list[i].start <= list[i].end /\ list[j].start <= list[j].end
  BY DEF WellFormed
<1>3. i = j \/ list[i].end + 1 < list[j].start
  BY NodeType DEF WellFormed
<1> QED BY <1>1, <1>2, <1>3

(* A range that closes the gap between two nodes.                           *)
LEMMA AddedByFusing ==
  ASSUME NEW list, WellFormed(list), NEW start \in Nat, NEW end \in Nat, start <= end,
         NEW k \in 1..Len(list), Stops(list, k, end),
         list[k].start <= end + 1, end <= list[k].end,
         start < list[k].start, JoinsPrevious(list, k, start)
  PROVE  Added(list, Fuse(list, k), start, end)
<1> DEFINE new == Fuse(list, k)
<1>1. list \in Seq(sector_range) /\ Len(list) \in Nat /\ k \in 2..Len(list)
  BY NodeType DEF WellFormed, JoinsPrevious
<1>2. \A i \in 1..Len(list) : list[i].start \in Nat /\ list[i].end \in Nat
  BY <1>1, NodeType
<1>3. /\ new \in Seq(sector_range)
      /\ Len(new) = Len(list) - 1
      /\ \A i \in 1..(Len(list) - 1) :
           /\ i < k - 1 => new[i] = list[i]
           /\ i = k - 1 => new[i].start = list[i].start /\ new[i].end = list[k].end
           /\ i > k - 1 => new[i] = list[i + 1]
  BY <1>1, FuseIsASeq
<1> HIDE DEF new
<1>4. /\ \A i \in 1..Len(list) : list[i].start <= list[i].end
      /\ \A i, j \in 1..Len(list) : i < j => list[i].end + 1 < list[j].start
  BY DEF WellFormed
\* Node i of the new list reaches from the start of node i or i + 1 of the old
\* one to the end of node i or i + 1.
<1>5. ASSUME NEW i \in 1..Len(new)
      PROVE  /\ i \in 1..Len(list) /\ i + 1 \in 1..Len(list)
             /\ new[i].start = IF i < k THEN list[i].start ELSE list[i + 1].start
             /\ new[i].end = IF i < k - 1 THEN list[i].end ELSE list[i + 1].end
  <2>1. i \in 1..(Len(list) - 1) /\ i \in 1..Len(list) /\ i + 1 \in 1..Len(list)
    BY <1>1, <1>3
  <2>2. CASE i < k - 1
    BY <1>1, <1>3, <2>1, <2>2
  <2>3. CASE i = k - 1
    BY <1>1, <1>3, <2>1, <2>3
  <2>4. CASE i > k - 1
    BY <1>1, <1>3, <2>1, <2>4
  <2> QED BY <1>1, <2>1, <2>2, <2>3, <2>4
<1>6. WellFormed(new)
  <2>1. ASSUME NEW i \in 1..Len(new)
        PROVE  new[i].start <= new[i].end
    <3>1. list[i].end + 1 < list[i + 1].start
      BY <1>4, <1>5
    <3>2. /\ list[i].start <= list[i].end /\ list[i + 1].start <= list[i + 1].end
          /\ list[i].start \in Nat /\ list[i].end \in Nat
          /\ list[i + 1].start \in Nat /\ list[i + 1].end \in Nat
      BY <1>2, <1>4, <1>5
    <3>3. CASE i < k - 1
      <4>1. new[i].start = list[i].start /\ new[i].end = list[i].end
        BY <3>3, <1>1, <1>5
      <4> QED BY <4>1, <3>2
    <3>4. CASE i = k - 1
      <4>1. new[i].start = list[i].start /\ new[i].end = list[i + 1].end
        BY <3>4, <1>1, <1>5
      <4>2. list[i].start <= list[i + 1].end
        BY <1>5, NodesInOrder
      <4> QED BY <4>1, <4>2
    <3>5. CASE i > k - 1
      <4>1. new[i].start = list[i + 1].start /\ new[i].end = list[i + 1].end
        BY <3>5, <1>1, <1>5
      <4> QED BY <4>1, <3>2
    <3> QED BY <1>1, <3>3, <3>4, <3>5
  <2>2. ASSUME NEW i \in 1..Len(new), NEW j \in 1..Len(new), i < j
        PROVE  new[i].end + 1 < new[j].start
    <3>1. CASE j < k
      <4>1. i < k - 1 /\ new[i].end = list[i].end /\ new[j].start = list[j].start
        BY SMTT(40), <2>2, <3>1, <1>1, <1>5
      <4> QED BY <2>2, <4>1, <1>4, <1>5
    <3>2. CASE j >= k /\ i >= k - 1
      <4>1. /\ new[i].end = list[i + 1].end /\ new[j].start = list[j + 1].start
            /\ i + 1 \in 1..Len(list) /\ j + 1 \in 1..Len(list) /\ i + 1 < j + 1
        BY <2>2, <3>2, <1>1, <1>5
      <4> QED BY <4>1, <1>4
    <3>3. CASE j >= k /\ i < k - 1
      <4>1. new[i].end = list[i].end /\ new[j].start = list[j + 1].start /\ i < j + 1
        BY SMTT(40), <2>2, <3>3, <1>1, <1>5
      <4> QED BY <4>1, <1>4, <1>5
    <3> QED BY <3>1, <3>2, <3>3, <1>1
  <2> QED BY <1>3, <2>1, <2>2 DEF WellFormed
<1>7. SameEnds(list, new, start, end)
  <2> SUFFICES ASSUME NEW i \in 1..Len(new)
               PROVE  /\ \E j \in 1..Len(list) : new[i].start = list[j].start
                      /\ \E j \in 1..Len(list) : new[i].end = list[j].end
    BY DEF SameEnds
  <2> QED BY <1>1, <1>5
<1>8. list[k - 1].start <= end + 1 /\ list[k - 1].end < end /\ start <= list[k - 1].end + 1
  BY <1>1 DEF Stops, JoinsPrevious
<1>9. /\ k - 1 \in 1..Len(new)
      /\ new[k - 1].start = list[k - 1].start /\ new[k - 1].end = list[k].end
  BY <1>1, <1>3
<1>10. ASSUME NEW n \in Nat, Known(list, n)
       PROVE  Known(new, n)
  <2>1. PICK i \in 1..Len(list) : list[i].start <= n /\ n <= list[i].end
    BY <1>10 DEF Known
  <2>2. CASE i < k - 1
    <3>1. i \in 1..Len(new) /\ new[i] = list[i]
      BY <2>2, <1>1, <1>3
    <3> QED BY <2>1, <3>1 DEF Known
  <2>3. CASE i = k - 1 \/ i = k
    <3>1. /\ list[k - 1].start \in Nat /\ list[k - 1].end \in Nat
          /\ list[k].start \in Nat /\ list[k].end \in Nat
      BY SMTT(40), <1>1, <1>2
    <3>2. list[k - 1].start <= list[k].start /\ list[k - 1].end <= list[k].end
      BY <1>1, NodesInOrder
    <3>3. /\ list[k - 1].start <= n /\ n <= list[k - 1].end => n <= list[k].end
          /\ list[k].start <= n /\ n <= list[k].end => list[k - 1].start <= n
      BY SMTT(40), <3>1, <3>2
    <3>4. list[k - 1].start <= n /\ n <= list[k].end
      BY <2>1, <2>3, <3>3
    <3> QED BY <3>4, <1>9 DEF Known
  <2>4. CASE i > k
    <3>1. i - 1 \in 1..Len(new) /\ new[i - 1] = list[i]
      BY <2>4, <1>1, <1>3
    <3> QED BY <2>1, <3>1 DEF Known
  <2> QED BY <1>1, <2>2, <2>3, <2>4
<1>11. ASSUME NEW n \in Nat, Known(new, n)
       PROVE  Known(list, n) \/ n \in start..end
  <2>1. PICK i \in 1..Len(new) : new[i].start <= n /\ n <= new[i].end
    BY <1>11 DEF Known
  <2>2. CASE i < k - 1
    <3>1. i \in 1..Len(list) /\ new[i] = list[i]
      BY <2>2, <1>1, <1>3, <1>5
    <3> QED BY <2>1, <3>1 DEF Known
  <2>3. CASE i = k - 1 /\ n <= list[k - 1].end
    BY <2>1, <2>3, <1>1, <1>9 DEF Known
  <2>4. CASE i = k - 1 /\ list[k].start <= n
    BY <2>1, <2>4, <1>1, <1>9 DEF Known
  <2>5. CASE list[k - 1].end < n /\ n < list[k].start
    BY SMTT(40), <2>5, <1>1, <1>2, <1>8
  <2>6. CASE i > k - 1
    <3>1. i + 1 \in 1..Len(list) /\ new[i] = list[i + 1]
      BY <2>6, <1>1, <1>3
    <3> QED BY <2>1, <3>1 DEF Known
  <2> QED BY <1>1, <1>2, <2>2, <2>3, <2>4, <2>5, <2>6
<1>12. AddsAll(list, new, start, end)
  <2> SUFFICES ASSUME ~Engulfs(list, start, end), NEW n \in start..end
               PROVE  Known(new, n)
    BY DEF AddsAll
  <2>1. list[k - 1].start <= start
    BY <1>1, <1>2, <1>8 DEF Engulfs
  <2>2. new[k - 1].start <= n /\ n <= new[k - 1].end
    BY <2>1, <1>1, <1>2, <1>9
  <2> QED BY <2>2, <1>9 DEF Known
<1> QED BY <1>6, <1>7, <1>10, <1>11, <1>12 DEF Added, OnlyAdds, new

(***************************************************************************)
(* Adding a range to a well-formed list gives a well-formed list that      *)
(* holds every sector it held and no foreign one, and all of the range     *)
(* unless the range engulfs a node.                                        *)
(***************************************************************************)
THEOREM AddProperties ==
  ASSUME NEW list, WellFormed(list), NEW start \in Nat, NEW end \in Nat, start <= end
  PROVE  Added(list, add_sector_range_list(list, start, end), start, end)
<1> DEFINE k == StopNode(list, end)
<1>1. list \in Seq(sector_range) /\ Len(list) \in Nat
  BY NodeType DEF WellFormed
<1>2. \A i \in 1..Len(list) : list[i].start \in Nat /\ list[i].end \in Nat
  BY <1>1, NodeType
<1> HIDE DEF k
<1>3. k \in 1..(Len(list) + 1) /\ k \in Nat /\ Stops(list, k, end)
  <2>1. /\ k \in 1..(Len(list) + 1)
        /\ \A i \in 1..(k - 1) : list[i].start <= end + 1 /\ list[i].end < end
        /\ k <= Len(list) => end + 1 < list[k].start \/ end <= list[k].end
    BY StopNodeIsFirst DEF k
  <2> QED BY <1>1, <2>1 DEF Stops
<1>4. CASE k <= Len(list) /\ list[k].start <= end + 1
  <2>1. add_sector_range_list(list, start, end) = AddInto(list, k, start)
    BY <1>4 DEF add_sector_range_list, k
  <2>2. k \in 1..Len(list) /\ end <= list[k].end
    BY <1>1, <1>2, <1>3, <1>4 DEF Stops
  <2>3. CASE start >= list[k].start
    <3>1. AddInto(list, k, start) = list
      BY <2>3 DEF AddInto
    <3>2. SameEnds(list, list, start, end) /\ OnlyAdds(list, list, start, end)
      BY DEF SameEnds, OnlyAdds
    <3>3. AddsAll(list, list, start, end)
      BY <1>2, <2>2, <2>3 DEF AddsAll, Known
    <3> QED BY <2>1, <3>1, <3>2, <3>3 DEF Added
  <2>4. CASE start < list[k].start /\ JoinsPrevious(list, k, start)
    <3>1. AddInto(list, k, start) = Fuse(list, k)
      BY <1>2, <2>2, <2>4 DEF AddInto
    <3> QED BY <1>3, <1>4, <2>1, <2>2, <2>4, <3>1, AddedByFusing
  <2>5. CASE start < list[k].start /\ ~JoinsPrevious(list, k, start)
    <3>1. AddInto(list, k, start) = [list EXCEPT ![k].start = start]
      BY <1>2, <2>2, <2>5 DEF AddInto
    <3>2. Added(list, [list EXCEPT ![k].start = start], start, end)
      BY <1>3, <1>4, <2>2, <2>5, AddedByExtendingStart
    <3> QED BY <2>1, <3>1, <3>2
  <2> QED BY <1>2, <2>2, <2>3, <2>4, <2>5
<1>5. CASE ~(k <= Len(list) /\ list[k].start <= end + 1)
  <2>1. add_sector_range_list(list, start, end) = AddBefore(list, k, start, end)
    BY <1>5 DEF add_sector_range_list, k
  <2>2. k <= Len(list) => end + 1 < list[k].start
    BY <1>1, <1>2, <1>3, <1>5
  <2>3. CASE JoinsPrevious(list, k, start)
    <3>1. AddBefore(list, k, start, end) = [list EXCEPT ![k - 1].end = end]
      BY <2>3 DEF AddBefore
    <3>2. Added(list, [list EXCEPT ![k - 1].end = end], start, end)
      BY <1>3, <2>2, <2>3, AddedByExtendingEnd
    <3> QED BY <2>1, <3>1, <3>2
  <2>4. CASE ~JoinsPrevious(list, k, start)
    <3>1. AddBefore(list, k, start, end) = Insert(list, k, [start |-> start, end |-> end])
      BY <2>4 DEF AddBefore
    <3> QED BY <1>3, <2>1, <2>2, <2>4, <3>1, AddedByInsert
  <2> QED BY <2>3, <2>4
<1> QED BY <1>4, <1>5

(***************************************************************************)
(* find_next_sectors measures the run of known sectors at offset, or the   *)
(* gap up to the next node, or finds that nothing is left.                 *)
(***************************************************************************)
THEOREM LookupFinds ==
  ASSUME NEW list, WellFormed(list), NEW offset \in Nat
  PROVE  \/ \E n \in Nat \ {0} :
              /\ find_next_sectors(list, offset) = n
              /\ \A m \in offset..(offset + n - 1) : Known(list, m)
              /\ ~Known(list, offset + n)
         \/ \E k \in 1..Len(list) :
              /\ find_next_sectors(list, offset) = offset - list[k].start
              /\ offset < list[k].start
              /\ \A m \in offset..(list[k].start - 1) : ~Known(list, m)
              /\ Known(list, list[k].start)
         \/ /\ find_next_sectors(list, offset) = -INT_MAX
            /\ \A m \in Nat : m >= offset => ~Known(list, m)
<1> DEFINE K == {k \in 1..Len(list) : offset < list[k].start \/ offset <= list[k].end}
           k == LookupNode(list, offset)
<1>1. list \in Seq(sector_range) /\ Len(list) \in Nat /\ K \in SUBSET (1..Len(list))
  BY NodeType DEF WellFormed
<1>2. \A i \in 1..Len(list) : list[i].start \in Nat /\ list[i].end \in Nat
  BY <1>1, NodeType
<1>3. k = FirstOf(K, Len(list))
  BY DEF LookupNode
<1>4. find_next_sectors(list, offset) =
        IF k > Len(list) THEN -INT_MAX
        ELSE IF offset < list[k].start THEN offset - list[k].start
        ELSE list[k].end - offset + 1
  BY DEF find_next_sectors
<1> HIDE DEF K, k
<1>5. /\ k \in 1..(Len(list) + 1)
      /\ \A m \in K : k <= m
      /\ K # {} => k \in K
      /\ K = {} => k = Len(list) + 1
  BY <1>1, <1>3, FirstOfIsLeast
\* The nodes before node k end before offset.
<1>6. ASSUME NEW i \in 1..Len(list), i < k
      PROVE  list[i].end < offset
  <2>1. i \notin K
    BY <1>1, <1>5, <1>6
  <2> QED BY <1>2, <2>1 DEF K
<1>7. CASE k > Len(list)
  <2>1. ASSUME NEW m \in Nat, m >= offset, NEW i \in 1..Len(list)
        PROVE  ~(m <= list[i].end)
    <3>1. list[i].end < offset
      BY <1>1, <1>5, <1>6, <1>7
    <3> QED BY <2>1, <3>1, <1>2
  <2>2. \A m \in Nat : m >= offset => ~Known(list, m)
    BY <2>1 DEF Known
  <2> QED BY <1>4, <1>7, <2>2
<1>8. CASE k <= Len(list) /\ offset < list[k].start
  <2>1. k \in 1..Len(list)
    BY <1>5, <1>8
  <2>2. ASSUME NEW m \in offset..(list[k].start - 1), NEW i \in 1..Len(list)
        PROVE  ~(list[i].start <= m /\ m <= list[i].end)
    <3>1. CASE i < k
      BY <3>1, <2>1, <2>2, <1>2, <1>6
    <3>2. CASE i >= k
      <4>1. list[k].start <= list[i].start
        BY <3>2, <2>1, NodesInOrder
      <4>2. list[k].start \in Nat /\ list[i].start \in Nat
        BY <1>2, <2>1
      <4> QED BY <4>1, <4>2
    <3> QED BY <3>1, <3>2, <2>1
  <2>3. Known(list, list[k].start)
    BY <2>1, <1>2 DEF Known, WellFormed
  <2> QED BY <2>1, <2>2, <2>3, <1>1, <1>4, <1>8 DEF Known
<1>9. CASE k <= Len(list) /\ offset >= list[k].start
  <2>1. k \in 1..Len(list)
    BY <1>5, <1>9
  <2>2. k \in K
    BY <1>1, <1>5, <1>9
  <2>3. list[k].start <= offset /\ offset <= list[k].end
    BY <1>2, <1>9, <2>1, <2>2 DEF K
  <2> DEFINE n == list[k].end - offset + 1
  <2>4. n \in Nat \ {0} /\ find_next_sectors(list, offset) = n
    BY <1>1, <1>2, <1>4, <1>9, <2>1, <2>3
  <2>5. \A m \in offset..(offset + n - 1) : Known(list, m)
    BY <1>2, <2>1, <2>3 DEF Known
  <2>6. ASSUME NEW i \in 1..Len(list)
        PROVE  ~(list[i].start <= offset + n /\ offset + n <= list[i].end)
    <3>1. offset + n = list[k].end + 1
      BY <1>2, <2>1
    <3>2. CASE i <= k
      <4>1. list[i].end <= list[k].end
        BY <3>2, <2>1, NodesInOrder
      <4>2. list[i].end \in Nat /\ list[k].end \in Nat
        BY <1>2, <2>1
      <4> QED BY <3>1, <4>1, <4>2
    <3>3. CASE i > k
      <4>1. list[k].end + 1 < list[i].start
        BY <3>3, <2>1 DEF WellFormed
      <4>2. list[i].start \in Nat /\ list[k].end \in Nat
        BY <1>2, <2>1
      <4> QED BY <3>1, <4>1, <4>2
    <3> QED BY <3>2, <3>3, <2>1
  <2>7. ~Known(list, offset + n)
    BY <2>6 DEF Known
  <2> QED BY <2>4, <2>5, <2>7
<1> QED BY <1>1, <1>2, <1>5, <1>7, <1>8, <1>9
=============================================================================
