---------------------------- MODULE WriteCellsProofs ----------------------------
(***************************************************************************)
(* DVDWriteCells for every sequence of cells, every size of buffer and of  *)
(* part, and every series of runs that fail or are killed at any step.     *)
(***************************************************************************)
EXTENDS WriteCells, SequenceTheorems, FiniteSetTheorems, TLAPS

-----------------------------------------------------------------------------
(* The first n sequences of f, one after the other.                         *)

Joined(f, n) == FlattenSeq([k \in 1..n |-> f[k]])

(* Induction over the naturals, for a property given as a set: its minimal  *)
(* counterexample would have a predecessor.                                 *)
LEMMA Induction ==
  ASSUME NEW S, 0 \in S, \A n \in Nat : n \in S => n + 1 \in S
  PROVE  Nat \subseteq S
<1> DEFINE Below == {ss \in Nat \X Nat : ss[1] < ss[2]}
<1> DEFINE Missing == Nat \ S
<1> SUFFICES ASSUME Missing # {} PROVE FALSE
  OBVIOUS
<1>1. PICK x \in Missing : \A y \in Missing : ~(<<y, x>> \in Below)
  <2>1. IsWellFoundedOn(Below, Nat)
    BY NatLessThanWellFounded DEF OpToRel
  <2>2. Missing \subseteq Nat
    OBVIOUS
  <2> HIDE DEF Below, Missing
  <2> QED BY <2>1, <2>2, WFMin
<1>2. x # 0 /\ x \in Nat
  OBVIOUS
<1>3. x - 1 \in Nat /\ x - 1 \notin S
  BY <1>2
<1>4. <<x - 1, x>> \in Below
  BY <1>2, <1>3
<1> QED BY <1>1, <1>3, <1>4

\* What FlattenSeq computes on the way: g[j] is the first j sequences of f.
Unfolds(f, n, g) == \A j \in 1..n : g[j] = IF j = 1 THEN f[j] ELSE g[j - 1] \o f[j]

(* There is such a function, and its values are sequences.                  *)
LEMMA UnfoldingExists ==
  ASSUME NEW T, NEW f, NEW m \in Nat, \A k \in 1..m : f[k] \in Seq(T)
  PROVE  \E g \in [1..m -> Seq(T)] : Unfolds(f, m, g)
<1> DEFINE S == {n \in Nat : n <= m => \E g \in [1..n -> Seq(T)] : Unfolds(f, n, g)}
<1>1. 0 \in S
  <2>1. [j \in 1..0 |-> <<>>] \in [1..0 -> Seq(T)]
    OBVIOUS
  <2>2. Unfolds(f, 0, [j \in 1..0 |-> <<>>])
    BY DEF Unfolds
  <2> QED BY <2>1, <2>2
<1>2. ASSUME NEW n \in Nat, n \in S
      PROVE  n + 1 \in S
  <2> SUFFICES ASSUME n + 1 <= m
               PROVE  \E g \in [1..(n + 1) -> Seq(T)] : Unfolds(f, n + 1, g)
    OBVIOUS
  <2>1. PICK g \in [1..n -> Seq(T)] : Unfolds(f, n, g)
    BY <1>2
  <2> DEFINE last == IF n = 0 THEN f[1] ELSE g[n] \o f[n + 1]
  <2> DEFINE h == [j \in 1..(n + 1) |-> IF j = n + 1 THEN last ELSE g[j]]
  <2>2. n + 1 \in 1..m /\ f[n + 1] \in Seq(T)
    OBVIOUS
  <2>3. last \in Seq(T)
    <3>1. CASE n = 0
      BY <3>1, <2>2
    <3>2. CASE n # 0
      <4>1. g[n] \in Seq(T)
        BY <2>1, <3>2
      <4> QED BY <4>1, <2>2, <3>2, ConcatProperties
    <3> QED BY <3>1, <3>2
  <2>4. \A j \in 1..n : h[j] = g[j] /\ j # n + 1
    <3> HIDE DEF last
    <3>1. \A j \in 1..n : j \in 1..(n + 1) /\ j # n + 1
      OBVIOUS
    <3> QED BY <3>1
  <2>5. h[n + 1] = last
    <3> HIDE DEF last
    <3> QED OBVIOUS
  <2>6. \A j \in 1..(n + 1) : h[j] = IF j = 1 THEN f[j] ELSE h[j - 1] \o f[j]
    <3> HIDE DEF h
    <3> TAKE j \in 1..(n + 1)
    <3>1. CASE j = n + 1
      <4>1. n # 0 => h[n] = g[n] /\ j - 1 = n /\ j # 1
        BY <2>4, <3>1
      <4>2. n = 0 => j = 1
        BY <3>1
      <4> QED BY <3>1, <2>5, <4>1, <4>2
    <3>2. CASE j # n + 1
      <4>1. j \in 1..n /\ (j # 1 => j - 1 \in 1..n)
        BY <3>2
      <4> QED BY <4>1, <2>1, <2>4 DEF Unfolds
    <3> QED BY <3>1, <3>2
  <2>7. h \in [1..(n + 1) -> Seq(T)]
    <3> HIDE DEF last
    <3> QED BY <2>1, <2>3
  <2> HIDE DEF h
  <2> QED BY <2>6, <2>7 DEF Unfolds
<1> HIDE DEF S
<1>3. m \in S
  BY <1>1, <1>2, Induction
<1> QED BY <1>3 DEF S

(* FlattenSeq is its last value.                                            *)
LEMMA JoinedUnfolds ==
  ASSUME NEW T, NEW f, NEW n \in Nat \ {0}, \A k \in 1..n : f[k] \in Seq(T)
  PROVE  \E g \in [1..n -> Seq(T)] : Unfolds(f, n, g) /\ Joined(f, n) = g[n]
<1> DEFINE s == [k \in 1..n |-> f[k]]
<1> DEFINE c == CHOOSE g : g = [j \in 1..n |-> IF j = 1 THEN s[j] ELSE g[j - 1] \o s[j]]
<1>1. PICK g \in [1..n -> Seq(T)] : Unfolds(f, n, g)
  BY UnfoldingExists
<1>2. g = [j \in 1..n |-> IF j = 1 THEN s[j] ELSE g[j - 1] \o s[j]]
  <2>1. g = [j \in 1..n |-> g[j]]
    BY <1>1
  <2>2. \A j \in 1..n : g[j] = IF j = 1 THEN s[j] ELSE g[j - 1] \o s[j]
    BY <1>1 DEF Unfolds
  <2> HIDE DEF s
  <2> QED BY <2>1, <2>2
<1>3. c = [j \in 1..n |-> IF j = 1 THEN s[j] ELSE c[j - 1] \o s[j]]
  BY <1>2
<1>4. Joined(f, n) = c[n]
  <2>1. Len(s) = n /\ n # 0
    OBVIOUS
  <2> QED BY <2>1 DEF Joined, FlattenSeq
<1>5. \A j \in 1..n : c[j] = IF j = 1 THEN f[j] ELSE c[j - 1] \o f[j]
  <2>1. \A j \in 1..n : s[j] = f[j]
    OBVIOUS
  <2> HIDE DEF s, c
  <2> QED BY <1>3, <2>1
<1>6. \A j \in 1..n : c[j] = g[j]
  <2> DEFINE S == {j \in Nat : j \in 1..n => c[j] = g[j]}
  <2> HIDE DEF c
  <2>1. 0 \in S
    OBVIOUS
  <2>2. ASSUME NEW j \in Nat, j \in S PROVE j + 1 \in S
    <3> SUFFICES ASSUME j + 1 \in 1..n PROVE c[j + 1] = g[j + 1]
      OBVIOUS
    <3>1. CASE j = 0
      <4>1. j + 1 = 1 /\ 1 \in 1..n
        BY <3>1
      <4>2. c[1] = f[1] /\ g[1] = f[1]
        BY <1>5, <1>1, <4>1 DEF Unfolds
      <4> QED BY <4>1, <4>2
    <3>2. CASE j # 0
      <4>1. j \in 1..n /\ (j + 1) - 1 = j /\ j + 1 # 1
        BY <3>2
      <4>2. c[j] = g[j]
        BY <2>2, <4>1
      <4>3. c[j + 1] = c[j] \o f[j + 1]
        BY <1>5, <4>1
      <4>4. g[j + 1] = g[j] \o f[j + 1]
        BY <1>1, <4>1 DEF Unfolds
      <4> QED BY <4>2, <4>3, <4>4
    <3> QED BY <3>1, <3>2
  <2> HIDE DEF S
  <2>3. Nat \subseteq S
    BY <2>1, <2>2, Induction
  <2> QED BY <2>3 DEF S
<1>7. c[n] = g[n]
  <2>1. n \in 1..n
    OBVIOUS
  <2> HIDE DEF c
  <2> QED BY <1>6, <2>1
<1> HIDE DEF c
<1> QED BY <1>1, <1>4, <1>7

(* No sequence; one sequence more; and only the first n of f matter.        *)
LEMMA JoinedNone == ASSUME NEW f PROVE Joined(f, 0) = <<>>
<1>1. [k \in 1..0 |-> f[k]] = <<>>
  OBVIOUS
<1>2. Len(<<>>) = 0
  OBVIOUS
<1> QED BY <1>1, <1>2 DEF Joined, FlattenSeq

LEMMA JoinedSame ==
  ASSUME NEW f, NEW g, NEW n \in Nat, \A k \in 1..n : f[k] = g[k]
  PROVE  Joined(f, n) = Joined(g, n)
<1>1. [k \in 1..n |-> f[k]] = [k \in 1..n |-> g[k]]
  OBVIOUS
<1> QED BY <1>1 DEF Joined

LEMMA JoinedType ==
  ASSUME NEW T, NEW f, NEW n \in Nat, \A k \in 1..n : f[k] \in Seq(T)
  PROVE  Joined(f, n) \in Seq(T)
<1>1. CASE n = 0
  BY <1>1, JoinedNone, EmptySeq
<1>2. CASE n # 0
  <2>1. PICK g \in [1..n -> Seq(T)] : Joined(f, n) = g[n]
    BY <1>2, JoinedUnfolds
  <2> QED BY <2>1, <1>2
<1> QED BY <1>1, <1>2

LEMMA JoinedMore ==
  ASSUME NEW T, NEW f, NEW n \in Nat, \A k \in 1..(n + 1) : f[k] \in Seq(T)
  PROVE  Joined(f, n + 1) = Joined(f, n) \o f[n + 1]
<1>0. \A k \in 1..n : f[k] \in Seq(T)
  OBVIOUS
<1>1. PICK g \in [1..(n + 1) -> Seq(T)] :
        Unfolds(f, n + 1, g) /\ Joined(f, n + 1) = g[n + 1]
  <2>1. n + 1 \in Nat \ {0}
    OBVIOUS
  <2> QED BY <2>1, JoinedUnfolds
<1>2. CASE n = 0
  <2>1. Joined(f, n + 1) = f[n + 1]
    BY <1>1, <1>2 DEF Unfolds
  <2>2. f[n + 1] \in Seq(T) /\ Joined(f, n) = <<>>
    BY <1>2, JoinedNone
  <2> QED BY <2>1, <2>2, ConcatEmptySeq
<1>3. CASE n # 0
  <2>1. PICK h \in [1..n -> Seq(T)] : Unfolds(f, n, h) /\ Joined(f, n) = h[n]
    <3>1. n \in Nat \ {0}
      BY <1>3
    <3> QED BY <1>0, <3>1, JoinedUnfolds
  <2> DEFINE S == {j \in Nat : j \in 1..n => g[j] = h[j]}
  <2>2. 0 \in S
    OBVIOUS
  <2>3. ASSUME NEW j \in Nat, j \in S PROVE j + 1 \in S
    <3> SUFFICES ASSUME j + 1 \in 1..n PROVE g[j + 1] = h[j + 1]
      OBVIOUS
    <3>0. j + 1 \in 1..(n + 1)
      OBVIOUS
    <3>1. CASE j = 0
      <4>1. j + 1 = 1
        BY <3>1
      <4> QED BY <4>1, <3>0, <1>1, <2>1 DEF Unfolds
    <3>2. CASE j # 0
      <4>1. j \in 1..n /\ (j + 1) - 1 = j /\ j + 1 # 1
        BY <3>2
      <4>2. g[j] = h[j]
        BY <2>3, <4>1
      <4>3. g[j + 1] = g[j] \o f[j + 1]
        BY <1>1, <3>0, <4>1 DEF Unfolds
      <4>4. h[j + 1] = h[j] \o f[j + 1]
        BY <2>1, <4>1 DEF Unfolds
      <4> QED BY <4>2, <4>3, <4>4
    <3> QED BY <3>1, <3>2
  <2>4. g[n] = h[n]
    <3> HIDE DEF S
    <3>1. n \in S
      BY <2>2, <2>3, Induction
    <3> QED BY <3>1, <1>3 DEF S
  <2>5. g[n + 1] = g[n] \o f[n + 1]
    <3>1. n + 1 \in 1..(n + 1) /\ (n + 1) - 1 = n /\ n + 1 # 1
      BY <1>3
    <3> QED BY <3>1, <1>1 DEF Unfolds
  <2> QED BY <1>1, <2>1, <2>4, <2>5
<1> QED BY <1>2, <1>3

(* Concatenation is associative, and adds the lengths.                      *)
LEMMA Associative ==
  \A s, t, u \in Seq(Nat) : (s \o t) \o u = s \o (t \o u)
<1> TAKE s, t, u \in Seq(Nat)
<1> QED BY ConcatAssociative, SMTT(30)

LEMMA ConcatLength ==
  \A s, t \in Seq(Nat) : s \o t \in Seq(Nat) /\ Len(s \o t) = Len(s) + Len(t)
<1> TAKE s, t \in Seq(Nat)
<1> QED BY ConcatProperties

(* The first m sequences are a prefix of the first n.                       *)
LEMMA JoinedPrefix ==
  ASSUME NEW f, NEW n \in Nat, NEW m \in 0..n, \A k \in 1..n : f[k] \in Seq(Nat)
  PROVE  \E r \in Seq(Nat) : Joined(f, n) = Joined(f, m) \o r
<1> DEFINE S == {d \in Nat : m + d <= n =>
                   \E r \in Seq(Nat) : Joined(f, m + d) = Joined(f, m) \o r}
<1>1. Joined(f, m) \in Seq(Nat)
  <2>1. m \in Nat /\ \A k \in 1..m : f[k] \in Seq(Nat)
    OBVIOUS
  <2> QED BY <2>1, JoinedType
<1>2. 0 \in S
  <2>1. Joined(f, m + 0) = Joined(f, m) \o <<>>
    BY <1>1, ConcatEmptySeq
  <2> QED BY <2>1, EmptySeq
<1>3. ASSUME NEW d \in Nat, d \in S PROVE d + 1 \in S
  <2> SUFFICES ASSUME m + (d + 1) <= n
               PROVE  \E r \in Seq(Nat) : Joined(f, m + (d + 1)) = Joined(f, m) \o r
    OBVIOUS
  <2>0. m + d <= n
    OBVIOUS
  <2>1. PICK r \in Seq(Nat) : Joined(f, m + d) = Joined(f, m) \o r
    BY <1>3, <2>0, Zenon
  <2> DEFINE e == m + d
  <2> DEFINE x == f[e + 1]
  <2>2. e \in Nat /\ m + (d + 1) = e + 1 /\ e + 1 \in 1..n
    OBVIOUS
  <2>3. \A k \in 1..(e + 1) : f[k] \in Seq(Nat)
    OBVIOUS
  <2>4. Joined(f, e) = Joined(f, m) \o r
    BY <2>1
  <2> HIDE DEF e
  <2>5. Joined(f, e + 1) = Joined(f, e) \o x
    BY <2>2, <2>3, JoinedMore
  <2>6. x \in Seq(Nat)
    BY <2>2
  <2> HIDE DEF x
  <2>7. r \o x \in Seq(Nat)
    BY <2>1, <2>6, ConcatProperties
  <2>8. (Joined(f, m) \o r) \o x = Joined(f, m) \o (r \o x)
    BY <1>1, <2>1, <2>6, Associative, ZenonT(30)
  <2> QED BY <2>2, <2>4, <2>5, <2>7, <2>8
<1> HIDE DEF S
<1>4. PICK d \in Nat : m + d = n
  <2>1. n - m \in Nat /\ m + (n - m) = n
    OBVIOUS
  <2> QED BY <2>1
<1>5. d \in S
  BY <1>2, <1>3, Induction
<1>6. m + d <= n => \E r \in Seq(Nat) : Joined(f, m + d) = Joined(f, m) \o r
  BY <1>5 DEF S
<1>7. m + d <= n
  BY <1>4
<1> QED BY <1>4, <1>6, <1>7, Zenon

(* The last sequence comes after the others.                                *)
LEMMA JoinedLast ==
  ASSUME NEW f, NEW n \in Nat \ {0}, \A k \in 1..n : f[k] \in Seq(Nat)
  PROVE  Joined(f, n) = Joined(f, n - 1) \o f[n] /\ Joined(f, n - 1) \in Seq(Nat)
<1> DEFINE m == n - 1
<1>1. m \in Nat /\ m + 1 = n /\ \A k \in 1..m : f[k] \in Seq(Nat)
  OBVIOUS
<1> HIDE DEF m
<1>2. \A k \in 1..(m + 1) : f[k] \in Seq(Nat)
  BY <1>1
<1>3. Joined(f, m + 1) = Joined(f, m) \o f[m + 1]
  BY <1>1, <1>2, JoinedMore
<1>4. Joined(f, m) \in Seq(Nat)
  BY <1>1, JoinedType
<1> QED BY <1>1, <1>3, <1>4 DEF m

-----------------------------------------------------------------------------
(* The inductive invariant.                                                 *)

\* The part being written is there; the copy is inside a cell; it is complete.
Busy == pc \in {"opendvd", "cell", "read", "write", "rotate"}
InCell == pc \in {"read", "write", "rotate"}
Done == pc = "returned" /\ result = 0

BlocksFrom(s, n) == [k \in 1..n |-> s + k - 1]
BlocksOf(cells) == [k \in 1..Len(cells) |-> CellBlocks(cells[k])]

\* The blocks of the cells that have been dealt with.
Taken ==
  IF InCell
  THEN Joined(BlocksOf(request.cells), i - 1)
         \o BlocksFrom(request.cells[i].start, soffset - request.cells[i].start)
  ELSE Joined(BlocksOf(request.cells), i)

Data ==
  /\ request \in Requests
  /\ DOMAIN files = Part

\* The offset and what is left of the cell go together.
CursorInCell ==
  InCell => /\ i >= 1
            /\ soffset >= request.cells[i].start
            /\ left = request.cells[i].end - soffset
            /\ left >= 0 \/ soffset = request.cells[i].start

\* What is about to be written is in the cell and fits in the part; a part is
\* left when it is full and there is more to come.
ReadsFit ==
  /\ pc = "write" => left > 0 /\ have_read <= left /\ have_read <= MAX_VOB_SIZE - size
  /\ pc = "rotate" => left > 0 /\ size = MAX_VOB_SIZE

AtTheStart ==
  /\ pc \in {"unlink", "create", "opendvd"} => i = 0 /\ size = 0 /\ vob = 1
  /\ Done => i = Len(request.cells)

\* Parts and blocks are counted alike, whether the directory was writable or not.
Accounting == Busy \/ Done => Len(Taken) = (vob - 1) * MAX_VOB_SIZE + size

PartIsThere == Busy => files[vob] # ABSENT
NothingLeftOver == pc = "create" /\ Removes => \A v \in Part : files[v] = ABSENT

\* The parts on disk hold the blocks that have been dealt with.
OnDisk ==
  request.writable /\ (Busy \/ Done) =>
    /\ Existing = 1..vob
    /\ Joined(files, vob) = Taken
    /\ \A v \in 1..(vob - 1) : Len(files[v]) = MAX_VOB_SIZE
    /\ Len(files[vob]) = size

Releases ==
  /\ streams = IF Busy /\ pc # "rotate" THEN 1 ELSE 0
  /\ pc = "returned" => "targetname" \notin held
  /\ result = 0 => pc = "returned" /\ held = {}
  /\ pc = "unlink" => held = {}

IInv ==
  /\ TypeOK /\ Data /\ CursorInCell /\ ReadsFit /\ AtTheStart /\ Accounting
  /\ PartIsThere /\ NothingLeftOver /\ OnDisk /\ Releases

-----------------------------------------------------------------------------
(* Cells and blocks.                                                        *)

(* The constants and the call have their types.                             *)
LEMMA RequestIsTyped ==
  ASSUME IInv
  PROVE  /\ request.cells \in Seq(Cell) /\ Len(request.cells) \in Nat
         /\ \A k \in 1..Len(request.cells) :
              /\ request.cells[k].start \in Nat /\ request.cells[k].end \in Int
              /\ request.cells[k].start <= request.cells[k].end + 1
         /\ request.title_set \in Nat /\ request.writable \in BOOLEAN
         /\ Len(Wanted(request.cells)) <= PARTS * MAX_VOB_SIZE
         /\ BUFFER_SIZE \in Nat \ {0} /\ MAX_VOB_SIZE \in Nat \ {0}
         /\ PARTS \in Nat \ {0} /\ MaxRuns \in Nat \ {0} /\ ABSENT \notin Seq(Nat)
<1>1. IsRequest(request) /\ Len(Wanted(request.cells)) <= PARTS * MAX_VOB_SIZE
  BY WriteAssumption DEF IInv, Data
<1>2. request.cells \in Seq(Cell) /\ InOrder(request.cells)
  BY <1>1 DEF IsRequest
<1>3. \A k \in 1..Len(request.cells) : request.cells[k] \in Cell
  <2> HIDE DEF Cell
  <2> QED BY <1>2, ElementOfSeq
<1>4. \A k \in 1..Len(request.cells) :
        request.cells[k].start \in Nat /\ request.cells[k].end \in Int
  BY <1>3 DEF Cell
<1>5. Len(request.cells) \in Nat
  BY <1>2, LenProperties
<1> QED BY <1>1, <1>2, <1>4, <1>5, WriteAssumption DEF IsRequest, InOrder

(* Consecutive blocks are a sequence, as long as it should be.              *)
LEMMA BlocksType ==
  ASSUME NEW s \in Nat, NEW n \in Nat
  PROVE  BlocksFrom(s, n) \in Seq(Nat) /\ Len(BlocksFrom(s, n)) = n
<1>1. \A k \in 1..n : s + k - 1 \in Nat
  OBVIOUS
<1> QED BY <1>1 DEF BlocksFrom

LEMMA NoBlocks == ASSUME NEW s, NEW n \in Int, n <= 0 PROVE BlocksFrom(s, n) = <<>>
<1>1. 1..n = {}
  OBVIOUS
<1> QED BY <1>1 DEF BlocksFrom

(* The blocks after some blocks.                                            *)
LEMMA BlocksGrow ==
  ASSUME NEW s \in Nat, NEW n \in Nat, NEW m \in Nat
  PROVE  BlocksFrom(s, n + m) = BlocksFrom(s, n) \o BlocksFrom(s + n, m)
<1> DEFINE a == BlocksFrom(s, n)
<1> DEFINE b == BlocksFrom(s + n, m)
<1> DEFINE c == BlocksFrom(s, n + m)
<1>1. /\ a \in Seq(Nat) /\ Len(a) = n /\ b \in Seq(Nat) /\ Len(b) = m
      /\ c \in Seq(Nat) /\ Len(c) = n + m
  <2>1. s + n \in Nat /\ n + m \in Nat
    OBVIOUS
  <2> QED BY <2>1, BlocksType
<1>2. \A k \in 1..n : a[k] = s + k - 1
  BY DEF BlocksFrom
<1>3. \A k \in 1..m : b[k] = s + n + k - 1
  BY DEF BlocksFrom
<1>4. \A k \in 1..(n + m) : c[k] = s + k - 1
  BY DEF BlocksFrom
<1> HIDE DEF a, b, c
<1>5. /\ a \o b \in Seq(Nat) /\ Len(a \o b) = n + m
      /\ \A k \in 1..(n + m) : (a \o b)[k] = IF k <= n THEN a[k] ELSE b[k - n]
  BY <1>1, ConcatProperties
<1>6. \A k \in 1..(n + m) : (a \o b)[k] = c[k]
  <2> TAKE k \in 1..(n + m)
  <2>1. CASE k <= n
    BY <2>1, <1>2, <1>4, <1>5
  <2>2. CASE ~(k <= n)
    <3>1. k - n \in 1..m
      BY <2>2
    <3> QED BY <2>2, <3>1, <1>3, <1>4, <1>5
  <2> QED BY <2>1, <2>2
<1>7. c = a \o b
  BY <1>1, <1>5, <1>6, SeqEqual
<1> QED BY <1>7 DEF a, b, c

(* The blocks of each cell.                                                 *)
LEMMA CellBlocksType ==
  ASSUME IInv, NEW k \in 1..Len(request.cells)
  PROVE  /\ BlocksOf(request.cells)[k]
              = BlocksFrom(request.cells[k].start,
                           request.cells[k].end - request.cells[k].start)
         /\ BlocksOf(request.cells)[k] \in Seq(Nat)
<1> DEFINE s == request.cells[k].start
<1> DEFINE n == request.cells[k].end - request.cells[k].start
<1>1. s \in Nat /\ n \in Int
  <2>1. request.cells[k].start \in Nat /\ request.cells[k].end \in Int
    BY RequestIsTyped
  <2> QED BY <2>1
<1>2. BlocksOf(request.cells)[k] = BlocksFrom(s, n)
  BY DEF BlocksOf, CellBlocks, BlocksFrom
<1> HIDE DEF s, n
<1>3. CASE n <= 0
  BY <1>1, <1>2, <1>3, NoBlocks, EmptySeq DEF s, n
<1>4. CASE ~(n <= 0)
  <2>1. n \in Nat
    BY <1>1, <1>4
  <2> QED BY <1>1, <1>2, <2>1, BlocksType DEF s, n
<1> QED BY <1>1, <1>3, <1>4

(* The blocks of the first cells, and of one cell more.                     *)
LEMMA FirstCells ==
  ASSUME IInv, NEW n \in 0..Len(request.cells)
  PROVE  /\ Joined(BlocksOf(request.cells), n) \in Seq(Nat)
         /\ n > 0 => Joined(BlocksOf(request.cells), n)
                       = Joined(BlocksOf(request.cells), n - 1) \o BlocksOf(request.cells)[n]
         /\ \E r \in Seq(Nat) :
              Wanted(request.cells) = Joined(BlocksOf(request.cells), n) \o r
<1> DEFINE B == BlocksOf(request.cells)
<1> DEFINE last == Len(request.cells)
<1>1. last \in Nat /\ \A k \in 1..last : B[k] \in Seq(Nat)
  BY RequestIsTyped, CellBlocksType
<1>2. Wanted(request.cells) = Joined(B, last)
  <2>1. [k \in 1..last |-> B[k]] = [k \in 1..last |-> CellBlocks(request.cells[k])]
    BY DEF BlocksOf
  <2> QED BY <2>1 DEF Wanted, Joined
<1> HIDE DEF B
<1>3. Joined(B, n) \in Seq(Nat)
  <2>1. n \in Nat /\ \A k \in 1..n : B[k] \in Seq(Nat)
    BY <1>1
  <2> QED BY <2>1, JoinedType
<1>4. ASSUME n > 0 PROVE Joined(B, n) = Joined(B, n - 1) \o B[n]
  <2> DEFINE m == n - 1
  <2>1. m \in Nat /\ m + 1 = n /\ \A k \in 1..(m + 1) : B[k] \in Seq(Nat)
    BY <1>1, <1>4
  <2> HIDE DEF m
  <2>2. Joined(B, m + 1) = Joined(B, m) \o B[m + 1]
    BY <2>1, JoinedMore
  <2> QED BY <2>1, <2>2 DEF m
<1>5. \E r \in Seq(Nat) : Joined(B, last) = Joined(B, n) \o r
  <2>1. n \in 0..last
    OBVIOUS
  <2> HIDE DEF last
  <2> QED BY <1>1, <2>1, JoinedPrefix
<1> HIDE DEF last
<1> QED BY <1>2, <1>3, <1>4, <1>5 DEF B

(* What has been dealt with is a prefix of what is wanted; inside a cell,   *)
(* what is left of the cell is still to come.                               *)
LEMMA TakenIsWanted ==
  ASSUME IInv, Busy \/ Done
  PROVE  /\ Taken \in Seq(Nat)
         /\ \E r \in Seq(Nat) : Wanted(request.cells) = Taken \o r
         /\ Len(Taken) \in Nat
         /\ InCell /\ left > 0 => Len(Taken) + left <= Len(Wanted(request.cells))
<1> DEFINE B == BlocksOf(request.cells)
<1> DEFINE W == Wanted(request.cells)
<1>0. i \in 0..Len(request.cells) /\ left \in Int /\ soffset \in Nat
  BY DEF IInv, TypeOK
<1>1. CASE ~InCell
  <2>1. Taken = Joined(B, i)
    BY <1>1 DEF Taken
  <2> QED BY <1>0, <1>1, <2>1, FirstCells, LenProperties
<1>2. CASE InCell
  <2> DEFINE c == request.cells[i]
  <2> DEFINE n == soffset - c.start
  <2>1. i >= 1 /\ soffset >= c.start /\ left = c.end - soffset /\ (left >= 0 \/ soffset = c.start)
    BY <1>2 DEF IInv, CursorInCell
  <2>2. i \in 1..Len(request.cells) /\ i - 1 \in 0..Len(request.cells) /\ i > 0
    BY <1>0, <2>1
  <2> DEFINE a == Joined(B, i - 1)
  <2> DEFINE b == BlocksFrom(c.start, n)
  <2>3. c.start \in Nat /\ c.end \in Int
    BY <2>2, RequestIsTyped
  <2>4. Taken = a \o b
    BY <1>2 DEF Taken
  <2>5. a \in Seq(Nat) /\ \E r \in Seq(Nat) : W = Joined(B, i) \o r
    BY <1>0, <2>2, FirstCells
  <2>6. Joined(B, i) = a \o B[i]
    BY <1>0, <2>2, FirstCells
  <2>7. B[i] = BlocksFrom(c.start, c.end - c.start)
    BY <2>2, CellBlocksType
  <2> HIDE DEF B, c
  <2>0. n \in Nat /\ c.start + n = soffset /\ c.end - c.start = n + left
    <3>1. soffset >= c.start /\ left = c.end - soffset /\ soffset \in Nat
      BY <2>1, <1>0
    <3> QED BY <2>3, <3>1
  <2>8. b \in Seq(Nat) /\ Len(b) = n
    BY <2>0, <2>3, BlocksType
  <2>9. \E r \in Seq(Nat) : B[i] = b \o r /\ (left > 0 => Len(r) = left)
    <3>1. CASE left > 0
      <4> DEFINE r == BlocksFrom(soffset, left)
      <4>1. left \in Nat
        BY <3>1, <1>0
      <4>2. BlocksFrom(c.start, n + left) = b \o BlocksFrom(c.start + n, left)
        <5> HIDE DEF n
        <5> QED BY <4>1, <2>0, <2>3, BlocksGrow
      <4>3. r \in Seq(Nat) /\ Len(r) = left
        BY <4>1, <1>0, BlocksType
      <4>4. B[i] = b \o r
        BY <4>2, <2>7, <2>0
      <4> HIDE DEF r, b
      <4> QED BY <4>3, <4>4
    <3>2. CASE ~(left > 0)
      <4>1. BlocksFrom(c.start, c.end - c.start) = b
        <5>1. CASE left = 0
          BY <5>1, <2>0
        <5>2. CASE left < 0
          <6>1. n = 0 /\ c.end - c.start <= 0 /\ c.end - c.start \in Int
            BY <5>2, <1>0, <2>0, <2>1, <2>3
          <6> QED BY <6>1, NoBlocks
        <5> QED BY <5>1, <5>2, <3>2, <1>0
      <4> HIDE DEF b
      <4>2. B[i] = b \o <<>>
        BY <4>1, <2>7, <2>8, ConcatEmptySeq
      <4>3. <<>> \in Seq(Nat)
        BY EmptySeq
      <4> QED BY <4>2, <4>3, <3>2
    <3> QED BY <3>1, <3>2
  <2>10. PICK r \in Seq(Nat) : B[i] = b \o r /\ (left > 0 => Len(r) = left)
    BY <2>9
  <2>11. PICK q \in Seq(Nat) : W = Joined(B, i) \o q
    BY <2>5
  <2> HIDE DEF W, a, b, n
  <2>12. a \o b \in Seq(Nat) /\ r \o q \in Seq(Nat)
    BY <2>5, <2>8, <2>10, <2>11, ConcatProperties
  <2>13. W = (a \o (b \o r)) \o q
    BY <2>6, <2>10, <2>11
  <2>14. (a \o b) \o r = a \o (b \o r)
    <3>1. a \in Seq(Nat) /\ b \in Seq(Nat) /\ r \in Seq(Nat)
      BY <2>5, <2>8
    <3> QED BY <3>1, Associative, ZenonT(30)
  <2>15. ((a \o b) \o r) \o q = (a \o b) \o (r \o q)
    <3> DEFINE ab == a \o b
    <3>1. ab \in Seq(Nat)
      BY <2>12
    <3> HIDE DEF ab
    <3>2. (ab \o r) \o q = ab \o (r \o q)
      BY <3>1, Associative, ZenonT(30)
    <3> QED BY <3>2 DEF ab
  <2>16. W = Taken \o (r \o q)
    BY <2>4, <2>13, <2>14, <2>15
  <2>17. Len(r \o q) = Len(r) + Len(q) /\ Len(r) \in Nat /\ Len(q) \in Nat
    BY <2>10, <2>11, ConcatProperties, LenProperties
  <2>18. Taken \in Seq(Nat) /\ Len(Taken) \in Nat
    BY <2>4, <2>12, LenProperties
  <2>19. Len(W) = Len(Taken) + Len(r \o q)
    BY <2>12, <2>16, <2>18, ConcatProperties
  <2>20. left > 0 => Len(Taken) + left <= Len(W)
    BY <1>0, <2>10, <2>17, <2>18, <2>19
  <2> QED BY <2>12, <2>16, <2>18, <2>20 DEF W
<1> QED BY <1>1, <1>2

-----------------------------------------------------------------------------
(* The steps.                                                               *)

(* There is a part to go on with when one is full: all the blocks of the    *)
(* cells fit in the parts, and some are still to come.                      *)
LEMMA PartsSuffice == ASSUME IInv, pc = "rotate" PROVE vob + 1 \in 1..PARTS
<1>1. /\ Busy /\ InCell /\ left > 0 /\ left \in Int /\ size = MAX_VOB_SIZE /\ vob \in Nat
      /\ Len(Taken) = (vob - 1) * MAX_VOB_SIZE + size
  BY DEF IInv, TypeOK, Busy, InCell, ReadsFit, Accounting
<1>2. /\ Len(Taken) + left <= Len(Wanted(request.cells)) /\ Len(Taken) \in Nat
      /\ \E r \in Seq(Nat) : Wanted(request.cells) = Taken \o r
      /\ Taken \in Seq(Nat)
  BY <1>1, TakenIsWanted
<1>3. /\ Len(Wanted(request.cells)) <= PARTS * MAX_VOB_SIZE
      /\ MAX_VOB_SIZE \in Nat \ {0} /\ PARTS \in Nat \ {0}
  BY RequestIsTyped
<1>4. Len(Wanted(request.cells)) \in Nat
  <2>1. PICK r \in Seq(Nat) : Wanted(request.cells) = Taken \o r
    BY <1>2
  <2>2. Taken \o r \in Seq(Nat)
    BY <1>2, ConcatProperties
  <2> QED BY <2>1, <2>2, LenProperties
<1>5. \A v, m \in Int : (v - 1) * m + m = v * m
  OBVIOUS
<1>6. vob * MAX_VOB_SIZE < PARTS * MAX_VOB_SIZE
  <2>1. (vob - 1) * MAX_VOB_SIZE + MAX_VOB_SIZE = vob * MAX_VOB_SIZE
    BY <1>1, <1>3, <1>5
  <2>2. vob * MAX_VOB_SIZE \in Int /\ PARTS * MAX_VOB_SIZE \in Int
    BY <1>1, <1>3
  <2> DEFINE t == Len(Taken)
  <2> DEFINE w == Len(Wanted(request.cells))
  <2>3. t \in Nat /\ w \in Nat /\ t < w /\ t = vob * MAX_VOB_SIZE /\ w <= PARTS * MAX_VOB_SIZE
    <3>1. t + left <= w /\ t \in Nat /\ w \in Nat /\ left > 0 /\ left \in Int
      BY <1>1, <1>2, <1>4
    <3>2. t < w
      <4> HIDE DEF t, w
      <4> QED BY <3>1
    <3> QED BY <1>1, <1>3, <2>1, <3>1, <3>2
  <2> HIDE DEF t, w
  <2> QED BY <2>2, <2>3
<1>7. \A v, p \in Nat : \A m \in Nat \ {0} : v * m < p * m => v < p
  OBVIOUS
<1> QED BY <1>1, <1>3, <1>6, <1>7

(* The first run starts as the invariant says.                              *)
LEMMA InitHolds == Init => IInv
<1> SUFFICES ASSUME Init PROVE IInv
  OBVIOUS
<1>1. IsRequest(request) /\ request.cells \in Seq(Cell)
  BY WriteAssumption DEF Init, IsRequest
<1>2. Len(request.cells) \in Nat
  BY <1>1, LenProperties
<1>3. TypeOK
  BY <1>1, <1>2, WriteAssumption DEF Init, TypeOK, Part
<1>4. ~Busy /\ ~InCell /\ ~Done
  BY DEF Init, Busy, InCell, Done
<1>5. Data
  BY DEF Init, Data
<1>6. CursorInCell /\ ReadsFit /\ AtTheStart /\ Accounting /\ PartIsThere /\ NothingLeftOver
      /\ OnDisk /\ Releases
  BY <1>4 DEF Init, CursorInCell, ReadsFit, AtTheStart, Accounting, PartIsThere,
              NothingLeftOver, OnDisk, Releases
<1> QED BY <1>3, <1>5, <1>6 DEF IInv

\* The run ends without having copied everything.
Leaves ==
  /\ UNCHANGED <<request, runs, i, left, soffset, have_read>>
  /\ pc' \in {"returned", "killed"} /\ result' \in {1, -1}
  /\ pc' = "returned" => "targetname" \notin held'
  /\ held' \subseteq {"targetname", "buffer", "dvd_file"} /\ streams' = 0
  /\ size' \in 0..MAX_VOB_SIZE /\ vob' \in 1..PARTS
  /\ DOMAIN files' = Part
  /\ \A v \in Part : files'[v] = ABSENT \/ files'[v] \in Seq(Nat)

(* Whatever a run leaves on disk, the invariant asks nothing more of it.    *)
LEMMA LeavesHolds == ASSUME IInv, Leaves PROVE IInv'
<1>1. TypeOK'
  BY DEF IInv, TypeOK, Leaves
<1>2. Data'
  BY DEF IInv, Data, Leaves
<1>3. /\ ~Busy' /\ ~InCell' /\ ~Done' /\ pc' # "create" /\ pc' # "unlink"
      /\ pc' # "opendvd" /\ pc' # "write" /\ pc' # "rotate"
  BY DEF Leaves, Busy, InCell, Done
<1>4. CursorInCell' /\ ReadsFit' /\ AtTheStart' /\ Accounting' /\ PartIsThere'
      /\ NothingLeftOver' /\ OnDisk'
  BY <1>3 DEF CursorInCell, ReadsFit, AtTheStart, Accounting, PartIsThere,
              NothingLeftOver, OnDisk
<1>5. Releases'
  BY <1>3 DEF Leaves, Releases
<1> QED BY <1>1, <1>2, <1>4, <1>5 DEF IInv

(* The part being written exists and is a sequence of blocks; what is       *)
(* appended to it is one too.                                               *)
LEMMA AppendType ==
  ASSUME IInv, pc = "write", NEW n \in 0..have_read, Append_(n)
  PROVE  /\ vob \in Part /\ files[vob] \in Seq(Nat)
         /\ BlocksFrom(soffset, n) \in Seq(Nat) /\ Len(BlocksFrom(soffset, n)) = n
         /\ files'[vob] = files[vob] \o BlocksFrom(soffset, n)
         /\ files'[vob] \in Seq(Nat) /\ Len(files'[vob]) = Len(files[vob]) + n
         /\ \A v \in Part \ {vob} : files'[v] = files[v]
         /\ DOMAIN files' = Part
<1>1. vob \in Part /\ DOMAIN files = Part /\ files[vob] # ABSENT
  BY DEF IInv, TypeOK, Data, PartIsThere, Busy, Part
<1>2. files[vob] \in Seq(Nat) /\ n \in Nat /\ soffset \in Nat
  BY <1>1 DEF IInv, TypeOK
<1>3. files' = [files EXCEPT ![vob] = files[vob] \o BlocksFrom(soffset, n)]
  BY DEF Append_, BlocksFrom
<1>4. BlocksFrom(soffset, n) \in Seq(Nat) /\ Len(BlocksFrom(soffset, n)) = n
  BY <1>2, BlocksType
<1>5. /\ files[vob] \o BlocksFrom(soffset, n) \in Seq(Nat)
      /\ Len(files[vob] \o BlocksFrom(soffset, n)) = Len(files[vob]) + n
  <2> DEFINE f == files[vob]
  <2> DEFINE b == BlocksFrom(soffset, n)
  <2>1. f \in Seq(Nat) /\ b \in Seq(Nat) /\ Len(b) = n
    BY <1>2, <1>4
  <2> HIDE DEF f, b
  <2>2. f \o b \in Seq(Nat) /\ Len(f \o b) = Len(f) + n
    BY <2>1, ConcatProperties
  <2> QED BY <2>2 DEF f, b
<1> QED BY <1>1, <1>2, <1>3, <1>4, <1>5

(* Every way a run can end early.                                           *)
LEMMA RunsEndEarly ==
  ASSUME IInv,
         NoName \/ Refuse \/ CreateFails \/ OpenDvdFails \/ ReadFails \/ WriteFails
           \/ RotateFails \/ Killed
  PROVE  IInv'
<1>1. /\ size \in 0..MAX_VOB_SIZE /\ vob \in 1..PARTS /\ DOMAIN files = Part
      /\ \A v \in Part : files[v] = ABSENT \/ files[v] \in Seq(Nat)
      /\ held \subseteq {"targetname", "buffer", "dvd_file"}
      /\ result \in {-1, 0, 1} /\ have_read \in Nat
  BY RequestIsTyped DEF IInv, TypeOK, Data
<1>2. CASE NoName \/ Refuse \/ CreateFails \/ OpenDvdFails \/ ReadFails
  <2>1. Leaves
    BY <1>1, <1>2 DEF NoName, Refuse, CreateFails, OpenDvdFails, ReadFails, Fail, Return,
                      Leaves, loop
  <2> QED BY <2>1, LeavesHolds
<1>3. CASE WriteFails
  <2>1. PICK n \in 0..(have_read - 1) : Append_(n)
    BY <1>3 DEF WriteFails
  <2>2. n \in 0..have_read /\ pc = "write"
    BY <1>1, <1>3 DEF WriteFails
  <2>3. DOMAIN files' = Part /\ \A v \in Part : files'[v] = ABSENT \/ files'[v] \in Seq(Nat)
    BY <1>1, <2>1, <2>2, AppendType
  <2>4. Leaves
    BY <1>1, <1>3, <2>3 DEF WriteFails, Fail, Return, Leaves, loop
  <2> QED BY <2>4, LeavesHolds
<1>4. CASE RotateFails
  <2>1. vob' \in 1..PARTS /\ size' \in 0..MAX_VOB_SIZE
    BY <1>4, PartsSuffice, RequestIsTyped DEF RotateFails
  <2>2. Leaves
    BY <1>1, <1>4, <2>1 DEF RotateFails, Fail, Return, Leaves, loop
  <2> QED BY <2>2, LeavesHolds
<1>5. CASE Killed
  <2>1. result # 0
    BY <1>5 DEF IInv, Releases, Killed, Ended
  <2>2. Leaves
    BY <1>1, <1>5, <2>1 DEF Killed, Leaves, loop
  <2> QED BY <2>2, LeavesHolds
<1> QED BY <1>2, <1>3, <1>4, <1>5

(* A step that writes nothing and moves no more than its place in the cells. *)
LEMMA NothingIsWritten ==
  ASSUME IInv, UNCHANGED <<request, runs, size, vob, files>>, Taken' = Taken,
         Busy, Busy' \/ Done'
  PROVE  Data' /\ Accounting' /\ PartIsThere' /\ NothingLeftOver' /\ OnDisk'
<1>1. pc' # "create"
  BY DEF Busy, Done
<1>2. Data' /\ NothingLeftOver'
  BY <1>1 DEF IInv, Data, NothingLeftOver
<1>3. Accounting' /\ PartIsThere'
  BY DEF IInv, Accounting, PartIsThere
<1>4. Existing' = Existing
  BY DEF Existing
<1>5. OnDisk'
  BY <1>4 DEF IInv, OnDisk
<1> QED BY <1>2, <1>3, <1>5

(* Opening the DVD file; the whole of no cell has been copied.              *)
LEMMA OpenDvdHolds == ASSUME IInv, OpenDvd PROVE IInv'
<1>1. /\ pc = "opendvd" /\ pc' = "cell" /\ held' = held \cup {"dvd_file"}
      /\ UNCHANGED <<request, runs, i, left, soffset, size, vob, have_read, files,
                     streams, result>>
  BY DEF OpenDvd, loop
<1>2. Busy /\ Busy' /\ ~InCell /\ ~InCell' /\ ~Done' /\ Taken' = Taken
  BY <1>1 DEF Busy, InCell, Done, Taken
<1>3. TypeOK'
  BY <1>1 DEF IInv, TypeOK
<1>4. CursorInCell' /\ ReadsFit' /\ AtTheStart' /\ Releases'
  BY <1>1, <1>2 DEF IInv, CursorInCell, ReadsFit, AtTheStart, Releases
<1> QED BY <1>1, <1>2, <1>3, <1>4, NothingIsWritten DEF IInv

(* The next cell is taken up at its first block.                            *)
LEMMA NextCellHolds == ASSUME IInv, NextCell PROVE IInv'
<1> DEFINE c == request.cells[i + 1]
<1>1. /\ pc = "cell" /\ pc' = "read" /\ i < Len(request.cells) /\ i' = i + 1
      /\ left' = c.end - c.start /\ soffset' = c.start
      /\ UNCHANGED <<request, runs, size, vob, have_read, files, streams, held, result>>
  BY DEF NextCell
<1>2. i \in 0..Len(request.cells) /\ Len(request.cells) \in Nat
  BY RequestIsTyped DEF IInv, TypeOK
<1>3. i + 1 \in 1..Len(request.cells) /\ i + 1 \in 0..Len(request.cells)
  BY <1>1, <1>2
<1>4. c.start \in Nat /\ c.end \in Int
  BY <1>3, RequestIsTyped
<1>5. Busy /\ Busy' /\ ~InCell /\ InCell' /\ ~Done'
  BY <1>1 DEF Busy, InCell, Done
<1>6. Taken' = Taken
  <2> DEFINE a == Joined(BlocksOf(request.cells), i)
  <2>1. Taken = a
    BY <1>5 DEF Taken
  <2>2. Taken' = Joined(BlocksOf(request.cells), (i + 1) - 1)
                   \o BlocksFrom(c.start, c.start - c.start)
    BY <1>1, <1>5 DEF Taken
  <2>3. c.start - c.start = 0 /\ (i + 1) - 1 = i
    BY <1>2, <1>4
  <2>4. BlocksFrom(c.start, 0) = <<>>
    BY NoBlocks
  <2>5. Taken' = a \o <<>>
    BY <2>2, <2>3, <2>4
  <2>6. a \in Seq(Nat)
    BY <1>2, FirstCells
  <2> QED BY <2>1, <2>5, <2>6, ConcatEmptySeq
<1>7. TypeOK'
  BY <1>1, <1>3, <1>4 DEF IInv, TypeOK
<1>8. CursorInCell'
  <2>1. i + 1 >= 1 /\ c.start >= c.start
    BY <1>2, <1>4
  <2> QED BY <1>1, <2>1 DEF CursorInCell
<1>9. ReadsFit' /\ AtTheStart' /\ Releases'
  BY <1>1, <1>5 DEF IInv, ReadsFit, AtTheStart, Releases
<1> HIDE DEF c
<1> QED BY <1>1, <1>5, <1>6, <1>7, <1>8, <1>9, NothingIsWritten DEF IInv

(* The end of a cell: nothing of it is left.                                *)
LEMMA EndOfCellHolds == ASSUME IInv, EndOfCell PROVE IInv'
<1> DEFINE c == request.cells[i]
<1> DEFINE a == Joined(BlocksOf(request.cells), i - 1)
<1>1. /\ pc = "read" /\ pc' = "cell" /\ left <= 0
      /\ UNCHANGED <<request, runs, i, left, soffset, size, vob, have_read, files,
                     streams, held, result>>
  BY DEF EndOfCell, loop
<1>2. Busy /\ Busy' /\ InCell /\ ~InCell' /\ ~Done'
  BY <1>1 DEF Busy, InCell, Done
<1>3. /\ i >= 1 /\ soffset >= c.start /\ left = c.end - soffset
      /\ left >= 0 \/ soffset = c.start
      /\ i \in 0..Len(request.cells) /\ soffset \in Nat /\ left \in Int
  BY <1>2 DEF IInv, TypeOK, CursorInCell
<1>4. i \in 1..Len(request.cells) /\ i > 0
  BY <1>3
<1>5. c.start \in Nat /\ c.end \in Int
  BY <1>4, RequestIsTyped
<1>6. Taken' = Taken
  <2>1. Taken = a \o BlocksFrom(c.start, soffset - c.start)
    BY <1>2 DEF Taken
  <2>2. Taken' = Joined(BlocksOf(request.cells), i)
    BY <1>1, <1>2 DEF Taken
  <2>3. Joined(BlocksOf(request.cells), i) = a \o BlocksOf(request.cells)[i]
    BY <1>3, <1>4, FirstCells
  <2>4. BlocksOf(request.cells)[i] = BlocksFrom(c.start, c.end - c.start)
    BY <1>4, CellBlocksType
  <2> HIDE DEF c
  <2>5. BlocksFrom(c.start, c.end - c.start) = BlocksFrom(c.start, soffset - c.start)
    <3>1. CASE left = 0
      <4>1. c.end = soffset
        BY <3>1, <1>3, <1>5
      <4> QED BY <4>1
    <3>2. CASE left < 0
      <4>1. /\ soffset - c.start = 0 /\ c.end - c.start <= 0
            /\ c.end - c.start \in Int
        BY <3>2, <1>3, <1>5
      <4> QED BY <4>1, NoBlocks
    <3> QED BY <3>1, <3>2, <1>1, <1>3
  <2> QED BY <2>1, <2>2, <2>3, <2>4, <2>5
<1> HIDE DEF a, c
<1>7. TypeOK'
  BY <1>1 DEF IInv, TypeOK
<1>8. CursorInCell' /\ ReadsFit' /\ AtTheStart' /\ Releases'
  BY <1>1, <1>2 DEF IInv, CursorInCell, ReadsFit, AtTheStart, Releases
<1> QED BY <1>1, <1>2, <1>6, <1>7, <1>8, NothingIsWritten DEF IInv

(* What the next read may ask for.                                          *)
LEMMA ToReadFits ==
  ASSUME IInv, pc = "read", left > 0
  PROVE  /\ to_read \in Nat /\ to_read <= left
         /\ to_read <= MAX_VOB_SIZE - size /\ to_read <= BUFFER_SIZE
<1> DEFINE S == {left, MAX_VOB_SIZE - size, BUFFER_SIZE}
<1>1. left \in Nat /\ MAX_VOB_SIZE - size \in Nat /\ BUFFER_SIZE \in Nat
  BY RequestIsTyped DEF IInv, TypeOK
<1>2. \E n \in S : \A m \in S : n <= m
  BY <1>1
<1>3. to_read \in S /\ \A m \in S : to_read <= m
  BY <1>2 DEF to_read, Smallest
<1> QED BY <1>1, <1>3

(* A read brings at most what is left of the cell and fits in the part.     *)
LEMMA ReadHolds == ASSUME IInv, Read PROVE IInv'
<1>1. PICK n \in 0..to_read : Reads(n)
  BY DEF Read
<1>2. /\ pc = "read" /\ pc' = "write" /\ left > 0 /\ have_read' = n
      /\ UNCHANGED <<request, runs, i, left, soffset, size, vob, files, streams, held,
                     result>>
  BY <1>1 DEF Reads
<1>3. /\ n \in Nat /\ n <= left /\ n <= MAX_VOB_SIZE - size /\ n <= BUFFER_SIZE
  <2>1. left \in Int /\ size \in Int /\ MAX_VOB_SIZE \in Int /\ BUFFER_SIZE \in Nat
    BY RequestIsTyped DEF IInv, TypeOK
  <2>2. /\ to_read \in Nat /\ to_read <= left
        /\ to_read <= MAX_VOB_SIZE - size /\ to_read <= BUFFER_SIZE
    BY <1>2, ToReadFits
  <2> HIDE DEF to_read
  <2> QED BY <1>1, <2>1, <2>2
<1>4. Busy /\ Busy' /\ InCell /\ InCell' /\ ~Done'
  BY <1>2 DEF Busy, InCell, Done
<1>5. Taken' = Taken
  BY <1>2, <1>4 DEF Taken
<1>6. TypeOK'
  <2>1. n \in 0..BUFFER_SIZE
    BY <1>3, RequestIsTyped
  <2> QED BY <1>2, <2>1 DEF IInv, TypeOK
<1>7. CursorInCell' /\ ReadsFit' /\ AtTheStart' /\ Releases'
  BY <1>2, <1>3, <1>4 DEF IInv, CursorInCell, ReadsFit, AtTheStart, Releases, Busy
<1> QED BY <1>2, <1>4, <1>5, <1>6, <1>7, NothingIsWritten DEF IInv

(* After the last cell everything has been dealt with.                      *)
LEMMA FinishHolds == ASSUME IInv, Finish PROVE IInv'
<1>1. /\ pc = "cell" /\ i >= Len(request.cells) /\ pc' = "returned" /\ result' = 0
      /\ held' = {} /\ streams' = streams - 1
      /\ UNCHANGED <<request, runs, i, left, soffset, size, vob, have_read, files>>
  BY DEF Finish, Return, loop
<1>2. Busy /\ ~Busy' /\ ~InCell /\ ~InCell' /\ Done' /\ Taken' = Taken
  BY <1>1 DEF Busy, InCell, Done, Taken
<1>3. streams = 1 /\ i = Len(request.cells)
  BY <1>1, <1>2, RequestIsTyped DEF IInv, TypeOK, Releases
<1>4. TypeOK'
  BY <1>1, <1>3 DEF IInv, TypeOK
<1>5. CursorInCell' /\ ReadsFit' /\ AtTheStart' /\ Releases'
  BY <1>1, <1>2, <1>3 DEF CursorInCell, ReadsFit, AtTheStart, Releases
<1> QED BY <1>1, <1>2, <1>4, <1>5, NothingIsWritten DEF IInv

(* The parts of earlier runs are gone, if they can be removed.              *)
LEMMA UnlinkHolds == ASSUME IInv, Unlink PROVE IInv'
<1>1. /\ pc = "unlink" /\ pc' = "create" /\ held' = {"targetname"}
      /\ files' = [v \in Part |-> IF Removes THEN ABSENT ELSE files[v]]
      /\ UNCHANGED <<request, runs, i, left, soffset, size, vob, have_read, streams, result>>
  BY DEF Unlink, loop
<1>2. ~Busy /\ ~Busy' /\ ~InCell' /\ ~Done'
  BY <1>1 DEF Busy, InCell, Done
<1>3. TypeOK' /\ Data'
  <2>1. \A v \in Part : files'[v] = ABSENT \/ files'[v] \in Seq(Nat)
    BY <1>1 DEF IInv, TypeOK
  <2> QED BY <1>1, <2>1 DEF IInv, TypeOK, Data
<1>4. CursorInCell' /\ ReadsFit' /\ AtTheStart' /\ Accounting' /\ PartIsThere' /\ OnDisk'
      /\ Releases'
  BY <1>1, <1>2 DEF IInv, CursorInCell, ReadsFit, AtTheStart, Accounting, PartIsThere,
                    OnDisk, Releases
<1>5. NothingLeftOver'
  <2>1. Removes' <=> Removes
    BY <1>1 DEF Removes
  <2> QED BY <1>1, <2>1 DEF NothingLeftOver
<1> QED BY <1>3, <1>4, <1>5 DEF IInv

(* The first part is opened; if this run has removed the others it is the   *)
(* only one, and empty.                                                     *)
LEMMA CreateHolds == ASSUME IInv, Create PROVE IInv'
<1>1. /\ pc = "create" /\ pc' = "opendvd" /\ streams' = streams + 1
      /\ held' = held \cup {"buffer"} /\ Open(vob)
      /\ UNCHANGED <<request, runs, i, left, soffset, size, vob, have_read, result>>
  BY DEF Create, loop
<1>2. ~Busy /\ Busy' /\ ~InCell' /\ ~Done'
  BY <1>1 DEF Busy, InCell, Done
<1>3. i = 0 /\ size = 0 /\ vob = 1 /\ streams = 0 /\ vob \in Part /\ 1 \in Part
  BY <1>1, <1>2, RequestIsTyped DEF IInv, TypeOK, AtTheStart, Releases, Part
<1>4. files' = [files EXCEPT ![1] = IF files[1] = ABSENT THEN <<>> ELSE files[1]]
  BY <1>1, <1>3 DEF Open
<1>5. /\ DOMAIN files = Part
      /\ \A v \in Part : files[v] = ABSENT \/ files[v] \in Seq(Nat)
      /\ <<>> \in Seq(Nat) /\ ABSENT \notin Seq(Nat)
  BY RequestIsTyped, EmptySeq DEF IInv, Data, TypeOK
<1>6. /\ DOMAIN files' = Part /\ files'[1] \in Seq(Nat)
      /\ files[1] = ABSENT => files'[1] = <<>>
      /\ \A v \in Part \ {1} : files'[v] = files[v]
  BY <1>3, <1>4, <1>5
<1>7. TypeOK' /\ Data'
  <2>1. \A v \in Part : files'[v] = ABSENT \/ files'[v] \in Seq(Nat)
    BY <1>5, <1>6
  <2>2. streams + 1 \in Nat
    BY <1>3
  <2> QED BY <1>1, <1>6, <2>1, <2>2 DEF IInv, TypeOK, Data
<1>8. Taken' = <<>>
  BY <1>1, <1>2, <1>3, JoinedNone DEF Taken
<1>9. Accounting'
  <2>1. MAX_VOB_SIZE \in Nat
    BY RequestIsTyped
  <2>2. Len(<<>>) = 0 /\ (1 - 1) * MAX_VOB_SIZE + 0 = 0
    BY <2>1
  <2>3. vob' = 1 /\ size' = 0
    BY <1>1, <1>3
  <2> QED BY <1>8, <2>2, <2>3 DEF Accounting
<1>10. PartIsThere'
  BY <1>1, <1>3, <1>5, <1>6 DEF PartIsThere
<1>11. OnDisk'
  <2> SUFFICES ASSUME request.writable
               PROVE  /\ Existing' = 1..1 /\ Joined(files', 1) = <<>>
                      /\ \A v \in 1..0 : Len(files'[v]) = MAX_VOB_SIZE
                      /\ Len(files'[1]) = 0
    BY <1>1, <1>3, <1>8 DEF OnDisk
  <2>1. \A v \in Part : files[v] = ABSENT
    BY <1>1 DEF IInv, NothingLeftOver, Removes, Create
  <2>2. files'[1] = <<>> /\ files'[1] # ABSENT
    BY <1>3, <1>5, <1>6, <2>1
  <2>3. Existing' = {v \in Part : files'[v] # ABSENT}
    BY DEF Existing
  <2>4. \A v \in Part : files'[v] # ABSENT <=> v = 1
    BY <1>6, <2>1, <2>2
  <2>5. Existing' = {1} /\ 1..1 = {1}
    <3>1. {v \in Part : files'[v] # ABSENT} = {1}
      BY <1>3, <2>4
    <3>2. 1..1 = {1}
      OBVIOUS
    <3> QED BY <2>3, <3>1, <3>2
  <2>6. Joined(files', 1) = <<>>
    <3>1. Joined(files', 0 + 1) = Joined(files', 0) \o files'[0 + 1]
      <4>1. \A k \in 1..(0 + 1) : files'[k] \in Seq(Nat)
        BY <1>6
      <4> QED BY <4>1, JoinedMore
    <3>2. Joined(files', 0) = <<>>
      BY JoinedNone
    <3>3. 0 + 1 = 1
      OBVIOUS
    <3>4. Joined(files', 1) = <<>> \o <<>>
      BY <2>2, <3>1, <3>2, <3>3
    <3> QED BY <3>4, <1>5, ConcatEmptySeq
  <2>7. Len(<<>>) = 0
    OBVIOUS
  <2> QED BY <2>2, <2>5, <2>6, <2>7
<1>12. CursorInCell' /\ ReadsFit' /\ AtTheStart' /\ NothingLeftOver' /\ Releases'
  BY <1>1, <1>2, <1>3 DEF IInv, CursorInCell, ReadsFit, AtTheStart, NothingLeftOver, Releases
<1> QED BY <1>7, <1>9, <1>10, <1>11, <1>12 DEF IInv

(* The next run starts where the last one ended, with the files it left.    *)
LEMMA RunAgainHolds == ASSUME IInv, RunAgain PROVE IInv'
<1>1. /\ request' \in Requests /\ runs' = runs + 1 /\ runs < MaxRuns
      /\ pc' = "unlink" /\ i' = 0 /\ left' = 0 /\ soffset' = 0 /\ size' = 0 /\ vob' = 1
      /\ have_read' = 0 /\ streams' = 0 /\ held' = {} /\ result' = -1 /\ files' = files
  BY DEF RunAgain
<1>2. IsRequest(request') /\ request'.cells \in Seq(Cell)
  BY <1>1, WriteAssumption DEF IsRequest
<1>3. Len(request'.cells) \in Nat
  BY <1>2, LenProperties
<1>4. TypeOK'
  <2>1. runs' \in 1..MaxRuns
    BY <1>1, WriteAssumption DEF IInv, TypeOK
  <2>2. IsRequest(request)'
    BY <1>2 DEF IsRequest
  <2> QED BY <1>1, <1>3, <2>1, <2>2, WriteAssumption DEF IInv, TypeOK
<1>5. ~Busy' /\ ~InCell' /\ ~Done'
  BY <1>1 DEF Busy, InCell, Done
<1>6. Data'
  BY <1>1 DEF IInv, Data
<1>7. CursorInCell' /\ ReadsFit' /\ AtTheStart' /\ Accounting' /\ PartIsThere'
      /\ NothingLeftOver' /\ OnDisk' /\ Releases'
  BY <1>1, <1>5 DEF CursorInCell, ReadsFit, AtTheStart, Accounting, PartIsThere,
                    NothingLeftOver, OnDisk, Releases
<1> QED BY <1>4, <1>6, <1>7 DEF IInv

(* What was read goes to the end of the part, and so to the end of the      *)
(* stream; it is what the cell continues with.                              *)
LEMMA WriteHolds == ASSUME IInv, Write PROVE IInv'
<1> DEFINE c == request.cells[i]
<1> DEFINE new == BlocksFrom(soffset, have_read)
<1> DEFINE full == size + have_read >= MAX_VOB_SIZE /\ left - have_read > 0
<1>1. /\ pc = "write" /\ Append_(have_read)
      /\ soffset' = soffset + have_read /\ left' = left - have_read
      /\ size' = size + have_read
      /\ pc' = IF full THEN "rotate" ELSE "read"
      /\ streams' = IF full THEN streams - 1 ELSE streams
      /\ UNCHANGED <<request, runs, i, vob, have_read, held, result>>
  BY DEF Write, PartIsFull
<1>2. Busy /\ Busy' /\ InCell /\ InCell' /\ ~Done'
  BY <1>1 DEF Busy, InCell, Done
<1>3. /\ left > 0 /\ have_read <= left /\ have_read <= MAX_VOB_SIZE - size
      /\ left \in Int /\ have_read \in Nat /\ soffset \in Nat /\ size \in Nat
      /\ size <= MAX_VOB_SIZE /\ MAX_VOB_SIZE \in Nat /\ vob \in Nat \ {0}
      /\ i \in 0..Len(request.cells)
  BY <1>1, RequestIsTyped DEF IInv, TypeOK, ReadsFit
<1>4. i >= 1 /\ soffset >= c.start /\ left = c.end - soffset
  BY <1>2 DEF IInv, CursorInCell
<1>5. i \in 1..Len(request.cells)
  BY <1>3, <1>4
<1>6. c.start \in Nat /\ c.end \in Int
  BY <1>5, RequestIsTyped
<1>7. /\ vob \in Part /\ files[vob] \in Seq(Nat)
      /\ new \in Seq(Nat) /\ Len(new) = have_read
      /\ files'[vob] = files[vob] \o new
      /\ files'[vob] \in Seq(Nat) /\ Len(files'[vob]) = Len(files[vob]) + have_read
      /\ \A v \in Part \ {vob} : files'[v] = files[v]
      /\ DOMAIN files' = Part
  <2>1. have_read \in 0..have_read
    BY <1>3
  <2> QED BY <1>1, <2>1, AppendType
<1>8. TypeOK' /\ Data'
  <2>1. /\ size + have_read \in 0..MAX_VOB_SIZE /\ left - have_read \in Int
        /\ soffset + have_read \in Nat
    BY <1>3
  <2>2. \A v \in Part : files'[v] = ABSENT \/ files'[v] \in Seq(Nat)
    BY <1>7 DEF IInv, TypeOK
  <2>3. streams' \in Nat
    BY <1>1, <1>2 DEF IInv, Releases
  <2> HIDE DEF full
  <2> QED BY <1>1, <1>7, <2>1, <2>2, <2>3 DEF IInv, TypeOK, Data
<1>9. Taken' = Taken \o new /\ Taken \in Seq(Nat) /\ Len(Taken') = Len(Taken) + have_read
  <2> DEFINE a == Joined(BlocksOf(request.cells), i - 1)
  <2> DEFINE b == BlocksFrom(c.start, soffset - c.start)
  <2>1. Taken = a \o b
    BY <1>2 DEF Taken
  <2>2. Taken' = a \o BlocksFrom(c.start, (soffset + have_read) - c.start)
    BY <1>1, <1>2 DEF Taken
  <2>3. i - 1 \in 0..Len(request.cells)
    BY <1>5
  <2>4. a \in Seq(Nat)
    BY <2>3, FirstCells
  <2> HIDE DEF c
  <2>5. BlocksFrom(c.start, (soffset + have_read) - c.start) = b \o new /\ b \in Seq(Nat)
    <3> DEFINE n == soffset - c.start
    <3>1. /\ n \in Nat /\ c.start + n = soffset
          /\ (soffset + have_read) - c.start = n + have_read
      BY <1>3, <1>4, <1>6
    <3> HIDE DEF n
    <3>2. c.start \in Nat /\ n \in Nat /\ have_read \in Nat
      BY <1>3, <1>6, <3>1
    <3>3. BlocksFrom(c.start, n + have_read)
            = BlocksFrom(c.start, n) \o BlocksFrom(c.start + n, have_read)
      BY <3>2, BlocksGrow
    <3>4. BlocksFrom(c.start, n) \in Seq(Nat)
      BY <3>2, BlocksType
    <3> QED BY <3>1, <3>3, <3>4 DEF n
  <2> HIDE DEF a, b, new
  <2>6. Taken' = a \o (b \o new)
    BY <2>2, <2>5
  <2>7. (a \o b) \o new = a \o (b \o new)
    <3>1. a \in Seq(Nat) /\ b \in Seq(Nat) /\ new \in Seq(Nat)
      BY <1>7, <2>4, <2>5
    <3> QED BY <3>1, Associative, ZenonT(30)
  <2>8. a \o b \in Seq(Nat)
    BY <2>4, <2>5, ConcatLength, Zenon
  <2>9. Len((a \o b) \o new) = Len(a \o b) + have_read
    BY <1>7, <2>8, ConcatLength, Zenon
  <2> QED BY <2>1, <2>6, <2>7, <2>8, <2>9
<1>10. Accounting'
  <2>1. Len(Taken) = (vob - 1) * MAX_VOB_SIZE + size
    BY <1>2 DEF IInv, Accounting
  <2>2. (vob - 1) * MAX_VOB_SIZE \in Int
    BY <1>3
  <2>3. ((vob - 1) * MAX_VOB_SIZE + size) + have_read
          = (vob - 1) * MAX_VOB_SIZE + (size + have_read)
    BY <1>3, <2>2
  <2>4. Len(Taken') = (vob - 1) * MAX_VOB_SIZE + (size + have_read)
    BY <1>9, <2>1, <2>3
  <2>5. size' = size + have_read /\ vob' = vob
    BY <1>1
  <2> QED BY <2>4, <2>5 DEF Accounting
<1>11. CursorInCell' /\ ReadsFit' /\ AtTheStart' /\ Releases'
  <2>1. /\ i' >= 1 /\ soffset' >= c.start /\ left' = c.end - soffset' /\ left' >= 0
        /\ request' = request /\ i' = i
    <3> HIDE DEF c, full
    <3>1. soffset' = soffset + have_read /\ left' = left - have_read /\ request' = request
          /\ i' = i
      BY <1>1
    <3>2. /\ left \in Int /\ have_read \in Nat /\ soffset \in Nat /\ have_read <= left
          /\ c.start \in Nat /\ c.end \in Int
      BY <1>3, <1>6
    <3> QED BY <1>4, <3>1, <3>2
  <2>2. CursorInCell'
    BY <2>1 DEF CursorInCell
  <2>3. full => size + have_read = MAX_VOB_SIZE
    BY <1>3
  <2>4. ReadsFit'
    BY <1>1, <2>3 DEF ReadsFit
  <2>5. AtTheStart' /\ Releases'
    BY <1>1, <1>2 DEF IInv, AtTheStart, Releases
  <2> QED BY <2>2, <2>4, <2>5
<1>12. PartIsThere' /\ NothingLeftOver'
  <2>1. ABSENT \notin Seq(Nat)
    BY RequestIsTyped
  <2> QED BY <1>1, <1>7, <2>1 DEF PartIsThere, NothingLeftOver
<1>13. OnDisk'
  <2> SUFFICES ASSUME request.writable
               PROVE  /\ Existing' = 1..vob
                      /\ Joined(files', vob) = Taken'
                      /\ \A v \in 1..(vob - 1) : Len(files'[v]) = MAX_VOB_SIZE
                      /\ Len(files'[vob]) = size + have_read
    BY <1>1 DEF OnDisk
  <2>1. /\ Existing = 1..vob /\ Joined(files, vob) = Taken
        /\ \A v \in 1..(vob - 1) : Len(files[v]) = MAX_VOB_SIZE
        /\ Len(files[vob]) = size
    BY <1>2 DEF IInv, OnDisk
  <2>2. Existing' = Existing
    <3>1. files[vob] # ABSENT /\ files'[vob] # ABSENT
      BY <1>7, RequestIsTyped
    <3>2. \A v \in Part : files[v] # ABSENT <=> files'[v] # ABSENT
      BY <1>7, <3>1
    <3> QED BY <3>2 DEF Existing
  <2>3. \A v \in 1..(vob - 1) : v \in Part \ {vob}
    BY <1>7, WriteAssumption DEF Part
  <2>4. Joined(files', vob) = Joined(files, vob) \o new
    <3>1. \A v \in 1..vob : v \in Part /\ files[v] \in Seq(Nat)
      <4>1. \A v \in Part : files[v] = ABSENT \/ files[v] \in Seq(Nat)
        BY DEF IInv, TypeOK
      <4> QED BY <2>1, <4>1 DEF Existing
    <3>2. \A v \in 1..(vob - 1) : files'[v] = files[v]
      BY <1>7, <2>3
    <3>3. \A v \in 1..vob : files[v] \in Seq(Nat)
      BY <3>1
    <3>4. \A v \in 1..vob : files'[v] \in Seq(Nat)
      <4>1. \A v \in 1..vob : v = vob \/ v \in 1..(vob - 1)
        BY <1>3
      <4> QED BY <1>7, <3>2, <3>3, <4>1
    <3> DEFINE a == Joined(files, vob - 1)
    <3> DEFINE f == files[vob]
    <3>5. Joined(files, vob) = a \o f /\ a \in Seq(Nat) /\ f \in Seq(Nat)
      BY <1>3, <1>7, <3>3, JoinedLast
    <3>6. Joined(files', vob) = Joined(files', vob - 1) \o files'[vob]
      BY <1>3, <3>4, JoinedLast
    <3>7. Joined(files', vob - 1) = a
      <4>1. vob - 1 \in Nat
        BY <1>3
      <4> QED BY <3>2, <4>1, JoinedSame
    <3>8. files'[vob] = f \o new /\ new \in Seq(Nat)
      BY <1>7
    <3> HIDE DEF new, a, f
    <3>9. (a \o f) \o new = a \o (f \o new)
      <4>1. a \in Seq(Nat) /\ f \in Seq(Nat) /\ new \in Seq(Nat)
        BY <3>5, <3>8
      <4> QED BY <4>1, Associative, ZenonT(30)
    <3> QED BY <3>5, <3>6, <3>7, <3>8, <3>9
  <2> QED BY <1>7, <1>9, <2>1, <2>2, <2>3, <2>4
<1> QED BY <1>8, <1>10, <1>11, <1>12, <1>13 DEF IInv

(* The next part is opened and empty.                                       *)
LEMMA RotateHolds == ASSUME IInv, Rotate PROVE IInv'
<1>1. /\ pc = "rotate" /\ pc' = "read" /\ vob' = vob + 1 /\ size' = 0 /\ Open(vob + 1)
      /\ streams' = streams + 1
      /\ UNCHANGED <<request, runs, i, left, soffset, have_read, held, result>>
  BY DEF Rotate
<1>2. Busy /\ Busy' /\ InCell /\ InCell' /\ ~Done' /\ streams = 0
  BY <1>1 DEF IInv, Busy, InCell, Done, Releases
<1>3. /\ vob \in Nat \ {0} /\ vob + 1 \in Part /\ vob + 1 \in 1..PARTS
      /\ PARTS \in Nat /\ MAX_VOB_SIZE \in Nat
      /\ size = MAX_VOB_SIZE /\ ABSENT \notin Seq(Nat)
  BY <1>1, PartsSuffice, RequestIsTyped DEF IInv, TypeOK, ReadsFit, Part
<1>4. /\ DOMAIN files = Part /\ <<>> \in Seq(Nat)
      /\ \A v \in Part : files[v] = ABSENT \/ files[v] \in Seq(Nat)
  BY EmptySeq DEF IInv, Data, TypeOK
<1>5. /\ DOMAIN files' = Part /\ files'[vob + 1] \in Seq(Nat)
      /\ files[vob + 1] = ABSENT => files'[vob + 1] = <<>>
      /\ \A v \in Part \ {vob + 1} : files'[v] = files[v]
  <2>1. files' = [files EXCEPT ![vob + 1] = IF files[vob + 1] = ABSENT THEN <<>>
                                             ELSE files[vob + 1]]
    BY <1>1 DEF Open
  <2> QED BY <1>3, <1>4, <2>1
<1>6. TypeOK' /\ Data'
  <2>1. \A v \in Part : files'[v] = ABSENT \/ files'[v] \in Seq(Nat)
    BY <1>4, <1>5
  <2>2. streams + 1 \in Nat /\ 0 \in 0..MAX_VOB_SIZE
    BY <1>2, <1>3
  <2> QED BY <1>1, <1>3, <1>5, <2>1, <2>2 DEF IInv, TypeOK, Data
<1>7. Taken' = Taken
  BY <1>1, <1>2 DEF Taken
<1>8. Accounting'
  <2>1. Len(Taken) = (vob - 1) * MAX_VOB_SIZE + MAX_VOB_SIZE
    BY <1>2, <1>3 DEF IInv, Accounting
  <2>2. \A v, m \in Int : (v - 1) * m + m = ((v + 1) - 1) * m + 0
    OBVIOUS
  <2>3. Len(Taken') = ((vob + 1) - 1) * MAX_VOB_SIZE + 0
    BY <1>3, <1>7, <2>1, <2>2
  <2> QED BY <1>1, <2>3 DEF Accounting
<1>9. PartIsThere' /\ NothingLeftOver'
  BY <1>1, <1>3, <1>5 DEF PartIsThere, NothingLeftOver
<1>10. CursorInCell' /\ ReadsFit' /\ AtTheStart' /\ Releases'
  BY <1>1, <1>2 DEF IInv, CursorInCell, ReadsFit, AtTheStart, Releases
<1>11. OnDisk'
  <2> SUFFICES ASSUME request.writable
               PROVE  /\ Existing' = 1..(vob + 1)
                      /\ Joined(files', vob + 1) = Taken
                      /\ \A v \in 1..((vob + 1) - 1) : Len(files'[v]) = MAX_VOB_SIZE
                      /\ Len(files'[vob + 1]) = 0
    BY <1>1, <1>7 DEF OnDisk
  <2>1. /\ Existing = 1..vob /\ Joined(files, vob) = Taken
        /\ \A v \in 1..(vob - 1) : Len(files[v]) = MAX_VOB_SIZE
        /\ Len(files[vob]) = MAX_VOB_SIZE
    BY <1>2, <1>3 DEF IInv, OnDisk
  <2>2. vob + 1 \notin Existing
    BY <1>3, <2>1
  <2>3. files'[vob + 1] = <<>> /\ files'[vob + 1] # ABSENT
    BY <1>3, <1>4, <1>5, <2>2 DEF Existing
  <2>4. \A v \in 1..vob : v \in Part /\ v # vob + 1 /\ files[v] # ABSENT
    BY <1>3, <2>1 DEF Existing
  <2>5. \A v \in 1..vob : files'[v] = files[v] /\ files[v] \in Seq(Nat)
    BY <1>4, <1>5, <2>4
  <2>6. Existing' = 1..(vob + 1)
    <3>1. \A v \in Part : files'[v] # ABSENT <=> v \in Existing \/ v = vob + 1
      BY <1>5, <2>2, <2>3 DEF Existing
    <3>2. Existing' = {v \in Part : v \in Existing \/ v = vob + 1}
      BY <3>1 DEF Existing
    <3>3. {v \in Part : v \in 1..vob \/ v = vob + 1} = 1..(vob + 1)
      BY <1>3 DEF Part
    <3> QED BY <2>1, <3>2, <3>3
  <2>7. Joined(files', vob + 1) = Joined(files', vob) \o files'[vob + 1]
    <3>1. \A k \in 1..(vob + 1) : files'[k] \in Seq(Nat)
      BY <1>3, <1>5, <2>5
    <3> QED BY <1>3, <3>1, JoinedMore
  <2>8. Joined(files', vob) = Joined(files, vob) /\ Joined(files, vob) \in Seq(Nat)
    BY <1>3, <2>5, JoinedSame, JoinedType
  <2>9. Joined(files', vob + 1) = Taken
    BY <2>1, <2>3, <2>7, <2>8, ConcatEmptySeq
  <2>10. \A v \in 1..((vob + 1) - 1) : Len(files'[v]) = MAX_VOB_SIZE
    <3>1. \A v \in 1..((vob + 1) - 1) : v \in 1..vob /\ (v = vob \/ v \in 1..(vob - 1))
      BY <1>3
    <3> QED BY <2>1, <2>5, <3>1
  <2>11. Len(<<>>) = 0
    OBVIOUS
  <2> QED BY <2>3, <2>6, <2>9, <2>10, <2>11
<1> QED BY <1>6, <1>8, <1>9, <1>10, <1>11 DEF IInv

-----------------------------------------------------------------------------
(* The theorems.                                                            *)

(* Every step keeps the invariant.                                          *)
LEMMA NextHolds == IInv /\ [Next]_vars => IInv'
<1> SUFFICES ASSUME IInv, [Next]_vars PROVE IInv'
  OBVIOUS
<1>1. CASE NoName \/ Refuse \/ CreateFails \/ OpenDvdFails \/ ReadFails \/ WriteFails
             \/ RotateFails \/ Killed
  BY <1>1, RunsEndEarly
<1>2. CASE Unlink       BY <1>2, UnlinkHolds
<1>3. CASE Create       BY <1>3, CreateHolds
<1>4. CASE OpenDvd      BY <1>4, OpenDvdHolds
<1>5. CASE NextCell     BY <1>5, NextCellHolds
<1>6. CASE EndOfCell    BY <1>6, EndOfCellHolds
<1>7. CASE Read         BY <1>7, ReadHolds
<1>8. CASE Write        BY <1>8, WriteHolds
<1>9. CASE Rotate       BY <1>9, RotateHolds
<1>10. CASE Finish      BY <1>10, FinishHolds
<1>11. CASE RunAgain    BY <1>11, RunAgainHolds
<1>12. CASE UNCHANGED vars
  <2>1. UNCHANGED <<request, runs, pc, i, left, soffset, size, vob, have_read, files,
                    streams, held, result>>
    BY <1>12 DEF vars
  <2>2. TypeOK' /\ Data' /\ Busy' = Busy /\ InCell' = InCell /\ Done' = Done
        /\ Existing' = Existing
    BY <2>1 DEF IInv, TypeOK, Data, Busy, InCell, Done, Existing
  <2>3. Taken' = Taken
    BY <2>1, <2>2 DEF Taken
  <2>4. CursorInCell' /\ ReadsFit' /\ AtTheStart' /\ PartIsThere' /\ NothingLeftOver'
        /\ Releases'
    BY <2>1, <2>2 DEF IInv, CursorInCell, ReadsFit, AtTheStart, PartIsThere,
                      NothingLeftOver, Removes, Releases
  <2>5. Accounting' /\ OnDisk'
    BY <2>1, <2>2, <2>3 DEF IInv, Accounting, OnDisk
  <2> QED BY <2>2, <2>4, <2>5 DEF IInv
<1> QED
  BY <1>1, <1>2, <1>3, <1>4, <1>5, <1>6, <1>7, <1>8, <1>9, <1>10, <1>11, <1>12
     DEF Next, Step, AllRunsEnded

(* The invariant holds for every series of runs.                            *)
THEOREM WriteInvariant == Spec => []IInv
BY InitHolds, NextHolds, PTL DEF Spec

(* The variables of DVDWriteCells keep their types; in particular the part  *)
(* number never leaves the names a title set has.                           *)
THEOREM WriteTypeCorrect == Spec => []TypeOK
<1>1. IInv => TypeOK
  BY DEF IInv
<1> QED BY <1>1, WriteInvariant, PTL

(* Each part is closed before the next is opened or the function returns,   *)
(* the name is freed on every path, and a run that succeeds holds nothing.  *)
THEOREM WriteClosesItsStreams == Spec => []StreamsAreClosed
<1>1. IInv => StreamsAreClosed
  BY DEF IInv, Releases, StreamsAreClosed, Busy
<1> QED BY <1>1, WriteInvariant, PTL

(* The parts are cut at the size a VOB may have and at no other place.      *)
THEOREM WritePartsAreFull == Spec => []PartsAreFull
<1>1. IInv => PartsAreFull
  <2> SUFFICES ASSUME IInv, Copying \/ Succeeded, NEW v \in Existing
               PROVE  /\ Len(files[v]) <= MAX_VOB_SIZE
                      /\ v < vob => Len(files[v]) = MAX_VOB_SIZE
    BY DEF PartsAreFull
  <2>1. request.writable /\ (Busy \/ Done)
    BY DEF Copying, Started, Succeeded, Busy, Done
  <2>2. /\ v \in 1..vob /\ Len(files[vob]) = size
        /\ \A w \in 1..(vob - 1) : Len(files[w]) = MAX_VOB_SIZE
    BY <2>1 DEF IInv, OnDisk
  <2>3. MAX_VOB_SIZE \in Nat /\ size \in 0..MAX_VOB_SIZE /\ vob \in 1..PARTS
    BY WriteAssumption DEF IInv, TypeOK
  <2>4. /\ v \in 1..vob /\ vob \in Nat /\ size <= MAX_VOB_SIZE
        /\ Len(files[vob]) = size /\ MAX_VOB_SIZE \in Nat
        /\ \A w \in 1..(vob - 1) : Len(files[w]) = MAX_VOB_SIZE
    BY <2>2, <2>3
  <2>5. v = vob \/ v \in 1..(vob - 1)
    BY <2>4
  <2> QED BY <2>4, <2>5
<1> QED BY <1>1, WriteInvariant, PTL

(* The number of parts on disk is the number of the last one.               *)
LEMMA StreamOnDisk ==
  ASSUME IInv, request.writable, Busy \/ Done
  PROVE  Existing = 1..vob /\ Stream = Taken
<1>1. Existing = 1..vob /\ Joined(files, vob) = Taken /\ vob \in Nat \ {0}
  BY RequestIsTyped DEF IInv, OnDisk, TypeOK
<1>2. Cardinality(Existing) = vob
  <2>1. Cardinality(1..vob) = vob - 1 + 1
    BY <1>1, FS_Interval
  <2> QED BY <1>1, <2>1
<1> QED BY <1>1, <1>2 DEF Stream, Joined

(* At every moment of a copy the parts on disk are numbered without a gap   *)
(* and hold a prefix of the blocks of the cells.                            *)
THEOREM WriteKeepsAPrefix == Spec => []PrefixOnDisk
<1>1. IInv => PrefixOnDisk
  <2> SUFFICES ASSUME IInv, Copying
               PROVE  Existing = 1..vob /\ IsPrefix(Stream, Wanted(request.cells))
    BY DEF PrefixOnDisk
  <2> DEFINE W == Wanted(request.cells)
  <2>1. request.writable /\ (Busy \/ Done)
    BY DEF Copying, Started, Busy
  <2>2. Existing = 1..vob /\ Stream = Taken
    BY <2>1, StreamOnDisk
  <2>3. PICK r \in Seq(Nat) : W = Taken \o r
    BY <2>1, TakenIsWanted
  <2>4. Taken \in Seq(Nat)
    BY <2>1, TakenIsWanted
  <2> DEFINE t == Taken
  <2> HIDE DEF W, t
  <2>5. /\ t \o r \in Seq(Nat) /\ Len(t \o r) = Len(t) + Len(r)
        /\ Len(t) \in Nat /\ Len(r) \in Nat
        /\ \A k \in 1..Len(t) : (t \o r)[k] = t[k]
    <3>1. t \in Seq(Nat) /\ r \in Seq(Nat)
      BY <2>4 DEF t
    <3> QED BY <3>1, ConcatProperties, LenProperties
  <2>6. SubSeq(t, 1, Len(t)) = SubSeq(t \o r, 1, Len(t))
    BY <2>5
  <2>7. IsPrefix(t, t \o r)
    BY <2>5, <2>6 DEF IsPrefix
  <2> QED BY <2>2, <2>3, <2>7 DEF W, t
<1> QED BY <1>1, WriteInvariant, PTL

(* A run that succeeds leaves the blocks of its cells and nothing else.     *)
THEOREM WriteLeavesOnlyTheCells == Spec => []OnlyTheCells
<1>1. IInv => OnlyTheCells
  <2> SUFFICES ASSUME IInv, Succeeded
               PROVE  Existing = 1..vob /\ Stream = Wanted(request.cells)
    BY DEF OnlyTheCells
  <2>1. request.writable /\ Done /\ ~InCell
    BY DEF Succeeded, Done, InCell
  <2>2. Existing = 1..vob /\ Stream = Taken
    BY <2>1, StreamOnDisk
  <2>3. i = Len(request.cells)
    BY <2>1 DEF IInv, AtTheStart
  <2>4. Taken = Joined(BlocksOf(request.cells), Len(request.cells))
    BY <2>1, <2>3 DEF Taken
  <2>5. [k \in 1..Len(request.cells) |-> BlocksOf(request.cells)[k]]
          = [k \in 1..Len(request.cells) |-> CellBlocks(request.cells[k])]
    BY DEF BlocksOf
  <2> QED BY <2>2, <2>4, <2>5 DEF Wanted, Joined
<1> QED BY <1>1, WriteInvariant, PTL
=============================================================================
