------------------------------ MODULE MirrorProofs ------------------------------
(***************************************************************************)
(* The whole-file copies for every disc, every set of obstacles and every  *)
(* series of runs that succeed, fail or are killed at any step.            *)
(***************************************************************************)
EXTENDS Mirror, SequenceTheorems, FiniteSetTheorems, TLAPS

Contents == [state : {"absent", "other", "begun", "done"}, run : 0..MaxRuns,
             from : Nat, blocks : Nat]

-----------------------------------------------------------------------------
(* Where a VOB begins.                                                      *)

(* Induction over the naturals, for a property given as a set: its minimal  *)
(* counterexample would have a predecessor.                                 *)
LEMMA Induction ==
  ASSUME NEW S, 0 \in S, \A n \in Nat : n \in S => n + 1 \in S
  PROVE  Nat \subseteq S
<1> DEFINE Below == {ss \in Nat \X Nat : ss[1] < ss[2]}
<1> DEFINE Missing == Nat \ S
<1> SUFFICES ASSUME Missing # {} PROVE FALSE
  OBVIOUS
<1>1. PICK x \in Missing : \A y \in Missing : ~(<<y, x>> \in Below)
  <2>1. IsWellFoundedOn(Below, Nat)
    BY NatLessThanWellFounded DEF OpToRel
  <2>2. Missing \subseteq Nat
    OBVIOUS
  <2> HIDE DEF Below, Missing
  <2> QED BY <2>1, <2>2, WFMin
<1>2. x # 0 /\ x \in Nat
  OBVIOUS
<1>3. x - 1 \in Nat /\ x - 1 \notin S
  BY <1>2
<1>4. <<x - 1, x>> \in Below
  BY <1>2, <1>3
<1> QED BY <1>1, <1>3, <1>4

(* A set of places in a sequence has a last one.                            *)
LEMMA LastPlace ==
  \A m \in Nat : \A q \in SUBSET (1..m) :
    q # {} => Max(q) \in q /\ \A y \in q : Max(q) >= y
<1> SUFFICES ASSUME NEW m \in Nat, NEW q \in SUBSET (1..m), q # {}
             PROVE  Max(q) \in q /\ \A y \in q : Max(q) >= y
  OBVIOUS
<1> DEFINE S == {n \in Nat : \A p \in SUBSET (1..n) :
                   p # {} => \E x \in p : \A y \in p : x >= y}
<1>1. 0 \in S
  <2>1. \A p \in SUBSET (1..0) : p = {}
    OBVIOUS
  <2> QED BY <2>1
<1>2. ASSUME NEW n \in Nat, n \in S PROVE n + 1 \in S
  <2> SUFFICES ASSUME NEW p \in SUBSET (1..(n + 1)), p # {}
               PROVE  \E x \in p : \A y \in p : x >= y
    OBVIOUS
  <2>1. CASE n + 1 \in p
    BY <2>1
  <2>2. CASE n + 1 \notin p
    <3>1. p \in SUBSET (1..n)
      BY <2>2
    <3> QED BY <1>2, <3>1
  <2> QED BY <2>1, <2>2
<1> HIDE DEF S
<1>3. m \in S
  BY <1>1, <1>2, Induction
<1>4. \E x \in q : \A y \in q : x >= y
  BY <1>3 DEF S
<1> QED BY <1>4 DEF Max

\* What FoldLeft computes on the way: g[q] is the sum over the places in q.
Sums(s, m, g) ==
  \A q \in SUBSET (1..m) :
    g[q] = IF q = {} THEN 0 ELSE g[q \ {Max(q)}] + Blocks(s[Max(q)])

HasSums(s, m) == \E g \in [SUBSET (1..m) -> Nat] : Sums(s, m, g)

(* The number of blocks of a file is a natural number.                      *)
LEMMA BlocksType == \A n \in Nat : Blocks(n) \in Nat
<1> TAKE n \in Nat
<1>1. DVD_VIDEO_LB_LEN \in Nat \ {0}
  BY MirrorAssumption
<1> QED BY <1>1 DEF Blocks

(* There is such a function, and its values are natural numbers.            *)
LEMMA SumsExist ==
  ASSUME NEW s, NEW m \in Nat, \A k \in 1..m : s[k] \in Nat
  PROVE  HasSums(s, m)
<1> DEFINE S == {n \in Nat : n <= m => HasSums(s, n)}
<1>1. 0 \in S
  <2> DEFINE g == [q \in SUBSET (1..0) |-> 0]
  <2>1. g \in [SUBSET (1..0) -> Nat]
    OBVIOUS
  <2>2. \A q \in SUBSET (1..0) : q = {}
    OBVIOUS
  <2>3. Sums(s, 0, g)
    BY <2>2 DEF Sums
  <2> HIDE DEF g
  <2> QED BY <2>1, <2>3 DEF HasSums
<1>2. ASSUME NEW n \in Nat, n \in S PROVE n + 1 \in S
  <2> SUFFICES ASSUME n + 1 <= m PROVE HasSums(s, n + 1)
    OBVIOUS
  <2>0. HasSums(s, n)
    BY <1>2
  <2>1. PICK g \in [SUBSET (1..n) -> Nat] : Sums(s, n, g)
    BY <2>0 DEF HasSums
  <2> DEFINE last == Blocks(s[n + 1])
  <2>2. last \in Nat
    <3>1. n + 1 \in 1..m
      OBVIOUS
    <3> QED BY <3>1, BlocksType
  <2> DEFINE h == [q \in SUBSET (1..(n + 1)) |->
                     IF n + 1 \in q THEN g[q \ {n + 1}] + last ELSE g[q]]
  <2>3. \A q \in SUBSET (1..(n + 1)) :
          IF n + 1 \in q THEN q \ {n + 1} \in SUBSET (1..n) ELSE q \in SUBSET (1..n)
    OBVIOUS
  <2>4. h \in [SUBSET (1..(n + 1)) -> Nat]
    <3>1. \A q \in SUBSET (1..(n + 1)) :
            (IF n + 1 \in q THEN g[q \ {n + 1}] + last ELSE g[q]) \in Nat
      <4> HIDE DEF last
      <4> QED BY <2>1, <2>2, <2>3
    <3> QED BY <3>1
  <2>5. ASSUME NEW q \in SUBSET (1..(n + 1))
        PROVE  h[q] = IF q = {} THEN 0 ELSE h[q \ {Max(q)}] + Blocks(s[Max(q)])
    <3>1. CASE q = {}
      <4>1. q \in SUBSET (1..n) /\ n + 1 \notin q
        BY <3>1
      <4>2. h[q] = g[q]
        BY <4>1
      <4> QED BY <2>1, <3>1, <4>1, <4>2 DEF Sums
    <3>2. CASE n + 1 \in q
      <4>1. Max(q) \in q /\ \A y \in q : Max(q) >= y
        <5>1. n + 1 \in Nat /\ q # {}
          BY <3>2
        <5> HIDE DEF h, last
        <5> QED BY <5>1, LastPlace
      <4>2. Max(q) = n + 1
        <5>1. Max(q) \in 1..(n + 1) /\ Max(q) >= n + 1
          BY <3>2, <4>1
        <5> QED BY <5>1
      <4> DEFINE r == q \ {n + 1}
      <4>3. r \in SUBSET (1..n) /\ r \in SUBSET (1..(n + 1)) /\ n + 1 \notin r
        OBVIOUS
      <4>4. h[r] = g[r]
        BY <4>3
      <4>5. h[q] = g[r] + last
        BY <3>2
      <4> HIDE DEF h, r
      <4>6. q \ {Max(q)} = r
        BY <4>2 DEF r
      <4> QED BY <3>2, <4>2, <4>4, <4>5, <4>6
    <3>3. CASE q # {} /\ n + 1 \notin q
      <4>1. Max(q) \in q
        <5>1. n + 1 \in Nat
          OBVIOUS
        <5> HIDE DEF h, last
        <5> QED BY <3>3, <5>1, LastPlace
      <4> DEFINE r == q \ {Max(q)}
      <4>2. q \in SUBSET (1..n) /\ r \in SUBSET (1..n) /\ r \in SUBSET (1..(n + 1))
        BY <3>3, <2>3
      <4>3. h[q] = g[q] /\ h[r] = g[r]
        BY <3>3, <4>2
      <4> HIDE DEF h
      <4>4. g[q] = g[r] + Blocks(s[Max(q)])
        BY <2>1, <3>3, <4>2 DEF Sums
      <4> QED BY <3>3, <4>3, <4>4
    <3> QED BY <3>1, <3>2, <3>3
  <2> HIDE DEF h
  <2>6. Sums(s, n + 1, h)
    BY <2>5 DEF Sums
  <2> QED BY <2>4, <2>6 DEF HasSums
<1> HIDE DEF S
<1>3. m \in S
  BY <1>1, <1>2, Induction
<1> QED BY <1>3 DEF S

(* FoldLeft is the sum over all places, and two such sums agree as far as   *)
(* the sequences do.                                                        *)
LEMMA SumsAreUnique ==
  \A s, t, g, h : \A m, n, k \in Nat :
    /\ k <= m /\ k <= n /\ \A j \in 1..k : s[j] = t[j]
    /\ Sums(s, m, g) /\ Sums(t, n, h)
    => g[1..k] = h[1..k]
<1> SUFFICES ASSUME NEW s, NEW t, NEW g, NEW h,
                    NEW m \in Nat, NEW n \in Nat, NEW k \in Nat, k <= m, k <= n,
                    \A j \in 1..k : s[j] = t[j], Sums(s, m, g), Sums(t, n, h)
             PROVE  g[1..k] = h[1..k]
  OBVIOUS
<1> DEFINE S == {j \in Nat : j <= k => g[1..j] = h[1..j]}
<1>1. 0 \in S
  <2>1. 1..0 = {} /\ {} \in SUBSET (1..m) /\ {} \in SUBSET (1..n)
    OBVIOUS
  <2>2. g[{}] = 0 /\ h[{}] = 0
    BY <2>1 DEF Sums
  <2> QED BY <2>1, <2>2
<1>2. ASSUME NEW j \in Nat, j \in S PROVE j + 1 \in S
  <2> SUFFICES ASSUME j + 1 <= k PROVE g[1..(j + 1)] = h[1..(j + 1)]
    OBVIOUS
  <2> DEFINE q == 1..(j + 1)
  <2>1. g[1..j] = h[1..j]
    BY <1>2
  <2>2. /\ q \in SUBSET (1..m) /\ q \in SUBSET (1..n) /\ q \in SUBSET (1..(j + 1))
        /\ q # {} /\ j + 1 \in q
    OBVIOUS
  <2>3. Max(q) = j + 1
    <3>1. Max(q) \in q /\ \A y \in q : Max(q) >= y
      <4>1. j + 1 \in Nat
        OBVIOUS
      <4> HIDE DEF q
      <4> QED BY <2>2, <4>1, LastPlace
    <3>2. Max(q) \in 1..(j + 1) /\ Max(q) >= j + 1
      BY <2>2, <3>1
    <3> QED BY <3>2
  <2>4. q \ {j + 1} = 1..j
    OBVIOUS
  <2> HIDE DEF q
  <2>5. g[q] = g[1..j] + Blocks(s[j + 1])
    BY <2>2, <2>3, <2>4 DEF Sums
  <2>6. h[q] = h[1..j] + Blocks(t[j + 1])
    BY <2>2, <2>3, <2>4 DEF Sums
  <2>7. s[j + 1] = t[j + 1]
    OBVIOUS
  <2> QED BY <2>1, <2>5, <2>6, <2>7 DEF q
<1> HIDE DEF S
<1>3. k \in S
  BY <1>1, <1>2, Induction
<1> QED BY <1>3 DEF S

Sum(s) == FoldLeft(LAMBDA n, bytes : n + Blocks(bytes), 0, s)

LEMMA SumIsLast ==
  \A s \in Seq(Nat) :
    \E g \in [SUBSET (1..Len(s)) -> Nat] : Sums(s, Len(s), g) /\ Sum(s) = g[1..Len(s)]
<1> TAKE s \in Seq(Nat)
<1> DEFINE m == Len(s)
<1>0. m \in Nat /\ DOMAIN s = 1..m /\ \A k \in 1..m : s[k] \in Nat
  OBVIOUS
<1> HIDE DEF m
<1> DEFINE c == CHOOSE g : g = [q \in SUBSET (1..m) |->
                                  IF q = {} THEN 0
                                  ELSE g[q \ {Max(q)}] + Blocks(s[Max(q)])]
<1>1. PICK g \in [SUBSET (1..m) -> Nat] : Sums(s, m, g)
  BY <1>0, SumsExist DEF HasSums
<1>2. g = [q \in SUBSET (1..m) |->
             IF q = {} THEN 0 ELSE g[q \ {Max(q)}] + Blocks(s[Max(q)])]
  <2>1. g = [q \in SUBSET (1..m) |-> g[q]]
    BY <1>1
  <2> QED BY <1>1, <2>1 DEF Sums
<1>3. c = [q \in SUBSET (1..m) |->
             IF q = {} THEN 0 ELSE c[q \ {Max(q)}] + Blocks(s[Max(q)])]
  BY <1>2
<1>4. Sum(s) = c[1..m]
  BY <1>0 DEF Sum, FoldLeft, MapThenFoldSet
<1> HIDE DEF c
<1>5. Sums(s, m, c)
  BY <1>3 DEF Sums
<1>6. c[1..m] = g[1..m]
  <2>1. \A j \in 1..m : s[j] = s[j]
    OBVIOUS
  <2>2. Sums(s, m, g)
    BY <1>1
  <2>3. m <= m
    BY <1>0
  <2> QED BY <1>0, <1>5, <2>1, <2>2, <2>3, SumsAreUnique
<1> QED BY <1>1, <1>4, <1>6 DEF m

(* A sum over a longer sequence is the sum over what it begins with, and    *)
(* what is added is the last element.                                       *)
LEMMA SumOfMore ==
  \A s, t \in Seq(Nat) :
    Len(t) = Len(s) + 1 /\ (\A j \in 1..Len(s) : s[j] = t[j]) =>
      Sum(s) \in Nat /\ Sum(t) = Sum(s) + Blocks(t[Len(t)])
<1> SUFFICES ASSUME NEW s \in Seq(Nat), NEW t \in Seq(Nat), Len(t) = Len(s) + 1,
                    \A j \in 1..Len(s) : s[j] = t[j]
             PROVE  Sum(s) \in Nat /\ Sum(t) = Sum(s) + Blocks(t[Len(t)])
  OBVIOUS
<1> DEFINE m == Len(s)
           n == Len(t)
<1>1. m \in Nat /\ n \in Nat /\ n = m + 1 /\ m <= n /\ m <= m
  OBVIOUS
<1>2. PICK g \in [SUBSET (1..m) -> Nat] : Sums(s, m, g) /\ Sum(s) = g[1..m]
  BY SumIsLast
<1>3. PICK h \in [SUBSET (1..n) -> Nat] : Sums(t, n, h) /\ Sum(t) = h[1..n]
  BY SumIsLast
<1>4. \A j \in 1..m : s[j] = t[j]
  OBVIOUS
<1> HIDE DEF m, n
<1>5. g[1..m] = h[1..m]
  <2>1. Sums(s, m, g) /\ Sums(t, n, h)
    BY <1>2, <1>3
  <2>2. m \in Nat /\ n \in Nat /\ m <= n /\ m <= m
    BY <1>1
  <2> QED BY ONLY <1>4, <2>1, <2>2, SumsAreUnique
<1>6. (1..n) \ {n} = 1..m /\ 1..n \in SUBSET (1..n) /\ n \in 1..n /\ 1..n # {}
  <2>1. \A x : x \in 1..n /\ x # n <=> x \in 1..m
    BY <1>1
  <2>2. (1..n) \ {n} = 1..m
    BY <2>1
  <2>3. n \in 1..n
    BY <1>1
  <2> QED BY <2>2, <2>3
<1>7. Max(1..n) = n
  <2>1. Max(1..n) \in 1..n /\ \A y \in 1..n : Max(1..n) >= y
    BY <1>1, <1>6, LastPlace, Zenon
  <2>2. \A x \in 1..n : x >= n => x = n
    BY <1>1
  <2> QED BY <1>6, <2>1, <2>2, Zenon
<1>8. h[1..n] = h[1..m] + Blocks(t[n])
  BY <1>3, <1>6, <1>7, Zenon DEF Sums
<1>9. Sum(s) \in Nat
  <2>1. 1..m \in SUBSET (1..m)
    OBVIOUS
  <2>2. g[1..m] \in Nat
    BY <2>1
  <2> QED BY <1>2, <2>2
<1>10. Sum(t) = Sum(s) + Blocks(t[n])
  BY <1>2, <1>3, <1>5, <1>8, Zenon
<1> QED BY <1>9, <1>10 DEF n

-----------------------------------------------------------------------------
(* The inductive invariant.                                                 *)

Cur(slot) == files[At(slot)]

\* Files are written by this run or an earlier one; those of this run belong
\* to the title sets it has reached.
Touched ==
  \A f \in File :
    /\ files[f].run <= run
    /\ files[f].run = run =>
         /\ pc # "file_set"
         /\ IF call.mode = "mirror" THEN f[1] <= title_set ELSE f[1] = title_set
         /\ pc = "ifo" => f[1] # title_set

\* What the opened files of the current title set look like.
Phase ==
  /\ pc = "bup" => Cur(BUP) # Other /\ Cur(IFO).state = "begun"
  /\ pc \in {"read_ifo", "write_ifo"} => Cur(IFO).state = "begun" /\ Cur(BUP).state = "begun"
  /\ pc = "write_bup" => /\ Cur(IFO) = Content("done", run, 0, Blocks(Set.size_ifo))
                         /\ Cur(BUP).state = "begun"
  /\ pc = "copy_menu" => Cur(MENU).state = "begun"
  /\ pc = "copy_vob" => Cur(vob).state = "begun" /\ vob <= Len(Set.size_vob)

\* Which files of the current title set are complete.
AtVobs == pc \in {"vob", "copy_vob"} \/ Succeeded
AtMenu == pc \in {"menu", "copy_menu"} \/ AtVobs
CurrentSet ==
  /\ AtMenu /\ Set.size_ifo > 0 => IsDone(title_set, IFO) /\ IsDone(title_set, BUP)
  /\ AtVobs /\ Set.size_menu > 0 => IsDone(title_set, MENU)
  /\ AtVobs => /\ vob \in 1..(Len(Set.size_vob) + 1)
               /\ \A v \in 1..(vob - 1) :
                    Set.size_vob[1] > 0 /\ Set.size_vob[v] > 0 => IsDone(title_set, v)
  /\ Succeeded => vob > Len(Set.size_vob)

EarlierSets ==
  call.mode = "mirror" => \A u \in DOMAIN disc : u < title_set => IsCopied(u)

\* The title set being copied is one that was asked for.
Choice ==
  /\ (Working \/ Succeeded) /\ call.mode = "title_set" => title_set = call.title_set
  /\ Succeeded /\ call.mode = "mirror" => title_set >= number_of_title_sets
  /\ result = 0 => pc \in {"returned", "exited", "killed"}

\* The VOBs that this run has completed: not those behind an empty first one;
\* and where they begin.
OffsetIn(vobs, v) ==
  FoldLeft(LAMBDA n, bytes : n + Blocks(bytes), 0, SubSeq(vobs, 1, v - 1))
VobPlaces ==
  \A t \in DOMAIN disc : \A v \in 1..MaxPart :
    files[<<t, v>>].run = run /\ files[<<t, v>>].state = "done" =>
      /\ v <= Len(disc[t].size_vob) /\ disc[t].size_vob[1] > 0
      /\ files[<<t, v>>].from = OffsetIn(disc[t].size_vob, v)

\* The descriptors that are open at each step.
Before == 2 * (IF call.mode = "mirror" THEN title_set ELSE 0)
Descriptors ==
  /\ pc = "file_set" => streams = 0
  /\ pc = "ifo" => streams <= Before
  /\ pc = "bup" => streams \in 1..(Before + 1)
  /\ pc \in {"read_ifo", "write_ifo", "write_bup"} => streams \in 2..(Before + 2)
  /\ pc \in {"menu", "vob"} => streams <= Before + 2
  /\ pc \in {"copy_menu", "copy_vob"} => streams \in 1..(Before + 3)
  /\ pc = "returned" => streams <= Before + 3
  /\ pc \in {"exited", "killed"} => streams = 0

Closing ==
  /\ pc = "file_set" \/ Working => closed = 0
  /\ pc = "returned" => closed \in 0..1

\* What is written of the current title set consists of whole blocks; the menu
\* may not.
Sizes ==
  /\ pc \in {"bup", "read_ifo", "write_ifo", "write_bup"} => IsValidSize(Set.size_ifo)
  /\ AtMenu /\ Set.size_ifo > 0 => IsValidSize(Set.size_ifo)
  /\ pc = "copy_vob" => Set.size_vob[1] > 0 /\ IsValidSize(Set.size_vob[vob])
  /\ AtVobs => \A v \in 1..(vob - 1) :
                 Set.size_vob[1] > 0 /\ Set.size_vob[v] > 0 => IsValidSize(Set.size_vob[v])

\* The files that are open, and so torn, at each step.
Open ==
  CASE pc = "bup" -> {IFO}
    [] pc \in {"read_ifo", "write_ifo"} -> {IFO, BUP}
    [] pc = "write_bup" -> {BUP}
    [] pc = "copy_menu" -> {MENU}
    [] pc = "copy_vob" -> {vob}
    [] OTHER -> {}
Torn ==
  Working => \A f \in File :
    files[f].state = "begun" /\ files[f].run = run => f[1] = title_set /\ f[2] \in Open

Base ==
  /\ TypeOK /\ Touched /\ Phase /\ CurrentSet /\ EarlierSets /\ Choice /\ VobPlaces
  /\ Descriptors /\ Closing /\ BackupComesSecond
IInv == Base /\ Sizes /\ Torn /\ TornFilesBelongTogether

-----------------------------------------------------------------------------
(* Facts about the disc and the directory.                                  *)

(* A VOB begins where the one before it ends.                               *)
LEMMA OffsetStep ==
  \A vobs \in Seq(Nat) : \A v \in 1..Len(vobs) :
    /\ OffsetIn(vobs, v) \in Nat
    /\ OffsetIn(vobs, v + 1) = OffsetIn(vobs, v) + Blocks(vobs[v])
<1> TAKE vobs \in Seq(Nat)
<1> TAKE v \in 1..Len(vobs)
<1> DEFINE s == SubSeq(vobs, 1, v - 1)
           t == SubSeq(vobs, 1, v)
<1>1. /\ s \in Seq(Nat) /\ Len(s) = v - 1 /\ \A j \in 1..(v - 1) : s[j] = vobs[j]
      /\ t \in Seq(Nat) /\ Len(t) = v /\ \A j \in 1..v : t[j] = vobs[j]
  OBVIOUS
<1>2. OffsetIn(vobs, v) = Sum(s)
  BY Zenon DEF OffsetIn, Sum
<1>3. OffsetIn(vobs, v + 1) = Sum(t)
  <2>1. (v + 1) - 1 = v
    OBVIOUS
  <2>2. OffsetIn(vobs, v + 1) = Sum(SubSeq(vobs, 1, (v + 1) - 1))
    BY Zenon DEF OffsetIn, Sum
  <2> QED BY <2>1, <2>2, Zenon
<1> HIDE DEF s, t
<1>4. Len(t) = Len(s) + 1 /\ t[Len(t)] = vobs[v] /\ \A j \in 1..Len(s) : s[j] = t[j]
  <2>1. Len(t) = Len(s) + 1 /\ Len(t) = v /\ v \in 1..v
    BY <1>1
  <2>2. t[Len(t)] = vobs[v]
    BY <1>1, <2>1, Zenon
  <2>3. \A j \in 1..(v - 1) : j \in 1..v
    OBVIOUS
  <2>4. \A j \in 1..Len(s) : s[j] = t[j]
    BY <1>1, <2>3, Zenon
  <2> QED BY <2>1, <2>2, <2>4
<1>5. Sum(s) \in Nat /\ Sum(t) = Sum(s) + Blocks(t[Len(t)])
  BY <1>1, <1>4, SumOfMore
<1> QED BY <1>2, <1>3, <1>4, <1>5

(* The title sets of a disc are numbered from 0 and their sizes are         *)
(* natural numbers.                                                         *)
LEMMA DiscIsTyped ==
  ASSUME disc \in Discs
  PROVE  /\ number_of_title_sets \in 0..MaxSet
         /\ DOMAIN disc = 0..number_of_title_sets
         /\ \A t \in DOMAIN disc :
              /\ t \in 0..MaxSet
              /\ disc[t].size_ifo \in Nat /\ disc[t].size_menu \in Nat
              /\ disc[t].size_vob \in Seq(Nat)
              /\ Len(disc[t].size_vob) \in 0..MaxPart
<1>1. IsDisc(disc) /\ MaxSet \in Nat /\ MaxPart \in Nat
  BY MirrorAssumption
<1>2. PICK n \in 0..MaxSet : DOMAIN disc = 0..n
  BY <1>1 DEF IsDisc
<1>3. number_of_title_sets = n
  <2>1. Cardinality(0..n) = n + 1
    BY <1>1, FS_Interval
  <2> QED BY <1>2, <2>1 DEF number_of_title_sets
<1> QED BY <1>1, <1>2, <1>3 DEF IsDisc

(* The size of a file is a natural number, whichever file it is.            *)
LEMMA BytesType ==
  ASSUME disc \in Discs, NEW t \in DOMAIN disc, NEW slot \in IFO..MaxPart
  PROVE  /\ Bytes(t, slot) \in Nat
         /\ slot \in {IFO, BUP} => Bytes(t, slot) = disc[t].size_ifo
         /\ slot = MENU => Bytes(t, slot) = disc[t].size_menu
         /\ slot \in 1..Len(disc[t].size_vob) => Bytes(t, slot) = disc[t].size_vob[slot]
         /\ slot > Len(disc[t].size_vob) => Bytes(t, slot) = 0
<1> DEFINE len == Len(disc[t].size_vob)
<1>1. /\ disc[t].size_ifo \in Nat /\ disc[t].size_menu \in Nat
      /\ disc[t].size_vob \in Seq(Nat) /\ len \in 0..MaxPart
  BY DiscIsTyped
<1>2. MaxPart \in Nat
  BY MirrorAssumption
<1>3. \A v \in 1..len : disc[t].size_vob[v] \in Nat
  BY <1>1
<1> HIDE DEF len
<1>4. slot \in {IFO, BUP} \/ slot = MENU \/ slot \in 1..len \/ slot > len
  BY <1>1, <1>2 DEF IFO, BUP, MENU
<1>5. CASE slot \in {IFO, BUP}
  <2>1. slot # MENU /\ ~(slot > len) /\ slot \notin 1..len
    BY <1>1, <1>5 DEF IFO, BUP, MENU
  <2> QED BY <1>1, <1>5, <2>1 DEF Bytes, len
<1>6. CASE slot = MENU
  <2>1. slot \notin {IFO, BUP} /\ ~(slot > len) /\ slot \notin 1..len
    BY <1>1, <1>6 DEF IFO, BUP, MENU
  <2> QED BY <1>1, <1>6, <2>1 DEF Bytes, len
<1>7. CASE slot \in 1..len
  <2>1. slot \notin {IFO, BUP} /\ slot # MENU /\ ~(slot > len)
    BY <1>1, <1>7 DEF IFO, BUP, MENU
  <2> QED BY <1>3, <1>7, <2>1 DEF Bytes, len
<1>8. CASE slot > len
  <2>1. slot \notin {IFO, BUP} /\ slot # MENU /\ slot \notin 1..len
    BY <1>1, <1>8 DEF IFO, BUP, MENU
  <2> QED BY <1>8, <2>1 DEF Bytes, len
<1> QED BY <1>4, <1>5, <1>6, <1>7, <1>8

-----------------------------------------------------------------------------
(* Steps that write no file.                                                *)

(* What depends on the files alone stays as it is.                          *)
LEMMA FilesStay ==
  ASSUME IInv, UNCHANGED <<request, files>>
  PROVE  /\ VobPlaces' /\ BackupComesSecond'
         /\ \A t, slot : IsDone(t, slot)' <=> IsDone(t, slot)
         /\ \A t : IsCopied(t)' <=> IsCopied(t)
<1>1. disc' = disc /\ call' = call /\ run' = run /\ files' = files
  BY DEF request
<1>2. VobPlaces'
  BY <1>1 DEF IInv, Base, VobPlaces
<1>3. BackupComesSecond'
  BY <1>1 DEF IInv, Base, BackupComesSecond
<1>4. \A t, slot : IsDone(t, slot)' <=> IsDone(t, slot)
  BY <1>1 DEF IsDone, Bytes
<1>5. \A t : IsCopied(t)' <=> IsCopied(t)
  BY <1>1 DEF IsCopied, IsWhole, CutOff, PassedOver, Present, Bytes
<1> QED BY <1>2, <1>3, <1>4, <1>5

(* A function that fails leaves everything as it is.                        *)
LEMMA FailsSafely ==
  ASSUME IInv, Working, NEW n \in Nat, n <= streams, Fail(n)
  PROVE  Base'
<1>1. /\ disc' = disc /\ call' = call /\ run' = run /\ files' = files
      /\ title_set' = title_set /\ vob' = vob /\ pc' = "returned" /\ result' = 1
      /\ streams' = streams - n /\ closed' = closed
  BY DEF Fail, Return, Stay, request
<1>2. TypeOK
  BY DEF IInv, Base
<1>3. VobPlaces' /\ BackupComesSecond' /\ \A t : IsCopied(t)' <=> IsCopied(t)
  BY <1>1, FilesStay DEF request
<1>4. TypeOK'
  BY <1>1, <1>2 DEF TypeOK
<1>5. Touched'
  BY <1>1 DEF IInv, Base, Touched
<1>6. Phase' /\ CurrentSet' /\ Choice'
  BY <1>1 DEF Phase, CurrentSet, AtMenu, AtVobs, Succeeded, Choice, Working
<1>7. EarlierSets'
  BY <1>1, <1>3 DEF IInv, Base, EarlierSets
<1>8. Descriptors'
  <2>1. streams <= Before + 3 /\ Before \in Nat /\ streams \in Nat
    <3>1. Before \in Nat
      BY <1>2, DiscIsTyped DEF TypeOK, Before
    <3> QED BY <1>2, <3>1 DEF IInv, Base, Descriptors, Working, TypeOK
  <2>2. Before' = Before
    BY <1>1 DEF Before
  <2> QED BY <1>1, <2>1, <2>2 DEF Descriptors
<1>9. Closing'
  BY <1>1 DEF IInv, Base, Closing, Working
<1> QED BY <1>3, <1>4, <1>5, <1>6, <1>7, <1>8, <1>9 DEF IInv, Base

(* All the places where DVDCopyIfoBup, DVDCopyMenu and DVDCopyTitleVobX fail. *)
LEMMA FailuresKeepIInv ==
  ASSUME IInv,
         \/ RefuseIfo \/ OpenIfoFails \/ OpenBupFails \/ IfoFails
         \/ OpenMenuFails \/ CopyMenuFails \/ OpenVobFails \/ CopyVobFails
  PROVE  Base'
<1>1. TypeOK /\ Descriptors /\ Before \in Nat
  BY DiscIsTyped DEF IInv, Base, TypeOK, Before
<1>2. \A n \in 0..2 : n \in Nat
  OBVIOUS
<1>3. CASE RefuseIfo \/ OpenIfoFails \/ OpenMenuFails \/ OpenVobFails
  <2>1. Working /\ Fail(0)
    BY <1>3 DEF RefuseIfo, OpenIfoFails, OpenMenuFails, OpenVobFails, MoreVobs, Working
  <2>2. 0 <= streams
    BY <1>1 DEF TypeOK
  <2> QED BY <2>1, <2>2, FailsSafely
<1>4. CASE OpenBupFails \/ CopyMenuFails \/ CopyVobFails
  <2>1. Working /\ Fail(1)
    BY <1>4 DEF OpenBupFails, CopyMenuFails, CopyVobFails, Working
  <2>2. 1 <= streams
    BY <1>1, <1>4 DEF TypeOK, Descriptors, OpenBupFails, CopyMenuFails, CopyVobFails
  <2> QED BY <2>1, <2>2, FailsSafely
<1>5. CASE IfoFails
  <2>1. Working /\ Fail(2)
    BY <1>5 DEF IfoFails, Working
  <2>2. 2 <= streams
    BY <1>1, <1>5 DEF TypeOK, Descriptors, IfoFails
  <2> QED BY <2>1, <2>2, FailsSafely
<1> QED BY <1>3, <1>4, <1>5

(* Before the first step nothing has been written by this run.              *)
LEMMA BeginningsKeepIInv ==
  ASSUME IInv, FileSetFails \/ NoSuchTitleSet \/ FileSet
  PROVE  Base'
<1>1. /\ pc = "file_set" /\ disc' = disc /\ call' = call /\ run' = run
      /\ files' = files /\ streams' = streams /\ vob' = vob
  BY DEF FileSetFails, NoSuchTitleSet, FileSet, request, Stay
<1>2. TypeOK /\ Touched /\ Choice /\ Descriptors /\ Closing
  BY DEF IInv, Base
<1>3. VobPlaces' /\ BackupComesSecond'
  BY <1>1, FilesStay DEF request
<1>4. streams = 0 /\ closed = 0 /\ result # 0
  BY <1>1, <1>2 DEF Descriptors, Closing, Choice, TypeOK
<1>5. \A f \in File : files[f].run # run /\ files[f].run <= run
  BY <1>1, <1>2 DEF Touched
<1>6. Touched'
  BY <1>1, <1>5 DEF Touched
<1>7. CASE FileSetFails \/ NoSuchTitleSet
  <2>1. /\ title_set' = title_set /\ pc' = "returned" /\ result' = 1
        /\ closed' \in 0..1
    <3>1. CASE FileSetFails
      <4>1. closed' = 0 \/ closed' = 1
        BY <1>4, <3>1 DEF FileSetFails
      <4>2. title_set' = title_set /\ pc' = "returned" /\ result' = 1
        BY <3>1 DEF FileSetFails, Stay, Return
      <4>3. closed' \in 0..1
        BY <4>1
      <4> QED BY <4>2, <4>3, Zenon
    <3>2. CASE NoSuchTitleSet
      BY <1>4, <3>2 DEF NoSuchTitleSet, Stay, Return
    <3> QED BY <1>7, <3>1, <3>2
  <2>2. TypeOK'
    BY <1>1, <1>2, <2>1 DEF TypeOK
  <2>3. Phase' /\ CurrentSet' /\ Choice' /\ Closing'
    BY <2>1 DEF Phase, CurrentSet, AtMenu, AtVobs, Succeeded, Choice, Working, Closing
  <2>4. EarlierSets'
    BY <1>1, <2>1, FilesStay DEF IInv, Base, EarlierSets, request
  <2>5. Descriptors'
    <3>1. Before' \in Nat
      BY <1>1, <1>2, <2>1, DiscIsTyped DEF TypeOK, Before
    <3>2. streams' <= Before' + 3
      <4>1. streams' = 0
        BY <1>1, <1>4
      <4>2. \A before \in Nat : 0 <= before + 3
        OBVIOUS
      <4> QED BY <3>1, <4>1, <4>2, Zenon
    <3> QED BY <2>1, <3>2 DEF Descriptors
  <2> QED BY <1>3, <1>6, <2>2, <2>3, <2>4, <2>5 DEF IInv, Base
<1>8. CASE FileSet
  <2>1. /\ title_set' \in Chosen /\ title_set' \in DOMAIN disc /\ pc' = "ifo"
        /\ closed' = closed /\ result' = result
    BY <1>8 DEF FileSet
  <2>2. TypeOK'
    BY <1>1, <1>2, <2>1 DEF TypeOK
  <2>3. Phase' /\ CurrentSet' /\ Closing'
    BY <1>4, <2>1 DEF Phase, CurrentSet, AtMenu, AtVobs, Succeeded, Working, Closing
  <2>4. EarlierSets'
    <3>1. ASSUME call.mode = "mirror" PROVE title_set' = 0
      BY <2>1, <3>1 DEF Chosen
    <3>2. \A u \in DOMAIN disc : ~(u < 0)
      BY <1>2, DiscIsTyped DEF TypeOK
    <3> QED BY <1>1, <3>1, <3>2 DEF EarlierSets
  <2>5. Choice'
    <3>1. ASSUME call.mode = "title_set" PROVE title_set' = call.title_set
      BY <2>1, <3>1 DEF Chosen
    <3> QED BY <1>1, <1>4, <2>1, <3>1 DEF Choice, Succeeded
  <2>6. Descriptors'
    <3>1. Before' \in Nat
      BY <1>1, <1>2, <2>1, DiscIsTyped DEF TypeOK, Before
    <3>2. streams' <= Before'
      BY <1>1, <1>4, <3>1
    <3> QED BY <2>1, <3>2 DEF Descriptors
  <2> QED BY <1>3, <1>6, <2>2, <2>3, <2>4, <2>5, <2>6 DEF IInv, Base
<1> QED BY <1>7, <1>8

(* The files that a title set does not have are passed over, and the IFO is *)
(* read.                                                                    *)
LEMMA SkipsKeepIInv ==
  ASSUME IInv, SkipIfo \/ ReadIfo \/ SkipMenu \/ SkipVob
  PROVE  Base'
<1>1. /\ Working /\ disc' = disc /\ call' = call /\ run' = run /\ files' = files
      /\ streams' = streams /\ title_set' = title_set
      /\ closed' = closed /\ result' = result
  BY DEF SkipIfo, ReadIfo, SkipMenu, SkipVob, request, report, Stay, Working, MoreVobs
<1>2. TypeOK /\ Touched /\ Phase /\ CurrentSet /\ EarlierSets /\ Choice
      /\ Descriptors /\ Closing
  BY DEF IInv, Base
<1>3. /\ VobPlaces' /\ BackupComesSecond'
      /\ \A t, slot : IsDone(t, slot)' <=> IsDone(t, slot)
      /\ \A t : IsCopied(t)' <=> IsCopied(t)
  BY <1>1, FilesStay DEF request
<1>4. result # 0 /\ ~Succeeded /\ ~Succeeded'
  BY <1>1, <1>2 DEF Working, Choice, Succeeded
<1>5. /\ Set.size_ifo \in Nat /\ Set.size_menu \in Nat /\ Set.size_vob \in Seq(Nat)
      /\ Len(Set.size_vob) \in 0..MaxPart /\ Set' = Set
  BY <1>1, <1>2, DiscIsTyped DEF TypeOK, Set
<1>6. pc' # "ifo" /\ Working'
  BY <1>1 DEF SkipIfo, ReadIfo, SkipMenu, SkipVob, MoreVobs, Working
<1>7. Before' = Before /\ Before \in Nat
  BY <1>1, <1>2, DiscIsTyped DEF Before, TypeOK
<1>8. Touched'
  BY <1>1, <1>2, <1>6 DEF Touched, Working
<1>9. EarlierSets' /\ Choice' /\ Closing'
  BY <1>1, <1>2, <1>3, <1>4, <1>6 DEF EarlierSets, Choice, Closing, Working
<1>10. CASE SkipIfo
  <2>1. pc = "ifo" /\ Set.size_ifo = 0 /\ pc' = "menu" /\ vob' = vob
    BY <1>10 DEF SkipIfo, Stay
  <2>2. TypeOK' /\ Phase' /\ CurrentSet' /\ Descriptors'
    <3>1. TypeOK'
      BY <1>1, <1>2, <2>1 DEF TypeOK
    <3>2. Phase'
      BY <2>1 DEF Phase
    <3>3. CurrentSet'
      BY <1>4, <1>5, <2>1 DEF CurrentSet, AtMenu, AtVobs
    <3>4. Descriptors'
      BY <1>1, <1>2, <1>7, <2>1 DEF Descriptors, TypeOK
    <3> QED BY <3>1, <3>2, <3>3, <3>4
  <2> QED BY <1>3, <1>8, <1>9, <2>2 DEF IInv, Base
<1>11. CASE ReadIfo
  <2>1. pc = "read_ifo" /\ pc' = "write_ifo" /\ vob' = vob
    BY <1>11 DEF ReadIfo, Stay
  <2>2. TypeOK' /\ Phase' /\ CurrentSet' /\ Descriptors'
    <3>1. TypeOK'
      BY <1>1, <1>2, <2>1 DEF TypeOK
    <3>2. Phase'
      BY <1>1, <1>2, <2>1 DEF Phase, Cur, At
    <3>3. CurrentSet'
      BY <1>4, <1>5, <2>1 DEF CurrentSet, AtMenu, AtVobs
    <3>4. Descriptors'
      BY <1>1, <1>2, <1>7, <2>1 DEF Descriptors, TypeOK
    <3> QED BY <3>1, <3>2, <3>3, <3>4
  <2> QED BY <1>3, <1>8, <1>9, <2>2 DEF IInv, Base
<1>12. CASE SkipMenu
  <2>1. pc = "menu" /\ Set.size_menu = 0 /\ pc' = "vob" /\ vob' = 1
    BY <1>12 DEF SkipMenu
  <2>2. TypeOK' /\ Phase' /\ CurrentSet' /\ Descriptors'
    <3>1. TypeOK'
      <4>1. 1 \in 0..MaxPart + 1
        BY MirrorAssumption
      <4> QED BY <1>1, <1>2, <2>1, <4>1 DEF TypeOK
    <3>2. Phase'
      BY <2>1 DEF Phase
    <3>3. CurrentSet'
      <4>1. 1 \in 1..(Len(Set.size_vob) + 1) /\ 1..(1 - 1) = {}
        BY <1>5
      <4>2. Set.size_ifo > 0 => IsDone(title_set, IFO) /\ IsDone(title_set, BUP)
        BY <1>2, <2>1 DEF CurrentSet, AtMenu
      <4> QED BY <1>1, <1>3, <1>4, <1>5, <2>1, <4>1, <4>2 DEF CurrentSet
    <3>4. Descriptors'
      BY <1>1, <1>2, <1>7, <2>1 DEF Descriptors, TypeOK
    <3> QED BY <3>1, <3>2, <3>3, <3>4
  <2> QED BY <1>3, <1>8, <1>9, <2>2 DEF IInv, Base
<1>13. CASE SkipVob
  <2>1. /\ pc = "vob" /\ pc' = "vob" /\ vob' = vob + 1 /\ vob <= Len(Set.size_vob)
        /\ Set.size_vob[1] = 0 \/ Set.size_vob[vob] = 0
    BY <1>13 DEF SkipVob, MoreVobs, IsEmptyVob, number_of_vob_files
  <2>2. /\ vob \in 1..(Len(Set.size_vob) + 1)
        /\ \A v \in 1..(vob - 1) :
             Set.size_vob[1] > 0 /\ Set.size_vob[v] > 0 => IsDone(title_set, v)
        /\ Set.size_ifo > 0 => IsDone(title_set, IFO) /\ IsDone(title_set, BUP)
        /\ Set.size_menu > 0 => IsDone(title_set, MENU)
    BY <1>2, <2>1 DEF CurrentSet, AtMenu, AtVobs
  <2>3. TypeOK' /\ Phase' /\ CurrentSet' /\ Descriptors'
    <3>1. TypeOK'
      <4>1. vob + 1 \in 0..MaxPart + 1
        BY <1>5, <2>1, <2>2, MirrorAssumption
      <4> QED BY <1>1, <1>2, <2>1, <4>1 DEF TypeOK
    <3>2. Phase'
      BY <2>1 DEF Phase
    <3>3. CurrentSet'
      <4>1. vob' \in 1..(Len(Set.size_vob) + 1)
        BY <1>5, <2>1, <2>2
      <4>2. \A v \in 1..(vob' - 1) : v \in 1..(vob - 1) \/ v = vob
        BY <2>1, <2>2
      <4>3. \A v \in 1..(vob' - 1) :
              Set.size_vob[1] > 0 /\ Set.size_vob[v] > 0 => IsDone(title_set, v)
        BY <2>1, <2>2, <4>2
      <4> QED BY <1>1, <1>3, <1>4, <1>5, <2>1, <2>2, <4>1, <4>3 DEF CurrentSet
    <3>4. Descriptors'
      BY <1>1, <1>2, <1>7, <2>1 DEF Descriptors
    <3> QED BY <3>1, <3>2, <3>3, <3>4
  <2> QED BY <1>3, <1>8, <1>9, <2>3 DEF IInv, Base
<1> QED BY <1>10, <1>11, <1>12, <1>13

(* What is done is whole if it consists of whole blocks.                    *)
LEMMA WholeBlocks ==
  \A n \in Nat : Blocks(n) * DVD_VIDEO_LB_LEN = n <=> IsValidSize(n)
<1> SUFFICES ASSUME NEW n \in Nat
             PROVE  Blocks(n) * DVD_VIDEO_LB_LEN = n <=> IsValidSize(n)
  OBVIOUS
<1> DEFINE len == DVD_VIDEO_LB_LEN
           q == n \div len
           r == n % len
<1>1. len \in Nat /\ len > 0
  BY MirrorAssumption
<1>2. q \in Int /\ r \in Int /\ n = len * q + r /\ len * q = q * len
  BY <1>1
<1>3. Blocks(n) * len = q * len /\ (IsValidSize(n) <=> r = 0)
  BY DEF Blocks, IsValidSize
<1> DEFINE product == len * q
<1>4. product \in Int
  BY <1>1, <1>2
<1>5. Blocks(n) * len = product /\ n = product + r
  BY <1>2, <1>3
<1> HIDE DEF product, q, r, len
<1>6. product = n <=> r = 0
  BY <1>2, <1>4, <1>5
<1> QED BY <1>3, <1>5, <1>6 DEF len

LEMMA DoneIsWhole ==
  ASSUME disc \in Discs, NEW t \in DOMAIN disc, NEW slot \in IFO..MaxPart, IsDone(t, slot)
  PROVE  IsWhole(t, slot) <=> IsValidSize(Bytes(t, slot))
<1>1. Bytes(t, slot) \in Nat
  BY BytesType
<1> QED BY <1>1, WholeBlocks DEF IsDone, IsWhole

(* Behind its last VOB the current title set is as complete as it gets.     *)
LEMMA CurrentSetIsCopied ==
  ASSUME TypeOK, CurrentSet, VobPlaces, Sizes, AtVobs, vob > Len(Set.size_vob)
  PROVE  IsCopied(title_set)
<1> DEFINE t == title_set
           Short == {slot \in Present(t) : ~IsWhole(t, slot)}
<1>1. /\ disc \in Discs /\ t \in DOMAIN disc /\ disc[t] = Set
      /\ Set.size_ifo \in Nat /\ Set.size_menu \in Nat /\ Set.size_vob \in Seq(Nat)
      /\ Len(Set.size_vob) \in 0..MaxPart
  BY DiscIsTyped DEF TypeOK, Set
<1>2. /\ Set.size_ifo > 0 => IsDone(t, IFO) /\ IsDone(t, BUP) /\ IsValidSize(Set.size_ifo)
      /\ Set.size_menu > 0 => IsDone(t, MENU)
      /\ vob \in 1..(Len(Set.size_vob) + 1)
      /\ \A v \in 1..(vob - 1) : Set.size_vob[1] > 0 /\ Set.size_vob[v] > 0 =>
           IsDone(t, v) /\ IsValidSize(Set.size_vob[v])
  BY DEF CurrentSet, Sizes, AtMenu
<1>3. vob - 1 = Len(Set.size_vob)
  BY <1>1, <1>2
<1>4. ASSUME NEW slot \in IFO..MaxPart
      PROVE  /\ slot \in {IFO, BUP} => Bytes(t, slot) = Set.size_ifo
             /\ slot = MENU => Bytes(t, slot) = Set.size_menu
             /\ slot \in 1..Len(Set.size_vob) => Bytes(t, slot) = Set.size_vob[slot]
             /\ slot > Len(Set.size_vob) => Bytes(t, slot) = 0
             /\ IsDone(t, slot) => (IsWhole(t, slot) <=> IsValidSize(Bytes(t, slot)))
  BY <1>1, <1>4, BytesType, DoneIsWhole
<1>5. /\ CutOff(t) = IF IsValidSize(Set.size_menu) THEN {} ELSE {MENU}
      /\ PassedOver(t) = IF Set.size_vob # <<>> /\ Set.size_vob[1] = 0
                         THEN Present(t) \cap 1..MaxPart ELSE {}
  BY <1>1 DEF CutOff, PassedOver
<1>6. ASSUME NEW slot \in Present(t)
      PROVE  slot \in Short <=> slot \in CutOff(t) \cup PassedOver(t)
  <2>1. slot \in IFO..MaxPart /\ Bytes(t, slot) > 0
    BY DEF Present
  <2>2. CASE slot \in {IFO, BUP}
    <3>1. IsWhole(t, slot)
      BY <1>2, <1>4, <2>1, <2>2
    <3>2. slot # MENU /\ slot \notin 1..MaxPart
      BY <2>2, MirrorAssumption DEF IFO, BUP, MENU
    <3> QED BY <1>5, <3>1, <3>2
  <2>3. CASE slot = MENU
    <3>1. IsWhole(t, slot) <=> IsValidSize(Set.size_menu)
      BY <1>2, <1>4, <2>1, <2>3
    <3>2. slot \notin 1..MaxPart
      BY <2>3, MirrorAssumption DEF MENU
    <3> QED BY <1>5, <2>3, <3>1, <3>2
  <2>4. CASE slot \in 1..Len(Set.size_vob)
    <3>1. /\ slot \in 1..MaxPart /\ slot # MENU /\ slot \in 1..(vob - 1)
          /\ Set.size_vob # <<>> /\ Set.size_vob[1] \in Nat /\ Set.size_vob[slot] > 0
      BY <1>1, <1>3, <1>4, <2>1, <2>4, MirrorAssumption DEF MENU
    <3>2. CASE Set.size_vob[1] > 0
      <4>1. IsWhole(t, slot)
        BY <1>2, <1>4, <2>1, <2>4, <3>1, <3>2
      <4> QED BY <1>5, <3>1, <3>2, <4>1
    <3>3. CASE Set.size_vob[1] = 0
      <4>1. ~IsWhole(t, slot)
        BY <1>1, <3>1, <3>3 DEF VobPlaces, IsWhole
      <4> QED BY <1>5, <3>1, <3>3, <4>1
    <3> QED BY <3>1, <3>2, <3>3
  <2>5. slot \in {IFO, BUP, MENU} \/ slot \in 1..Len(Set.size_vob)
    <3>1. ~(slot > Len(Set.size_vob))
      BY <1>4, <2>1
    <3> QED BY <1>1, <2>1, <3>1, MirrorAssumption DEF IFO, BUP, MENU
  <2> QED BY <2>2, <2>3, <2>4, <2>5
<1>7. CutOff(t) \cup PassedOver(t) \subseteq Present(t)
  <2>1. ASSUME ~IsValidSize(Set.size_menu) PROVE MENU \in Present(t)
    <3>1. MENU \in IFO..MaxPart
      BY MirrorAssumption DEF IFO, MENU
    <3>2. Set.size_menu # 0
      BY <2>1, MirrorAssumption DEF IsValidSize
    <3>3. Bytes(t, MENU) > 0
      BY <1>1, <1>4, <3>1, <3>2
    <3> QED BY <3>1, <3>3 DEF Present
  <2> QED BY <1>5, <2>1
<1>8. Short = CutOff(t) \cup PassedOver(t)
  BY <1>6, <1>7
<1> QED BY <1>8 DEF IsCopied

(* The loop of DVDMirror: a title set is done, and the next one follows.    *)
LEMMA NextSetKeepsIInv ==
  ASSUME IInv, NextSet
  PROVE  Base'
<1>1. /\ pc = "vob" /\ vob > Len(Set.size_vob) /\ call.mode = "mirror"
      /\ title_set < number_of_title_sets /\ title_set' = title_set + 1 /\ pc' = "ifo"
      /\ disc' = disc /\ call' = call /\ run' = run /\ files' = files
      /\ streams' = streams /\ vob' = vob
      /\ closed' = closed /\ result' = result
  BY DEF NextSet, SetIsDone, number_of_vob_files, request, report
<1>2. /\ TypeOK /\ Touched /\ CurrentSet /\ EarlierSets /\ Choice
      /\ Descriptors /\ Closing
  BY DEF IInv, Base
<1>3. /\ VobPlaces' /\ BackupComesSecond'
      /\ \A t : IsCopied(t)' <=> IsCopied(t)
  BY <1>1, FilesStay DEF request
<1>4. /\ title_set \in 0..number_of_title_sets /\ title_set' \in DOMAIN disc
      /\ \A u \in DOMAIN disc : u \in Nat
  BY <1>1, <1>2, DiscIsTyped DEF TypeOK
<1>5. TypeOK'
  BY <1>1, <1>2, <1>4 DEF TypeOK
<1>6. Touched'
  <2> SUFFICES ASSUME NEW f \in File
               PROVE  /\ files[f].run <= run
                      /\ files[f].run = run => f[1] <= title_set' /\ f[1] # title_set'
    BY <1>1 DEF Touched
  <2>1. files[f].run <= run /\ (files[f].run = run => f[1] <= title_set)
    BY <1>1, <1>2 DEF Touched
  <2>2. f[1] \in 0..MaxSet
    BY DEF File
  <2> QED BY <1>1, <1>4, <2>1, <2>2, MirrorAssumption
<1>7. Phase' /\ CurrentSet' /\ Choice' /\ Closing'
  <2>1. result # 0
    BY <1>1, <1>2 DEF Choice
  <2> QED BY <1>1, <1>2, <2>1
       DEF Phase, CurrentSet, AtMenu, AtVobs, Succeeded, Choice, Working, Closing
<1>8. EarlierSets'
  <2>1. IsCopied(title_set)
    BY <1>1, <1>2, CurrentSetIsCopied DEF AtVobs, IInv, Base
  <2>2. \A u \in DOMAIN disc : u < title_set' => u < title_set \/ u = title_set
    BY <1>1, <1>4
  <2> QED BY <1>1, <1>2, <1>3, <2>1, <2>2 DEF EarlierSets
<1>9. Descriptors'
  <2>1. streams <= 2 * title_set + 2 /\ 2 * (title_set + 1) = 2 * title_set + 2
    BY <1>1, <1>2, <1>4 DEF Descriptors, Before
  <2>2. streams' <= 2 * title_set'
    BY <1>1, <2>1
  <2> QED BY <1>1, <2>2 DEF Descriptors, Before
<1> QED BY <1>3, <1>5, <1>6, <1>7, <1>8, <1>9 DEF IInv, Base

(* The function returns, the program exits, or it is killed.                *)
LEMMA EndingsKeepIInv ==
  ASSUME IInv, AllDone \/ Exit \/ Killed
  PROVE  Base'
<1>1. /\ disc' = disc /\ call' = call /\ run' = run /\ files' = files
      /\ title_set' = title_set /\ vob' = vob
  BY DEF AllDone, Exit, Killed, request, report, Stay
<1>2. /\ TypeOK /\ Touched /\ CurrentSet /\ EarlierSets /\ Choice
      /\ Descriptors /\ Closing
  BY DEF IInv, Base
<1>3. /\ VobPlaces' /\ BackupComesSecond'
      /\ \A t, slot : IsDone(t, slot)' <=> IsDone(t, slot)
      /\ \A t : IsCopied(t)' <=> IsCopied(t)
  BY <1>1, FilesStay DEF request
<1>4. EarlierSets' /\ Set' = Set
  BY <1>1, <1>2, <1>3 DEF EarlierSets, Set
<1>5. ASSUME pc' # "ifo", pc' # "file_set", pc # "file_set" PROVE Touched'
  BY <1>1, <1>2, <1>5 DEF Touched
<1>6. Before \in Nat /\ Before' = Before
  BY <1>1, <1>2, DiscIsTyped DEF Before, TypeOK
<1>7. CASE AllDone
  <2>1. /\ pc = "vob" /\ vob > Len(Set.size_vob) /\ pc' = "returned" /\ result' = 0
        /\ (call.mode = "mirror" => title_set >= number_of_title_sets)
        /\ streams' = streams /\ closed' = closed
    BY <1>7 DEF AllDone, SetIsDone, number_of_vob_files, Return
  <2>2. TypeOK' /\ Touched'
    BY <1>1, <1>2, <1>5, <2>1 DEF TypeOK
  <2>3. Phase' /\ Closing'
    BY <1>1, <1>2, <2>1 DEF Phase, Closing, Working
  <2>4. CurrentSet'
    <3>1. AtVobs /\ AtMenu
      BY <2>1 DEF AtVobs, AtMenu
    <3> QED BY <1>1, <1>2, <1>3, <1>4, <2>1, <3>1 DEF CurrentSet
  <2>5. Choice'
    BY <1>1, <1>2, <2>1 DEF Choice, Working, number_of_title_sets
  <2>6. Descriptors'
    <3>1. streams <= Before + 3
      BY <1>2, <1>6, <2>1 DEF Descriptors, TypeOK
    <3> QED BY <1>6, <2>1, <3>1 DEF Descriptors
  <2> QED BY <1>3, <1>4, <2>2, <2>3, <2>4, <2>5, <2>6 DEF IInv, Base
<1>8. CASE Exit
  <2>1. /\ pc = "returned" /\ pc' = "exited" /\ closed' = closed + 1 /\ streams' = 0
        /\ result' = result
    BY <1>8 DEF Exit
  <2>2. TypeOK' /\ Touched'
    <3>1. closed \in 0..1
      BY <1>2, <2>1 DEF Closing
    <3>2. closed' \in 0..2 /\ streams' \in Nat
      BY <2>1, <3>1
    <3>3. Touched'
      BY <1>5, <2>1
    <3> QED BY <1>1, <1>2, <2>1, <3>2, <3>3 DEF TypeOK
  <2>3. Phase' /\ Closing'
    BY <1>1, <1>2, <2>1 DEF Phase, Closing, Working
  <2>4. CurrentSet'
    <3>1. (Succeeded' <=> Succeeded) /\ (AtVobs' <=> Succeeded') /\ (AtMenu' <=> Succeeded')
          /\ (Succeeded => AtVobs) /\ (Succeeded => AtMenu)
      BY <2>1 DEF AtVobs, AtMenu, Succeeded
    <3> QED BY <1>1, <1>2, <1>3, <1>4, <3>1 DEF CurrentSet
  <2>5. Choice'
    BY <1>1, <1>2, <2>1 DEF Choice, Working, Succeeded, number_of_title_sets
  <2>6. Descriptors'
    BY <2>1 DEF Descriptors
  <2> QED BY <1>3, <1>4, <2>2, <2>3, <2>4, <2>5, <2>6 DEF IInv, Base
<1>9. CASE Killed
  <2>1. pc' = "killed" /\ streams' = 0 /\ closed' = closed /\ result' = result
    BY <1>9 DEF Killed, report
  <2>2. TypeOK'
    BY <1>1, <1>2, <2>1 DEF TypeOK
  <2>3. Touched'
    BY <1>1, <1>2, <2>1 DEF Touched
  <2>4. Phase' /\ Closing' /\ CurrentSet' /\ Choice' /\ Descriptors'
    BY <1>1, <1>2, <2>1 DEF Phase, Closing, Working, CurrentSet, AtMenu, AtVobs,
                            Succeeded, Choice, Descriptors
  <2> QED BY <1>3, <1>4, <2>2, <2>3, <2>4 DEF IInv, Base
<1> QED BY <1>7, <1>8, <1>9

(* The next run finds the files of the runs before it.                      *)
LEMMA RunAgainKeepsIInv ==
  ASSUME IInv, RunAgain
  PROVE  Base'
<1>1. /\ run < MaxRuns /\ disc' \in Discs /\ call' \in Calls /\ run' = run + 1
      /\ pc' = "file_set" /\ title_set' = 0 /\ vob' = 0 /\ streams' = 0
      /\ closed' = 0 /\ result' = -1 /\ files' = files
  BY DEF RunAgain
<1>2. TypeOK /\ Touched /\ BackupComesSecond
  BY DEF IInv, Base
<1>3. run \in 1..MaxRuns /\ MaxRuns \in Nat /\ MaxPart \in Nat
  BY <1>2, MirrorAssumption DEF TypeOK
<1>4. \A f \in File : files[f].run \in Nat /\ files[f].run < run'
  BY <1>1, <1>2, <1>3 DEF Touched, TypeOK
<1>5. 0 \in DOMAIN disc' /\ \A u \in DOMAIN disc' : ~(u < 0)
  <2>1. IsDisc(disc') /\ MaxSet \in Nat
    BY <1>1, MirrorAssumption
  <2> QED BY <2>1 DEF IsDisc
<1>6. TypeOK'
  <2>1. run' \in 1..MaxRuns /\ 0 \in 0..MaxPart + 1
    BY <1>1, <1>3
  <2>2. title_set' \in DOMAIN disc' /\ vob' \in 0..MaxPart + 1
    BY <1>1, <1>5, <2>1
  <2>3. files \in [File -> Contents]
    BY <1>2 DEF TypeOK, Contents
  <2>4. files' \in [File -> Contents]
    BY <1>1, <2>3
  <2>5. closed' \in 0..2
    BY <1>1
  <2> QED BY <1>1, <2>1, <2>2, <2>4, <2>5 DEF TypeOK, Contents
<1>7. Touched'
  <2>1. \A f \in File : files[f].run <= run' /\ files[f].run # run'
    BY <1>1, <1>3, <1>4
  <2> QED BY <1>1, <2>1 DEF Touched
<1>8. VobPlaces'
  <2>1. \A t \in DOMAIN disc', v \in 1..MaxPart : files'[<<t, v>>].run # run'
    <3> TAKE t \in DOMAIN disc', v \in 1..MaxPart
    <3>1. IsDisc(disc') /\ MaxSet \in Nat
      BY <1>1, MirrorAssumption
    <3>2. t \in 0..MaxSet /\ v \in IFO..MaxPart
      BY <1>3, <3>1 DEF IsDisc, IFO
    <3>3. <<t, v>> \in File
      BY <3>2 DEF File
    <3> QED BY <1>1, <1>3, <1>4, <3>3
  <2> QED BY <2>1 DEF VobPlaces
<1>9. Phase' /\ CurrentSet' /\ Choice' /\ Closing' /\ Descriptors'
  BY <1>1 DEF Phase, CurrentSet, AtMenu, AtVobs, Succeeded, Choice, Working, Closing,
              Descriptors
<1>10. EarlierSets'
  BY <1>1, <1>5 DEF EarlierSets
<1>11. BackupComesSecond'
  BY <1>1, <1>2 DEF BackupComesSecond
<1> QED BY <1>6, <1>7, <1>8, <1>9, <1>10, <1>11 DEF IInv, Base

-----------------------------------------------------------------------------
(* Steps that write a file.                                                 *)

(* One file of the current title set changes, and nothing else.             *)
LEMMA WritesOneFile ==
  ASSUME IInv, Working, Working', pc' # "ifo", UNCHANGED <<request, report>>,
         title_set' = title_set, NEW slot \in IFO..MaxPart,
         NEW c \in Contents, c.run = run, files' = [files EXCEPT ![At(slot)] = c]
  PROVE  /\ files' \in [File -> Contents] /\ Touched' /\ EarlierSets' /\ Choice' /\ Closing'
         /\ ~Succeeded /\ ~Succeeded' /\ Set' = Set
         /\ Cur(slot)' = c
         /\ \A other \in IFO..MaxPart : other # slot =>
              /\ files'[<<title_set, other>>] = files[<<title_set, other>>]
              /\ IsDone(title_set, other)' <=> IsDone(title_set, other)
         /\ \A t \in 0..MaxSet, other \in IFO..MaxPart :
              t # title_set => files'[<<t, other>>] = files[<<t, other>>]
         /\ slot \notin {IFO, BUP} => BackupComesSecond'
         /\ c.state = "begun" \/ slot \notin 1..MaxPart => VobPlaces'
<1>1. /\ disc' = disc /\ call' = call /\ run' = run
      /\ closed' = closed /\ result' = result
  BY DEF request, report
<1>2. /\ TypeOK /\ Touched /\ EarlierSets /\ Choice /\ Closing /\ VobPlaces
      /\ BackupComesSecond
  BY DEF IInv, Base
<1>3. files \in [File -> Contents] /\ run \in 1..MaxRuns
  BY <1>2 DEF TypeOK, Contents
<1>4. \A t \in DOMAIN disc : t \in 0..MaxSet
  BY <1>2, DiscIsTyped DEF TypeOK
<1>5. title_set \in DOMAIN disc /\ title_set \in 0..MaxSet
  BY <1>2, <1>4 DEF TypeOK
<1>6. <<title_set, slot>> \in File /\ At(slot) = <<title_set, slot>>
  BY <1>5 DEF File, At
<1>7. files' = [files EXCEPT ![<<title_set, slot>>] = c]
  BY <1>6
<1>8. /\ files' \in [File -> Contents]
      /\ files'[<<title_set, slot>>] = c
      /\ \A f \in File : f # <<title_set, slot>> => files'[f] = files[f]
  BY <1>3, <1>6, <1>7
<1>9. \A t \in 0..MaxSet, other \in IFO..MaxPart :
        <<t, other>> \in File /\ (<<t, other>> = <<title_set, slot>> => t = title_set /\ other = slot)
  BY DEF File
<1>10. \A t \in 0..MaxSet, other \in IFO..MaxPart :
         t # title_set \/ other # slot => files'[<<t, other>>] = files[<<t, other>>]
  BY <1>8, <1>9
<1>11. Touched'
  <2> SUFFICES ASSUME NEW f \in File
               PROVE  /\ files'[f].run <= run
                      /\ files'[f].run = run =>
                           IF call.mode = "mirror" THEN f[1] <= title_set
                                                   ELSE f[1] = title_set
    BY <1>1 DEF Touched, Working
  <2>1. CASE f = <<title_set, slot>>
    <3>1. f[1] = title_set /\ files'[f].run = run
      BY <1>8, <2>1
    <3>2. run <= run /\ title_set <= title_set
      BY <1>3, <1>5
    <3> QED BY <3>1, <3>2
  <2>2. CASE f # <<title_set, slot>>
    <3>1. files'[f] = files[f]
      BY <1>8, <2>2
    <3> QED BY <1>2, <3>1 DEF Touched
  <2> QED BY <2>1, <2>2
<1>12. EarlierSets'
  <2> SUFFICES ASSUME call.mode = "mirror", NEW u \in DOMAIN disc, u < title_set
               PROVE  IsCopied(u)'
    BY <1>1 DEF EarlierSets
  <2>1. IsCopied(u)
    BY <1>2 DEF EarlierSets
  <2>2. u \in 0..MaxSet /\ u # title_set
    BY <1>4, <1>5
  <2>3. \A other \in IFO..MaxPart : files'[<<u, other>>] = files[<<u, other>>]
    BY <1>10, <2>2
  <2>4. \A other \in IFO..MaxPart : IsWhole(u, other)' <=> IsWhole(u, other)
    BY <1>1, <2>3 DEF IsWhole, Bytes
  <2>5. /\ Present(u)' = Present(u) /\ CutOff(u)' = CutOff(u)
        /\ PassedOver(u)' = PassedOver(u)
    BY <1>1 DEF Present, CutOff, PassedOver, Bytes
  <2>6. Present(u) \subseteq IFO..MaxPart
    BY DEF Present
  <2> QED BY <2>1, <2>4, <2>5, <2>6 DEF IsCopied
<1>13. Choice' /\ Closing' /\ ~Succeeded /\ ~Succeeded' /\ Set' = Set
  BY <1>1, <1>2 DEF Choice, Closing, Succeeded, Working, Set
<1>14. Cur(slot)' = c
  BY <1>6, <1>8 DEF Cur, At
<1>15. \A other \in IFO..MaxPart : other # slot =>
         /\ files'[<<title_set, other>>] = files[<<title_set, other>>]
         /\ IsDone(title_set, other)' <=> IsDone(title_set, other)
  <2> TAKE other \in IFO..MaxPart
  <2> HAVE other # slot
  <2>1. files'[<<title_set, other>>] = files[<<title_set, other>>]
    BY <1>5, <1>10
  <2> QED BY <1>1, <2>1 DEF IsDone, Bytes
<1>16. ASSUME slot \notin {IFO, BUP} PROVE BackupComesSecond'
  <2>1. IFO \in IFO..MaxPart /\ BUP \in IFO..MaxPart
    BY MirrorAssumption DEF IFO, BUP
  <2>2. \A t \in 0..MaxSet : /\ files'[<<t, IFO>>] = files[<<t, IFO>>]
                             /\ files'[<<t, BUP>>] = files[<<t, BUP>>]
    BY <1>10, <1>16, <2>1
  <2> QED BY <1>2, <2>2 DEF BackupComesSecond
<1>17. ASSUME c.state = "begun" \/ slot \notin 1..MaxPart PROVE VobPlaces'
  <2> SUFFICES ASSUME NEW t \in DOMAIN disc, NEW v \in 1..MaxPart,
                      files'[<<t, v>>].run = run, files'[<<t, v>>].state = "done"
               PROVE  /\ v <= Len(disc[t].size_vob) /\ disc[t].size_vob[1] > 0
                      /\ files'[<<t, v>>].from = OffsetIn(disc[t].size_vob, v)
    BY <1>1 DEF VobPlaces
  <2>1. v \in IFO..MaxPart /\ t \in 0..MaxSet
    BY <1>4, MirrorAssumption DEF IFO
  <2>2. t # title_set \/ v # slot
    BY <1>8, <1>17
  <2>3. files'[<<t, v>>] = files[<<t, v>>]
    BY <1>10, <2>1, <2>2
  <2> QED BY <1>2, <2>3 DEF VobPlaces
<1> QED BY <1>8, <1>10, <1>11, <1>12, <1>13, <1>14, <1>15, <1>16, <1>17

(* What Begin and Done put into a file.                                     *)
LEMMA ContentsAreTyped ==
  ASSUME IInv
  PROVE  /\ Content("begun", run, 0, 0) \in Contents
         /\ \A from, blocks \in Nat : Content("done", run, from, blocks) \in Contents
         /\ Content("begun", run, 0, 0).run = run
         /\ Content("begun", run, 0, 0).state = "begun"
         /\ \A from, blocks :
              /\ Content("done", run, from, blocks).run = run
              /\ Content("done", run, from, blocks).state = "done"
              /\ Content("done", run, from, blocks).from = from
              /\ Content("done", run, from, blocks).blocks = blocks
         /\ {IFO, BUP, MENU} \subseteq IFO..MaxPart /\ 1..MaxPart \subseteq IFO..MaxPart
         /\ IFO # BUP /\ IFO # MENU /\ BUP # MENU
         /\ 1..MaxPart \cap {IFO, BUP, MENU} = {}
<1>1. run \in 0..MaxRuns
  BY MirrorAssumption DEF IInv, Base, TypeOK
<1> QED BY <1>1, MirrorAssumption DEF Content, Contents, IFO, BUP, MENU

(* The IFO is opened, and so truncated.  No BUP of this run is there yet,   *)
(* so that every complete BUP is older than the damage.                     *)
LEMMA OpenIfoKeepsIInv ==
  ASSUME IInv, OpenIfo
  PROVE  Base'
<1> DEFINE c == Content("begun", run, 0, 0)
<1>1. /\ pc = "ifo" /\ pc' = "bup" /\ disc' = disc /\ call' = call /\ run' = run
      /\ title_set' = title_set /\ vob' = vob /\ streams' = streams + 1
      /\ UNCHANGED <<request, report>> /\ files' = [files EXCEPT ![At(IFO)] = c]
      /\ closed' = closed /\ result' = result
      /\ Other \notin {files[At(IFO)], files[At(BUP)]}
  BY DEF OpenIfo, Begin, Stay, request, report
<1>2. /\ c \in Contents /\ c.run = run /\ c.state = "begun"
      /\ IFO \in IFO..MaxPart /\ BUP \in IFO..MaxPart /\ IFO \notin 1..MaxPart /\ IFO # BUP
  BY ContentsAreTyped
<1> HIDE DEF c
<1>3. Working /\ Working' /\ pc' # "ifo"
  BY <1>1 DEF Working
<1>4. /\ files' \in [File -> Contents] /\ Touched' /\ EarlierSets' /\ Choice' /\ Closing'
      /\ ~Succeeded' /\ VobPlaces' /\ Cur(IFO)' = c
      /\ files'[<<title_set, BUP>>] = files[<<title_set, BUP>>]
  BY <1>1, <1>2, <1>3, WritesOneFile
<1>5. TypeOK /\ Touched /\ Descriptors /\ BackupComesSecond
  BY DEF IInv, Base
<1>6. TypeOK'
  BY <1>1, <1>4, <1>5 DEF TypeOK, Contents
<1>7. Phase'
  <2>1. Cur(BUP)' # Other
    BY <1>1, <1>4 DEF Cur, At
  <2> QED BY <1>1, <1>2, <1>4, <2>1 DEF Phase
<1>8. CurrentSet'
  BY <1>1, <1>4 DEF CurrentSet, AtMenu, AtVobs
<1>9. Descriptors'
  <2>1. Before \in Nat /\ Before' = Before
    BY <1>1, <1>5, DiscIsTyped DEF Before, TypeOK
  <2>2. streams \in Nat /\ streams <= Before
    BY <1>1, <1>5 DEF Descriptors, TypeOK
  <2>3. streams' \in 1..(Before + 1)
    BY <1>1, <2>1, <2>2
  <2> QED BY <1>1, <2>1, <2>3 DEF Descriptors
<1>10. BackupComesSecond'
  <2> SUFFICES ASSUME NEW t \in 0..MaxSet, files'[<<t, BUP>>].state = "done"
               PROVE  \/ files'[<<t, IFO>>].run > files'[<<t, BUP>>].run
                      \/ /\ files'[<<t, IFO>>].state = "done"
                         /\ files'[<<t, IFO>>] = files'[<<t, BUP>>]
    BY DEF BackupComesSecond
  <2>1. <<t, IFO>> \in File /\ <<t, BUP>> \in File
    BY <1>2 DEF File
  <2>2. files \in [File -> Contents]
    BY <1>5 DEF TypeOK, Contents
  <2>3. files'[<<t, BUP>>] = files[<<t, BUP>>]
    BY <1>1, <1>2, <2>1, <2>2 DEF At
  <2>4. CASE t = title_set
    <3>1. files'[<<t, IFO>>].run = run
      BY <1>2, <1>4, <2>4, <1>1 DEF Cur, At
    <3>2. files[<<t, BUP>>].run <= run /\ files[<<t, BUP>>].run # run
      BY <1>1, <1>5, <2>1, <2>4 DEF Touched
    <3>3. files[<<t, BUP>>].run \in Int /\ run \in Int
      BY <1>5, <2>1 DEF TypeOK
    <3>4. files'[<<t, IFO>>].run > files'[<<t, BUP>>].run
      BY <2>3, <3>1, <3>2, <3>3
    <3> QED BY <3>4
  <2>5. CASE t # title_set
    <3>1. files'[<<t, IFO>>] = files[<<t, IFO>>]
      BY <1>1, <2>1, <2>2, <2>5 DEF At
    <3> QED BY <1>5, <2>3, <3>1 DEF BackupComesSecond
  <2> QED BY <2>4, <2>5
<1> QED BY <1>4, <1>6, <1>7, <1>8, <1>9, <1>10 DEF IInv, Base

(* The BUP is opened, and so truncated.                                     *)
LEMMA OpenBupKeepsIInv ==
  ASSUME IInv, OpenBup
  PROVE  Base'
<1> DEFINE c == Content("begun", run, 0, 0)
<1>1. /\ pc = "bup" /\ pc' = "read_ifo" /\ disc' = disc /\ call' = call /\ run' = run
      /\ title_set' = title_set /\ vob' = vob /\ streams' = streams + 1
      /\ UNCHANGED <<request, report>> /\ files' = [files EXCEPT ![At(BUP)] = c]
      /\ closed' = closed /\ result' = result
  BY DEF OpenBup, Begin, Stay, request, report
<1>2. /\ c \in Contents /\ c.run = run /\ c.state = "begun"
      /\ IFO \in IFO..MaxPart /\ BUP \in IFO..MaxPart /\ BUP \notin 1..MaxPart /\ IFO # BUP
  BY ContentsAreTyped
<1> HIDE DEF c
<1>3. Working /\ Working' /\ pc' # "ifo"
  BY <1>1 DEF Working
<1>4. /\ files' \in [File -> Contents] /\ Touched' /\ EarlierSets' /\ Choice' /\ Closing'
      /\ ~Succeeded' /\ VobPlaces' /\ Cur(BUP)' = c
      /\ files'[<<title_set, IFO>>] = files[<<title_set, IFO>>]
  BY <1>1, <1>2, <1>3, WritesOneFile
<1>5. TypeOK /\ Phase /\ Descriptors /\ BackupComesSecond
  BY DEF IInv, Base
<1>6. TypeOK'
  BY <1>1, <1>4, <1>5 DEF TypeOK, Contents
<1>7. Phase'
  <2>1. Cur(IFO)' = Cur(IFO)
    BY <1>1, <1>4 DEF Cur, At
  <2> QED BY <1>1, <1>2, <1>4, <1>5, <2>1 DEF Phase
<1>8. CurrentSet'
  BY <1>1, <1>4 DEF CurrentSet, AtMenu, AtVobs
<1>9. Descriptors'
  <2>1. Before \in Nat /\ Before' = Before
    BY <1>1, <1>5, DiscIsTyped DEF Before, TypeOK
  <2>2. streams' \in 2..(Before + 2)
    BY <1>1, <1>5, <2>1 DEF Descriptors
  <2> QED BY <1>1, <2>1, <2>2 DEF Descriptors
<1>10. BackupComesSecond'
  <2> SUFFICES ASSUME NEW t \in 0..MaxSet, files'[<<t, BUP>>].state = "done"
               PROVE  \/ files'[<<t, IFO>>].run > files'[<<t, BUP>>].run
                      \/ /\ files'[<<t, IFO>>].state = "done"
                         /\ files'[<<t, IFO>>] = files'[<<t, BUP>>]
    BY DEF BackupComesSecond
  <2>1. <<t, IFO>> \in File /\ <<t, BUP>> \in File
    BY <1>2 DEF File
  <2>2. files \in [File -> Contents]
    BY <1>5 DEF TypeOK, Contents
  <2>3. t # title_set
    BY <1>1, <1>2, <1>4 DEF Cur, At
  <2>4. files'[<<t, BUP>>] = files[<<t, BUP>>] /\ files'[<<t, IFO>>] = files[<<t, IFO>>]
    BY <1>1, <2>1, <2>2, <2>3 DEF At
  <2> QED BY <1>5, <2>4 DEF BackupComesSecond
<1> QED BY <1>4, <1>6, <1>7, <1>8, <1>9, <1>10 DEF IInv, Base

(* The blocks of the current title set's files are natural numbers.         *)
LEMMA SetIsTyped ==
  ASSUME IInv
  PROVE  /\ Set.size_ifo \in Nat /\ Set.size_menu \in Nat /\ Set.size_vob \in Seq(Nat)
         /\ Len(Set.size_vob) \in 0..MaxPart
         /\ title_set \in DOMAIN disc /\ title_set \in 0..MaxSet
         /\ Bytes(title_set, IFO) = Set.size_ifo /\ Bytes(title_set, BUP) = Set.size_ifo
         /\ Bytes(title_set, MENU) = Set.size_menu
         /\ \A v \in 1..Len(Set.size_vob) : Bytes(title_set, v) = Set.size_vob[v]
         /\ Before \in Nat
<1>1. disc \in Discs /\ title_set \in DOMAIN disc
  BY DEF IInv, Base, TypeOK
<1>2. /\ Set.size_ifo \in Nat /\ Set.size_menu \in Nat /\ Set.size_vob \in Seq(Nat)
      /\ Len(Set.size_vob) \in 0..MaxPart /\ title_set \in 0..MaxSet
  BY <1>1, DiscIsTyped DEF Set
<1>3. /\ IFO \in IFO..MaxPart /\ BUP \in IFO..MaxPart /\ MENU \in IFO..MaxPart
      /\ \A v \in 1..Len(Set.size_vob) : v \in IFO..MaxPart
  BY <1>2, MirrorAssumption DEF IFO, BUP, MENU
<1>4. \A v \in 1..Len(Set.size_vob) : Bytes(title_set, v) = Set.size_vob[v]
  <2> TAKE v \in 1..Len(Set.size_vob)
  <2> QED BY <1>1, <1>3, BytesType DEF Set
<1>5. Bytes(title_set, IFO) = Set.size_ifo /\ Bytes(title_set, BUP) = Set.size_ifo
      /\ Bytes(title_set, MENU) = Set.size_menu
  BY <1>1, <1>3, BytesType DEF Set
<1>6. Before \in Nat
  BY <1>2 DEF Before
<1> QED BY <1>1, <1>2, <1>4, <1>5, <1>6

(* The IFO is complete.                                                     *)
LEMMA WriteIfoKeepsIInv ==
  ASSUME IInv, WriteIfo
  PROVE  Base'
<1> DEFINE c == Content("done", run, 0, Blocks(Set.size_ifo))
<1>1. /\ pc = "write_ifo" /\ pc' = "write_bup" /\ disc' = disc /\ call' = call
      /\ run' = run /\ title_set' = title_set /\ vob' = vob /\ streams' = streams
      /\ UNCHANGED <<request, report>> /\ files' = [files EXCEPT ![At(IFO)] = c]
      /\ closed' = closed /\ result' = result
  BY DEF WriteIfo, Done, Stay, request, report
<1>2. /\ c \in Contents /\ c.run = run
      /\ IFO \in IFO..MaxPart /\ BUP \in IFO..MaxPart /\ IFO \notin 1..MaxPart /\ IFO # BUP
  <2>1. Blocks(Set.size_ifo) \in Nat /\ 0 \in Nat
    BY SetIsTyped, BlocksType
  <2> QED BY <2>1, ContentsAreTyped
<1> HIDE DEF c
<1>3. Working /\ Working' /\ pc' # "ifo"
  BY <1>1 DEF Working
<1>4. /\ files' \in [File -> Contents] /\ Touched' /\ EarlierSets' /\ Choice' /\ Closing'
      /\ ~Succeeded' /\ VobPlaces' /\ Cur(IFO)' = c /\ Set' = Set
      /\ files'[<<title_set, BUP>>] = files[<<title_set, BUP>>]
      /\ \A t \in 0..MaxSet, other \in IFO..MaxPart :
           t # title_set => files'[<<t, other>>] = files[<<t, other>>]
  BY <1>1, <1>2, <1>3, WritesOneFile
<1>5. TypeOK /\ Phase /\ Descriptors /\ BackupComesSecond
  BY DEF IInv, Base
<1>6. TypeOK'
  BY <1>1, <1>4, <1>5 DEF TypeOK, Contents
<1>7. Cur(BUP).state = "begun" /\ Cur(BUP)' = Cur(BUP)
  BY <1>1, <1>4, <1>5 DEF Phase, Cur, At
<1>8. Phase'
  BY <1>1, <1>4, <1>7 DEF Phase, c
<1>9. CurrentSet'
  BY <1>1, <1>4 DEF CurrentSet, AtMenu, AtVobs
<1>10. Descriptors'
  BY <1>1, <1>5, SetIsTyped DEF Descriptors, Before
<1>11. BackupComesSecond'
  <2> SUFFICES ASSUME NEW t \in 0..MaxSet, files'[<<t, BUP>>].state = "done"
               PROVE  \/ files'[<<t, IFO>>].run > files'[<<t, BUP>>].run
                      \/ /\ files'[<<t, IFO>>].state = "done"
                         /\ files'[<<t, IFO>>] = files'[<<t, BUP>>]
    BY DEF BackupComesSecond
  <2>1. t # title_set
    BY <1>1, <1>7 DEF Cur, At
  <2>2. files'[<<t, BUP>>] = files[<<t, BUP>>] /\ files'[<<t, IFO>>] = files[<<t, IFO>>]
    BY <1>2, <1>4, <2>1
  <2> QED BY <1>5, <2>2 DEF BackupComesSecond
<1> QED BY <1>4, <1>6, <1>8, <1>9, <1>10, <1>11 DEF IInv, Base

(* The BUP is complete, and the same as the IFO.                            *)
LEMMA WriteBupKeepsIInv ==
  ASSUME IInv, WriteBup
  PROVE  Base'
<1> DEFINE c == Content("done", run, 0, Blocks(Set.size_ifo))
<1>1. /\ pc = "write_bup" /\ pc' = "menu" /\ disc' = disc /\ call' = call
      /\ run' = run /\ title_set' = title_set /\ vob' = vob /\ streams' = streams
      /\ UNCHANGED <<request, report>> /\ files' = [files EXCEPT ![At(BUP)] = c]
      /\ closed' = closed /\ result' = result
  BY DEF WriteBup, Done, Stay, request, report
<1>2. /\ c \in Contents /\ c.run = run /\ c.state = "done"
      /\ c.blocks = Blocks(Set.size_ifo)
      /\ IFO \in IFO..MaxPart /\ BUP \in IFO..MaxPart /\ BUP \notin 1..MaxPart /\ IFO # BUP
  <2>1. Blocks(Set.size_ifo) \in Nat /\ 0 \in Nat
    BY SetIsTyped, BlocksType
  <2> QED BY <2>1, ContentsAreTyped
<1>3. Cur(IFO) = c
  BY <1>1 DEF IInv, Base, Phase
<1> HIDE DEF c
<1>4. Working /\ Working' /\ pc' # "ifo"
  BY <1>1 DEF Working
<1>5. /\ files' \in [File -> Contents] /\ Touched' /\ EarlierSets' /\ Choice' /\ Closing'
      /\ ~Succeeded' /\ VobPlaces' /\ Cur(BUP)' = c /\ Set' = Set
      /\ files'[<<title_set, IFO>>] = files[<<title_set, IFO>>]
      /\ \A t \in 0..MaxSet, other \in IFO..MaxPart :
           t # title_set => files'[<<t, other>>] = files[<<t, other>>]
  BY <1>1, <1>2, <1>4, WritesOneFile
<1>6. TypeOK /\ Descriptors /\ BackupComesSecond
  BY DEF IInv, Base
<1>7. TypeOK'
  BY <1>1, <1>5, <1>6 DEF TypeOK, Contents
<1>8. Phase'
  BY <1>1 DEF Phase
<1>9. files'[<<title_set, IFO>>] = c /\ files'[<<title_set, BUP>>] = c
  BY <1>1, <1>3, <1>5 DEF Cur, At
<1>10. CurrentSet'
  <2>1. Bytes(title_set, IFO)' = Set.size_ifo /\ Bytes(title_set, BUP)' = Set.size_ifo
    BY <1>1, SetIsTyped DEF Bytes
  <2>2. IsDone(title_set, IFO)' /\ IsDone(title_set, BUP)'
    BY <1>1, <1>2, <1>9, <2>1 DEF IsDone
  <2> QED BY <1>1, <1>5, <2>2 DEF CurrentSet, AtVobs
<1>11. Descriptors'
  BY <1>1, <1>6, SetIsTyped DEF Descriptors, Before
<1>12. BackupComesSecond'
  <2> SUFFICES ASSUME NEW t \in 0..MaxSet, files'[<<t, BUP>>].state = "done"
               PROVE  \/ files'[<<t, IFO>>].run > files'[<<t, BUP>>].run
                      \/ /\ files'[<<t, IFO>>].state = "done"
                         /\ files'[<<t, IFO>>] = files'[<<t, BUP>>]
    BY DEF BackupComesSecond
  <2>1. CASE t = title_set
    BY <1>2, <1>9, <2>1
  <2>2. CASE t # title_set
    <3>1. files'[<<t, BUP>>] = files[<<t, BUP>>] /\ files'[<<t, IFO>>] = files[<<t, IFO>>]
      BY <1>2, <1>5, <2>2
    <3> QED BY <1>6, <3>1 DEF BackupComesSecond
  <2> QED BY <2>1, <2>2
<1> QED BY <1>5, <1>7, <1>8, <1>10, <1>11, <1>12 DEF IInv, Base

(* The menu file is opened.                                                 *)
LEMMA OpenMenuKeepsIInv ==
  ASSUME IInv, OpenMenu
  PROVE  Base'
<1> DEFINE c == Content("begun", run, 0, 0)
<1>1. /\ pc = "menu" /\ pc' = "copy_menu" /\ disc' = disc /\ call' = call /\ run' = run
      /\ title_set' = title_set /\ vob' = vob /\ streams' = streams + 1
      /\ UNCHANGED <<request, report>> /\ files' = [files EXCEPT ![At(MENU)] = c]
      /\ closed' = closed /\ result' = result
  BY DEF OpenMenu, Begin, Stay, request, report
<1>2. /\ c \in Contents /\ c.run = run /\ c.state = "begun"
      /\ {IFO, BUP, MENU} \subseteq IFO..MaxPart /\ MENU \notin 1..MaxPart
      /\ IFO # MENU /\ BUP # MENU
  BY ContentsAreTyped
<1> HIDE DEF c
<1>3. Working /\ Working' /\ pc' # "ifo"
  BY <1>1 DEF Working
<1>4. /\ files' \in [File -> Contents] /\ Touched' /\ EarlierSets' /\ Choice' /\ Closing'
      /\ ~Succeeded' /\ VobPlaces' /\ BackupComesSecond' /\ Cur(MENU)' = c /\ Set' = Set
      /\ \A other \in IFO..MaxPart : other # MENU =>
           (IsDone(title_set, other)' <=> IsDone(title_set, other))
  BY <1>1, <1>2, <1>3, WritesOneFile
<1>5. TypeOK /\ CurrentSet /\ Descriptors
  BY DEF IInv, Base
<1>6. TypeOK'
  BY <1>1, <1>4, <1>5 DEF TypeOK, Contents
<1>7. Phase'
  BY <1>1, <1>2, <1>4 DEF Phase
<1>8. CurrentSet'
  <2>1. Set.size_ifo > 0 => IsDone(title_set, IFO) /\ IsDone(title_set, BUP)
    BY <1>1, <1>5 DEF CurrentSet, AtMenu
  <2> QED BY <1>1, <1>2, <1>4, <2>1 DEF CurrentSet, AtVobs
<1>9. Descriptors'
  <2>1. Before \in Nat /\ Before' = Before
    BY <1>1, SetIsTyped DEF Before
  <2>2. streams \in Nat /\ streams <= Before + 2
    BY <1>1, <1>5 DEF Descriptors, TypeOK
  <2>3. streams' \in 1..(Before + 3)
    BY <1>1, <2>1, <2>2
  <2> QED BY <1>1, <2>1, <2>3 DEF Descriptors
<1> QED BY <1>4, <1>6, <1>7, <1>8, <1>9 DEF IInv, Base

(* The menu is complete.                                                    *)
LEMMA CopyMenuKeepsIInv ==
  ASSUME IInv, CopyMenu
  PROVE  Base'
<1> DEFINE c == Content("done", run, 0, Blocks(Set.size_menu))
<1>1. /\ pc = "copy_menu" /\ pc' = "vob" /\ disc' = disc /\ call' = call /\ run' = run
      /\ title_set' = title_set /\ vob' = 1 /\ streams' = streams - 1
      /\ UNCHANGED <<request, report>> /\ files' = [files EXCEPT ![At(MENU)] = c]
      /\ closed' = closed /\ result' = result
  BY DEF CopyMenu, Done, request, report
<1>2. /\ c \in Contents /\ c.run = run /\ c.state = "done"
      /\ c.blocks = Blocks(Set.size_menu)
      /\ {IFO, BUP, MENU} \subseteq IFO..MaxPart /\ MENU \notin 1..MaxPart
      /\ IFO # MENU /\ BUP # MENU
  <2>1. Blocks(Set.size_menu) \in Nat /\ 0 \in Nat
    BY SetIsTyped, BlocksType
  <2> QED BY <2>1, ContentsAreTyped
<1> HIDE DEF c
<1>3. Working /\ Working' /\ pc' # "ifo"
  BY <1>1 DEF Working
<1>4. /\ files' \in [File -> Contents] /\ Touched' /\ EarlierSets' /\ Choice' /\ Closing'
      /\ ~Succeeded' /\ VobPlaces' /\ BackupComesSecond' /\ Cur(MENU)' = c /\ Set' = Set
      /\ \A other \in IFO..MaxPart : other # MENU =>
           (IsDone(title_set, other)' <=> IsDone(title_set, other))
  BY <1>1, <1>2, <1>3, WritesOneFile
<1>5. TypeOK /\ CurrentSet /\ Descriptors
  BY DEF IInv, Base
<1>6. TypeOK'
  <2>1. vob' \in 0..MaxPart + 1
    BY <1>1, MirrorAssumption
  <2>2. streams' \in Nat
    BY <1>1, <1>5 DEF Descriptors, TypeOK
  <2> QED BY <1>1, <1>4, <1>5, <2>1, <2>2 DEF TypeOK, Contents
<1>7. Phase'
  BY <1>1 DEF Phase
<1>8. CurrentSet'
  <2>1. Set.size_ifo > 0 => IsDone(title_set, IFO) /\ IsDone(title_set, BUP)
    BY <1>1, <1>5 DEF CurrentSet, AtMenu
  <2>2. Bytes(title_set, MENU)' = Set.size_menu
    BY <1>1, SetIsTyped DEF Bytes
  <2>3. files'[<<title_set, MENU>>] = c
    BY <1>1, <1>4 DEF Cur, At
  <2>4. IsDone(title_set, MENU)'
    BY <1>1, <1>2, <2>2, <2>3 DEF IsDone
  <2>5. vob' \in 1..(Len(Set.size_vob) + 1) /\ 1..(vob' - 1) = {}
    BY <1>1, SetIsTyped
  <2> QED BY <1>1, <1>2, <1>4, <2>1, <2>4, <2>5 DEF CurrentSet
<1>9. Descriptors'
  <2>1. Before \in Nat /\ Before' = Before
    BY <1>1, SetIsTyped DEF Before
  <2>2. streams' <= Before + 2
    BY <1>1, <1>5, <2>1 DEF Descriptors
  <2> QED BY <1>1, <2>1, <2>2 DEF Descriptors
<1> QED BY <1>4, <1>6, <1>7, <1>8, <1>9 DEF IInv, Base

(* Which files of the current title set are complete while its VOBs are     *)
(* copied.                                                                  *)
LEMMA AmongTheVobs ==
  ASSUME IInv, pc \in {"vob", "copy_vob"}
  PROVE  /\ vob \in 1..(Len(Set.size_vob) + 1)
         /\ \A v \in 1..(vob - 1) :
              Set.size_vob[1] > 0 /\ Set.size_vob[v] > 0 => IsDone(title_set, v)
         /\ Set.size_ifo > 0 => IsDone(title_set, IFO) /\ IsDone(title_set, BUP)
         /\ Set.size_menu > 0 => IsDone(title_set, MENU)
BY DEF IInv, Base, CurrentSet, AtMenu, AtVobs

(* A VOB is opened.                                                         *)
LEMMA OpenVobKeepsIInv ==
  ASSUME IInv, OpenVob
  PROVE  Base'
<1> DEFINE c == Content("begun", run, 0, 0)
<1>1. /\ pc = "vob" /\ pc' = "copy_vob" /\ disc' = disc /\ call' = call /\ run' = run
      /\ title_set' = title_set /\ vob' = vob /\ streams' = streams + 1
      /\ UNCHANGED <<request, report>> /\ files' = [files EXCEPT ![At(vob)] = c]
      /\ closed' = closed /\ result' = result
      /\ vob <= Len(Set.size_vob)
  BY DEF OpenVob, CanCopyVob, MoreVobs, number_of_vob_files, Begin, Stay, request, report
<1>2. vob \in 1..Len(Set.size_vob) /\ vob \in 1..MaxPart
  <2>1. vob \in 1..(Len(Set.size_vob) + 1)
    BY <1>1, AmongTheVobs
  <2>2. Len(Set.size_vob) \in 0..MaxPart /\ MaxPart \in Nat
    BY SetIsTyped, MirrorAssumption
  <2> QED BY <1>1, <2>1, <2>2
<1>3. /\ c \in Contents /\ c.run = run /\ c.state = "begun"
      /\ {IFO, BUP, MENU} \subseteq IFO..MaxPart /\ vob \in IFO..MaxPart
      /\ vob \notin {IFO, BUP, MENU}
  BY <1>2, ContentsAreTyped
<1> HIDE DEF c
<1>4. Working /\ Working' /\ pc' # "ifo"
  BY <1>1 DEF Working
<1>5. /\ files' \in [File -> Contents] /\ Touched' /\ EarlierSets' /\ Choice' /\ Closing'
      /\ ~Succeeded' /\ VobPlaces' /\ BackupComesSecond' /\ Set' = Set
      /\ \A other \in IFO..MaxPart : other # vob =>
           (IsDone(title_set, other)' <=> IsDone(title_set, other))
  BY <1>1, <1>3, <1>4, WritesOneFile
<1>6. TypeOK /\ Descriptors
  BY DEF IInv, Base
<1>7. TypeOK'
  BY <1>1, <1>5, <1>6 DEF TypeOK, Contents
<1>8. Phase'
  <2>1. Cur(vob)' = c
    BY <1>1, <1>3, <1>6, SetIsTyped DEF Cur, At, TypeOK, File
  <2> QED BY <1>1, <1>3, <1>5, <2>1 DEF Phase
<1>9. CurrentSet'
  <2>1. \A v \in 1..(vob - 1) : v \in IFO..MaxPart /\ v # vob
    BY <1>2, MirrorAssumption DEF IFO
  <2>2. \A v \in 1..(vob - 1) :
          Set.size_vob[1] > 0 /\ Set.size_vob[v] > 0 => IsDone(title_set, v)'
    BY <1>1, <1>5, <2>1, AmongTheVobs
  <2>3. /\ vob \in 1..(Len(Set.size_vob) + 1)
        /\ Set.size_ifo > 0 => IsDone(title_set, IFO)' /\ IsDone(title_set, BUP)'
        /\ Set.size_menu > 0 => IsDone(title_set, MENU)'
    BY <1>1, <1>3, <1>5, AmongTheVobs
  <2> QED BY <1>1, <1>5, <2>2, <2>3 DEF CurrentSet
<1>10. Descriptors'
  <2>1. Before \in Nat /\ Before' = Before
    BY <1>1, SetIsTyped DEF Before
  <2>2. streams \in Nat /\ streams <= Before + 2
    BY <1>1, <1>6 DEF Descriptors, TypeOK
  <2>3. streams' \in 1..(Before + 3)
    BY <1>1, <2>1, <2>2
  <2> QED BY <1>1, <2>1, <2>3 DEF Descriptors
<1> QED BY <1>5, <1>7, <1>8, <1>9, <1>10 DEF IInv, Base

(* A VOB is complete, and begins where the ones before it end.              *)
LEMMA CopyVobKeepsIInv ==
  ASSUME IInv, CopyVob
  PROVE  Base'
<1> DEFINE c == Content("done", run, Offset(vob), Blocks(Set.size_vob[vob]))
<1>1. /\ pc = "copy_vob" /\ pc' = "vob" /\ disc' = disc /\ call' = call /\ run' = run
      /\ title_set' = title_set /\ vob' = vob + 1 /\ streams' = streams - 1
      /\ UNCHANGED <<request, report>> /\ files' = [files EXCEPT ![At(vob)] = c]
      /\ closed' = closed /\ result' = result
  BY DEF CopyVob, Done, request, report
<1>2. vob \in 1..Len(Set.size_vob) /\ vob \in 1..MaxPart /\ Set.size_vob[1] > 0
  <2>1. vob <= Len(Set.size_vob) /\ Set.size_vob[1] > 0
    BY <1>1 DEF IInv, Base, Phase, Sizes
  <2>2. vob \in 1..(Len(Set.size_vob) + 1)
    BY <1>1, AmongTheVobs
  <2>3. Len(Set.size_vob) \in 0..MaxPart /\ MaxPart \in Nat
    BY SetIsTyped, MirrorAssumption
  <2> QED BY <2>1, <2>2, <2>3
<1>3. /\ Offset(vob) = OffsetIn(Set.size_vob, vob) /\ Offset(vob) \in Nat
      /\ Set.size_vob[vob] \in Nat /\ Blocks(Set.size_vob[vob]) \in Nat
  <2>1. Offset(vob) = OffsetIn(Set.size_vob, vob)
    BY Zenon DEF Offset, OffsetIn
  <2>2. Set.size_vob[vob] \in Nat
    BY <1>2, SetIsTyped
  <2> QED BY <1>2, <2>1, <2>2, SetIsTyped, OffsetStep, BlocksType
<1>4. /\ c \in Contents /\ c.run = run /\ c.state = "done" /\ c.from = Offset(vob)
      /\ c.blocks = Blocks(Set.size_vob[vob])
      /\ {IFO, BUP, MENU} \subseteq IFO..MaxPart /\ vob \in IFO..MaxPart
      /\ vob \notin {IFO, BUP, MENU}
  BY <1>2, <1>3, ContentsAreTyped
<1> HIDE DEF c
<1>5. Working /\ Working' /\ pc' # "ifo"
  BY <1>1 DEF Working
<1>6. /\ files' \in [File -> Contents] /\ Touched' /\ EarlierSets' /\ Choice' /\ Closing'
      /\ ~Succeeded' /\ BackupComesSecond' /\ Set' = Set
      /\ \A other \in IFO..MaxPart : other # vob =>
           /\ files'[<<title_set, other>>] = files[<<title_set, other>>]
           /\ IsDone(title_set, other)' <=> IsDone(title_set, other)
      /\ \A t \in 0..MaxSet, other \in IFO..MaxPart :
           t # title_set => files'[<<t, other>>] = files[<<t, other>>]
  BY <1>1, <1>4, <1>5, WritesOneFile
<1>7. TypeOK /\ Descriptors /\ VobPlaces
  BY DEF IInv, Base
<1>8. files'[<<title_set, vob>>] = c
  BY <1>1, <1>4, <1>7, SetIsTyped DEF At, TypeOK, File
<1>9. TypeOK'
  <2>1. vob' \in 0..MaxPart + 1
    BY <1>1, <1>2, MirrorAssumption
  <2>2. streams' \in Nat
    BY <1>1, <1>7 DEF Descriptors, TypeOK
  <2> QED BY <1>1, <1>6, <1>7, <2>1, <2>2 DEF TypeOK, Contents
<1>10. Phase'
  BY <1>1 DEF Phase
<1>11. CurrentSet'
  <2>1. \A v : v = vob => IsDone(title_set, v)'
    <3> TAKE v
    <3> HAVE v = vob
    <3>1. Bytes(title_set, v) = Set.size_vob[v]
      BY <1>2, SetIsTyped
    <3>2. Bytes(title_set, v)' = Set.size_vob[v]
      BY <1>1, <3>1 DEF Bytes
    <3> QED BY <1>1, <1>4, <1>8, <3>2 DEF IsDone
  <2>2. \A v \in 1..vob : v \in 1..(vob - 1) \/ v = vob
    BY <1>2
  <2>3. \A v \in 1..(vob - 1) : v \in IFO..MaxPart /\ v # vob
    BY <1>2, MirrorAssumption DEF IFO
  <2>4. \A v \in 1..(vob - 1) :
          Set.size_vob[1] > 0 /\ Set.size_vob[v] > 0 => IsDone(title_set, v)
    BY <1>1, AmongTheVobs
  <2>5. \A v \in 1..vob :
          Set.size_vob[1] > 0 /\ Set.size_vob[v] > 0 => IsDone(title_set, v)'
    BY <1>6, <2>1, <2>2, <2>3, <2>4
  <2>6. /\ Set.size_ifo > 0 => IsDone(title_set, IFO) /\ IsDone(title_set, BUP)
        /\ Set.size_menu > 0 => IsDone(title_set, MENU)
    BY <1>1, AmongTheVobs
  <2>7. /\ Set.size_ifo > 0 => IsDone(title_set, IFO)' /\ IsDone(title_set, BUP)'
        /\ Set.size_menu > 0 => IsDone(title_set, MENU)'
    BY <1>4, <1>6, <2>6
  <2>8. vob' \in 1..(Len(Set.size_vob) + 1) /\ vob' - 1 = vob
    BY <1>1, <1>2, SetIsTyped
  <2> QED BY <1>1, <1>6, <2>5, <2>7, <2>8 DEF CurrentSet
<1>12. Descriptors'
  <2>1. Before \in Nat /\ Before' = Before
    BY <1>1, SetIsTyped DEF Before
  <2>2. streams' <= Before + 2
    BY <1>1, <1>7, <2>1 DEF Descriptors
  <2> QED BY <1>1, <2>1, <2>2 DEF Descriptors
<1>13. VobPlaces'
  <2> SUFFICES ASSUME NEW t \in DOMAIN disc, NEW v \in 1..MaxPart,
                      files'[<<t, v>>].run = run, files'[<<t, v>>].state = "done"
               PROVE  /\ v <= Len(disc[t].size_vob) /\ disc[t].size_vob[1] > 0
                      /\ files'[<<t, v>>].from = OffsetIn(disc[t].size_vob, v)
    BY <1>1 DEF VobPlaces
  <2>1. v \in IFO..MaxPart /\ t \in 0..MaxSet
    BY <1>7, DiscIsTyped, MirrorAssumption DEF IFO, TypeOK
  <2>2. CASE t = title_set /\ v = vob
    <3>1. files'[<<t, v>>] = c /\ disc[t].size_vob = Set.size_vob /\ v = vob
      BY <1>8, <2>2 DEF Set
    <3>2. v <= Len(Set.size_vob) /\ Set.size_vob[1] > 0
      BY <1>2, <3>1
    <3>3. c.from = OffsetIn(Set.size_vob, v)
      BY <1>3, <1>4, <3>1
    <3> QED BY <3>1, <3>2, <3>3
  <2>3. CASE ~(t = title_set /\ v = vob)
    <3>1. files'[<<t, v>>] = files[<<t, v>>]
      BY <1>6, <2>1, <2>3
    <3> QED BY <1>7, <3>1 DEF VobPlaces
  <2> QED BY <2>2, <2>3
<1> QED BY <1>6, <1>9, <1>10, <1>11, <1>12, <1>13 DEF IInv, Base

-----------------------------------------------------------------------------
(* The invariant.                                                           *)

(* An empty directory, but for what is in the way.                          *)
LEMMA InitHasIInv == Init => IInv
<1> SUFFICES ASSUME Init PROVE IInv
  OBVIOUS
<1>1. /\ disc \in Discs /\ call \in Calls /\ run = 1 /\ pc = "file_set"
      /\ title_set = 0 /\ vob = 0 /\ streams = 0
      /\ closed = 0 /\ result = -1
  BY DEF Init
<1>2. PICK blocked \in Obstacles :
        files = [f \in File |-> IF f \in blocked THEN Other ELSE Absent]
  BY DEF Init
<1>3. /\ Other \in Contents /\ Absent \in Contents /\ Other.run = 0 /\ Absent.run = 0
      /\ Other.state \notin {"begun", "done"} /\ Absent.state \notin {"begun", "done"}
  BY MirrorAssumption DEF Other, Absent, Content, Contents
<1>4. files \in [File -> Contents]
  BY <1>2, <1>3
<1>5. \A f \in File : files[f].run = 0 /\ files[f].state \notin {"begun", "done"}
  BY <1>2, <1>3
<1>6. 0 \in DOMAIN disc /\ \A u \in DOMAIN disc : ~(u < 0)
  <2>1. IsDisc(disc) /\ MaxSet \in Nat
    BY <1>1, MirrorAssumption
  <2> QED BY <2>1 DEF IsDisc
<1>7. TypeOK
  <2>1. /\ run \in 1..MaxRuns /\ vob \in 0..MaxPart + 1 /\ title_set \in DOMAIN disc
        /\ closed \in 0..2
    BY <1>1, <1>6, MirrorAssumption
  <2> QED BY <1>1, <1>4, <2>1 DEF TypeOK, Contents
<1>8. Touched
  BY <1>1, <1>5 DEF Touched
<1>9. Phase /\ CurrentSet /\ Choice /\ Closing /\ Descriptors
  BY <1>1 DEF Phase, CurrentSet, AtMenu, AtVobs, Succeeded, Choice, Working, Closing,
              Descriptors
<1>10. EarlierSets
  BY <1>1, <1>6 DEF EarlierSets
<1>11. \A t \in 0..MaxSet, slot \in IFO..MaxPart : <<t, slot>> \in File
  BY DEF File
<1>12. VobPlaces
  <2> SUFFICES ASSUME NEW t \in DOMAIN disc, NEW v \in 1..MaxPart
               PROVE  files[<<t, v>>].state # "done"
    BY DEF VobPlaces
  <2>1. t \in 0..MaxSet /\ v \in IFO..MaxPart
    BY <1>1, DiscIsTyped, MirrorAssumption DEF IFO
  <2> QED BY <1>5, <1>11, <2>1
<1>13. BackupComesSecond
  <2> SUFFICES ASSUME NEW t \in 0..MaxSet PROVE files[<<t, BUP>>].state # "done"
    BY DEF BackupComesSecond
  <2>1. BUP \in IFO..MaxPart
    BY MirrorAssumption DEF IFO, BUP
  <2> QED BY <1>5, <1>11, <2>1
<1>14. Sizes /\ Torn /\ TornFilesBelongTogether
  BY <1>1, <1>5 DEF Sizes, AtMenu, AtVobs, Succeeded, Torn, Working, TornFilesBelongTogether
<1> QED BY <1>7, <1>8, <1>9, <1>10, <1>12, <1>13, <1>14 DEF IInv, Base

(* No step copies a file whose size is not a number of whole blocks, but    *)
(* for the menu.                                                            *)
LEMMA NextKeepsSizes == IInv /\ [Next]_vars => Sizes'
<1> SUFFICES ASSUME IInv, [Next]_vars PROVE Sizes'
  OBVIOUS
<1>1. /\ Sizes /\ Set.size_ifo \in Nat /\ Set.size_vob \in Seq(Nat)
      /\ (Working => result # 0)
      /\ (pc \in {"vob", "copy_vob"} => vob \in 1..(Len(Set.size_vob) + 1))
  BY SetIsTyped, AmongTheVobs DEF IInv, Base, Choice, Working
<1>2. CASE \/ FileSetFails \/ NoSuchTitleSet \/ FileSet \/ NextSet \/ Killed \/ RunAgain
           \/ RefuseIfo \/ OpenIfoFails \/ OpenBupFails \/ IfoFails
           \/ OpenMenuFails \/ CopyMenuFails \/ OpenVobFails \/ CopyVobFails
  <2>1. pc' \in {"file_set", "ifo", "killed"} \/ (pc' = "returned" /\ result' = 1)
    BY <1>2 DEF FileSetFails, NoSuchTitleSet, FileSet, NextSet, Killed, RunAgain,
                RefuseIfo, OpenIfoFails, OpenBupFails, IfoFails, OpenMenuFails,
                CopyMenuFails, OpenVobFails, CopyVobFails, Fail, Return
  <2> QED BY <2>1 DEF Sizes, AtMenu, AtVobs, Succeeded
<1>3. CASE SkipIfo \/ OpenIfo \/ OpenBup \/ ReadIfo \/ WriteIfo \/ WriteBup \/ OpenMenu
  <2>1. /\ Set' = Set /\ ~AtVobs' /\ pc' # "copy_vob"
        /\ pc' = "copy_menu" => AtMenu
        /\ Set.size_ifo > 0 => IsValidSize(Set.size_ifo)
    <3>1. disc' = disc /\ title_set' = title_set /\ result' = result /\ Working
      BY <1>3 DEF SkipIfo, OpenIfo, OpenBup, ReadIfo, WriteIfo, WriteBup, OpenMenu, Stay,
                  request, report, Working
    <3>2. ~Succeeded'
      BY <1>1, <3>1 DEF Succeeded
    <3>3. Set.size_ifo > 0 => IsValidSize(Set.size_ifo)
      BY <1>1, <1>3 DEF Sizes, AtMenu, SkipIfo, OpenIfo, OpenBup, ReadIfo, WriteIfo,
                        WriteBup, OpenMenu
    <3>4. pc' \notin {"vob", "copy_vob"} /\ (pc' = "copy_menu" => pc = "menu")
      BY <1>3 DEF SkipIfo, OpenIfo, OpenBup, ReadIfo, WriteIfo, WriteBup, OpenMenu
    <3> QED BY <3>1, <3>2, <3>3, <3>4 DEF Set, AtVobs, AtMenu
  <2>2. pc' \in {"bup", "read_ifo", "write_ifo", "write_bup"} => IsValidSize(Set.size_ifo)
    BY <1>1, <1>3 DEF Sizes, SkipIfo, OpenIfo, OpenBup, ReadIfo, WriteIfo, WriteBup, OpenMenu
  <2> QED BY <2>1, <2>2 DEF Sizes
<1>4. CASE SkipMenu \/ CopyMenu
  <2>1. /\ pc \in {"menu", "copy_menu"} /\ disc' = disc /\ title_set' = title_set
        /\ pc' = "vob" /\ vob' = 1
    BY <1>4 DEF SkipMenu, CopyMenu, request
  <2>2. Set' = Set /\ AtMenu /\ 1..(1 - 1) = {}
    BY <2>1 DEF Set, AtMenu
  <2> QED BY <1>1, <2>1, <2>2 DEF Sizes
<1>5. CASE SkipVob \/ CopyVob
  <2>1. /\ pc \in {"vob", "copy_vob"} /\ disc' = disc /\ title_set' = title_set
        /\ pc' = "vob" /\ vob' = vob + 1
    BY <1>5 DEF SkipVob, CopyVob, MoreVobs, request
  <2>2. Set' = Set /\ AtMenu /\ AtVobs /\ vob \in Nat /\ vob' - 1 = vob
    BY <1>1, <2>1 DEF Set, AtMenu, AtVobs
  <2>3. Set.size_vob[1] > 0 /\ Set.size_vob[vob] > 0 => IsValidSize(Set.size_vob[vob])
    BY <1>1, <1>5 DEF Sizes, SkipVob, IsEmptyVob, CopyVob
  <2>4. \A v \in 1..vob : v \in 1..(vob - 1) \/ v = vob
    BY <2>2
  <2>5. \A v \in 1..vob :
          Set.size_vob[1] > 0 /\ Set.size_vob[v] > 0 => IsValidSize(Set.size_vob[v])
    BY <1>1, <2>2, <2>3, <2>4 DEF Sizes
  <2> QED BY <1>1, <2>1, <2>2, <2>5 DEF Sizes
<1>6. CASE OpenVob
  <2>1. /\ pc = "vob" /\ pc' = "copy_vob" /\ vob' = vob /\ disc' = disc
        /\ title_set' = title_set
        /\ vob <= Len(Set.size_vob) /\ Set.size_vob[1] # 0
        /\ \A v \in 1..vob : IsValidSize(Set.size_vob[v])
    BY <1>6 DEF OpenVob, CanCopyVob, MoreVobs, IsEmptyVob, number_of_vob_files, Stay, request
  <2>2. Set' = Set /\ AtMenu /\ AtVobs
    BY <2>1 DEF Set, AtMenu, AtVobs
  <2>3. vob \in 1..vob /\ Set.size_vob[1] > 0
    BY <1>1, <2>1
  <2> QED BY <1>1, <2>1, <2>2, <2>3 DEF Sizes
<1>7. CASE AllDone \/ Exit \/ AllRunsEnded \/ UNCHANGED vars
  <2>1. /\ disc' = disc /\ title_set' = title_set /\ vob' = vob
        /\ pc' = pc \/ pc' \in {"returned", "exited"}
        /\ Succeeded' => Succeeded \/ pc = "vob"
    BY <1>7 DEF AllDone, SetIsDone, Exit, AllRunsEnded, Return, Stay, request, vars, Succeeded
  <2>2. Set' = Set /\ (AtMenu' => AtMenu) /\ (AtVobs' => AtVobs)
    BY <2>1 DEF Set, AtMenu, AtVobs
  <2> QED BY <1>1, <2>1, <2>2 DEF Sizes
<1> QED BY <1>2, <1>3, <1>4, <1>5, <1>6, <1>7 DEF Next, Step

(* A file that is opened is torn, alone or with its IFO.                    *)
LEMMA BeginTears ==
  ASSUME IInv, Working, NEW slot \in IFO..MaxPart, Begin(slot),
         run' = run, title_set' = title_set,
         Open \subseteq (IF slot = BUP THEN {IFO} ELSE {}), Open \cup {slot} \subseteq Open'
  PROVE  Torn' /\ TornFilesBelongTogether'
<1> DEFINE new == At(slot)
<1>1. /\ new \in File /\ new[1] = title_set /\ new[2] = slot
      /\ files \in [File -> Contents] /\ \A f \in File : f = <<f[1], f[2]>>
  <2>1. new = <<title_set, slot>> /\ title_set \in 0..MaxSet
    BY SetIsTyped DEF At
  <2>2. files \in [File -> Contents]
    BY DEF IInv, Base, TypeOK, Contents
  <2>3. \A f \in File : f = <<f[1], f[2]>>
    BY DEF File
  <2>4. new \in File
    BY <2>1 DEF File
  <2> QED BY <2>1, <2>2, <2>3, <2>4
<1>2. /\ files'[new].state = "begun" /\ files'[new].run = run
      /\ \A f \in File : f # new => files'[f] = files[f]
  BY <1>1 DEF Begin, Content
<1>3. \A f \in File : files[f].state = "begun" /\ files[f].run = run =>
        f[1] = title_set /\ f[2] \in Open
  BY DEF IInv, Torn
<1>4. Torn'
  <2> SUFFICES ASSUME NEW f \in File, files'[f].state = "begun", files'[f].run = run
               PROVE  f[1] = title_set /\ f[2] \in Open'
    BY DEF Torn
  <2>1. CASE f = new
    BY <1>1, <2>1
  <2>2. CASE f # new
    BY <1>2, <1>3, <2>2
  <2> QED BY <2>1, <2>2
<1>5. ASSUME NEW f \in File, f # new, files[f].state = "begun", files[f].run = run
      PROVE  f[1] = title_set /\ {f[2], slot} = {IFO, BUP}
  BY <1>3, <1>5
<1>6. TornFilesBelongTogether'
  <2> SUFFICES ASSUME NEW f \in File, NEW g \in File, f # g,
                      files'[f].state = "begun", files'[g].state = "begun",
                      files'[f].run = files'[g].run
               PROVE  f[1] = g[1] /\ {f[2], g[2]} = {IFO, BUP}
    BY DEF TornFilesBelongTogether
  <2>1. CASE f # new /\ g # new
    <3>1. files'[f] = files[f] /\ files'[g] = files[g]
      BY <1>2, <2>1
    <3> QED BY <3>1 DEF IInv, TornFilesBelongTogether
  <2>2. CASE f = new /\ g # new
    <3>1. files'[g] = files[g] /\ files[g].run = run
      BY <1>2, <2>2
    <3> QED BY <1>1, <1>5, <2>2, <3>1
  <2>3. CASE f # new /\ g = new
    <3>1. files'[f] = files[f] /\ files[f].run = run
      BY <1>2, <2>3
    <3> QED BY <1>1, <1>5, <2>3, <3>1
  <2> QED BY <2>1, <2>2, <2>3
<1> QED BY <1>4, <1>6

(* A file that is done is no longer torn, and the others are as they were.  *)
LEMMA DoneMends ==
  ASSUME IInv, Working, NEW slot \in IFO..MaxPart, NEW from, NEW blocks,
         Done(slot, from, blocks),
         run' = run, title_set' = title_set, Open \ {slot} \subseteq Open'
  PROVE  Torn' /\ TornFilesBelongTogether'
<1> DEFINE new == At(slot)
<1>1. /\ new \in File /\ new[1] = title_set /\ new[2] = slot
      /\ files \in [File -> Contents] /\ \A f \in File : f = <<f[1], f[2]>>
  <2>1. new = <<title_set, slot>> /\ title_set \in 0..MaxSet
    BY SetIsTyped DEF At
  <2>2. files \in [File -> Contents]
    BY DEF IInv, Base, TypeOK, Contents
  <2>3. \A f \in File : f = <<f[1], f[2]>>
    BY DEF File
  <2>4. new \in File
    BY <2>1 DEF File
  <2> QED BY <2>1, <2>2, <2>3, <2>4
<1>2. files'[new].state = "done" /\ \A f \in File : f # new => files'[f] = files[f]
  BY <1>1 DEF Done, Content
<1>3. \A f \in File : files[f].state = "begun" /\ files[f].run = run =>
        f[1] = title_set /\ f[2] \in Open
  BY DEF IInv, Torn
<1>4. Torn'
  <2> SUFFICES ASSUME NEW f \in File, files'[f].state = "begun", files'[f].run = run
               PROVE  f[1] = title_set /\ f[2] \in Open'
    BY DEF Torn
  <2>1. f # new /\ files'[f] = files[f]
    BY <1>2
  <2>2. f[1] = title_set /\ f[2] \in Open /\ f = <<f[1], f[2]>>
    BY <1>1, <1>3, <2>1
  <2>3. f[2] # slot
    BY <2>1, <2>2 DEF At
  <2> QED BY <2>2, <2>3
<1>5. TornFilesBelongTogether'
  <2> SUFFICES ASSUME NEW f \in File, NEW g \in File, f # g,
                      files'[f].state = "begun", files'[g].state = "begun",
                      files'[f].run = files'[g].run
               PROVE  f[1] = g[1] /\ {f[2], g[2]} = {IFO, BUP}
    BY DEF TornFilesBelongTogether
  <2>1. files'[f] = files[f] /\ files'[g] = files[g]
    BY <1>2
  <2> QED BY <2>1 DEF IInv, TornFilesBelongTogether
<1> QED BY <1>4, <1>5

(* No step tears more than a pair.                                          *)
LEMMA NextTearsLittle == IInv /\ [Next]_vars => Torn' /\ TornFilesBelongTogether'
<1> SUFFICES ASSUME IInv, [Next]_vars PROVE Torn' /\ TornFilesBelongTogether'
  OBVIOUS
<1>1. /\ Torn /\ Touched /\ TornFilesBelongTogether
      /\ IFO \in IFO..MaxPart /\ BUP \in IFO..MaxPart /\ MENU \in IFO..MaxPart
      /\ IFO # BUP /\ IFO # MENU /\ BUP # MENU
  BY ContentsAreTyped DEF IInv, Base
<1>2. ASSUME UNCHANGED files PROVE TornFilesBelongTogether'
  BY <1>1, <1>2 DEF TornFilesBelongTogether
<1>3. CASE \/ FileSetFails \/ NoSuchTitleSet \/ AllDone \/ Exit \/ Killed \/ RunAgain
           \/ RefuseIfo \/ OpenIfoFails \/ OpenBupFails \/ IfoFails
           \/ OpenMenuFails \/ CopyMenuFails \/ OpenVobFails \/ CopyVobFails
  <2>1. ~Working' /\ UNCHANGED files
    BY <1>3 DEF FileSetFails, NoSuchTitleSet, AllDone, Exit, Killed, RunAgain,
                RefuseIfo, OpenIfoFails, OpenBupFails, IfoFails, OpenMenuFails,
                CopyMenuFails, OpenVobFails, CopyVobFails, Fail, Return, Working
  <2> QED BY <1>2, <2>1 DEF Torn
<1>4. CASE FileSet \/ NextSet
  <2>1. UNCHANGED <<files, run>> /\ pc' = "ifo" /\ (pc = "file_set" \/ pc = "vob")
    BY <1>4 DEF FileSet, NextSet, SetIsDone, request
  <2>2. \A f \in File : ~(files[f].state = "begun" /\ files[f].run = run)
    <3>1. CASE pc = "file_set"
      BY <1>1, <3>1 DEF Touched
    <3>2. CASE pc = "vob"
      <4>1. Working /\ Open = {}
        BY <3>2 DEF Working, Open
      <4> QED BY <1>1, <4>1 DEF Torn
    <3> QED BY <2>1, <3>1, <3>2
  <2> QED BY <1>2, <2>1, <2>2 DEF Torn
<1>5. CASE SkipIfo \/ ReadIfo \/ SkipMenu \/ SkipVob \/ AllRunsEnded \/ UNCHANGED vars
  <2>1. UNCHANGED <<files, run, title_set>>
    BY <1>5 DEF SkipIfo, ReadIfo, SkipMenu, SkipVob, AllRunsEnded, vars, Stay, request
  <2>2. (Working' => Working) /\ Open \subseteq Open'
    <3>1. CASE SkipIfo \/ ReadIfo \/ SkipMenu \/ SkipVob
      BY <3>1 DEF SkipIfo, ReadIfo, SkipMenu, SkipVob, MoreVobs, Working, Open
    <3>2. CASE AllRunsEnded \/ UNCHANGED vars
      BY <3>2 DEF AllRunsEnded, vars, Working, Open
    <3> QED BY <1>5, <3>1, <3>2
  <2> QED BY <1>1, <1>2, <2>1, <2>2 DEF Torn
<1>6. CASE OpenIfo
  BY <1>1, <1>6, BeginTears DEF OpenIfo, Working, Open, Stay, request
<1>7. CASE OpenBup
  BY <1>1, <1>7, BeginTears DEF OpenBup, Working, Open, Stay, request
<1>8. CASE OpenMenu
  BY <1>1, <1>8, BeginTears DEF OpenMenu, Working, Open, Stay, request
<1>9. CASE OpenVob
  <2>1. /\ pc = "vob" /\ pc' = "copy_vob" /\ Begin(vob) /\ vob' = vob /\ run' = run
        /\ title_set' = title_set /\ vob <= Len(Set.size_vob)
    BY <1>9 DEF OpenVob, CanCopyVob, MoreVobs, number_of_vob_files, Stay, request
  <2>2. vob \in IFO..MaxPart
    <3>1. vob \in 1..(Len(Set.size_vob) + 1) /\ Len(Set.size_vob) \in 0..MaxPart
      BY <2>1, AmongTheVobs, SetIsTyped
    <3> QED BY <2>1, <3>1, MirrorAssumption DEF IFO
  <2>3. Working /\ Open = {} /\ Open' = {vob}
    BY <2>1 DEF Working, Open
  <2> QED BY <2>1, <2>2, <2>3, BeginTears
<1>10. CASE WriteIfo
  BY <1>1, <1>10, DoneMends DEF WriteIfo, Working, Open, Stay, request
<1>11. CASE WriteBup
  BY <1>1, <1>11, DoneMends DEF WriteBup, Working, Open, Stay, request
<1>12. CASE CopyMenu
  BY <1>1, <1>12, DoneMends DEF CopyMenu, Working, Open, request
<1>13. CASE CopyVob
  <2>1. /\ pc = "copy_vob" /\ pc' = "vob" /\ run' = run /\ title_set' = title_set
        /\ Done(vob, Offset(vob), Blocks(Set.size_vob[vob]))
    BY <1>13 DEF CopyVob, request
  <2>2. vob \in IFO..MaxPart
    <3>1. vob \in 1..(Len(Set.size_vob) + 1) /\ vob <= Len(Set.size_vob)
      BY <2>1, AmongTheVobs DEF IInv, Base, Phase
    <3>2. Len(Set.size_vob) \in 0..MaxPart
      BY SetIsTyped
    <3> QED BY <3>1, <3>2, MirrorAssumption DEF IFO
  <2>3. Working /\ Open = {vob} /\ Open' = {}
    BY <2>1 DEF Working, Open
  <2> QED BY <2>1, <2>2, <2>3, DoneMends
<1> QED BY <1>3, <1>4, <1>5, <1>6, <1>7, <1>8, <1>9, <1>10, <1>11, <1>12, <1>13
       DEF Next, Step

(* Every step preserves it.                                                 *)
LEMMA NextKeepsBase == IInv /\ [Next]_vars => Base'
<1> SUFFICES ASSUME IInv, [Next]_vars PROVE Base'
  OBVIOUS
<1>1. CASE FileSetFails \/ NoSuchTitleSet \/ FileSet
  BY <1>1, BeginningsKeepIInv
<1>2. CASE SkipIfo \/ ReadIfo \/ SkipMenu \/ SkipVob
  BY <1>2, SkipsKeepIInv
<1>3. CASE \/ RefuseIfo \/ OpenIfoFails \/ OpenBupFails \/ IfoFails
           \/ OpenMenuFails \/ CopyMenuFails \/ OpenVobFails \/ CopyVobFails
  BY <1>3, FailuresKeepIInv
<1>4. CASE OpenIfo
  BY <1>4, OpenIfoKeepsIInv
<1>5. CASE OpenBup
  BY <1>5, OpenBupKeepsIInv
<1>6. CASE WriteIfo
  BY <1>6, WriteIfoKeepsIInv
<1>7. CASE WriteBup
  BY <1>7, WriteBupKeepsIInv
<1>8. CASE OpenMenu
  BY <1>8, OpenMenuKeepsIInv
<1>9. CASE CopyMenu
  BY <1>9, CopyMenuKeepsIInv
<1>10. CASE OpenVob
  BY <1>10, OpenVobKeepsIInv
<1>11. CASE CopyVob
  BY <1>11, CopyVobKeepsIInv
<1>12. CASE NextSet
  BY <1>12, NextSetKeepsIInv
<1>13. CASE AllDone \/ Exit \/ Killed
  BY <1>13, EndingsKeepIInv
<1>14. CASE RunAgain
  BY <1>14, RunAgainKeepsIInv
<1>15. CASE AllRunsEnded \/ UNCHANGED vars
  <2>1. /\ UNCHANGED <<request, files>> /\ disc' = disc /\ call' = call /\ run' = run
        /\ pc' = pc /\ title_set' = title_set /\ vob' = vob /\ files' = files
        /\ streams' = streams /\ closed' = closed
        /\ result' = result
    BY <1>15 DEF AllRunsEnded, vars, request
  <2>2. /\ VobPlaces' /\ BackupComesSecond' /\ Set' = Set
        /\ \A t, slot : IsDone(t, slot)' <=> IsDone(t, slot)
        /\ \A t : IsCopied(t)' <=> IsCopied(t)
    BY <2>1, FilesStay DEF Set
  <2>3. TypeOK' /\ Touched'
    BY <2>1 DEF IInv, Base, TypeOK, Touched
  <2>4. Phase'
    BY <2>1, <2>2 DEF IInv, Base, Phase, Cur, At
  <2>5. CurrentSet'
    BY <2>1, <2>2 DEF IInv, Base, CurrentSet, AtMenu, AtVobs, Succeeded
  <2>6. EarlierSets' /\ Choice' /\ Closing'
    BY <2>1, <2>2 DEF IInv, Base, EarlierSets, Choice, Closing, Working, Succeeded,
                      number_of_title_sets
  <2>7. Descriptors'
    BY <2>1 DEF IInv, Base, Descriptors, Before
  <2> QED BY <2>2, <2>3, <2>4, <2>5, <2>6, <2>7 DEF IInv, Base
<1> QED BY <1>1, <1>2, <1>3, <1>4, <1>5, <1>6, <1>7, <1>8, <1>9, <1>10, <1>11, <1>12,
           <1>13, <1>14, <1>15 DEF Next, Step

LEMMA NextKeepsIInv == IInv /\ [Next]_vars => IInv'
BY NextKeepsBase, NextKeepsSizes, NextTearsLittle DEF IInv

(* The inductive invariant holds in every state of every series of runs.    *)
THEOREM MirrorInvariant == Spec => []IInv
<1> QED BY InitHasIInv, NextKeepsIInv, PTL DEF Spec

-----------------------------------------------------------------------------
(* What follows from it.                                                    *)

(* Every variable keeps its type: title_set, vob and every file that is     *)
(* written stay within the disc and the directory.                          *)
THEOREM MirrorTypeCorrect == Spec => []TypeOK
<1>1. IInv => TypeOK
  BY DEF IInv, Base
<1> QED BY <1>1, MirrorInvariant, PTL

(* A run that reports success has written every file of the title sets it   *)
(* was asked for in its full size, whatever the runs before it left, except *)
(* the end of an odd menu and the VOBs behind an empty first one.           *)
(* (dvdbackup.c DVDCopyMenu, 1157-1160; DVDCopyTitleVobX, 1034)             *)
THEOREM MirrorWhatSuccessLeavesOut == Spec => []WhatSuccessLeavesOut
<1>1. ASSUME IInv PROVE WhatSuccessLeavesOut
  <2> SUFFICES ASSUME Succeeded, NEW t \in Selected PROVE IsCopied(t)
    BY DEF WhatSuccessLeavesOut
  <2>1. TypeOK /\ CurrentSet /\ EarlierSets /\ Choice /\ VobPlaces /\ Sizes
    BY <1>1 DEF IInv, Base
  <2>2. IsCopied(title_set)
    <3>1. AtVobs /\ vob > Len(Set.size_vob)
      BY <2>1 DEF AtVobs, CurrentSet
    <3> QED BY <2>1, <3>1, CurrentSetIsCopied
  <2>3. CASE call.mode = "mirror"
    <3>1. t \in DOMAIN disc
      BY <2>3 DEF Selected
    <3>2. t < title_set \/ t = title_set
      <4>1. t \in 0..number_of_title_sets /\ title_set \in 0..number_of_title_sets
        BY <2>1, <3>1, DiscIsTyped DEF TypeOK
      <4>2. title_set >= number_of_title_sets /\ number_of_title_sets \in Int
        BY <2>1, <2>3, DiscIsTyped DEF Choice, TypeOK
      <4> QED BY <4>1, <4>2
    <3> QED BY <2>1, <2>2, <2>3, <3>1, <3>2 DEF EarlierSets
  <2>4. CASE call.mode = "title_set"
    <3>1. t = title_set
      BY <2>1, <2>4 DEF Selected, Choice
    <3> QED BY <2>2, <3>1
  <2>5. CASE call.mode = "feature"
    <3>1. t = title_set
      BY <2>5 DEF Selected
    <3> QED BY <2>2, <3>1
  <2>6. call.mode \in {"mirror", "title_set", "feature"}
    BY <2>1 DEF TypeOK, Calls
  <2> QED BY <2>3, <2>4, <2>5, <2>6
<1> QED BY <1>1, MirrorInvariant, PTL

(* A mirror that fails or is killed has damaged one title set at most: all  *)
(* before the one it was at are complete.                                   *)
THEOREM MirrorOneSetAtATime == Spec => []OneSetAtATime
<1>1. ASSUME IInv PROVE OneSetAtATime
  <2> SUFFICES ASSUME NEW t \in DOMAIN disc, NEW slot \in IFO..MaxPart,
                      files[<<t, slot>>].run = run,
                      NEW u \in DOMAIN disc, u < t, call.mode = "mirror"
               PROVE  IsCopied(u)
    BY DEF OneSetAtATime
  <2>1. \A n \in DOMAIN disc : n \in 0..MaxSet
    BY <1>1, DiscIsTyped DEF IInv, Base, TypeOK
  <2>2. <<t, slot>> \in File /\ <<t, slot>>[1] = t
    BY <2>1 DEF File
  <2>3. t <= title_set
    BY <1>1, <2>2 DEF IInv, Base, Touched
  <2>4. u < title_set
    <3>1. title_set \in 0..MaxSet /\ t \in 0..MaxSet /\ u \in 0..MaxSet
      BY <1>1, <2>1 DEF IInv, Base, TypeOK
    <3> QED BY <2>3, <3>1
  <2> QED BY <1>1, <2>4 DEF IInv, Base, EarlierSets
<1> QED BY <1>1, MirrorInvariant, PTL

(* A complete BUP is older than the damage to its IFO, or the same file.    *)
THEOREM MirrorBackupComesSecond == Spec => []BackupComesSecond
<1>1. IInv => BackupComesSecond
  BY DEF IInv, Base
<1> QED BY <1>1, MirrorInvariant, PTL

(* The VOBs of a title set that a run completed are consecutive pieces of   *)
(* its title domain (the offset that DVDCopyTitleVobX adds up).             *)
THEOREM MirrorVobsFitTogether == Spec => []VobsFitTogether
<1>1. ASSUME IInv PROVE VobsFitTogether
  <2> SUFFICES ASSUME NEW t \in DOMAIN disc, NEW v \in 1..MaxPart - 1,
                      IsDone(t, v), IsDone(t, v + 1)
               PROVE  files[<<t, v + 1>>].from = files[<<t, v>>].from + files[<<t, v>>].blocks
    BY DEF VobsFitTogether
  <2> DEFINE vobs == disc[t].size_vob
             w == v + 1
  <2>1. /\ disc \in Discs /\ vobs \in Seq(Nat) /\ v \in 1..MaxPart /\ w \in 1..MaxPart
        /\ v \in IFO..MaxPart
    BY <1>1, DiscIsTyped, MirrorAssumption DEF IInv, Base, TypeOK, IFO
  <2>2. /\ w <= Len(vobs)
        /\ files[<<t, w>>].from = OffsetIn(vobs, w)
        /\ files[<<t, v>>].from = OffsetIn(vobs, v)
    BY <1>1, <2>1 DEF IInv, Base, VobPlaces, IsDone
  <2>3. v \in 1..Len(vobs)
    BY <2>1, <2>2
  <2>4. OffsetIn(vobs, v + 1) = OffsetIn(vobs, v) + Blocks(vobs[v])
    BY <2>1, <2>3, OffsetStep
  <2>5. files[<<t, v>>].blocks = Blocks(vobs[v])
    <3>1. Bytes(t, v) = vobs[v]
      BY <2>1, <2>3, BytesType
    <3> QED BY <3>1 DEF IsDone
  <2> QED BY <2>2, <2>4, <2>5
<1> QED BY <1>1, MirrorInvariant, PTL

(* Two descriptors are left open for each title set (DVDCopyIfoBup closes   *)
(* neither of its files), and at most one more is open besides.             *)
THEOREM MirrorDescriptorsAreBounded == Spec => []DescriptorsAreBounded
<1>1. ASSUME IInv PROVE DescriptorsAreBounded
  <2>1. TypeOK /\ Descriptors /\ title_set \in 0..MaxSet /\ Before \in Nat
    BY <1>1, SetIsTyped DEF IInv, Base
  <2>2. streams <= Before + 3
    BY <2>1 DEF Descriptors, TypeOK
  <2> QED BY <2>1, <2>2 DEF DescriptorsAreBounded, Before, TypeOK
<1> QED BY <1>1, MirrorInvariant, PTL

(* However each of several runs ends, the files that it leaves torn are one *)
(* file, or an IFO and its BUP, which DVDCopyIfoBup truncates both before   *)
(* it reads a byte.                                                         *)
THEOREM MirrorTornFilesBelongTogether == Spec => []TornFilesBelongTogether
<1>1. IInv => TornFilesBelongTogether
  BY DEF IInv
<1> QED BY <1>1, MirrorInvariant, PTL

\* What OnlyWhatIsAsked says of a step.
OthersStay ==
  \A f \in File : files[f] = Other \/ f[1] \notin Selected => files'[f] = files[f]

(* A file that is written is an ordinary file of a title set asked for.     *)
LEMMA WritesWhatIsAsked ==
  ASSUME IInv, Working, NEW slot \in IFO..MaxPart, files[At(slot)] # Other,
         NEW c, files' = [files EXCEPT ![At(slot)] = c]
  PROVE  OthersStay
<1>1. title_set \in Selected
  <2>1. call.mode \in {"mirror", "title_set", "feature"} /\ title_set \in DOMAIN disc
    BY DEF IInv, Base, TypeOK, Calls
  <2>2. call.mode = "title_set" => title_set = call.title_set
    BY DEF IInv, Base, Choice
  <2>3. CASE call.mode = "mirror"
    BY <2>1, <2>3 DEF Selected
  <2>4. CASE call.mode = "title_set"
    BY <2>2, <2>4 DEF Selected
  <2>5. CASE call.mode = "feature"
    BY <2>5 DEF Selected
  <2> QED BY <2>1, <2>3, <2>4, <2>5
<1> SUFFICES ASSUME NEW f \in File, files[f] = Other \/ f[1] \notin Selected
             PROVE  files'[f] = files[f]
  BY DEF OthersStay
<1>2. f # At(slot)
  BY <1>1 DEF At
<1>3. files \in [File -> Contents]
  BY DEF IInv, Base, TypeOK, Contents
<1> QED BY <1>2, <1>3

(* Files of title sets that were not asked for are never touched, nor is    *)
(* anything that is not an ordinary file: DVDCopyIfoBup, DVDCopyMenu and    *)
(* DVDCopyTitleVobX look before they open, and what they opened is still    *)
(* there when they write.                                                   *)
THEOREM MirrorOnlyWhatIsAsked == Spec => OnlyWhatIsAsked
<1>1. ASSUME IInv, [Next]_vars PROVE OthersStay \/ UNCHANGED vars
  <2>1. /\ IFO \in IFO..MaxPart /\ BUP \in IFO..MaxPart /\ MENU \in IFO..MaxPart
        /\ Other.state = "other" /\ Phase
    BY <1>1, ContentsAreTyped DEF Other, Content, IInv, Base
  <2>2. CASE UNCHANGED files
    BY <2>2 DEF OthersStay
  <2>3. CASE OpenIfo
    <3>1. Working /\ files[At(IFO)] # Other
      BY <2>3 DEF OpenIfo, Working
    <3> QED BY <1>1, <2>1, <2>3, <3>1, WritesWhatIsAsked DEF OpenIfo, Begin
  <2>4. CASE OpenBup
    <3>1. Working /\ files[At(BUP)] # Other
      BY <2>1, <2>4 DEF OpenBup, Working, Phase, Cur
    <3> QED BY <1>1, <2>1, <2>4, <3>1, WritesWhatIsAsked DEF OpenBup, Begin
  <2>5. CASE WriteIfo
    <3>1. Working /\ files[At(IFO)] # Other
      BY <2>1, <2>5 DEF WriteIfo, Working, Phase, Cur
    <3> QED BY <1>1, <2>1, <2>5, <3>1, WritesWhatIsAsked DEF WriteIfo, Done
  <2>6. CASE WriteBup
    <3>1. Working /\ files[At(BUP)] # Other
      BY <2>1, <2>6 DEF WriteBup, Working, Phase, Cur
    <3> QED BY <1>1, <2>1, <2>6, <3>1, WritesWhatIsAsked DEF WriteBup, Done
  <2>7. CASE OpenMenu
    <3>1. Working /\ files[At(MENU)] # Other
      BY <2>7 DEF OpenMenu, Working
    <3> QED BY <1>1, <2>1, <2>7, <3>1, WritesWhatIsAsked DEF OpenMenu, Begin
  <2>8. CASE CopyMenu
    <3>1. Working /\ files[At(MENU)] # Other
      BY <2>1, <2>8 DEF CopyMenu, Working, Phase, Cur
    <3> QED BY <1>1, <2>1, <2>8, <3>1, WritesWhatIsAsked DEF CopyMenu, Done
  <2>9. ASSUME pc \in {"vob", "copy_vob"}, vob <= Len(Set.size_vob)
        PROVE  vob \in IFO..MaxPart
    <3>1. vob \in 1..(Len(Set.size_vob) + 1) /\ Len(Set.size_vob) \in 0..MaxPart
      BY <1>1, <2>9, AmongTheVobs, SetIsTyped
    <3> QED BY <2>9, <3>1, MirrorAssumption DEF IFO
  <2>10. CASE OpenVob
    <3>1. Working /\ files[At(vob)] # Other /\ vob \in IFO..MaxPart
      BY <2>9, <2>10 DEF OpenVob, CanCopyVob, MoreVobs, number_of_vob_files, Working
    <3> QED BY <1>1, <2>10, <3>1, WritesWhatIsAsked DEF OpenVob, Begin
  <2>11. CASE CopyVob
    <3>1. Working /\ files[At(vob)] # Other /\ vob \in IFO..MaxPart
      BY <2>1, <2>9, <2>11 DEF CopyVob, Working, Phase, Cur
    <3> QED BY <1>1, <2>11, <3>1, WritesWhatIsAsked DEF CopyVob, Done
  <2>12. \/ UNCHANGED files \/ OpenIfo \/ OpenBup \/ WriteIfo \/ WriteBup
         \/ OpenMenu \/ CopyMenu \/ OpenVob \/ CopyVob
    BY <1>1 DEF Next, Step, FileSetFails, NoSuchTitleSet, FileSet, SkipIfo, RefuseIfo,
                OpenIfoFails, OpenBupFails, ReadIfo, IfoFails, SkipMenu, OpenMenuFails,
                CopyMenuFails, SkipVob, OpenVobFails, CopyVobFails, NextSet, AllDone, Exit,
                Fail, Killed, RunAgain, AllRunsEnded, vars
  <2> QED BY <2>2, <2>3, <2>4, <2>5, <2>6, <2>7, <2>8, <2>10, <2>11, <2>12
<1>2. IInv /\ [Next]_vars =>
        [\A f \in File :
           files[f] = Other \/ f[1] \notin Selected => files'[f] = files[f]]_vars
  BY <1>1 DEF OthersStay
<1> QED BY <1>2, MirrorInvariant, PTL DEF Spec, OnlyWhatIsAsked

=============================================================================
