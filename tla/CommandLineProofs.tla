--------------------------- MODULE CommandLineProofs ---------------------------
(***************************************************************************)
(* main() for any number of runs, any command lines, labels of any length  *)
(* and any file system: what name a disc gets, that runs which overtake    *)
(* each other do not all fail, and why a run that fails does.              *)
(***************************************************************************)
EXTENDS CommandLine, SequenceTheorems, WellFoundedInduction, TLAPS

-----------------------------------------------------------------------------
(* The title name.                                                          *)

(* Induction over the naturals, for a property given as a set: its minimal  *)
(* counterexample would have a predecessor.                                 *)
LEMMA Induction ==
  ASSUME NEW S, 0 \in S, \A n \in Nat : n \in S => n + 1 \in S
  PROVE  Nat \subseteq S
<1> DEFINE Below == {ss \in Nat \X Nat : ss[1] < ss[2]}
<1> DEFINE Missing == Nat \ S
<1> SUFFICES ASSUME Missing # {} PROVE FALSE
  OBVIOUS
<1>1. PICK x \in Missing : \A y \in Missing : ~(<<y, x>> \in Below)
  <2>1. IsWellFoundedOn(Below, Nat)
    BY NatLessThanWellFounded DEF OpToRel
  <2>2. Missing \subseteq Nat
    OBVIOUS
  <2> HIDE DEF Below, Missing
  <2> QED BY <2>1, <2>2, WFMin
<1>2. x # 0 /\ x \in Nat
  OBVIOUS
<1>3. x - 1 \in Nat /\ x - 1 \notin S
  BY <1>2
<1>4. <<x - 1, x>> \in Below
  BY <1>2, <1>3
<1> QED BY <1>1, <1>3, <1>4


(* A set of numbers up to n that has members has a last and a first one.    *)
LEMMA LastAndFirst ==
  \A n \in Nat : \A q \in SUBSET (0..n) :
    q # {} => (\E x \in q : \A y \in q : y <= x) /\ (\E x \in q : \A y \in q : x <= y)
<1> DEFINE S == {n \in Nat : \A q \in SUBSET (0..n) : q # {} =>
                   (\E x \in q : \A y \in q : y <= x) /\ (\E x \in q : \A y \in q : x <= y)}
<1>1. 0 \in S
  <2>1. 0..0 = {0} /\ 0 <= 0
    OBVIOUS
  <2> QED BY <2>1
<1>2. ASSUME NEW n \in Nat, n \in S PROVE n + 1 \in S
  <2> DEFINE m == n + 1
  <2>0. m \in Nat /\ \A x \in 0..m : x <= m /\ (x # m => x \in 0..n)
    OBVIOUS
  <2> HIDE DEF m
  <2> SUFFICES ASSUME NEW q \in SUBSET (0..m), q # {}
               PROVE  (\E x \in q : \A y \in q : y <= x) /\ (\E x \in q : \A y \in q : x <= y)
    BY <2>0 DEF m
  <2> DEFINE p == q \ {m}
  <2>1. p \in SUBSET (0..n)
    BY <2>0
  <2>2. CASE p = {}
    <3>1. q = {m} /\ m <= m
      BY <2>0, <2>2
    <3> QED BY <3>1
  <2>3. CASE p # {}
    <3>1. (\E x \in p : \A y \in p : y <= x) /\ (\E x \in p : \A y \in p : x <= y)
      BY <1>2, <2>1, <2>3
    <3>2. \E x \in q : \A y \in q : x <= y
      BY <2>0, <3>1
    <3>3. \E x \in q : \A y \in q : y <= x
      <4>1. CASE m \in q
        <5>1. m <= m
          BY <2>0
        <5> QED BY <2>0, <4>1, <5>1
      <4>2. CASE m \notin q
        BY <3>1, <4>2
      <4> QED BY <4>1, <4>2
    <3> QED BY <3>2, <3>3
  <2> QED BY <2>2, <2>3
<1> HIDE DEF S
<1>3. \A n \in Nat : n \in S
  BY <1>1, <1>2, Induction
<1> QED BY <1>3 DEF S

\* A text t is the beginning of a label.
Begins(t, label) ==
  /\ t \in Seq(Char) /\ Len(t) <= Length
  /\ \A k \in 1..Len(t) : t[k] = label[k]

(* The text of a label is what stands before its first NUL.                 *)
LEMMA TextProperties ==
  ASSUME NEW label \in Label
  PROVE  /\ Begins(Text(label), label)
         /\ Len(Text(label)) = Length \/ label[Len(Text(label)) + 1] = NUL
         /\ \A k \in 1..Len(Text(label)) : label[k] # NUL
<1> DEFINE text == {k \in 1..Length : \A l \in 1..k : label[l] # NUL}
           q == {k \in 0..Length : k = 0 \/ k \in text}
<1>1. Length \in Nat
  BY LengthAssumption
<1>2. PICK n \in q : \A y \in q : y <= n
  <2>1. 0 \in q /\ q \in SUBSET (0..Length)
    BY <1>1
  <2> HIDE DEF q
  <2> QED BY <1>1, <2>1, LastAndFirst
<1>3. n \in 0..Length /\ \A k \in 1..n : label[k] # NUL
  BY <1>1, <1>2
<1>4. text = 1..n
  <2>1. ASSUME NEW k \in 1..n PROVE k \in text
    <3>1. k \in 1..Length /\ \A l \in 1..k : l \in 1..n
      BY <1>1, <1>3
    <3> QED BY <1>3, <3>1
  <2>2. ASSUME NEW k \in text PROVE k \in 1..n
    <3>1. k \in q /\ k \in 1..Length
      BY <1>1
    <3>2. k <= n
      BY <1>2, <3>1
    <3> HIDE DEF q, text
    <3> QED BY <1>3, <3>1, <3>2
  <2> QED BY <2>1, <2>2
<1>5. n = Length \/ label[n + 1] = NUL
  <2> SUFFICES ASSUME n # Length, label[n + 1] # NUL PROVE FALSE
    OBVIOUS
  <2> DEFINE m == n + 1
  <2>1. m \in 1..Length /\ m \in 0..Length /\ ~(m <= n) /\ \A l \in 1..m : l \in 1..n \/ l = m
    BY <1>1, <1>3
  <2>2. \A l \in 1..m : label[l] # NUL
    BY <1>3, <2>1
  <2> HIDE DEF m
  <2>3. m \in q
    BY <2>1, <2>2
  <2> QED BY <1>2, <2>1, <2>3
<1>6. Text(label) = [k \in 1..n |-> label[k]]
  <2>1. Text(label) = [k \in text |-> label[k]]
    BY DEF Text
  <2> HIDE DEF text
  <2> QED BY <1>4, <2>1
<1>7. \A k \in 1..n : label[k] \in Char
  <2>1. \A k \in 1..n : k \in 1..Length
    BY <1>1, <1>3
  <2>2. \A k \in 1..Length : label[k] \in Char \cup {NUL}
    BY DEF Label
  <2> QED BY <1>3, <2>1, <2>2
<1> HIDE DEF text, q
<1>8. Text(label) \in Seq(Char) /\ Len(Text(label)) = n
  BY <1>3, <1>6, <1>7
<1>9. n <= Length /\ \A k \in 1..n : Text(label)[k] = label[k]
  BY <1>1, <1>3, <1>6
<1> QED BY <1>3, <1>5, <1>8, <1>9 DEF Begins

(* What is trimmed from a text that fills the field is its trailing blanks. *)
LEMMA TrimProperties ==
  ASSUME NEW text \in Seq(Char)
  PROVE  /\ TrimEnd(text) \in Seq(Char) /\ Len(TrimEnd(text)) <= Len(text)
         /\ \A k \in 1..Len(TrimEnd(text)) : TrimEnd(text)[k] = text[k]
         /\ \A k \in Len(TrimEnd(text)) + 1..Len(text) : text[k] = Space
         /\ TrimEnd(text) # <<>> => text[Len(TrimEnd(text))] # Space
<1> DEFINE len == Len(text)
           P(k) == (k > 0 => text[k] # Space) /\ \A l \in (k + 1)..len : text[l] = Space
           q == {k \in 0..len : k = 0 \/ text[k] # Space}
           last == CHOOSE k \in 0..len : P(k)
<1>0. len \in Nat
  OBVIOUS
<1>1. TrimEnd(text) = SubSeq(text, 1, last)
  BY DEF TrimEnd
<1> HIDE DEF len
<1>2. PICK n \in q : \A y \in q : y <= n
  <2>1. 0 \in q /\ q \in SUBSET (0..len)
    BY <1>0
  <2> HIDE DEF q
  <2> QED BY <1>0, <2>1, LastAndFirst
<1>3. n \in 0..len /\ P(n)
  <2>1. ASSUME NEW l \in (n + 1)..len PROVE text[l] = Space
    <3>1. l \in 0..len /\ ~(l <= n)
      BY <1>0, <1>2
    <3>2. l \notin q
      BY <1>2, <3>1
    <3> QED BY <3>1, <3>2
  <2>2. n > 0 => text[n] # Space
    BY <1>2
  <2> QED BY <1>2, <2>1, <2>2
<1>4. last \in 0..len /\ P(last)
  <2> HIDE DEF P
  <2> QED BY <1>3
<1> HIDE DEF last
<1>5. /\ TrimEnd(text) \in Seq(Char) /\ Len(TrimEnd(text)) = last
      /\ \A k \in 1..last : TrimEnd(text)[k] = text[k]
  <2>1. last \in 0..Len(text) /\ last <= Len(text)
    BY <1>4 DEF len
  <2>2. 1 \in 1..(Len(text) + 1) /\ 1 <= last + 1 /\ last - 1 + 1 = last
    BY <2>1
  <2>3. /\ SubSeq(text, 1, last) \in Seq(Char)
        /\ Len(SubSeq(text, 1, last)) = last
        /\ \A k \in 1..last : SubSeq(text, 1, last)[k] = text[k]
    BY <2>1, <2>2, SubSeqProperties
  <2> QED BY <1>1, <2>3
<1>6. TrimEnd(text) # <<>> => last > 0
  <2>1. Len(TrimEnd(text)) = 0 => TrimEnd(text) = <<>>
    BY <1>5, EmptySeq
  <2> QED BY <1>0, <1>4, <1>5, <2>1
<1>7. last <= len
  BY <1>0, <1>4
<1> QED BY <1>4, <1>5, <1>6, <1>7 DEF len

\* w counts the characters of the words up to place n.
Counts(text, n, w) ==
  /\ w \in [0..n -> Nat]
  /\ \A k \in 0..n : w[k] = IF k = 0 \/ text[k] \in Blank THEN 0 ELSE w[k - 1] + 1

HasCounts(text, n) == \E w : Counts(text, n, w)

(* There is such a function, whatever the text.                             *)
LEMMA CountsExist == \A text : \A n \in Nat : HasCounts(text, n)
<1> TAKE text
<1> DEFINE S == {n \in Nat : HasCounts(text, n)}
<1>1. 0 \in S
  <2> DEFINE w == [k \in 0..0 |-> 0]
  <2>1. \A k \in 0..0 : k = 0
    OBVIOUS
  <2>2. w \in [0..0 -> Nat] /\ \A k \in 0..0 : w[k] = 0
    OBVIOUS
  <2> HIDE DEF w
  <2>3. Counts(text, 0, w)
    BY <2>1, <2>2 DEF Counts
  <2> QED BY <2>3 DEF HasCounts
<1>2. ASSUME NEW n \in Nat, n \in S PROVE n + 1 \in S
  <2> DEFINE m == n + 1
  <2>1. /\ m \in Nat /\ m # 0 /\ m - 1 = n /\ m \in 0..m /\ n \in 0..n
        /\ \A k \in 0..m : k = m \/ k \in 0..n
        /\ \A k \in 0..n : k \in 0..m /\ k # m /\ (k = 0 \/ k - 1 \in 0..n)
    OBVIOUS
  <2>2. PICK w : Counts(text, n, w)
    BY <1>2 DEF HasCounts
  <2> DEFINE next == IF text[m] \in Blank THEN 0 ELSE w[n] + 1
             v == [k \in 0..m |-> IF k = m THEN next ELSE w[k]]
  <2> HIDE DEF m
  <2>3. w[n] \in Nat
    BY <2>1, <2>2 DEF Counts
  <2>4. next \in Nat
    BY <2>3
  <2> HIDE DEF next
  <2>5. v \in [0..m -> Nat]
    <3>1. \A k \in 0..n : w[k] \in Nat
      BY <2>2 DEF Counts
    <3> QED BY <2>1, <2>4, <3>1
  <2>6. v[m] = next /\ \A k \in 0..n : v[k] = w[k]
    BY <2>1
  <2> HIDE DEF v
  <2>7. ASSUME NEW k \in 0..m
        PROVE  v[k] = IF k = 0 \/ text[k] \in Blank THEN 0 ELSE v[k - 1] + 1
    <3>1. CASE k = m
      BY <2>1, <2>6, <3>1 DEF next
    <3>2. CASE k # m
      <4>1. k \in 0..n /\ (k = 0 \/ k - 1 \in 0..n)
        BY <2>1, <3>2
      <4>2. w[k] = IF k = 0 \/ text[k] \in Blank THEN 0 ELSE w[k - 1] + 1
        BY <2>2, <4>1 DEF Counts
      <4> QED BY <2>6, <4>1, <4>2
    <3> QED BY <3>1, <3>2
  <2>8. Counts(text, m, v)
    BY <2>5, <2>7 DEF Counts
  <2> QED BY <2>1, <2>8 DEF HasCounts, m
<1> HIDE DEF S
<1>3. \A n \in Nat : n \in S
  BY <1>1, <1>2, Induction
<1> QED BY <1>3 DEF S

(* A letter is made a capital where a word begins, and small elsewhere.     *)
LEMMA ConvertedProperties ==
  ASSUME NEW text \in Seq(Char)
  PROVE  /\ Len(Converted(text)) = Len(text)
         /\ DOMAIN Converted(text) = 1..Len(text)
         /\ \A k \in 1..Len(text) : Converted(text)[k] =
              IF text[k] = Underscore THEN Space
              ELSE IF k = 1 \/ text[k - 1] \in Blank THEN toupper(text[k])
              ELSE tolower(text[k])
<1> DEFINE n == Len(text)
           w == CHOOSE w : w = [k \in 0..n |->
                  IF k = 0 \/ text[k] \in Blank THEN 0 ELSE w[k - 1] + 1]
<1>1. n \in Nat
  OBVIOUS
<1>2. Converted(text) =
        [k \in 1..n |->
           CASE text[k] = Underscore -> Space
             [] text[k] # Underscore /\ w[k - 1] = 0 -> toupper(text[k])
             [] OTHER -> tolower(text[k])]
  BY DEF Converted
<1> HIDE DEF n
<1>3. PICK u : Counts(text, n, u)
  BY <1>1, CountsExist DEF HasCounts
<1>4. u = [k \in 0..n |-> IF k = 0 \/ text[k] \in Blank THEN 0 ELSE u[k - 1] + 1]
  BY <1>3 DEF Counts
<1>5. w = [k \in 0..n |-> IF k = 0 \/ text[k] \in Blank THEN 0 ELSE w[k - 1] + 1]
  BY <1>4
<1> HIDE DEF w
<1>6. \A k \in 0..n : w[k] \in Nat
  <2> DEFINE S == {k \in Nat : k <= n => w[k] \in Nat}
  <2>1. 0 \in S
    BY <1>1, <1>5
  <2>2. ASSUME NEW k \in Nat, k \in S PROVE k + 1 \in S
    <3> SUFFICES ASSUME k + 1 <= n PROVE w[k + 1] \in Nat
      OBVIOUS
    <3> DEFINE m == k + 1
    <3>1. m \in 0..n /\ m # 0 /\ m - 1 = k /\ k <= n
      BY <1>1
    <3> HIDE DEF m
    <3>2. w[m] = IF text[m] \in Blank THEN 0 ELSE w[k] + 1
      BY <1>5, <3>1
    <3>3. w[k] \in Nat
      BY <2>2, <3>1
    <3>4. w[m] \in Nat
      BY <3>2, <3>3
    <3> QED BY <3>4 DEF m
  <2> HIDE DEF S
  <2>3. \A k \in Nat : k \in S
    BY <2>1, <2>2, Induction
  <2> QED BY <1>1, <2>3 DEF S
<1>7. \A k \in 1..n : w[k - 1] = 0 <=> k = 1 \/ text[k - 1] \in Blank
  <2> TAKE k \in 1..n
  <2> DEFINE m == k - 1
  <2>1. m \in 0..n /\ (m = 0 <=> k = 1) /\ (m # 0 => m - 1 \in 0..n)
    BY <1>1
  <2> HIDE DEF m
  <2>2. w[m] = IF m = 0 \/ text[m] \in Blank THEN 0 ELSE w[m - 1] + 1
    BY <1>5, <2>1
  <2>3. w[m] = 0 <=> m = 0 \/ text[m] \in Blank
    BY <1>6, <2>1, <2>2
  <2> QED BY <2>1, <2>3 DEF m
<1>8. DOMAIN Converted(text) = 1..n /\ Len(Converted(text)) = n
  <2>1. DOMAIN Converted(text) = 1..n
    BY <1>2
  <2> QED BY <1>1, <2>1
<1>9. ASSUME NEW k \in 1..n
      PROVE  Converted(text)[k] = IF text[k] = Underscore THEN Space
                                  ELSE IF k = 1 \/ text[k - 1] \in Blank
                                       THEN toupper(text[k]) ELSE tolower(text[k])
  <2>1. Converted(text)[k] =
          CASE text[k] = Underscore -> Space
            [] text[k] # Underscore /\ w[k - 1] = 0 -> toupper(text[k])
            [] OTHER -> tolower(text[k])
    BY <1>2
  <2>2. w[k - 1] = 0 <=> k = 1 \/ text[k - 1] \in Blank
    BY <1>7
  <2> QED BY <2>1, <2>2
<1> QED BY <1>8, <1>9 DEF n

\* What NameIsTidy says of one name and its label.
IsTidy(name, label) ==
  /\ Len(name) <= Length
  /\ \A k \in 1..Len(name) :
       /\ name[k] = Space <=> label[k] \in Blank
       /\ name[k] = "A" <=> label[k] \in {"A", "a"} /\ (k = 1 \/ name[k - 1] = Space)
       /\ name[k] # Underscore
  /\ \A k \in Len(name) + 1..Length :
       label[k] = Space \/ \E l \in 1..k : label[l] = NUL
  /\ (\A k \in 1..Length : label[k] # NUL) /\ name # <<>> =>
       label[Len(name)] # Space

(* What is left of a label after trimming: its beginning, and behind that   *)
(* only blanks or the end of the string.                                    *)
LEMMA TrimmedProperties ==
  ASSUME NEW label \in Label
  PROVE  LET t == Trimmed(Text(label))
         IN  /\ Begins(t, label)
             /\ \A k \in Len(t) + 1..Length :
                  label[k] = Space \/ \E l \in 1..k : label[l] = NUL
             /\ (\A k \in 1..Length : label[k] # NUL) /\ t # <<>> => label[Len(t)] # Space
<1> DEFINE text == Text(label)
           t == Trimmed(text)
           n == Len(text)
<1>1. /\ text \in Seq(Char) /\ n <= Length /\ \A k \in 1..n : text[k] = label[k]
      /\ n = Length \/ label[n + 1] = NUL
  BY TextProperties DEF Begins
<1>2. Length \in Nat /\ n \in Nat
  BY <1>1, LengthAssumption
<1> HIDE DEF text, n, t
<1>3. CASE n = Length
  <2>1. t = TrimEnd(text)
    BY <1>3 DEF t, n, Trimmed
  <2> DEFINE m == Len(t)
  <2>2. /\ t \in Seq(Char) /\ m <= n /\ \A k \in 1..m : t[k] = text[k]
        /\ \A k \in m + 1..n : text[k] = Space
        /\ t # <<>> => text[m] # Space
    BY <1>1, <2>1, TrimProperties DEF n
  <2>3. m \in Nat
    BY <2>2
  <2>4. t # <<>> => m > 0
    BY <2>2, <2>3, EmptySeq
  <2> HIDE DEF m
  <2>5. \A k \in 1..m : k \in 1..n
    BY <1>2, <2>2, <2>3
  <2>6. \A k \in m + 1..Length : k \in 1..n
    BY <1>2, <1>3, <2>3
  <2>7. Begins(t, label)
    BY <1>1, <1>3, <2>2, <2>5 DEF Begins, m
  <2>8. \A k \in m + 1..Length : label[k] = Space
    BY <1>1, <1>3, <2>2, <2>6
  <2>9. t # <<>> => label[m] # Space
    <3>1. t # <<>> => m \in 1..n
      BY <1>2, <2>2, <2>3, <2>4
    <3> QED BY <1>1, <2>2, <3>1
  <2> QED BY <2>7, <2>8, <2>9 DEF t, text, m
<1>4. CASE n # Length
  <2>1. t = text
    BY <1>4 DEF t, n, Trimmed
  <2> DEFINE m == n + 1
  <2>2. m \in 1..Length /\ label[m] = NUL
    BY <1>1, <1>2, <1>4
  <2>3. Begins(t, label)
    BY <1>1, <2>1 DEF Begins, n
  <2>4. \A k \in m..Length : m \in 1..k
    BY <1>2
  <2>5. \A k \in Len(t) + 1..Length : \E l \in 1..k : label[l] = NUL
    BY <2>1, <2>2, <2>4 DEF n
  <2>6. ~(\A k \in 1..Length : label[k] # NUL)
    BY <2>2
  <2> QED BY <2>3, <2>5, <2>6 DEF t, text
<1> QED BY <1>3, <1>4

(* The name that DVDGetTitleName makes of a label is tidy, and a string.    *)
LEMMA NameProperties ==
  ASSUME NEW label \in Label
  PROVE  /\ IsTidy(DVDGetTitleName(label), label)
         /\ DVDGetTitleName(label) # NoName
<1> DEFINE t == Trimmed(Text(label))
           name == Converted(t)
           n == Len(t)
<1>1. /\ t \in Seq(Char) /\ n <= Length /\ \A k \in 1..n : t[k] = label[k]
      /\ \A k \in n + 1..Length : label[k] = Space \/ \E l \in 1..k : label[l] = NUL
      /\ (\A k \in 1..Length : label[k] # NUL) /\ t # <<>> => label[n] # Space
  BY TrimmedProperties DEF Begins
<1> HIDE DEF t
<1>2. /\ Len(name) = n
      /\ \A k \in 1..n : name[k] =
           IF t[k] = Underscore THEN Space
           ELSE IF k = 1 \/ t[k - 1] \in Blank THEN toupper(t[k]) ELSE tolower(t[k])
  BY <1>1, ConvertedProperties
<1>3. n \in Nat /\ \A k \in 1..n : t[k] \in Char
  BY <1>1
<1>4. DVDGetTitleName(label) = name
  BY DEF DVDGetTitleName, t
<1>5. name # <<>> => t # <<>>
  <2> SUFFICES ASSUME t = <<>> PROVE name = <<>>
    OBVIOUS
  <2>1. DOMAIN name = 1..Len(t)
    BY <1>1, ConvertedProperties
  <2>2. 1..Len(t) = {}
    OBVIOUS
  <2>3. name = [k \in DOMAIN name |-> name[k]]
    BY DEF Converted
  <2> HIDE DEF name
  <2> QED BY <2>1, <2>2, <2>3
<1> HIDE DEF n, name
<1>6. \A k \in 1..n : name[k] = Space <=> t[k] \in Blank
  BY <1>2, <1>3 DEF Char, Blank, Space, Underscore, toupper, tolower
<1>7. ASSUME NEW k \in 1..n
      PROVE  /\ name[k] = "A" <=> t[k] \in {"A", "a"} /\ (k = 1 \/ name[k - 1] = Space)
             /\ name[k] # Underscore /\ name[k] # NUL
  <2>1. k = 1 \/ t[k - 1] \in Blank <=> k = 1 \/ name[k - 1] = Space
    <3>1. k = 1 \/ k - 1 \in 1..n
      BY <1>3
    <3> QED BY <1>6, <3>1
  <2>2. t[k] \in Char
    BY <1>3
  <2> QED BY <1>2, <2>1, <2>2 DEF Char, Blank, Space, Underscore, NUL, toupper, tolower
<1>8. IsTidy(name, label)
  BY <1>1, <1>2, <1>5, <1>6, <1>7 DEF IsTidy
<1>9. name # NoName
  <2>1. Len(NoName) = 1 /\ NoName[1] = NUL
    BY DEF NoName
  <2>2. n = 1 => 1 \in 1..n
    BY <1>3
  <2> QED BY <1>2, <1>7, <2>1, <2>2
<1> QED BY <1>4, <1>8, <1>9

-----------------------------------------------------------------------------
(* The inductive invariant.                                                 *)

Steps == {"arguments", "opened", "stat", "mkdir", "backup", "exited"}
InDirectories(x) == pc[x] \in {"stat", "mkdir"}

Shape ==
  /\ call \in Calls
  /\ pc \in [Runs -> Steps] /\ level \in [Runs -> 1..4] /\ status \in [Runs -> Int]
  /\ DOMAIN title_name = Runs /\ DOMAIN made = Runs

\* The directories are those of the beginning, and those that some run made,
\* which is past them.
Disk ==
  /\ files = tree.files /\ tree.dirs \subseteq dirs
  /\ \A p \in dirs : p \in tree.dirs \/ \E q \in Runs : level[q] > Len(p) + 1

\* Which run gets how far.
Named(x) ==
  /\ pc[x] \in {"arguments", "opened"} => title_name[x] = NoName
  /\ HasName(x) => title_name[x] # NoName
  /\ HasName(x) /\ Given(x).name = NoName => IsTidy(title_name[x], call[x].label)

Levels(x) ==
  /\ pc[x] \in {"arguments", "opened"} => level[x] = 1
  /\ InDirectories(x) => level[x] \in 1..3
  /\ pc[x] = "backup" => level[x] = 4
  /\ pc[x] = "exited" /\ level[x] \in 2..3 => status[x] = -1 /\ title_name[x] # NoName

\* Where no file is in the way, a run stands in a directory; and the one it is
\* about to make was not there in the beginning.
Stands(x) ==
  /\ InDirectories(x) /\ level[x] > 1 /\ tree.files = {} => Path(x, level[x] - 1) \in dirs
  /\ pc[x] = "mkdir" => Path(x, level[x]) \notin tree.dirs
  /\ pc[x] = "mkdir" /\ tree.files = {} => Len(Path(x, level[x])) + 1 = level[x]

RunInv(x) == Named(x) /\ Levels(x) /\ Stands(x)

\* A run that gave up was overtaken by one that is ahead of it.
Overtaken(x) == GaveUp(x) /\ refused = {} /\ tree.files = {} => \E q \in Runs : level[q] > level[x]

Base == Shape /\ Disk /\ \A x \in Runs : RunInv(x) /\ Overtaken(x)

\* Files and directories are apart, and a directory is in one; those that are
\* new have been made by a run.
Tree ==
  /\ dirs \cap files = {} /\ \A p \in dirs : p # <<>> => Up(p) \in dirs
  /\ \A p \in dirs : p \in tree.dirs \/ \E q \in Runs : p \in made[q]
  /\ \A q \in Runs : made[q] \subseteq dirs

\* What is at the directory a run has passed, and that it has not made the one
\* it is about to make.
Passed(x) ==
  /\ InDirectories(x) /\ level[x] > 1 => Path(x, level[x] - 1) \in dirs \cup tree.files
  /\ pc[x] = "mkdir" => Path(x, level[x]) \notin tree.dirs \cup made[x]

\* What ExitStatusIsJustified says of a run.
Justified(x) ==
  /\ GaveUp(x) /\ x \notin refused => InTheWay(x) \/ MadeByAnother(x)
  /\ pc[x] = "exited" /\ status[x] = 0 /\ title_name[x] # NoName =>
       \A n \in 1..3 : Path(x, n) \in dirs

IInv == Base /\ Tree /\ \A x \in Runs : Passed(x) /\ Justified(x)

-----------------------------------------------------------------------------
(* One run moves.                                                           *)

(* The path of a directory is as long as its level, unless the name of the  *)
(* disc is empty.                                                           *)
LEMMA PathLength ==
  ASSUME NEW x \in Runs, NEW n \in 1..3
  PROVE  /\ Len(Path(x, n)) \in 0..(n - 1)
         /\ n # 2 \/ title_name[x] # <<>> => Len(Path(x, n)) = n - 1
         /\ n = 2 /\ title_name[x] = <<>> => Path(x, n) = Path(x, 1)
<1>1. CASE n = 1
  BY <1>1 DEF Path
<1>2. CASE n = 2
  BY <1>2 DEF Path
<1>3. CASE n = 3
  BY <1>3 DEF Path
<1> QED BY <1>1, <1>2, <1>3

\* Run r moves, and no other: none loses a directory or falls back.
Moves(r) ==
  /\ call' = call /\ files' = files /\ tree' = tree
  /\ \A x \in Runs \ {r} :
       /\ pc'[x] = pc[x] /\ title_name'[x] = title_name[x] /\ level'[x] = level[x]
       /\ status'[x] = status[x] /\ made'[x] = made[x]
  /\ level'[r] >= level[r]
  /\ dirs \subseteq dirs' /\ \A p \in dirs' : p \in dirs \/ level'[r] > Len(p) + 1
  /\ refused \subseteq refused'

(* It is enough to look at the run that moves.                              *)
LEMMA OneRunMoves ==
  ASSUME IInv, NEW r \in Runs, Moves(r), Shape', RunInv(r)', Overtaken(r)'
  PROVE  Base'
<1>1. /\ call' = call /\ files' = files /\ tree' = tree /\ dirs \subseteq dirs'
      /\ \A p \in dirs' : p \in dirs \/ level'[r] > Len(p) + 1
      /\ refused \subseteq refused'
  BY DEF Moves
<1>2. Shape /\ Disk /\ \A x \in Runs : RunInv(x) /\ Overtaken(x)
  BY DEF IInv, Base
<1>3. \A q \in Runs : level[q] \in 1..4 /\ level'[q] \in 1..4 /\ level'[q] >= level[q]
  <2> TAKE q \in Runs
  <2>1. level[q] \in 1..4 /\ level'[q] \in 1..4
    BY <1>2 DEF Shape
  <2>2. q = r \/ level'[q] = level[q]
    BY DEF Moves
  <2> QED BY <2>1, <2>2 DEF Moves
<1>4. Disk'
  <2>1. files' = tree'.files /\ tree'.dirs \subseteq dirs'
    BY <1>1, <1>2 DEF Disk
  <2>2. ASSUME NEW p \in dirs', p \notin tree'.dirs
        PROVE  \E q \in Runs : level'[q] > Len(p) + 1
    <3>1. CASE p \in dirs
      <4>1. PICK q \in Runs : level[q] > Len(p) + 1
        BY <1>1, <1>2, <2>2, <3>1 DEF Disk
      <4>2. level'[q] > Len(p) + 1
        <5> DEFINE l == Len(p) + 1
        <5>1. \A a, c \in 1..4 : c >= a /\ a > l => c > l
          OBVIOUS
        <5> HIDE DEF l
        <5>2. level[q] > l
          BY <4>1 DEF l
        <5>3. level'[q] > l
          BY <1>3, <5>1, <5>2
        <5> QED BY <5>3 DEF l
      <4> QED BY <4>2
    <3>2. CASE p \notin dirs
      BY <1>1, <3>2
    <3> QED BY <3>1, <3>2
  <2> QED BY <2>1, <2>2 DEF Disk
<1>5. ASSUME NEW x \in Runs PROVE RunInv(x)'
  <2>1. CASE x = r
    BY <2>1
  <2>2. CASE x # r
    <3>1. /\ pc'[x] = pc[x] /\ title_name'[x] = title_name[x] /\ level'[x] = level[x]
          /\ status'[x] = status[x] /\ made'[x] = made[x]
      BY <2>2 DEF Moves
    <3>2. RunInv(x)
      BY <1>2
    <3>3. Named(x)'
      BY <1>1, <3>1, <3>2 DEF RunInv, Named, HasName, Given
    <3>4. Levels(x)'
      BY <3>1, <3>2 DEF RunInv, Levels, InDirectories
    <3>5. Stands(x)'
      <4>1. \A n : Path(x, n)' = Path(x, n)
        BY <3>1 DEF Path
      <4> QED BY <1>1, <3>1, <3>2, <4>1 DEF RunInv, Stands, InDirectories
    <3> QED BY <3>3, <3>4, <3>5 DEF RunInv
  <2> QED BY <2>1, <2>2
<1>6. ASSUME NEW x \in Runs PROVE Overtaken(x)'
  <2>1. CASE x = r
    BY <2>1
  <2>2. CASE x # r
    <3>1. /\ pc'[x] = pc[x] /\ title_name'[x] = title_name[x] /\ level'[x] = level[x]
          /\ status'[x] = status[x]
      BY <2>2 DEF Moves
    <3> SUFFICES ASSUME GaveUp(x)', refused' = {}, tree'.files = {}
                 PROVE  \E q \in Runs : level'[q] > level'[x]
      BY DEF Overtaken
    <3>2. GaveUp(x) /\ refused = {} /\ tree.files = {}
      BY <1>1, <3>1 DEF GaveUp
    <3>3. PICK q \in Runs : level[q] > level[x]
      BY <1>2, <3>2 DEF Overtaken
    <3>4. level'[q] > level'[x]
      BY <1>3, <3>1, <3>3
    <3> QED BY <3>4
  <2> QED BY <2>1, <2>2
<1> QED BY <1>4, <1>5, <1>6 DEF IInv, Base

(* A run exits elsewhere than at a directory.                               *)
LEMMA ExitKeepsIInv ==
  ASSUME IInv, NEW r \in Runs, NEW code \in Int, Exit(r, code), SameDisk, pc[r] # "exited",
         level[r] = 4 \/ (level[r] = 1 /\ (code # -1 \/ title_name[r] = NoName))
  PROVE  Base'
<1>1. /\ pc' = [pc EXCEPT ![r] = "exited"] /\ status' = [status EXCEPT ![r] = code]
      /\ title_name' = title_name /\ level' = level /\ made' = made
      /\ call' = call /\ dirs' = dirs /\ files' = files /\ refused' = refused /\ tree' = tree
  BY DEF Exit, SameDisk
<1>2. Shape /\ RunInv(r) /\ Disk
  BY DEF IInv, Base
<1>3. /\ pc'[r] = "exited" /\ status'[r] = code
      /\ \A x \in Runs \ {r} : pc'[x] = pc[x] /\ status'[x] = status[x]
  BY <1>1, <1>2 DEF Shape
<1>4. Shape'
  BY <1>1, <1>2 DEF Shape, Steps
<1>5. level[r] \in 1..4
  BY <1>2 DEF Shape
<1>6. Moves(r)
  BY <1>1, <1>3, <1>5 DEF Moves
<1>7. RunInv(r)'
  <2>1. Named(r)'
    BY <1>3 DEF Named, HasName
  <2>2. Levels(r)' /\ Stands(r)'
    BY <1>1, <1>3, <1>5 DEF Levels, Stands, InDirectories
  <2> QED BY <2>1, <2>2 DEF RunInv
<1>8. Overtaken(r)'
  BY <1>1, <1>3, <1>5 DEF Overtaken, GaveUp
<1> QED BY <1>4, <1>6, <1>7, <1>8, OneRunMoves

(* Help, Refuse and OpenFails, Info, NameFails and NoMemory, and the end of *)
(* the backup.                                                              *)
LEMMA ExitsKeepIInv ==
  ASSUME IInv, NEW r \in Runs,
         \/ Help(r) \/ Refuse(r) \/ OpenFails(r) \/ Info(r) \/ NameFails(r)
         \/ NoMemory(r) \/ Backup(r) \/ BackupFails(r)
  PROVE  Base'
<1>1. RunInv(r)
  BY DEF IInv, Base
<1>2. ASSUME pc[r] \in {"arguments", "opened"}
      PROVE  level[r] = 1 /\ title_name[r] = NoName /\ pc[r] # "exited"
  BY <1>1, <1>2 DEF RunInv, Named, Levels
<1>3. 0 \in Int /\ 1 \in Int /\ -1 \in Int /\ 1 # -1
  OBVIOUS
<1>4. CASE Help(r) \/ Info(r)
  <2>1. Exit(r, 0) /\ SameDisk /\ pc[r] \in {"arguments", "opened"}
    BY <1>4 DEF Help, Info
  <2> QED BY <1>2, <1>3, <2>1, ExitKeepsIInv
<1>5. CASE Refuse(r) \/ NameFails(r)
  <2>1. Exit(r, 1) /\ SameDisk /\ pc[r] \in {"arguments", "opened"}
    BY <1>5 DEF Refuse, NameFails, NeedsName
  <2> QED BY <1>2, <1>3, <2>1, ExitKeepsIInv
<1>6. CASE OpenFails(r)
  <2>1. Exit(r, -1) /\ SameDisk /\ pc[r] \in {"arguments", "opened"}
    BY <1>6 DEF OpenFails
  <2> QED BY <1>2, <1>3, <2>1, ExitKeepsIInv
<1>7. CASE NoMemory(r)
  <2>1. Exit(r, 1) /\ SameDisk /\ level[r] = 1 /\ pc[r] # "exited"
    BY <1>7 DEF NoMemory
  <2> QED BY <1>3, <2>1, ExitKeepsIInv
<1>8. CASE Backup(r)
  <2>1. Exit(r, 0) /\ SameDisk /\ level[r] = 4 /\ pc[r] # "exited"
    BY <1>1, <1>8 DEF Backup, RunInv, Levels
  <2> QED BY <1>3, <2>1, ExitKeepsIInv
<1>9. CASE BackupFails(r)
  <2>1. Exit(r, -1) /\ SameDisk /\ level[r] = 4 /\ pc[r] # "exited"
    BY <1>1, <1>9 DEF BackupFails, RunInv, Levels
  <2> QED BY <1>3, <2>1, ExitKeepsIInv
<1> QED BY <1>4, <1>5, <1>6, <1>7, <1>8, <1>9

(* The disc is opened, for a command line that was accepted.                *)
LEMMA OpenKeepsIInv ==
  ASSUME IInv, NEW r \in Runs, Open(r)
  PROVE  Base'
<1>1. /\ pc[r] = "arguments" /\ ~UsageError(Given(r)) /\ pc' = [pc EXCEPT ![r] = "opened"]
      /\ status' = status /\ title_name' = title_name /\ level' = level /\ made' = made
      /\ call' = call /\ dirs' = dirs /\ files' = files /\ refused' = refused /\ tree' = tree
  BY DEF Open, GoTo, SameDisk
<1>2. Shape /\ RunInv(r) /\ Disk
  BY DEF IInv, Base
<1>3. pc'[r] = "opened" /\ \A x \in Runs \ {r} : pc'[x] = pc[x]
  BY <1>1, <1>2 DEF Shape
<1>4. Shape'
  BY <1>1, <1>2 DEF Shape, Steps
<1>5. level[r] = 1
  BY <1>1, <1>2 DEF RunInv, Levels
<1>6. Moves(r)
  BY <1>1, <1>3, <1>5 DEF Moves
<1>7. RunInv(r)'
  <2>1. Named(r)'
    BY <1>1, <1>2, <1>3 DEF RunInv, Named, HasName
  <2>2. Levels(r)' /\ Stands(r)'
    BY <1>1, <1>3, <1>5 DEF Levels, Stands, InDirectories
  <2> QED BY <2>1, <2>2 DEF RunInv
<1>8. Overtaken(r)'
  BY <1>3 DEF Overtaken, GaveUp
<1> QED BY <1>4, <1>6, <1>7, <1>8, OneRunMoves

(* The title name is known.                                                 *)
LEMMA GetsName ==
  ASSUME IInv, NEW r \in Runs, NeedsName(r), NEW name, name # NoName,
         Given(r).name = NoName => IsTidy(name, call[r].label),
         title_name' = [title_name EXCEPT ![r] = name],
         GoTo(r, "stat"), UNCHANGED level, SameDisk
  PROVE  Base'
<1>1. /\ pc[r] = "opened" /\ "I" \notin Given(r).asked /\ pc' = [pc EXCEPT ![r] = "stat"]
      /\ status' = status /\ level' = level /\ made' = made
      /\ call' = call /\ dirs' = dirs /\ files' = files /\ refused' = refused /\ tree' = tree
  BY DEF NeedsName, GoTo, SameDisk
<1>2. Shape /\ RunInv(r) /\ Disk
  BY DEF IInv, Base
<1>3. /\ pc'[r] = "stat" /\ \A x \in Runs \ {r} : pc'[x] = pc[x]
      /\ title_name'[r] = name /\ \A x \in Runs \ {r} : title_name'[x] = title_name[x]
  BY <1>1, <1>2 DEF Shape
<1>4. Shape'
  BY <1>1, <1>2 DEF Shape, Steps
<1>5. level[r] = 1
  BY <1>1, <1>2 DEF RunInv, Levels
<1>6. Moves(r)
  BY <1>1, <1>3, <1>5 DEF Moves
<1>7. RunInv(r)'
  <2>1. Named(r)'
    BY <1>1, <1>3 DEF Named, HasName, Given
  <2>2. Levels(r)' /\ Stands(r)'
    BY <1>1, <1>3, <1>5 DEF Levels, Stands, InDirectories
  <2> QED BY <2>1, <2>2 DEF RunInv
<1>8. Overtaken(r)'
  BY <1>3 DEF Overtaken, GaveUp
<1> QED BY <1>4, <1>6, <1>7, <1>8, OneRunMoves

(* What the arguments are.                                                  *)
LEMMA ArgumentsAreTyped ==
  ASSUME call \in Calls, NEW r \in Runs
  PROVE  /\ call[r].label \in Label /\ Given(r) \in Command
         /\ Given(r).name # NoName => Given(r).name \in Seq(Char)
<1>1. call[r] \in [command : Command, label : Label]
  BY CommandLineAssumption
<1> DEFINE c == call[r].command
<1>2. call[r].label \in Label /\ c \in Command
  BY <1>1
<1>3. c.name \in {<<NUL>>} \cup Seq(Char)
  BY <1>2 DEF Command
<1> QED BY <1>2, <1>3 DEF Given, NoName

(* The name comes from the disc, or from option -n.                         *)
LEMMA NamesKeepIInv ==
  ASSUME IInv, NEW r \in Runs, NameFromDisc(r) \/ NameFromOption(r)
  PROVE  Base'
<1>1. call \in Calls /\ RunInv(r)
  BY DEF IInv, Base, Shape
<1>2. CASE NameFromDisc(r)
  <2> DEFINE name == DVDGetTitleName(call[r].label)
  <2>1. NeedsName(r) /\ SameDisk /\ pc[r] = "opened"
    BY <1>2 DEF NameFromDisc, NeedsName
  <2>2. IsTidy(name, call[r].label) /\ name # NoName
    BY <1>1, ArgumentsAreTyped, NameProperties
  <2> HIDE DEF name
  <2>3. CASE Contains(name, Generic)
    <3>1. Exit(r, 2)
      BY <1>2, <2>3 DEF NameFromDisc, name
    <3>2. level[r] = 1 /\ title_name[r] = NoName /\ pc[r] # "exited"
      BY <1>1, <2>1 DEF RunInv, Levels, Named
    <3>3. 2 \in Int
      OBVIOUS
    <3> QED BY <2>1, <3>1, <3>2, <3>3, ExitKeepsIInv
  <2>4. CASE ~Contains(name, Generic)
    <3>1. /\ title_name' = [title_name EXCEPT ![r] = name]
          /\ GoTo(r, "stat") /\ UNCHANGED level
      BY <1>2, <2>4 DEF NameFromDisc, name
    <3> QED BY <2>1, <2>2, <3>1, GetsName
  <2> QED BY <2>3, <2>4
<1>3. CASE NameFromOption(r)
  <2> DEFINE given == Given(r).name
             last == IF Len(given) > Length THEN Length ELSE Len(given)
             name == SubSeq(given, 1, last)
  <2>1. /\ NeedsName(r) /\ SameDisk /\ given # NoName
        /\ title_name' = [title_name EXCEPT ![r] = name]
        /\ GoTo(r, "stat") /\ UNCHANGED level
    BY <1>3 DEF NameFromOption
  <2>2. given \in Seq(Char)
    BY <1>1, <2>1, ArgumentsAreTyped
  <2>3. Len(given) \in Nat /\ \A k \in 1..Len(given) : given[k] \in Char
    BY <2>2
  <2>4. last \in Int /\ \A k \in 1..last : given[k] \in Char
    BY <2>3, LengthAssumption
  <2> HIDE DEF last
  <2>5. name \in Seq(Char)
    BY <2>4, SubSeqProperties
  <2>6. name # NoName
    <3>1. NoName \notin Seq(Char)
      <4> SUFFICES ASSUME NoName \in Seq(Char) PROVE FALSE
        OBVIOUS
      <4>1. Len(NoName) = 1 /\ NoName[1] = NUL
        BY DEF NoName
      <4>2. NoName[1] \in Char
        BY <4>1
      <4> QED BY <4>1, <4>2 DEF Char, NUL, Space, Underscore
    <3> QED BY <2>5, <3>1
  <2> HIDE DEF name
  <2> QED BY <2>1, <2>6, GetsName
<1> QED BY <1>2, <1>3

(* A directory is there, or has been made, and the next one follows.        *)
LEMMA PassesDirectory ==
  ASSUME IInv, NEW r \in Runs, InDirectories(r), NextDirectory(r),
         call' = call, files' = files, refused' = refused, tree' = tree,
         DOMAIN made' = Runs, \A x \in Runs \ {r} : made'[x] = made[x],
         dirs \subseteq dirs', \A p \in dirs' : p \in dirs \/ p = Path(r, level[r]),
         tree.files = {} => Path(r, level[r]) \in dirs'
  PROVE  Base'
<1>1. /\ pc' = [pc EXCEPT ![r] = IF level[r] = 3 THEN "backup" ELSE "stat"]
      /\ level' = [level EXCEPT ![r] = level[r] + 1]
      /\ status' = status /\ title_name' = title_name
  BY DEF NextDirectory, GoTo
<1>2. Shape /\ RunInv(r) /\ Disk
  BY DEF IInv, Base
<1>3. level[r] \in 1..3
  BY <1>2 DEF RunInv, Levels
<1>4. /\ pc'[r] = IF level[r] = 3 THEN "backup" ELSE "stat"
      /\ level'[r] = level[r] + 1
      /\ \A x \in Runs \ {r} : pc'[x] = pc[x] /\ level'[x] = level[x]
  BY <1>1, <1>2 DEF Shape
<1>5. Shape'
  <2>1. level[r] + 1 \in 1..4
    BY <1>3
  <2> QED BY <1>1, <1>2, <2>1 DEF Shape, Steps
<1>6. Moves(r)
  <2>1. level'[r] >= level[r]
    BY <1>3, <1>4
  <2>2. level'[r] > Len(Path(r, level[r])) + 1
    BY <1>3, <1>4, PathLength
  <2> QED BY <1>1, <1>4, <2>1, <2>2 DEF Moves
<1>7. RunInv(r)'
  <2>1. HasName(r)
    BY DEF HasName, InDirectories
  <2>2. Named(r)'
    BY <1>1, <1>2, <1>4, <2>1 DEF RunInv, Named, HasName, Given
  <2>3. Levels(r)'
    BY <1>3, <1>4 DEF Levels, InDirectories
  <2>4. Stands(r)'
    <3>1. level'[r] - 1 = level[r] /\ pc'[r] # "mkdir"
      BY <1>3, <1>4
    <3>2. \A n : Path(r, n)' = Path(r, n)
      BY <1>1 DEF Path
    <3>3. \A n : n = level[r] => (tree'.files = {} => Path(r, n)' \in dirs')
      BY <3>2
    <3> QED BY <3>1, <3>3 DEF Stands
  <2> QED BY <2>2, <2>3, <2>4 DEF RunInv
<1>8. Overtaken(r)'
  BY <1>4 DEF Overtaken, GaveUp
<1> QED BY <1>5, <1>6, <1>7, <1>8, OneRunMoves

(* stat() finds the directory, or mkdir() makes it.                         *)
LEMMA FoundAndMkdirKeepIInv ==
  ASSUME IInv, NEW r \in Runs, Found(r) \/ Mkdir(r)
  PROVE  Base'
<1>1. Shape /\ Disk
  BY DEF IInv, Base
<1>2. CASE Found(r)
  <2>1. /\ pc[r] = "stat" /\ There(r) /\ NextDirectory(r) /\ made' = made
        /\ call' = call /\ dirs' = dirs /\ files' = files /\ refused' = refused /\ tree' = tree
    BY <1>2 DEF Found, StatFinds, SameDisk
  <2>2. tree.files = {} => Path(r, level[r]) \in dirs
    BY <1>1, <2>1 DEF There, Disk
  <2> QED BY <1>1, <2>1, <2>2, PassesDirectory DEF InDirectories, Shape
<1>3. CASE Mkdir(r)
  <2>1. /\ pc[r] = "mkdir" /\ NextDirectory(r)
        /\ dirs' = dirs \cup {Path(r, level[r])}
        /\ made' = [made EXCEPT ![r] = made[r] \cup {Path(r, level[r])}]
        /\ call' = call /\ files' = files /\ refused' = refused /\ tree' = tree
    BY <1>3 DEF Mkdir
  <2>2. DOMAIN made' = Runs /\ \A x \in Runs \ {r} : made'[x] = made[x]
    BY <1>1, <2>1 DEF Shape
  <2> QED BY <2>1, <2>2, PassesDirectory DEF InDirectories
<1> QED BY <1>2, <1>3

(* stat() finds nothing.  An empty title name makes no path of its own, and *)
(* is found where the target directory is.                                  *)
LEMMA NotFoundKeepsIInv ==
  ASSUME IInv, NEW r \in Runs, NotFound(r)
  PROVE  Base'
<1>1. /\ pc[r] = "stat" /\ ~There(r) /\ pc' = [pc EXCEPT ![r] = "mkdir"]
      /\ status' = status /\ title_name' = title_name /\ level' = level /\ made' = made
      /\ call' = call /\ dirs' = dirs /\ files' = files /\ refused' = refused /\ tree' = tree
  BY DEF NotFound, StatFinds, GoTo, SameDisk
<1>2. Shape /\ RunInv(r) /\ Disk
  BY DEF IInv, Base
<1>3. pc'[r] = "mkdir" /\ \A x \in Runs \ {r} : pc'[x] = pc[x]
  BY <1>1, <1>2 DEF Shape
<1>4. Shape'
  BY <1>1, <1>2 DEF Shape, Steps
<1>5. level[r] \in 1..3
  BY <1>1, <1>2 DEF RunInv, Levels, InDirectories
<1>6. Moves(r)
  BY <1>1, <1>3, <1>5 DEF Moves
<1>7. RunInv(r)'
  <2>1. Named(r)'
    BY <1>1, <1>2, <1>3 DEF RunInv, Named, HasName, Given
  <2>2. Levels(r)'
    BY <1>1, <1>3, <1>5 DEF Levels, InDirectories
  <2>3. Stands(r)'
    <3>1. \A n : Path(r, n)' = Path(r, n)
      BY <1>1 DEF Path
    <3>2. Path(r, level[r]) \notin dirs /\ Path(r, level[r]) \notin tree.dirs
      BY <1>1, <1>2 DEF There, Disk
    <3>3. level[r] > 1 /\ tree.files = {} => Path(r, level[r] - 1) \in dirs
      BY <1>1, <1>2 DEF RunInv, Stands, InDirectories
    <3>4. tree.files = {} => Len(Path(r, level[r])) + 1 = level[r]
      <4> SUFFICES ASSUME tree.files = {} PROVE Len(Path(r, level[r])) + 1 = level[r]
        OBVIOUS
      <4>1. level[r] # 2 \/ title_name[r] # <<>>
        <5> SUFFICES ASSUME level[r] = 2, title_name[r] = <<>> PROVE FALSE
          OBVIOUS
        <5>1. Path(r, 1) \in dirs
          BY <3>3
        <5>2. Path(r, 2) = Path(r, 1)
          BY DEF Path
        <5> QED BY <3>2, <5>1, <5>2
      <4>2. Len(Path(r, level[r])) = level[r] - 1
        BY <1>5, <4>1, PathLength
      <4> QED BY <1>5, <4>2
    <3> QED BY <1>1, <1>3, <3>1, <3>2, <3>3, <3>4 DEF Stands, InDirectories
  <2> QED BY <2>1, <2>2, <2>3 DEF RunInv
<1>8. Overtaken(r)'
  BY <1>3 DEF Overtaken, GaveUp
<1> QED BY <1>4, <1>6, <1>7, <1>8, OneRunMoves

(* mkdir() fails.  If it had to, another run has made the directory since   *)
(* stat() looked for it, and is ahead.                                      *)
LEMMA MkdirFailsKeepsIInv ==
  ASSUME IInv, NEW r \in Runs, MkdirFails(r)
  PROVE  Base'
<1>1. /\ pc[r] = "mkdir" /\ pc' = [pc EXCEPT ![r] = "exited"]
      /\ status' = [status EXCEPT ![r] = -1]
      /\ title_name' = title_name /\ level' = level /\ made' = made
      /\ call' = call /\ dirs' = dirs /\ files' = files /\ tree' = tree
      /\ refused' = IF CanMake(r) THEN refused \cup {r} ELSE refused
  BY DEF MkdirFails, Exit
<1>2. Shape /\ RunInv(r) /\ Disk
  BY DEF IInv, Base
<1>3. /\ pc'[r] = "exited" /\ status'[r] = -1
      /\ \A x \in Runs \ {r} : pc'[x] = pc[x] /\ status'[x] = status[x]
  BY <1>1, <1>2 DEF Shape
<1>4. Shape'
  BY <1>1, <1>2 DEF Shape, Steps
<1>5. level[r] \in 1..3
  BY <1>1, <1>2 DEF RunInv, Levels, InDirectories
<1>6. Moves(r)
  <2>1. refused \subseteq refused'
    BY <1>1
  <2> QED BY <1>1, <1>3, <1>5, <2>1 DEF Moves
<1>7. RunInv(r)'
  <2>1. Named(r)'
    BY <1>3 DEF Named, HasName
  <2>2. Levels(r)'
    BY <1>1, <1>2, <1>3 DEF RunInv, Levels, InDirectories, Named, HasName
  <2>3. Stands(r)'
    BY <1>3 DEF Stands, InDirectories
  <2> QED BY <2>1, <2>2, <2>3 DEF RunInv
<1>8. Overtaken(r)'
  <2> SUFFICES ASSUME refused' = {}, tree.files = {}
               PROVE  \E q \in Runs : level[q] > level[r]
    BY <1>1 DEF Overtaken
  <2>1. ~CanMake(r)
    BY <1>1
  <2>2. /\ Path(r, level[r]) \notin tree.dirs /\ Len(Path(r, level[r])) + 1 = level[r]
        /\ level[r] > 1 => Path(r, level[r] - 1) \in dirs
    BY <1>1, <1>2 DEF RunInv, Stands, InDirectories
  <2>3. Path(r, level[r]) \in dirs
    BY <1>2, <2>1, <2>2 DEF CanMake, Disk
  <2>4. PICK q \in Runs : level[q] > Len(Path(r, level[r])) + 1
    BY <1>2, <2>2, <2>3 DEF Disk
  <2> QED BY <2>2, <2>4
<1> QED BY <1>4, <1>6, <1>7, <1>8, OneRunMoves

-----------------------------------------------------------------------------
(* The runs of the program, together.                                       *)

LEMMA InitHasIInv ==
  ASSUME Init
  PROVE  IInv
<1>1. Shape
  BY DEF Init, Shape, Steps
<1>2. Disk
  BY DEF Init, Disk
<1>3. ASSUME NEW x \in Runs PROVE RunInv(x) /\ Overtaken(x)
  <2>1. /\ pc[x] = "arguments" /\ level[x] = 1 /\ title_name[x] = NoName /\ made[x] = {}
    BY DEF Init
  <2>2. Named(x)
    BY <2>1 DEF Named, HasName
  <2>3. Levels(x) /\ Stands(x)
    BY <2>1 DEF Levels, Stands, InDirectories
  <2>4. Overtaken(x)
    BY <2>1 DEF Overtaken, GaveUp
  <2> QED BY <2>2, <2>3, <2>4 DEF RunInv
<1>4. Tree
  <2>1. IsTree(tree) /\ dirs = tree.dirs /\ files = tree.files
    BY CommandLineAssumption DEF Init
  <2>2. \A q \in Runs : made[q] = {}
    BY DEF Init
  <2> QED BY <2>1, <2>2 DEF Tree, IsTree
<1>5. ASSUME NEW x \in Runs PROVE Passed(x) /\ Justified(x)
  <2>1. pc[x] = "arguments" /\ level[x] = 1
    BY DEF Init
  <2> QED BY <2>1 DEF Passed, Justified, InDirectories, GaveUp
<1> QED BY <1>1, <1>2, <1>3, <1>4, <1>5 DEF IInv, Base

LEMMA NextKeepsBase ==
  ASSUME IInv, [Next]_vars
  PROVE  Base'
<1>1. CASE UNCHANGED vars
  <2>1. Shape' /\ Disk'
    BY <1>1 DEF IInv, Base, vars, Shape, Disk
  <2>2. ASSUME NEW x \in Runs PROVE RunInv(x)' /\ Overtaken(x)'
    <3>1. RunInv(x) /\ Overtaken(x)
      BY DEF IInv, Base
    <3>2. Named(x)'
      BY <1>1, <3>1 DEF vars, RunInv, Named, HasName, Given
    <3>3. Levels(x)'
      BY <1>1, <3>1 DEF vars, RunInv, Levels, InDirectories
    <3>4. Stands(x)'
      <4>1. \A n : Path(x, n)' = Path(x, n)
        BY <1>1 DEF vars, Path
      <4> QED BY <1>1, <3>1, <4>1 DEF vars, RunInv, Stands, InDirectories
    <3>5. Overtaken(x)'
      BY <1>1, <3>1 DEF vars, Overtaken, GaveUp
    <3> QED BY <3>2, <3>3, <3>4, <3>5 DEF RunInv
  <2> QED BY <2>1, <2>2 DEF IInv, Base
<1>2. ASSUME NEW r \in Runs,
             \/ Help(r) \/ Refuse(r) \/ OpenFails(r) \/ Info(r) \/ NameFails(r)
             \/ NoMemory(r) \/ Backup(r) \/ BackupFails(r)
      PROVE  Base'
  BY <1>2, ExitsKeepIInv
<1>3. ASSUME NEW r \in Runs, Open(r) PROVE Base'
  BY <1>3, OpenKeepsIInv
<1>4. ASSUME NEW r \in Runs, NameFromDisc(r) \/ NameFromOption(r) PROVE Base'
  BY <1>4, NamesKeepIInv
<1>5. ASSUME NEW r \in Runs, Found(r) \/ Mkdir(r) PROVE Base'
  BY <1>5, FoundAndMkdirKeepIInv
<1>6. ASSUME NEW r \in Runs, NotFound(r) PROVE Base'
  BY <1>6, NotFoundKeepsIInv
<1>7. ASSUME NEW r \in Runs, MkdirFails(r) PROVE Base'
  BY <1>7, MkdirFailsKeepsIInv
<1>8. CASE Exited
  BY <1>1, <1>8 DEF Exited
<1> QED BY <1>1, <1>2, <1>3, <1>4, <1>5, <1>6, <1>7, <1>8 DEF Next

\* A step of run r.
StepOf(r) ==
  \/ Help(r) \/ Refuse(r) \/ Open(r) \/ OpenFails(r) \/ Info(r)
  \/ NameFromDisc(r) \/ NameFails(r) \/ NameFromOption(r) \/ NoMemory(r)
  \/ Found(r) \/ NotFound(r) \/ Mkdir(r) \/ MkdirFails(r)
  \/ Backup(r) \/ BackupFails(r)

(* Directories, and what is known of them, only grow; and only one run      *)
(* moves.                                                                   *)
LEMMA OneRunSteps ==
  ASSUME IInv, NEW r \in Runs, StepOf(r)
  PROVE  /\ tree' = tree /\ files' = files /\ dirs \subseteq dirs' /\ refused \subseteq refused'
         /\ \A x \in Runs : made[x] \subseteq made'[x]
         /\ \A x \in Runs \ {r} :
              /\ pc'[x] = pc[x] /\ title_name'[x] = title_name[x] /\ level'[x] = level[x]
              /\ status'[x] = status[x] /\ made'[x] = made[x]
<1>1. /\ DOMAIN pc = Runs /\ DOMAIN title_name = Runs /\ DOMAIN level = Runs
      /\ DOMAIN status = Runs /\ DOMAIN made = Runs
  BY DEF IInv, Base, Shape
<1>2. CASE Mkdir(r)
  <2>1. /\ dirs' = dirs \cup {Path(r, level[r])}
        /\ made' = [made EXCEPT ![r] = made[r] \cup {Path(r, level[r])}]
        /\ tree' = tree /\ files' = files /\ refused' = refused
        /\ pc' = [pc EXCEPT ![r] = IF level[r] = 3 THEN "backup" ELSE "stat"]
        /\ level' = [level EXCEPT ![r] = level[r] + 1]
        /\ status' = status /\ title_name' = title_name
    BY <1>2 DEF Mkdir, NextDirectory, GoTo
  <2> QED BY <1>1, <2>1
<1>3. CASE ~Mkdir(r)
  <2>1. /\ tree' = tree /\ files' = files /\ dirs' = dirs /\ made' = made
        /\ refused \subseteq refused'
    BY <1>3 DEF StepOf, Help, Refuse, Open, OpenFails, Info, NameFromDisc, NameFails,
                NameFromOption, NoMemory, Found, NotFound, MkdirFails, Backup, BackupFails,
                SameDisk
  <2>2. /\ \E p : pc' = [pc EXCEPT ![r] = p]
        /\ title_name' = title_name \/ \E n : title_name' = [title_name EXCEPT ![r] = n]
        /\ level' = level \/ \E l : level' = [level EXCEPT ![r] = l]
        /\ status' = status \/ \E c : status' = [status EXCEPT ![r] = c]
    <3>1. CASE \E code : Exit(r, code)
      BY <3>1 DEF Exit
    <3>2. CASE Open(r) \/ NotFound(r)
      BY <3>2 DEF Open, NotFound, GoTo
    <3>3. CASE Found(r)
      BY <3>3 DEF Found, NextDirectory, GoTo
    <3>4. CASE NameFromDisc(r)
      BY <3>1, <3>4 DEF NameFromDisc, GoTo
    <3>5. CASE NameFromOption(r)
      BY <3>5 DEF NameFromOption, GoTo
    <3>6. CASE \/ Help(r) \/ Refuse(r) \/ OpenFails(r) \/ Info(r) \/ NameFails(r) \/ NoMemory(r)
               \/ MkdirFails(r) \/ Backup(r) \/ BackupFails(r)
      BY <3>1, <3>6 DEF Help, Refuse, OpenFails, Info, NameFails, NoMemory, MkdirFails,
                        Backup, BackupFails
    <3> QED BY <1>3, <3>2, <3>3, <3>4, <3>5, <3>6 DEF StepOf
  <2> QED BY <1>1, <2>1, <2>2
<1> QED BY <1>2, <1>3

(* A directory is in the one before it.                                     *)
LEMMA UpIsBefore ==
  ASSUME NEW x
  PROVE  Path(x, 3) # <<>> /\ Up(Path(x, 3)) = Path(x, 2)
<1>1. Path(x, 3) = <<title_name[x], "VIDEO_TS">>
  BY DEF Path
<1>2. Len(Path(x, 3)) = 2 /\ Path(x, 3)[1] = title_name[x] /\ Path(x, 3) # <<>>
  BY <1>1
<1>3. Path(x, 2) = IF title_name[x] = <<>> THEN <<>> ELSE <<title_name[x]>>
  BY DEF Path
<1> QED BY <1>2, <1>3 DEF Up

(* A run makes a directory only in one that is there, and where nothing is. *)
LEMMA TreeIsKept ==
  ASSUME IInv, NEW r \in Runs, StepOf(r)
  PROVE  Tree'
<1>1. Tree /\ Shape /\ RunInv(r)
  BY DEF IInv, Base
<1>2. CASE Mkdir(r)
  <2> DEFINE new == Path(r, level[r])
  <2>1. /\ dirs' = dirs \cup {new} /\ new \notin dirs \cup files /\ files' = files
        /\ level[r] > 1 => Path(r, level[r] - 1) \in dirs
        /\ tree' = tree /\ made' = [made EXCEPT ![r] = made[r] \cup {new}]
    BY <1>2 DEF Mkdir, CanMake
  <2>2. new # <<>> => Up(new) \in dirs
    <3>1. level[r] \in 1..3
      BY <1>1, <1>2 DEF Mkdir, RunInv, Levels, InDirectories
    <3>2. CASE level[r] = 1
      BY <3>2 DEF Path
    <3>3. CASE level[r] = 2
      <4>1. Path(r, 1) \in dirs /\ Path(r, 1) = <<>>
        BY <2>1, <3>3 DEF Path
      <4>2. new = <<>> \/ Len(new) # 2
        BY <3>3 DEF Path
      <4> HIDE DEF new
      <4>3. new # <<>> => Up(new) = <<>>
        BY <4>2 DEF Up
      <4> QED BY <4>1, <4>3
    <3>4. CASE level[r] = 3
      <4>1. Path(r, 2) \in dirs
        BY <2>1, <3>4
      <4> QED BY <3>4, <4>1, UpIsBefore
    <3> QED BY <3>1, <3>2, <3>3, <3>4
  <2>3. \A q \in Runs : made[q] \subseteq made'[q] /\ made'[q] \subseteq made[q] \cup {new}
    BY <1>1, <2>1 DEF Shape
  <2>4. new \in made'[r]
    BY <1>1, <2>1 DEF Shape
  <2> HIDE DEF new
  <2>5. dirs' \cap files' = {} /\ \A p \in dirs' : p # <<>> => Up(p) \in dirs'
    BY <1>1, <2>1, <2>2 DEF Tree
  <2>6. \A p \in dirs' : p \in tree'.dirs \/ \E q \in Runs : p \in made'[q]
    BY <1>1, <2>1, <2>3, <2>4 DEF Tree
  <2>7. \A q \in Runs : made'[q] \subseteq dirs'
    BY <1>1, <2>1, <2>3 DEF Tree
  <2> QED BY <2>5, <2>6, <2>7 DEF Tree
<1>3. CASE ~Mkdir(r)
  <2>1. tree' = tree /\ files' = files /\ dirs' = dirs /\ made' = made
    BY <1>3 DEF StepOf, Help, Refuse, Open, OpenFails, Info, NameFromDisc, NameFails,
                NameFromOption, NoMemory, Found, NotFound, MkdirFails, Backup, BackupFails,
                SameDisk
  <2> QED BY <1>1, <2>1 DEF Tree
<1> QED BY <1>2, <1>3

(* Where the run that moves stands.                                         *)
LEMMA RunIsPassed ==
  ASSUME IInv, NEW r \in Runs, StepOf(r)
  PROVE  Passed(r)'
<1>1. /\ Shape /\ RunInv(r) /\ Disk /\ Tree
      /\ tree' = tree /\ files' = files /\ dirs \subseteq dirs'
  BY OneRunSteps DEF IInv, Base
<1>2. CASE Found(r) \/ Mkdir(r)
  <2>1. /\ pc[r] \in {"stat", "mkdir"} /\ level' = [level EXCEPT ![r] = level[r] + 1]
        /\ pc' = [pc EXCEPT ![r] = IF level[r] = 3 THEN "backup" ELSE "stat"]
        /\ title_name' = title_name
    BY <1>2 DEF Found, Mkdir, NextDirectory, GoTo
  <2>2. level[r] \in 1..3
    BY <1>1, <2>1 DEF RunInv, Levels, InDirectories
  <2>3. level'[r] - 1 = level[r] /\ pc'[r] # "mkdir"
    BY <1>1, <2>1, <2>2 DEF Shape
  <2>4. Path(r, level[r]) \in dirs' \cup tree.files
    BY <1>1, <1>2 DEF Found, StatFinds, There, Mkdir, Disk
  <2>5. \A n : Path(r, n)' = Path(r, n)
    BY <2>1 DEF Path
  <2>6. \A n : n = level[r] => Path(r, n)' \in dirs' \cup tree'.files
    BY <1>1, <2>4, <2>5
  <2> QED BY <2>3, <2>6 DEF Passed
<1>3. CASE NotFound(r)
  <2>1. /\ ~There(r) /\ pc' = [pc EXCEPT ![r] = "mkdir"] /\ pc[r] = "stat"
        /\ level' = level /\ title_name' = title_name /\ made' = made /\ dirs' = dirs
    BY <1>3 DEF NotFound, StatFinds, GoTo, SameDisk
  <2>2. \A n : Path(r, n)' = Path(r, n)
    BY <2>1 DEF Path
  <2>3. Path(r, level[r]) \notin tree.dirs \cup made[r]
    BY <1>1, <2>1 DEF There, Disk, Tree
  <2>4. level[r] > 1 => Path(r, level[r] - 1) \in dirs \cup tree.files
    BY <2>1 DEF IInv, Passed, InDirectories
  <2> QED BY <1>1, <2>1, <2>2, <2>3, <2>4 DEF Passed
<1>4. CASE NameFromDisc(r) \/ NameFromOption(r)
  <2>1. pc[r] = "opened"
    BY <1>4 DEF NameFromDisc, NameFromOption, NeedsName
  <2>2. level' = level /\ level[r] = 1 /\ (pc' = [pc EXCEPT ![r] = "stat"]
                                           \/ pc' = [pc EXCEPT ![r] = "exited"])
    BY <1>1, <1>4, <2>1 DEF RunInv, Levels, NameFromDisc, NameFromOption, Exit, GoTo
  <2>3. level'[r] = 1 /\ pc'[r] # "mkdir"
    BY <1>1, <2>2 DEF Shape
  <2> QED BY <2>3 DEF Passed
<1>5. CASE \/ Help(r) \/ Refuse(r) \/ Open(r) \/ OpenFails(r) \/ Info(r) \/ NameFails(r)
           \/ NoMemory(r) \/ MkdirFails(r) \/ Backup(r) \/ BackupFails(r)
  <2>1. pc' = [pc EXCEPT ![r] = "opened"] \/ pc' = [pc EXCEPT ![r] = "exited"]
    BY <1>5 DEF Help, Refuse, Open, OpenFails, Info, NameFails, NoMemory, MkdirFails,
                Backup, BackupFails, Exit, GoTo
  <2>2. pc'[r] \notin {"stat", "mkdir"}
    BY <1>1, <2>1 DEF Shape
  <2> QED BY <2>2 DEF Passed, InDirectories
<1> QED BY <1>2, <1>3, <1>4, <1>5 DEF StepOf

(* Why the run that moves exits.                                            *)
LEMMA RunIsJustified ==
  ASSUME IInv, NEW r \in Runs, StepOf(r)
  PROVE  Justified(r)'
<1>1. /\ Shape /\ RunInv(r) /\ Disk /\ Tree /\ Passed(r) /\ tree' = tree
      /\ \A q \in Runs : made[q] \subseteq made'[q]
  BY OneRunSteps DEF IInv, Base
<1>2. CASE MkdirFails(r)
  <2>1. /\ pc[r] = "mkdir" /\ title_name' = title_name /\ level' = level
        /\ status' = [status EXCEPT ![r] = -1] /\ made' = made
        /\ refused' = IF CanMake(r) THEN refused \cup {r} ELSE refused
    BY <1>2 DEF MkdirFails, Exit
  <2>2. status'[r] # 0
    BY <1>1, <2>1 DEF Shape
  <2>3. /\ \A n : Path(r, n)' = Path(r, n)
        /\ (InTheWay(r)' <=> InTheWay(r)) /\ (MadeByAnother(r)' <=> MadeByAnother(r))
    <3>1. \A n : Path(r, n)' = Path(r, n)
      BY <2>1 DEF Path
    <3> QED BY <1>1, <2>1, <3>1 DEF InTheWay, MadeByAnother
  <2>4. level[r] \in 1..3
    BY <1>1, <2>1 DEF RunInv, Levels, InDirectories
  <2>5. ASSUME ~CanMake(r) PROVE InTheWay(r) \/ MadeByAnother(r)
    <3>1. CASE Path(r, level[r]) \in dirs
      <4>1. Path(r, level[r]) \notin tree.dirs \cup made[r]
        BY <1>1, <2>1 DEF Passed
      <4> QED BY <1>1, <3>1, <4>1 DEF Tree, MadeByAnother
    <3>2. CASE Path(r, level[r]) \in files
      <4>1. level[r] \in 1..level[r]
        BY <2>4
      <4> QED BY <1>1, <3>2, <4>1 DEF Disk, InTheWay
    <3>3. CASE level[r] > 1 /\ Path(r, level[r] - 1) \notin dirs
      <4>1. Path(r, level[r] - 1) \in tree.files
        BY <1>1, <2>1, <3>3 DEF Passed, InDirectories
      <4>2. level[r] - 1 \in 1..level[r]
        BY <2>4, <3>3
      <4> QED BY <4>1, <4>2 DEF InTheWay
    <3> QED BY <2>5, <3>1, <3>2, <3>3 DEF CanMake
  <2> QED BY <2>1, <2>2, <2>3, <2>5 DEF Justified
<1>3. CASE Backup(r)
  <2>1. /\ pc[r] = "backup" /\ Path(r, 3) \in dirs /\ dirs' = dirs
        /\ title_name' = title_name /\ level' = level
    BY <1>3 DEF Backup, Exit, SameDisk
  <2>2. level'[r] = 4
    BY <1>1, <2>1 DEF RunInv, Levels
  <2>3. Path(r, 2) \in dirs
    BY <1>1, <2>1, UpIsBefore DEF Tree
  <2>4. Path(r, 1) \in dirs
    <3>1. CASE title_name[r] = <<>>
      BY <2>3, <3>1 DEF Path
    <3>2. CASE title_name[r] # <<>>
      <4>1. Path(r, 2) # <<>> /\ Up(Path(r, 2)) = Path(r, 1)
        BY <3>2 DEF Path, Up
      <4> QED BY <1>1, <2>3, <4>1 DEF Tree
    <3> QED BY <3>1, <3>2
  <2>5. \A n \in 1..3 : Path(r, n)' \in dirs'
    <3>1. \A n : Path(r, n)' = Path(r, n)
      BY <2>1 DEF Path
    <3>2. \A n \in 1..3 : n = 1 \/ n = 2 \/ n = 3
      OBVIOUS
    <3> QED BY <2>1, <2>3, <2>4, <3>1, <3>2
  <2> QED BY <2>2, <2>5 DEF Justified, GaveUp
<1>4. CASE BackupFails(r)
  <2>1. pc[r] = "backup" /\ level' = level /\ status' = [status EXCEPT ![r] = -1]
    BY <1>4 DEF BackupFails, Exit
  <2>2. level'[r] = 4 /\ status'[r] # 0
    BY <1>1, <2>1 DEF RunInv, Levels, Shape
  <2> QED BY <2>2 DEF Justified, GaveUp
<1>5. CASE Help(r) \/ Refuse(r) \/ OpenFails(r) \/ Info(r) \/ NameFails(r)
  <2>1. pc[r] \in {"arguments", "opened"} /\ title_name' = title_name
    BY <1>5 DEF Help, Refuse, OpenFails, Info, NameFails, NeedsName, Exit
  <2>2. title_name'[r] = NoName
    BY <1>1, <2>1 DEF RunInv, Named
  <2> QED BY <2>2 DEF Justified, GaveUp
<1>6. CASE NoMemory(r) \/ (NameFromDisc(r) /\ \E code \in {2} : Exit(r, code))
  <2>1. status'[r] \in {1, 2}
    BY <1>1, <1>6 DEF NoMemory, Exit, Shape
  <2> QED BY <2>1 DEF Justified, GaveUp
<1>7. CASE \/ Open(r) \/ NameFromOption(r) \/ Found(r) \/ NotFound(r) \/ Mkdir(r)
           \/ (NameFromDisc(r) /\ ~ \E code \in {2} : Exit(r, code))
  <2>1. \E p \in {"opened", "stat", "mkdir", "backup"} : pc' = [pc EXCEPT ![r] = p]
    BY <1>7 DEF Open, NameFromOption, Found, NotFound, Mkdir, NameFromDisc, NextDirectory, GoTo
  <2>2. pc'[r] # "exited"
    BY <1>1, <2>1 DEF Shape
  <2> QED BY <2>2 DEF Justified, GaveUp
<1> QED BY <1>2, <1>3, <1>4, <1>5, <1>6, <1>7 DEF StepOf

(* What is so of a run that does not move stays so.                         *)
LEMMA OthersStay ==
  ASSUME IInv, NEW r \in Runs, StepOf(r), NEW x \in Runs, x # r
  PROVE  Passed(x)' /\ Justified(x)'
<1>1. /\ tree' = tree /\ dirs \subseteq dirs' /\ refused \subseteq refused'
      /\ \A q \in Runs : made[q] \subseteq made'[q]
      /\ pc'[x] = pc[x] /\ title_name'[x] = title_name[x] /\ level'[x] = level[x]
      /\ status'[x] = status[x] /\ made'[x] = made[x]
  BY OneRunSteps
<1>2. \A n : Path(x, n)' = Path(x, n)
  BY <1>1 DEF Path
<1>3. Passed(x) /\ Justified(x)
  BY DEF IInv
<1>4. Passed(x)'
  BY <1>1, <1>2, <1>3 DEF Passed, InDirectories
<1>5. InTheWay(x) => InTheWay(x)'
  BY <1>1, <1>2 DEF InTheWay
<1>6. MadeByAnother(x) => MadeByAnother(x)'
  BY <1>1, <1>2 DEF MadeByAnother
<1>7. Justified(x)'
  BY <1>1, <1>2, <1>3, <1>5, <1>6 DEF Justified, GaveUp
<1> QED BY <1>4, <1>7

LEMMA NextKeepsIInv ==
  ASSUME IInv, [Next]_vars
  PROVE  IInv'
<1>1. Base'
  BY NextKeepsBase
<1>2. CASE UNCHANGED vars
  <2>1. Tree'
    BY <1>2 DEF IInv, Tree, vars
  <2>2. ASSUME NEW x \in Runs PROVE Passed(x)' /\ Justified(x)'
    <3>1. \A n : Path(x, n)' = Path(x, n)
      BY <1>2 DEF vars, Path
    <3>2. Passed(x) /\ Justified(x)
      BY DEF IInv
    <3>3. Passed(x)'
      BY <1>2, <3>1, <3>2 DEF vars, Passed, InDirectories
    <3>4. (InTheWay(x) => InTheWay(x)') /\ (MadeByAnother(x) => MadeByAnother(x)')
      BY <1>2, <3>1 DEF vars, InTheWay, MadeByAnother
    <3>5. Justified(x)'
      BY <1>2, <3>1, <3>2, <3>4 DEF vars, Justified, GaveUp
    <3> QED BY <3>3, <3>5
  <2> QED BY <1>1, <2>1, <2>2 DEF IInv
<1>3. ASSUME NEW r \in Runs, StepOf(r) PROVE IInv'
  <2>1. Tree' /\ Passed(r)' /\ Justified(r)'
    BY <1>3, TreeIsKept, RunIsPassed, RunIsJustified
  <2>2. \A x \in Runs \ {r} : Passed(x)' /\ Justified(x)'
    BY <1>3, OthersStay
  <2> QED BY <1>1, <2>1, <2>2 DEF IInv
<1>4. (\E r \in Runs : StepOf(r)) \/ UNCHANGED vars
  BY DEF Next, StepOf, Exited
<1> QED BY <1>2, <1>3, <1>4

(* However many runs of main() there are, and however their calls of stat() *)
(* and mkdir() interleave, the inductive invariant holds.                   *)
THEOREM CommandLineInvariant == Spec => []IInv
<1>1. Init => IInv
  BY InitHasIInv
<1>2. IInv /\ [Next]_vars => IInv'
  BY NextKeepsIInv
<1> QED BY <1>1, <1>2, PTL DEF Spec

(* Whatever the label and the length of the field, DVDGetTitleName() turns  *)
(* it into a name without underscores, with a capital exactly at the        *)
(* beginning of each word, and without the padding.                         *)
THEOREM CommandLineNameIsTidy == Spec => []NameIsTidy
<1>1. IInv => NameIsTidy
  <2> SUFFICES ASSUME IInv PROVE NameIsTidy
    OBVIOUS
  <2> SUFFICES ASSUME NEW r \in Runs, HasName(r), Given(r).name = NoName
               PROVE  IsTidy(title_name[r], call[r].label)
    BY DEF NameIsTidy, IsTidy
  <2> QED BY DEF IInv, Base, RunInv, Named
<1> QED BY <1>1, CommandLineInvariant, PTL

(* Any number of runs that race for the same directories do not all fail,   *)
(* whatever their names, unless a file is in the way or a mkdir() is        *)
(* refused: of the runs that give up, each was overtaken.                   *)
THEOREM CommandLineSomeoneGetsThrough == Spec => []SomeoneGetsThrough
<1>1. IInv => SomeoneGetsThrough
  <2> SUFFICES ASSUME IInv, NEW r \in Runs, GaveUp(r), \A x \in Runs : pc[x] = "exited",
                      refused = {}, tree.files = {}
               PROVE  \E q \in Runs : GotThrough(q)
    BY DEF SomeoneGetsThrough
  <2>1. \A x \in Runs : level[x] \in 1..4
    BY DEF IInv, Base, Shape
  <2>2. ASSUME NEW x \in Runs, GaveUp(x)
        PROVE  \E q \in Runs : level[q] > level[x] /\ (level[q] = 4 \/ GaveUp(q))
    <3>1. PICK q \in Runs : level[q] > level[x]
      BY <2>2 DEF IInv, Base, Overtaken
    <3>2. level[q] \in 2..4
      BY <2>1, <3>1
    <3>3. level[q] \in 2..3 => GaveUp(q)
      BY DEF IInv, Base, RunInv, Levels, GaveUp
    <3> QED BY <3>1, <3>2, <3>3
  <2>3. ASSUME NEW x \in Runs, GaveUp(x) PROVE level[x] \in 1..3
    BY <2>1, <2>3 DEF GaveUp
  <2>4. PICK a \in Runs : level[a] > level[r] /\ (level[a] = 4 \/ GaveUp(a))
    BY <2>2
  <2>5. CASE GaveUp(a)
    <3>1. PICK b \in Runs : level[b] > level[a] /\ (level[b] = 4 \/ GaveUp(b))
      BY <2>2, <2>5
    <3>2. CASE GaveUp(b)
      <4>1. PICK d \in Runs : level[d] > level[b] /\ (level[d] = 4 \/ GaveUp(d))
        BY <2>2, <3>2
      <4>2. level[d] = 4
        BY <2>1, <2>4, <3>1, <4>1
      <4> QED BY <4>2 DEF GotThrough
    <3> QED BY <3>1, <3>2 DEF GotThrough
  <2> QED BY <2>4, <2>5 DEF GotThrough
<1> QED BY <1>1, CommandLineInvariant, PTL

(* Whatever runs at the same time, whatever their names and whatever is     *)
(* there: a run of main() that gives up at a directory was overtaken, met a *)
(* file or was refused; and one that exits with 0 has all its directories.  *)
THEOREM CommandLineExitStatusIsJustified == Spec => []ExitStatusIsJustified
<1>1. IInv => ExitStatusIsJustified
  BY DEF IInv, Justified, ExitStatusIsJustified
<1> QED BY <1>1, CommandLineInvariant, PTL

=============================================================================
