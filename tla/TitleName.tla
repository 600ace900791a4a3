------------------------------- MODULE TitleName -------------------------------
(***************************************************************************)
(* DVDGetTitleName of dvdbackup.c: the volume label of the disc made into  *)
(* the name of a directory.  An alphabet of one letter in both cases, the  *)
(* underscore, the blank and the end of a string shows all it does.        *)
(* Converted_BlankOnly is a plausible slip in Converted, kept to show that *)
(* a property notices it.                                                  *)
(***************************************************************************)
EXTENDS Integers, Sequences

CONSTANT Length   \* the length of the field on the disc: 32

ASSUME LengthAssumption == Length \in Nat \ {0}

NUL == "NUL"
Space == "space"
Underscore == "underscore"
Blank == {Space, Underscore}
Char == {"A", "a", Space, Underscore}
Label == [1..Length -> Char \cup {NUL}]

toupper(ch) == IF ch = "a" THEN "A" ELSE ch
tolower(ch) == IF ch = "A" THEN "a" ELSE ch

\* The label up to its first NUL, if it has one.
Text(label) ==
  LET text == {k \in 1..Length : \A l \in 1..k : label[l] # NUL}
  IN  [k \in text |-> label[k]]

\* The loop begins at the end of the field, so that a shorter text is not
\* trimmed.  In a field of blanks only it runs on before the first character
\* of the array, through whatever blanks are there; the name is empty.
TrimEnd(text) ==
  SubSeq(text, 1, CHOOSE k \in 0..Len(text) :
                    /\ k > 0 => text[k] # Space
                    /\ \A l \in (k + 1)..Len(text) : text[l] = Space)
Trimmed(text) == IF Len(text) = Length THEN TrimEnd(text) ELSE text

\* One pass from left to right, counting the characters of each word.
Converted_BlankOnly(text) ==
  LET word_length[k \in 0..Len(text)] ==
        IF k = 0 \/ text[k] = Space THEN 0 ELSE word_length[k - 1] + 1
  IN  [k \in 1..Len(text) |->
         CASE text[k] = Underscore -> Space
           [] text[k] # Underscore /\ word_length[k - 1] = 0 -> toupper(text[k])
           [] OTHER -> tolower(text[k])]
Converted(text) ==
  LET word_length[k \in 0..Len(text)] ==
        IF k = 0 \/ text[k] \in Blank THEN 0 ELSE word_length[k - 1] + 1
  IN  [k \in 1..Len(text) |->
         CASE text[k] = Underscore -> Space
           [] text[k] # Underscore /\ word_length[k - 1] = 0 -> toupper(text[k])
           [] OTHER -> tolower(text[k])]

DVDGetTitleName(label) == Converted(Trimmed(Text(label)))
=============================================================================
