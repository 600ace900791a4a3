----------------------------- MODULE FeatureGuess -----------------------------
(***************************************************************************)
(* DVDGetInfo of dvdbackup.c: which title set is the main feature.  The    *)
(* title sets are ranked by five measures, each a pair of arrays sorted by *)
(* bsort_max_to_min, which is taken step by step from module SortPairs;    *)
(* then the ranks are weighed.  (Angles are ranked as well, and never      *)
(* read.)  A behaviour may also be a call of either sort by itself, as     *)
(* DVDMirrorChapters makes one.                                            *)
(*                                                                         *)
(* A definition named X_Something is a plausible slip in X, kept to show   *)
(* that a property notices it; nothing else refers to it.                  *)
(***************************************************************************)
EXTENDS SortPairs, Sequences, FiniteSets

CONSTANT Discs   \* the discs considered

\* A title belongs to a title set.  A title set has its size in blocks, 0 if
\* its title VOBs cannot be opened; the field channels, which is one less
\* than their number, of each of its audio streams; the number of its
\* subpicture streams; and its aspect ratio, where 0 is 4:3 and 3 is 16:9.
IsDisc(d) ==
  /\ Len(d.sets) > 0 /\ Len(d.titles) > 0
  /\ d.sets \in Seq([size : Nat, channels : Seq(0..7), subp : Nat, aspect : 0..3])
  /\ d.titles \in Seq([title_set : 1..Len(d.sets), chapters : Nat])

ASSUME GuessAssumption == \A d \in Discs : IsDisc(d)

VARIABLES
  disc,
  aspect,             \* option -a, or its default (-I takes any number)
  pc,                 \* the next step
  n,                  \* how many measures have been ranked
  arrays,             \* each measure with the title set it belongs to
  candidate,          \* our guess so far
  multi, dual,        \* several features, or one in two aspect ratios
  main_title_set      \* the guess that is returned

guess == <<candidate, multi, dual, main_title_set>>
guess_vars == <<vars, disc, aspect, pc, n, arrays, guess>>

Fields == <<"chapters", "subp", "audio", "size", "channels">>
title_sets == Len(disc.sets)
titles == Len(disc.titles)

\* The largest number of channels of a stream, 0 if there is no stream.
Channels(s) ==
  CHOOSE m \in 0..8 :
    /\ \A k \in 1..Len(s.channels) : s.channels[k] + 1 <= m
    /\ m = 0 \/ \E k \in 1..Len(s.channels) : s.channels[k] + 1 = m

Measure(s) == [subp |-> s.subp, audio |-> Len(s.channels), size |-> s.size,
               channels |-> Channels(s)]

BySet(f) == [sector |-> [k \in 0..(title_sets - 1) |-> Measure(disc.sets[k + 1])[f]],
             title |-> [k \in 0..(title_sets - 1) |-> k + 1]]
ByTitle == [sector |-> [k \in 0..(titles - 1) |-> disc.titles[k + 1].chapters],
            title |-> [k \in 0..(titles - 1) |-> disc.titles[k + 1].title_set]]

NoDisc == [sets |-> <<>>, titles |-> <<>>]
NoArray == [sector |-> <<>>, title |-> <<>>]

GuessInit ==
  /\ candidate = 0 /\ multi = 0 /\ dual = 0 /\ main_title_set = 0 /\ n = 0
  /\ arrays = [f \in {Fields[k] : k \in 1..5} |-> NoArray]
  /\ \/ /\ pc = "alone"
        /\ disc = NoDisc /\ aspect = 3
        /\ Init
     \/ /\ pc = "open"
        /\ disc \in Discs /\ aspect \in {0, 3}
        /\ order = "max_to_min" /\ size = 0 /\ given = NoArray
        /\ sector = <<>> /\ title = <<>> /\ i = 0 /\ j = 0

-----------------------------------------------------------------------------
(* Collecting and ranking.                                                  *)

\* VIDEO_TS.IFO cannot be opened, has no tables, or there is no memory.
OpenFails ==
  /\ pc = "open"
  /\ pc' = "failed"
  /\ UNCHANGED <<vars, disc, aspect, n, arrays, guess>>

Open ==
  /\ pc = "open"
  /\ arrays' = [f \in DOMAIN arrays |-> IF f = "chapters" THEN ByTitle ELSE BySet(f)]
  /\ pc' = "rank"
  /\ UNCHANGED <<vars, disc, aspect, n, guess>>

Call_Ascending ==
  /\ pc = "rank" /\ n < 5
  /\ order' = "min_to_max"
  /\ given' = arrays[Fields[n + 1]]
  /\ sector' = given'.sector /\ title' = given'.title
  /\ size' = IF Fields[n + 1] = "chapters" THEN titles ELSE title_sets
  /\ i' = 0 /\ j' = 0
  /\ pc' = "sort"
  /\ UNCHANGED <<disc, aspect, n, arrays, guess>>
Call ==
  /\ pc = "rank" /\ n < 5
  /\ order' = "max_to_min"
  /\ given' = arrays[Fields[n + 1]]
  /\ sector' = given'.sector /\ title' = given'.title
  /\ size' = IF Fields[n + 1] = "chapters" THEN titles ELSE title_sets
  /\ i' = 0 /\ j' = 0
  /\ pc' = "sort"
  /\ UNCHANGED <<disc, aspect, n, arrays, guess>>

Sorting ==
  /\ pc \in {"sort", "alone"}
  /\ Exchange \/ Keep \/ NextPass
  /\ UNCHANGED <<disc, aspect, pc, n, arrays, guess>>

Ranked ==
  /\ pc = "sort" /\ i >= size
  /\ arrays' = [arrays EXCEPT ![Fields[n + 1]] = [sector |-> sector, title |-> title]]
  /\ n' = n + 1
  /\ pc' = "rank"
  /\ UNCHANGED <<vars, disc, aspect, guess>>

-----------------------------------------------------------------------------
(* Weighing.                                                                *)

CheckSizeArray(ref, target) ==
  LET r == arrays["size"].sector[ref]
      t == arrays["size"].sector[target]
  IN  t # 0 /\ r \div t = 1 /\ (2 * r - t) \div t = 1 /\ (r % t) * 3 < r

\* The title set of rank k, from 0, and what is known of it.
BySize(k) == arrays["size"].title[k]
AspectOf(s) == disc.sets[s].aspect
MostChapters(s) ==
  CHOOSE m \in {0} \cup {disc.titles[k].chapters : k \in 1..titles} :
    /\ \A k \in 1..titles : disc.titles[k].title_set = s => disc.titles[k].chapters <= m
    /\ m = 0 \/ \E k \in 1..titles : disc.titles[k].title_set = s /\ disc.titles[k].chapters = m

\* The search goes down the ranks as long as they equal the first.
IsAtTop_First(f, s) == arrays[f].title[0] = s
IsAtTop(f, s) ==
  \E k \in 0..(title_sets - 1) :
    /\ arrays[f].title[k] = s
    /\ \A l \in 0..k : arrays[f].sector[l] >= arrays[f].sector[0]

CheckAudioSubChannels(s) ==
  Cardinality({f \in {"audio", "subp", "channels"} : IsAtTop(f, s)})

\* The place of s among the first four chapter counts, from 1, or 6.
found_chapter(s) ==
  LET at == {k \in 0..3 : k < titles /\ arrays["chapters"].title[k] = s}
  IN  IF at = {} THEN 6 ELSE 1 + CHOOSE k \in at : \A l \in at : k <= l

Weigh(step, s) ==
  /\ pc = step
  /\ candidate' = s
  /\ UNCHANGED <<vars, disc, aspect, n, arrays, main_title_set>>

TwoFilms == title_sets > 1 /\ CheckSizeArray(0, 1)

Compare == pc = "rank" /\ n = 5

OneFilm ==
  /\ Compare /\ ~TwoFilms
  /\ Weigh("rank", BySize(0)) /\ pc' = "check"
  /\ UNCHANGED <<multi, dual>>

Episodes ==
  /\ Compare /\ TwoFilms /\ AspectOf(BySize(0)) = AspectOf(BySize(1))
  /\ Weigh("rank", BySize(0)) /\ pc' = "check"
  /\ multi' = 1 /\ UNCHANGED dual

Preferred_Biggest == BySize(0)
Preferred ==
  IF AspectOf(BySize(0)) # aspect /\ AspectOf(BySize(1)) = aspect
  THEN BySize(1) ELSE BySize(0)

TwoAspects ==
  /\ Compare /\ TwoFilms /\ AspectOf(BySize(0)) # AspectOf(BySize(1))
  /\ MostChapters(BySize(0)) = MostChapters(BySize(1))
  /\ Weigh("rank", Preferred) /\ pc' = "check"
  /\ dual' = 1 /\ UNCHANGED multi

Unrelated ==
  /\ Compare /\ TwoFilms /\ AspectOf(BySize(0)) # AspectOf(BySize(1))
  /\ MostChapters(BySize(0)) # MostChapters(BySize(1))
  /\ Weigh("rank", BySize(0)) /\ pc' = "check"
  /\ UNCHANGED <<multi, dual>>

IsFound ==
  /\ CheckAudioSubChannels(candidate) = 3
  /\ \/ multi = 0 /\ dual = 0 /\ found_chapter(candidate) = 1
     \/ dual = 1 /\ found_chapter(candidate) < 3

Answer(s) ==
  /\ main_title_set' = s
  /\ pc' = "done"
  /\ UNCHANGED <<vars, disc, aspect, n, arrays, multi, dual>>

Accept ==
  /\ pc = "check" /\ IsFound
  /\ Answer(candidate) /\ UNCHANGED candidate

Doubt ==
  /\ pc = "check" /\ ~IsFound
  /\ pc' = IF multi = 1 THEN "several" ELSE "biggest"
  /\ UNCHANGED <<vars, disc, aspect, n, arrays, guess>>

\* How many title sets are as big as the first, less one.  When all are, an
\* element beyond the array is read, and it may be either.
numbers_of_multi ==
  LET small == {k \in 1..(title_sets - 1) : ~CheckSizeArray(0, k)}
  IN  IF small = {} THEN {title_sets - 1, title_sets}
      ELSE {(CHOOSE k \in small : \A l \in small : k <= l) - 1}

\* A number of a title set is compared with a number of ranks.
Several ==
  /\ pc = "several"
  /\ LET longest == arrays["chapters"].title[0]
     IN  \E number_of_multi \in numbers_of_multi :
           Weigh("several", IF longest <= number_of_multi THEN longest ELSE candidate)
  /\ pc' = "check_several"
  /\ UNCHANGED <<multi, dual>>

AcceptSeveral_Unchecked ==
  /\ pc = "check_several"
  /\ Answer(candidate) /\ UNCHANGED candidate
AcceptSeveral ==
  /\ pc = "check_several" /\ CheckAudioSubChannels(candidate) = 3
  /\ Answer(candidate) /\ UNCHANGED candidate

DoubtSeveral ==
  /\ pc = "check_several" /\ CheckAudioSubChannels(candidate) # 3
  /\ pc' = "biggest"
  /\ UNCHANGED <<vars, disc, aspect, n, arrays, guess>>

\* What is computed of the biggest one changes nothing any more.
GiveUp ==
  /\ pc = "biggest"
  /\ Answer(BySize(0)) /\ candidate' = BySize(0)

Ended == pc \in {"done", "failed"} \/ (pc = "alone" /\ i >= size)
GuessReturned == Ended /\ UNCHANGED guess_vars

GuessNext ==
  \/ Open \/ OpenFails \/ Call \/ Sorting \/ Ranked
  \/ OneFilm \/ Episodes \/ TwoAspects \/ Unrelated \/ Accept \/ Doubt
  \/ Several \/ AcceptSeveral \/ DoubtSeveral \/ GiveUp \/ GuessReturned

GuessSpec == GuessInit /\ [][GuessNext]_guess_vars

\* DVDGetInfo is sequential code: it runs until it returns.
FairGuessSpec == GuessSpec /\ WF_guess_vars(GuessNext)

-----------------------------------------------------------------------------
(* What the arrays and loops mean, from the disc alone.                     *)

M(s) == Measure(disc.sets[s])
Sets == 1..title_sets
NearlyAsBig(s, t) == M(s).size <= M(t).size /\ 2 * M(t).size < 3 * M(s).size
HasBest(f, s) == \A t \in Sets : M(t)[f] <= M(s)[f]
HasBestStreams(s) == \A f \in {"audio", "subp", "channels"} : HasBest(f, s)

\* The only title, or one of those, with this many chapters, is in s.
LeadsInChapters(s) == \A t \in Sets \ {s} : MostChapters(t) < MostChapters(s)

(* dvdbackup.c:124: the search through three sorted arrays counts the      *)
(* measures in which no title set is better, ties included, whatever order *)
(* the sort has left equal title sets in.                                  *)
FoundMeansBest ==
  n = 5 => \A s \in Sets :
    CheckAudioSubChannels(s) =
      Cardinality({f \in {"audio", "subp", "channels"} : HasBest(f, s)})

(* A title set that is bigger and has more chapters than any other is the  *)
(* main feature, whatever the others are like.                             *)
DominantIsGuessed ==
  pc = "done" => \A s \in Sets :
    LeadsInChapters(s) /\ (\A t \in Sets \ {s} : M(t).size < M(s).size)
    => main_title_set = s

\* A film in two versions, of which one has the aspect ratio asked for: the
\* two are the biggest, alike in all but size and aspect, and lead the others.
Versions(s, t) ==
  /\ s # t /\ (NearlyAsBig(s, t) \/ NearlyAsBig(t, s))
  /\ AspectOf(s) = aspect /\ AspectOf(t) # aspect
  /\ HasBestStreams(s) /\ HasBestStreams(t)
  /\ MostChapters(s) = MostChapters(t) /\ MostChapters(s) > 0
  /\ \A u \in Sets \ {s, t} :
       /\ M(u).size < M(s).size /\ M(u).size < M(t).size
       /\ MostChapters(u) < MostChapters(s)
  /\ \A k, l \in 1..titles :
       /\ disc.titles[k].title_set = disc.titles[l].title_set
       /\ disc.titles[k].chapters = MostChapters(s)
       /\ disc.titles[l].chapters = MostChapters(s)
       => k = l

(* README:49: the 16:9 version of the main feature is got if a 4:3 is also *)
(* present, and the other one with -a 0.  (A version with two titles of    *)
(* full length pushes the other one beyond the second place, and the       *)
(* bigger one is taken.)                                                   *)
AspectIsHonoured ==
  pc = "done" => \A s, t \in Sets : Versions(s, t) => main_title_set = s

(* A smaller title set than the biggest is only guessed with the best of   *)
(* every stream, and then as a version of the biggest, nearly as big and   *)
(* with as many chapters, or as one of several episodes, with the most     *)
(* chapters of the disc.                                                   *)
SmallerIsJustified ==
  pc = "done" /\ ~HasBest("size", main_title_set) =>
    /\ HasBestStreams(main_title_set)
    /\ \/ /\ dual = 1
          /\ \E t \in Sets : /\ HasBest("size", t) /\ NearlyAsBig(main_title_set, t)
                             /\ AspectOf(t) # AspectOf(main_title_set)
                             /\ MostChapters(t) = MostChapters(main_title_set)
       \/ /\ multi = 1
          /\ \A t \in Sets : MostChapters(t) <= MostChapters(main_title_set)

(* The ranking and the sorts end, and a guess is returned.                 *)
GuessEnds == <>Ended
=============================================================================
