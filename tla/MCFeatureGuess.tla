---------------------------- MODULE MCFeatureGuess ----------------------------
(***************************************************************************)
(* Discs of one to three title sets.  The sizes make the second one as     *)
(* big, nearly as big, just too small (4 of 6, 4 of 7), or unreadable; the *)
(* streams are more, of more channels, or neither.  Three title sets are   *)
(* enough for a third that is as big, or has the most chapters, and for a  *)
(* number of a title set to be taken for a rank.  One disc has no chapters *)
(* at all, and two versions of a film.                                     *)
(***************************************************************************)
EXTENDS FeatureGuess

S(size_, streams, aspect_) ==
  [size |-> size_, channels |-> streams, subp |-> Len(streams), aspect |-> aspect_]
T(set, chapters) == [title_set |-> set, chapters |-> chapters]

Stereo == <<1>>
Surround == <<5>>
Dubbed == <<1, 5>>
Silent == <<>>

OneSet == {[sets |-> <<S(7, Silent, 3)>>, titles |-> <<T(1, 2)>>]}

TwoSets ==
  {[sets |-> <<S(z[1], a[1], b[1]), S(z[2], a[2], b[2])>>, titles |-> t] :
     z \in {<<7, 6>>, <<6, 7>>, <<7, 7>>, <<7, 4>>, <<4, 6>>, <<7, 0>>, <<0, 0>>},
     a \in {<<Dubbed, Dubbed>>, <<Surround, Stereo>>, <<Surround, Dubbed>>},
     b \in {<<3, 3>>, <<0, 3>>, <<3, 1>>},
     t \in {<<T(1, c1), T(2, c2)>> : c1, c2 \in {1, 2}}
             \cup {<<T(1, 2), T(1, 2), T(2, 2)>>, <<T(2, 1), T(1, 2), T(2, 2)>>}}

ThreeSets ==
  {[sets |-> <<S(z[1], a[1], b[1]), S(z[2], a[2], b[2]), S(z[3], a[3], b[3])>>,
    titles |-> <<T(1, t[1]), T(2, t[2]), T(3, t[3])>>] :
     z \in {<<7, 6, 6>>, <<4, 7, 6>>, <<1, 6, 7>>, <<7, 7, 7>>},
     a \in {<<Dubbed, Dubbed, Dubbed>>, <<Dubbed, Stereo, Surround>>,
            <<Stereo, Dubbed, Dubbed>>},
     b \in {<<3, 3, 3>>, <<3, 0, 3>>},
     t \in {<<c1, c2, c3>> : c1, c2, c3 \in {1, 2}}}

NoChapters ==
  {[sets |-> <<S(6, Dubbed, 3), S(7, Dubbed, 0)>>, titles |-> <<T(2, 0)>>]}

AllDiscs == OneSet \cup NoChapters \cup TwoSets \cup ThreeSets
=============================================================================
