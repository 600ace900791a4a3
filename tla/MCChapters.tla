------------------------------ MODULE MCChapters ------------------------------
(***************************************************************************)
(* Discs with two titles in two title sets.  Plain has chapters of one and *)
(* two cells, a second title of one chapter, and cells that are adjacent,  *)
(* apart and out of order; Angles has cells that overlap as interleaved    *)
(* angles do, and three that begin at the same sector; Engulfing has a     *)
(* cell inside another; TwoChains a title that goes on in a second chain;  *)
(* and Jumping one whose chapters go back in their chain.                  *)
(***************************************************************************)
EXTENDS Chapters

C(s, e) == [start |-> s, end |-> e]
P(n, g) == [pgcn |-> n, pgn |-> g]
Pgc(map, cs) == [program_map |-> map, cell_playback |-> cs]
Tt(s, ptt) == [title_set |-> s, ptt |-> ptt]

Plain == [
  titles |-> <<Tt(1, <<P(1, 1), P(1, 2), P(1, 3)>>), Tt(2, <<P(1, 1)>>), Tt(1, <<P(2, 1), P(2, 2)>>)>>,
  pgcs |-> <<
    <<Pgc(<<1, 2, 4>>, <<C(0, 3), C(4, 5), C(9, 9), C(7, 8)>>),
      Pgc(<<1, 2>>, <<C(4, 5), C(0, 3)>>)>>,
    <<Pgc(<<1>>, <<C(2, 4), C(5, 5)>>)>>>>]

Angles == [
  titles |-> <<Tt(1, <<P(1, 1), P(1, 3)>>), Tt(2, <<P(1, 1), P(1, 2)>>)>>,
  pgcs |-> <<
    <<Pgc(<<1, 2, 3>>, <<C(0, 5), C(2, 7), C(3, 9), C(8, 9)>>)>>,
    <<Pgc(<<1, 2>>, <<C(3, 3), C(3, 3), C(3, 6), C(0, 3)>>)>>>>]

Engulfing == [
  titles |-> <<Tt(1, <<P(1, 1), P(1, 2)>>), Tt(1, <<P(1, 2), P(1, 3)>>)>>,
  pgcs |-> << <<Pgc(<<1, 2, 3>>, <<C(0, 9), C(3, 5), C(2, 2)>>)>> >>]

TwoChains == [
  titles |-> <<Tt(1, <<P(1, 1), P(1, 2), P(2, 1), P(2, 2)>>)>>,
  pgcs |-> << <<Pgc(<<1, 2>>, <<C(0, 1), C(2, 5)>>),
                Pgc(<<1, 2>>, <<C(10, 12), C(13, 15)>>)>> >>]

Jumping == [
  titles |-> <<Tt(1, <<P(1, 1), P(1, 2), P(1, 3)>>)>>,
  pgcs |-> << <<Pgc(<<3, 1, 4>>, <<C(0, 1), C(2, 5), C(6, 7), C(8, 9)>>)>> >>]

AllDiscs == {Plain, Angles, Engulfing, TwoChains, Jumping}
=============================================================================
