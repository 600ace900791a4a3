------------------------------- MODULE MCMirror -------------------------------
(***************************************************************************)
(* Blocks of 2 bytes.  Movie is a disc as it should be, with two VOBs in   *)
(* its one title set; Ragged, a directory on the hard disk, has files that *)
(* are missing, empty or cut off; Sets has two title sets.                 *)
(***************************************************************************)
EXTENDS Mirror

TitleSet(ifo, menu, vobs) == [size_ifo |-> ifo, size_menu |-> menu, size_vob |-> vobs]
From0(f, g) == [t \in 0..1 |-> IF t = 0 THEN f ELSE g]

Movie == From0(TitleSet(2, 4, <<>>), TitleSet(4, 2, <<6, 6>>))
Short == From0(TitleSet(2, 0, <<>>), TitleSet(2, 0, <<4>>))
CutMenu == From0(TitleSet(2, 5, <<>>), TitleSet(4, 0, <<4, 3>>))
CutIfo == From0(TitleSet(2, 0, <<>>), TitleSet(3, 2, <<2>>))
NoFirst == From0(TitleSet(2, 0, <<>>), TitleSet(2, 0, <<0, 4>>))
NoSecond == From0(TitleSet(2, 0, <<>>), TitleSet(0, 2, <<4, 0>>))
Menus == [t \in {0} |-> TitleSet(2, 2, <<>>)]
Sets == [t \in 0..2 |-> IF t = 0 THEN TitleSet(2, 0, <<>>) ELSE TitleSet(2, 0, <<2, 4>>)]

AllDiscs == {Movie, Short, CutMenu, CutIfo, NoFirst, NoSecond, Menus, Sets}
SameName == {Movie, Short}
SomeTaken == {{}, {<<1, BUP>>}, {<<0, MENU>>}, {<<1, 2>>}}
NoneTaken == {{}}
=============================================================================
