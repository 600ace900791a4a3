----------------------------- MODULE MCTitleWalk -----------------------------
(***************************************************************************)
(* Lists: one chain of three cells without commands, for every three cells *)
(* of the sectors, so that every list of up to three nodes is built.       *)
(* Walks: two titles of the title set and one of another; the first title  *)
(* has two program chains, and chapters that repeat one or name none.  A   *)
(* command of every kind, certain or not, is before the cells, in one of   *)
(* them and after them.  FarWalks: one of those chapters is of a program   *)
(* that its chain does not have.                                           *)
(***************************************************************************)
EXTENDS TitleWalk

CONSTANT ListSectors   \* the sectors of the lists

Cmd(kind, cell) == {[kind |-> kind, cell |-> cell]}
C(f, l) == [first |-> f, last |-> l, cmd |-> {}]
PlainChain(cells) == [pre |-> <<>>, cells |-> cells, post |-> <<>>]

SomeCells == {C(f, l) : f, l \in ListSectors}
ListOf(cells) == [titles |-> <<[here |-> TRUE, ptt |-> <<1>>, far |-> {}]>>, pgcs |-> <<PlainChain(cells)>>]
Lists == {ListOf(<<a, b, d>>) :
            a, b, d \in {cell \in SomeCells : cell.first <= cell.last}}

Others == {Cmd(kind, 0) : kind \in Kinds \ {"link"}}
InCells == Others \cup {Cmd("link", n) : n \in 1..4} \cup {Cmd("menu", 3)}
MaybeOf(cmds) == cmds \cup {cmd \cup Cmd("none", 0) : cmd \in cmds}

Walk(pre, k, cmd, post, far) ==
  [titles |-> <<[here |-> FALSE, ptt |-> <<2>>, far |-> {}],
                [here |-> TRUE, ptt |-> <<1, 1, 0, 2, 3>>, far |-> far],
                [here |-> TRUE, ptt |-> <<2, 1>>, far |-> {}]>>,
   pgcs |-> <<[pre |-> <<>>, post |-> post,
               cells |-> [<<C(0, 1), C(4, 5), C(2, 2)>> EXCEPT ![k].cmd = cmd]],
              [pre |-> <<pre>>, cells |-> <<C(6, 6)>>, post |-> <<>>]>>]

Walks == {Walk(pre, k, cmd, post, {}) :
            pre \in Others, k \in {2, 3}, cmd \in MaybeOf(InCells),
            post \in {<<>>} \cup {<<cmd>> : cmd \in MaybeOf(Others)}}
FarWalks == {Walk(pre, k, cmd, <<>>, far) :
               pre \in Others, k \in {2, 3}, cmd \in MaybeOf(InCells), far \in {{1}, {4}}}

AllTitleSets == Lists \cup Walks \cup FarWalks
=============================================================================
