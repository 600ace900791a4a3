----------------------------- MODULE MCCopyBlocks -----------------------------
(***************************************************************************)
(* Small calls of DVDCopyBlocks: a VOB that starts at the front of the     *)
(* title set or not, up to MaxSize blocks long, any two flaky blocks, and  *)
(* for -r u every well-formed list of at most two ranges.                  *)
(***************************************************************************)
EXTENDS CopyBlocks

CONSTANT Offsets

LastBlock == 2 + MaxSize

Ranges == {[start |-> s, end |-> e] : s, e \in 0..LastBlock}

Lists == {l \in {<<>>} \cup {<<a>> : a \in Ranges} \cup (Ranges \X Ranges) : WellFormed(l)}

FlakySets(first, n) ==
  {{b, c} : b, c \in first..(first + n - 1)} \cup {{}}

CallsWith(strategies, lists) ==
  UNION {[offset : {o}, size : {n}, errorstrat : strategies,
          range_list : lists, flaky : FlakySets(o, n)] : o \in Offsets, n \in 0..MaxSize}

AllCalls == CallsWith(Strategy \ {"SKIP_UNUSED"}, {<<>>}) \cup CallsWith({"SKIP_UNUSED"}, Lists)

SkipUnusedCalls == CallsWith({"SKIP_UNUSED"}, Lists)
=============================================================================
