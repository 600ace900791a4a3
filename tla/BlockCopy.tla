------------------------------ MODULE BlockCopy ------------------------------
(***************************************************************************)
(* What copying one VOB promises, whatever the buffer size, the read error *)
(* strategy and the errors met: the target grows block by block from the   *)
(* front, each block of it settled once and for all as the source block of *)
(* the same position, as a padding block, or as a gap; and the copy        *)
(* succeeds only when every block is settled.                              *)
(***************************************************************************)
EXTENDS Integers

CONSTANT MaxSize   \* no VOB has more blocks than this

Fate == {"copied", "padded", "gap", "pending"}

VARIABLES
  size,     \* blocks to copy
  fate,     \* what became of block p of the target
  status    \* "copying", "succeeded" or "failed"

vars == <<size, fate, status>>

Init ==
  /\ size \in 0..MaxSize
  /\ fate = [p \in 0..(MaxSize - 1) |-> "pending"]
  /\ status = "copying"

\* The blocks up to position p are settled and the others are not.
SettledTo(f, p) == \A q \in 0..(MaxSize - 1) : f[q] = "pending" <=> q >= p

\* Some blocks at the front of the pending ones are settled.
Settle ==
  \E p, q \in 0..size :
    /\ p <= q
    /\ SettledTo(fate, p) /\ SettledTo(fate', q)
    /\ \A r \in 0..(p - 1) : fate'[r] = fate[r]

Continue == status = "copying" /\ status' = "copying" /\ Settle

Succeed ==
  /\ status = "copying" /\ status' = "succeeded"
  /\ SettledTo(fate, size)
  /\ UNCHANGED fate

Fail == status = "copying" /\ status' = "failed" /\ Settle

Next ==
  /\ UNCHANGED size
  /\ fate' \in [0..(MaxSize - 1) -> Fate]
  /\ Continue \/ Succeed \/ Fail

Spec == Init /\ [][Next]_vars
=============================================================================
