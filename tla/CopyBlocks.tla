------------------------------ MODULE CopyBlocks ------------------------------
(***************************************************************************)
(* DVDCopyBlocks of dvdbackup.c, the loop that copies a menu or title VOB  *)
(* to the target file: it reads a buffer at a time, pads what cannot be    *)
(* read according to the -r strategy, and with -r u seeks over the sectors *)
(* the title set never references.                                         *)
(*                                                                         *)
(* One behaviour is one call.  The unit of everything is the DVD block: a  *)
(* block of the target holds the number of the source block it came from.  *)
(*                                                                         *)
(* A definition named X_Something is a plausible slip in X, kept to show   *)
(* that a property notices it; nothing else refers to it.                  *)
(***************************************************************************)
EXTENDS RangeList

CONSTANTS
  BUFFER_SIZE,   \* blocks per read; 512 in the code
  MaxSize,       \* no VOB has more blocks than this
  Calls          \* the calls considered

\* enum read_error_strategy_t: -r a, b, m and u
Strategy == {"ABORT", "SKIP_BLOCK", "SKIP_MULTIBLOCK", "SKIP_UNUSED"}

(***************************************************************************)
(* A call: the arguments offset, size and errorstrat, the list that        *)
(* create_titleset_range_list fills in at the start of the call, and the   *)
(* blocks that the drive may fail to deliver, now and then or always.      *)
(***************************************************************************)
IsCall(c) ==
  /\ c.offset \in Nat /\ c.size \in 0..MaxSize /\ c.errorstrat \in Strategy
  /\ WellFormed(c.range_list)
  /\ c.flaky \subseteq Nat

ASSUME CopyAssumption ==
  BUFFER_SIZE \in Nat \ {0} /\ MaxSize \in Nat /\ \A c \in Calls : IsCall(c)

\* What a block of the target holds when it is not a source block.
PADDING   == -1    \* written from buffer_zero
UNWRITTEN == -2    \* beyond what was written, or seeked over

NONE == -1         \* the result of a call that has not returned

VARIABLES
  call,                 \* the call, fixed
  pc,                   \* the next step of the loop
  offset, remaining,    \* next source block, and blocks still to copy
  to_read, act_read,    \* blocks asked of the last read, and its result
  out,                  \* the blocks of the target file
  fpos,                 \* the position of the descriptor destination
  flen,                 \* the length of the target file
  handles,              \* dvd_file and destination: "open" or "closed"
  result                \* what the function returned, or NONE

vars == <<call, pc, offset, remaining, to_read, act_read, out, fpos, flen,
          handles, result>>

Init ==
  /\ call \in Calls
  /\ pc = "loop"
  /\ offset = call.offset /\ remaining = call.size
  /\ to_read = BUFFER_SIZE /\ act_read = 0
  /\ out = [p \in 0..(MaxSize - 1) |-> UNWRITTEN] /\ fpos = 0 /\ flen = 0
  /\ handles = "open" /\ result = NONE

-----------------------------------------------------------------------------
(* The outside: the drive and the file system.                              *)

\* DVDReadBlocks: all n blocks, or, where a flaky block is in the way, the
\* blocks before it or an error.
DVDReadBlocks(first, n) ==
  {n} \cup {k \in 0..(n - 1) : first + k \in call.flaky}
      \cup {k \in {-1} : \E b \in call.flaky : first <= b /\ b < first + n}

\* write() puts n blocks at the position of the descriptor and advances it.
Put(n, block) ==
  /\ out' = [p \in 0..(MaxSize - 1) |->
               IF fpos <= p /\ p < fpos + n THEN block[p - fpos] ELSE out[p]]
  /\ fpos' = fpos + n
  /\ flen' = IF n = 0 \/ fpos + n <= flen THEN flen ELSE fpos + n

buffer == [i \in 0..(BUFFER_SIZE - 1) |-> offset + i]
buffer_zero == [i \in 0..(BUFFER_SIZE - 1) |-> PADDING]

Return(code) == pc' = "returned" /\ result' = code

-----------------------------------------------------------------------------
(* The loop.                                                                *)

SkipsUnused == call.errorstrat = "SKIP_UNUSED"
NextSectors == find_next_sectors(call.range_list, offset)

Want == Smaller(BUFFER_SIZE, remaining)

Advance(n) == offset' = offset + n /\ remaining' = remaining - n

\* How much the next read asks for: a buffer, but not beyond the end, and
\* with -r u not beyond the run of referenced sectors.
ChooseSpan ==
  /\ pc = "loop" /\ remaining > 0
  /\ SkipsUnused => NextSectors >= 0
  /\ to_read' = IF SkipsUnused /\ NextSectors > 0
                THEN Smaller(NextSectors, Want) ELSE Want
  /\ pc' = "read"
  /\ UNCHANGED <<call, offset, remaining, act_read, out, fpos, flen, handles, result>>

Missing_Buffer == Want
Missing == Smaller(-NextSectors, Want)

\* lseek() over blocks that no cell of the title set references.
\* (The build has no PAD_SKIPPED_BLOCK, which would write padding instead.)
SeekOver ==
  /\ pc = "loop" /\ remaining > 0 /\ SkipsUnused /\ NextSectors < 0
  /\ Advance(Missing)
  /\ fpos' = fpos + Missing
  /\ UNCHANGED <<call, pc, to_read, act_read, out, flen, handles, result>>

\* The one error path that closes the caller's handles.
SeekFails ==
  /\ pc = "loop" /\ remaining > 0 /\ SkipsUnused /\ NextSectors < 0
  /\ handles' = "closed"
  /\ Return(1)
  /\ UNCHANGED <<call, offset, remaining, to_read, act_read, out, fpos, flen>>

Read ==
  /\ pc = "read"
  /\ \E n \in DVDReadBlocks(offset, to_read) :
       /\ act_read' = n
       /\ pc' = IF n > 0 THEN "write" ELSE "recover"
  /\ UNCHANGED <<call, offset, remaining, to_read, out, fpos, flen, handles, result>>

WriteData_ByRequest ==
  /\ pc = "write"
  /\ Put(act_read, buffer)
  /\ Advance(to_read)
  /\ pc' = IF act_read = to_read THEN "loop" ELSE "recover"
  /\ UNCHANGED <<call, to_read, act_read, handles, result>>
WriteData_FullBuffer ==
  /\ pc = "write"
  /\ Put(act_read, buffer)
  /\ Advance(act_read)
  /\ pc' = IF act_read = BUFFER_SIZE THEN "loop" ELSE "recover"
  /\ UNCHANGED <<call, to_read, act_read, handles, result>>
WriteData ==
  /\ pc = "write"
  /\ Put(act_read, buffer)
  /\ Advance(act_read)
  /\ pc' = IF act_read = to_read THEN "loop" ELSE "recover"
  /\ UNCHANGED <<call, to_read, act_read, handles, result>>

\* A full disk: some of the blocks, perhaps none, reach the file.
WriteDataFails ==
  /\ pc = "write"
  /\ \E n \in 0..(act_read - 1) : Put(n, buffer)
  /\ Return(1)
  /\ UNCHANGED <<call, offset, remaining, to_read, act_read, handles>>

Abort_FallsThrough ==
  /\ pc = "recover" /\ call.errorstrat = "ABORT"
  /\ Put(1, buffer_zero)
  /\ Advance(1)
  /\ pc' = "loop"
  /\ UNCHANGED <<call, to_read, act_read, handles, result>>
Abort ==
  /\ pc = "recover" /\ call.errorstrat = "ABORT"
  /\ Return(1)
  /\ UNCHANGED <<call, offset, remaining, to_read, act_read, out, fpos, flen, handles>>

\* The blocks to pad after a short read.  The case of -r u only prints that
\* it falls back to skipping multiple blocks, and leaves the count at 0.
numBlanks_None == 0
numBlanks ==
  CASE call.errorstrat = "SKIP_BLOCK"      -> 1
    [] call.errorstrat = "SKIP_MULTIBLOCK" -> to_read - (IF act_read < 0 THEN 0 ELSE act_read)
    [] OTHER                               -> 0

\* The padding is written, and counts as read.
Pad_SeekOnly ==
  /\ pc = "recover" /\ call.errorstrat # "ABORT"
  /\ fpos' = fpos + numBlanks
  /\ Advance(numBlanks)
  /\ pc' = "loop"
  /\ UNCHANGED <<call, to_read, act_read, out, flen, handles, result>>
Pad ==
  /\ pc = "recover" /\ call.errorstrat # "ABORT"
  /\ Put(numBlanks, buffer_zero)
  /\ Advance(numBlanks)
  /\ pc' = "loop"
  /\ UNCHANGED <<call, to_read, act_read, handles, result>>

PadFails_Ignored ==
  /\ pc = "recover" /\ call.errorstrat # "ABORT"
  /\ \E n \in 0..(numBlanks - 1) : Put(n, buffer_zero)
  /\ Advance(numBlanks)
  /\ pc' = "loop"
  /\ UNCHANGED <<call, to_read, act_read, handles, result>>
PadFails ==
  /\ pc = "recover" /\ call.errorstrat # "ABORT"
  /\ \E n \in 0..(numBlanks - 1) : Put(n, buffer_zero)
  /\ Return(1)
  /\ UNCHANGED <<call, offset, remaining, to_read, act_read, handles>>

Finish ==
  /\ pc = "loop" /\ remaining <= 0
  /\ Return(0)
  /\ UNCHANGED <<call, offset, remaining, to_read, act_read, out, fpos, flen, handles>>

Returned == pc = "returned" /\ UNCHANGED vars

Next ==
  \/ ChooseSpan \/ SeekOver \/ SeekFails \/ Read \/ WriteData \/ WriteDataFails
  \/ Abort \/ Pad \/ PadFails \/ Finish \/ Returned

Spec == Init /\ [][Next]_vars

\* The function is sequential code: it runs until it returns.
FairSpec == Spec /\ WF_vars(Next)

-----------------------------------------------------------------------------
TypeOK ==
  /\ IsCall(call)
  /\ pc \in {"loop", "read", "write", "recover", "returned"}
  /\ offset \in Nat
  /\ remaining \in 0..MaxSize
  /\ to_read \in 1..BUFFER_SIZE
  /\ act_read \in -1..BUFFER_SIZE
  /\ out \in [0..(MaxSize - 1) -> Nat \cup {PADDING, UNWRITTEN}]
  /\ fpos \in 0..MaxSize
  /\ flen \in 0..MaxSize
  /\ handles \in {"open", "closed"}
  /\ result \in {NONE, 0, 1}

(* Whatever mixture of full, short and failed reads, padding and seeking   *)
(* came before, a source block that reaches the file is at the position it *)
(* had in the VOB, and nothing lies beyond the position of the descriptor. *)
Aligned ==
  \A p \in 0..(MaxSize - 1) :
    /\ out[p] \in Nat => out[p] = call.offset + p
    /\ p >= fpos => out[p] = UNWRITTEN

(* Without -r u, a copy that succeeds is as long as the original; and with *)
(* it, no copy is ever longer.                                             *)
SameSize ==
  /\ flen <= call.size
  /\ result = 0 /\ ~SkipsUnused => flen = call.size

(* With -r a, a copy that succeeds is exact, and no padding is written.    *)
AbortIsExact ==
  call.errorstrat = "ABORT" =>
    \A p \in 0..(MaxSize - 1) :
      /\ out[p] # PADDING
      /\ result = 0 /\ p < call.size => out[p] = call.offset + p

(* A block of the target behind the descriptor is a gap exactly if -r u is *)
(* on and no cell references the block: nothing referenced is skipped, and *)
(* nothing unreferenced is read.                                           *)
GapsAreUnreferenced ==
  \A p \in 0..(MaxSize - 1) :
    p < fpos => (out[p] = UNWRITTEN
                   <=> SkipsUnused /\ ~Known(call.range_list, call.offset + p))

(* Padding is confined to the buffer the drive failed in: a block replaced *)
(* by zeros has a block the drive may fail to deliver less than a buffer   *)
(* away.  (It need not be that block: after an error of the whole read     *)
(* -r b pads the first block asked for.)                                   *)
DamageIsLocal ==
  \A p \in 0..(MaxSize - 1) :
    out[p] = PADDING =>
      \E b \in call.flaky : /\ b < call.offset + p + BUFFER_SIZE
                            /\ call.offset + p < b + BUFFER_SIZE

(* DVDCopyBlocks implements BlockCopy: it settles the blocks of the target *)
(* in order, never revises one, and succeeds only when all are settled.    *)
FateOf(p) ==
  IF p >= fpos THEN "pending"
  ELSE CASE out[p] = call.offset + p -> "copied"
         [] out[p] = PADDING         -> "padded"
         [] out[p] = UNWRITTEN       -> "gap"
         [] OTHER                    -> "misplaced"

fateBar == [p \in 0..(MaxSize - 1) |-> FateOf(p)]
statusBar == CASE result = 0 -> "succeeded" [] result = 1 -> "failed" [] OTHER -> "copying"

Abstract == INSTANCE BlockCopy WITH size <- call.size, fate <- fateBar, status <- statusBar

ImplementsBlockCopy == Abstract!Spec

(* With -r a, b and m the copy ends, however often reads fail; and with    *)
(* -r u it ends if the drive delivers every block.                         *)
Terminates ==
  call.errorstrat # "SKIP_UNUSED" \/ call.flaky = {} => <>(pc = "returned")

(* dvdbackup.c:957: with -r u a bad block is handled as with -r m, so that *)
(* the copy ends too.                                                      *)
BadBlockIsPassed == <>(pc = "returned")

-----------------------------------------------------------------------------
(* Why all this holds: the inductive invariant, in parts.                   *)

\* The three cursors agree, until the function fails.
CursorsAgree ==
  /\ fpos <= call.size
  /\ pc # "returned" \/ result = 0 =>
       offset = call.offset + fpos /\ remaining = call.size - fpos
  /\ pc # "returned" <=> result = NONE
  /\ result = 0 => remaining = 0

\* A read stays within what remains, and the padding within the read.
SpanFits ==
  /\ pc \in {"read", "write"} => to_read <= remaining
  /\ pc = "write" => 1 <= act_read /\ act_read <= to_read
  /\ pc = "recover" => /\ act_read < to_read
                       /\ to_read <= remaining + (IF act_read < 0 THEN 0 ELSE act_read)

\* With -r u a read asks for referenced sectors only.
SpanIsKnown ==
  pc \in {"read", "write"} /\ SkipsUnused =>
    \A m \in offset..(offset + to_read - 1) : Known(call.range_list, m)

\* A short read stopped at a flaky block, and an error has one in the span.
ShortReadHasReason ==
  /\ pc = "write" /\ act_read < to_read => offset + act_read \in call.flaky
  /\ pc = "recover" => IF act_read < 0
                       THEN \E b \in call.flaky : offset <= b /\ b < offset + to_read
                       ELSE offset \in call.flaky

\* Nothing but a gap at the end can make the file shorter than the position.
LengthFollows == flen <= fpos /\ (~SkipsUnused => flen = fpos)

NoPaddingOnAbort ==
  call.errorstrat = "ABORT" => \A p \in 0..(MaxSize - 1) : out[p] # PADDING

(* Together they are kept by every step, and imply the invariants above:   *)
(* however the cursors of the source, of the target and the count of what  *)
(* remains are moved by short reads, padding and seeking, they agree.      *)
IInv ==
  /\ TypeOK /\ CursorsAgree /\ SpanFits /\ SpanIsKnown /\ ShortReadHasReason
  /\ Aligned /\ LengthFollows /\ NoPaddingOnAbort /\ GapsAreUnreferenced /\ DamageIsLocal
=============================================================================
