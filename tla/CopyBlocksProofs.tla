--------------------------- MODULE CopyBlocksProofs ---------------------------
(***************************************************************************)
(* DVDCopyBlocks for every buffer size, every call and every pattern of    *)
(* short reads, failed writes and failed seeks.                            *)
(***************************************************************************)
EXTENDS CopyBlocks, RangeListProofs

Positions == 0..(MaxSize - 1)

(* The arguments of a call and the constants have their types.              *)
LEMMA CallIsTyped ==
  ASSUME TypeOK
  PROVE  /\ call.offset \in Nat /\ call.size \in 0..MaxSize
         /\ call.errorstrat \in Strategy /\ call.flaky \subseteq Nat
         /\ WellFormed(call.range_list)
         /\ MaxSize \in Nat /\ BUFFER_SIZE \in Nat \ {0}
BY CopyAssumption DEF TypeOK, IsCall

\* find_next_sectors in the terms of the loop: the run of referenced sectors
\* from offset, or the gap.
LEMMA NextSectorsMeans ==
  ASSUME TypeOK
  PROVE  /\ NextSectors \in Int
         /\ \A m \in offset..(offset + NextSectors - 1) : Known(call.range_list, m)
         /\ \A m \in offset..(offset - NextSectors - 1) :
              NextSectors < 0 => ~Known(call.range_list, m)
         /\ NextSectors # 0
<1> DEFINE n == find_next_sectors(call.range_list, offset)
<1>1. WellFormed(call.range_list) /\ offset \in Nat
  BY DEF TypeOK, IsCall
<1>2. \A k \in 1..Len(call.range_list) : call.range_list[k].start \in Nat
  BY <1>1, NodeType DEF WellFormed
<1>3. NextSectors = n
  BY DEF NextSectors
<1>4. CASE \E i \in Nat \ {0} :
             /\ n = i
             /\ \A m \in offset..(offset + i - 1) : Known(call.range_list, m)
             /\ ~Known(call.range_list, offset + i)
  BY <1>1, <1>3, <1>4
<1>5. CASE \E k \in 1..Len(call.range_list) :
             /\ n = offset - call.range_list[k].start
             /\ offset < call.range_list[k].start
             /\ \A m \in offset..(call.range_list[k].start - 1) : ~Known(call.range_list, m)
             /\ Known(call.range_list, call.range_list[k].start)
  <2>1. PICK k \in 1..Len(call.range_list) :
             /\ n = offset - call.range_list[k].start
             /\ offset < call.range_list[k].start
             /\ \A m \in offset..(call.range_list[k].start - 1) : ~Known(call.range_list, m)
    BY <1>5
  <2>2. n < 0 /\ n \in Int /\ offset - n = call.range_list[k].start
    BY <2>1, <1>1, <1>2
  <2>3. \A m \in offset..(offset + n - 1) : FALSE
    BY <2>2, <1>1
  <2> QED BY <2>1, <2>2, <2>3, <1>3
<1>6. CASE /\ n = -INT_MAX
           /\ \A m \in Nat : m >= offset => ~Known(call.range_list, m)
  <2>1. n < 0 /\ n \in Int
    BY <1>6, IntMaxAssumption
  <2>2. \A m \in offset..(offset + n - 1) : FALSE
    BY <2>1, <1>1
  <2>3. \A m \in offset..(offset - n - 1) : ~Known(call.range_list, m)
    BY <1>1, <1>6, <2>1
  <2> QED BY <1>3, <2>1, <2>2, <2>3
<1> QED BY <1>1, <1>4, <1>5, <1>6, LookupFinds

\* What write() does to the file, and how the length follows the position.
Wrote(n, block) ==
  /\ fpos' = fpos + n
  /\ out' \in [Positions -> {out[p] : p \in Positions}
                              \cup {block[i] : i \in 0..(n - 1)}]
  /\ \A p \in Positions : p < fpos \/ fpos + n <= p => out'[p] = out[p]
  /\ \A p \in Positions : fpos <= p /\ p < fpos + n => out'[p] = block[p - fpos]
  /\ flen <= fpos => flen' <= fpos'
  /\ flen = fpos => flen' = fpos'
  /\ flen' \in {flen, fpos'}

(* Put writes n blocks at the position.                                     *)
LEMMA PutMeans ==
  ASSUME TypeOK, NEW n \in Nat, NEW block, Put(n, block)
  PROVE  Wrote(n, block)
<1>1. MaxSize \in Nat /\ fpos \in Nat /\ flen \in Nat
  BY CallIsTyped DEF TypeOK
<1>2. fpos' = fpos + n /\ flen' = IF n = 0 \/ fpos + n <= flen THEN flen ELSE fpos + n
  BY DEF Put
<1>3. out' = [p \in Positions |->
                IF fpos <= p /\ p < fpos + n THEN block[p - fpos] ELSE out[p]]
  BY DEF Put, Positions
<1>4. ASSUME NEW p \in Positions, fpos <= p /\ p < fpos + n
      PROVE  p - fpos \in 0..(n - 1)
  BY <1>1, <1>4 DEF Positions
<1>5. \A p \in Positions : p < fpos \/ fpos + n <= p => out'[p] = out[p]
  BY <1>1, <1>3 DEF Positions
<1> QED BY <1>1, <1>2, <1>3, <1>4, <1>5 DEF Wrote

(* Writing what was read puts each block at its position and changes no other. *)
LEMMA SourceBlocks ==
  ASSUME IInv, pc = "write", NEW n \in 0..act_read, Put(n, buffer)
  PROVE  /\ \A p \in Positions : p < fpos \/ fpos + n <= p => out'[p] = out[p]
         /\ \A p \in Positions : fpos <= p /\ p < fpos + n => out'[p] = call.offset + p
         /\ out' \in [Positions -> Nat \cup {PADDING, UNWRITTEN}]
<1>1. /\ TypeOK /\ n \in Nat /\ n <= BUFFER_SIZE /\ BUFFER_SIZE \in Nat
      /\ offset = call.offset + fpos
      /\ call.offset \in Nat /\ fpos \in Nat /\ MaxSize \in Nat
  BY CallIsTyped DEF IInv, TypeOK, CursorsAgree, SpanFits
<1>2. /\ out' \in [Positions -> {out[p] : p \in Positions}
                                  \cup {buffer[i] : i \in 0..(n - 1)}]
      /\ \A p \in Positions : p < fpos \/ fpos + n <= p => out'[p] = out[p]
      /\ \A p \in Positions : fpos <= p /\ p < fpos + n => out'[p] = buffer[p - fpos]
  <2>1. TypeOK /\ n \in Nat /\ Put(n, buffer)
    BY <1>1
  <2>2. Wrote(n, buffer)
    BY <2>1, PutMeans
  <2> QED BY <2>2 DEF Wrote
<1>3. \A i \in 0..(n - 1) : buffer[i] = offset + i /\ buffer[i] \in Nat
  BY <1>1 DEF buffer
<1>4. \A p \in Positions : out[p] \in Nat \cup {PADDING, UNWRITTEN}
  BY <1>1 DEF TypeOK, Positions
<1>5. ASSUME NEW p \in Positions, fpos <= p, p < fpos + n
      PROVE  out'[p] = call.offset + p
  <2>1. p - fpos \in 0..(n - 1) /\ p \in Nat
    BY <1>1, <1>5 DEF Positions
  <2>2. buffer[p - fpos] = offset + (p - fpos)
    BY <1>3, <2>1
  <2> QED BY <1>1, <1>2, <1>5, <2>1, <2>2
<1>6. out' \in [Positions -> Nat \cup {PADDING, UNWRITTEN}]
  BY <1>2, <1>3, <1>4
<1> QED BY <1>2, <1>5, <1>6

(* Padding n blocks changes just these.                                     *)
LEMMA PaddingBlocks ==
  ASSUME TypeOK, NEW n \in 0..BUFFER_SIZE, Put(n, buffer_zero)
  PROVE  /\ \A p \in Positions : p < fpos \/ fpos + n <= p => out'[p] = out[p]
         /\ \A p \in Positions : fpos <= p /\ p < fpos + n => out'[p] = PADDING
         /\ out' \in [Positions -> Nat \cup {PADDING, UNWRITTEN}]
<1>1. n \in Nat /\ n <= BUFFER_SIZE /\ BUFFER_SIZE \in Nat /\ fpos \in Nat /\ MaxSize \in Nat
  BY CallIsTyped DEF TypeOK
<1>2. /\ out' \in [Positions -> {out[p] : p \in Positions}
                                  \cup {buffer_zero[i] : i \in 0..(n - 1)}]
      /\ \A p \in Positions : p < fpos \/ fpos + n <= p => out'[p] = out[p]
      /\ \A p \in Positions : fpos <= p /\ p < fpos + n => out'[p] = buffer_zero[p - fpos]
  BY <1>1, PutMeans DEF Wrote
<1>3. \A i \in 0..(n - 1) : buffer_zero[i] = PADDING
  BY <1>1 DEF buffer_zero
<1>4. \A p \in Positions : out[p] \in Nat \cup {PADDING, UNWRITTEN}
  BY DEF TypeOK, Positions
<1>5. \A p \in Positions : fpos <= p /\ p < fpos + n => p - fpos \in 0..(n - 1)
  BY <1>1 DEF Positions
<1> QED BY <1>2, <1>3, <1>4, <1>5

-----------------------------------------------------------------------------
(* IInv is inductive: one lemma per kind of step.                           *)

\* The parts of IInv that speak of the target file.
FileInv ==
  Aligned /\ LengthFollows /\ NoPaddingOnAbort /\ GapsAreUnreferenced /\ DamageIsLocal

\* The parts that speak of the loop.
LoopInv == TypeOK /\ CursorsAgree /\ SpanFits /\ SpanIsKnown /\ ShortReadHasReason

(* A step that leaves the file alone keeps what is known of the file.       *)
LEMMA FileUntouched ==
  ASSUME FileInv, UNCHANGED <<call, out, fpos, flen>>
  PROVE  FileInv'
BY DEF FileInv, Aligned, LengthFollows, NoPaddingOnAbort, GapsAreUnreferenced,
       DamageIsLocal, SkipsUnused

(* The invariant holds when the call starts.                                *)
LEMMA InitEstablishes ==
  ASSUME Init
  PROVE  IInv
<1>1. IsCall(call) /\ MaxSize \in Nat /\ BUFFER_SIZE \in Nat \ {0}
  BY CopyAssumption DEF Init
<1>2. call.offset \in Nat /\ call.size \in 0..MaxSize
  BY <1>1 DEF IsCall
<1>3. LoopInv
  <2>1. TypeOK
    BY <1>1, <1>2 DEF Init, TypeOK, NONE, UNWRITTEN
  <2>2. CursorsAgree
    BY <1>1, <1>2 DEF Init, CursorsAgree, NONE
  <2>3. SpanFits /\ SpanIsKnown /\ ShortReadHasReason
    BY DEF Init, SpanFits, SpanIsKnown, ShortReadHasReason
  <2> QED BY <2>1, <2>2, <2>3 DEF LoopInv
<1>4. FileInv
  BY <1>1, <1>2 DEF Init, FileInv, Aligned, LengthFollows, NoPaddingOnAbort,
                    GapsAreUnreferenced, DamageIsLocal, PADDING, UNWRITTEN
<1> QED BY <1>3, <1>4 DEF IInv, LoopInv, FileInv

(* Choosing how much to read keeps the invariant.                           *)
LEMMA ChooseSpanPreserves ==
  ASSUME IInv, ChooseSpan
  PROVE  IInv'
<1>1. LoopInv /\ FileInv
  BY DEF IInv, LoopInv, FileInv
<1>2. FileInv'
  BY <1>1, FileUntouched DEF ChooseSpan
<1>3. /\ NextSectors \in Int /\ NextSectors # 0
      /\ \A m \in offset..(offset + NextSectors - 1) : Known(call.range_list, m)
  BY NextSectorsMeans DEF IInv
<1>4. remaining \in Nat /\ remaining > 0 /\ BUFFER_SIZE \in Nat \ {0} /\ offset \in Nat
  BY CallIsTyped DEF IInv, TypeOK, ChooseSpan
<1>5. /\ to_read' \in 1..BUFFER_SIZE /\ to_read' <= remaining
      /\ SkipsUnused => to_read' <= NextSectors
  BY <1>3, <1>4 DEF ChooseSpan, Want, Smaller
<1>6. TypeOK' /\ CursorsAgree' /\ SpanFits' /\ ShortReadHasReason'
  BY <1>1, <1>5 DEF LoopInv, TypeOK, CursorsAgree, SpanFits, ShortReadHasReason, ChooseSpan
<1>7. SpanIsKnown'
  <2>1. PICK n \in Nat : n = to_read'
    BY <1>4, <1>5
  <2>2. CASE SkipsUnused
    <3>1. n <= NextSectors
      BY <1>5, <2>1, <2>2
    <3>2. \A m \in offset..(offset + n - 1) : m \in offset..(offset + NextSectors - 1)
      BY <1>3, <1>4, <3>1
    <3>3. \A m \in offset..(offset + n - 1) : Known(call.range_list, m)
      BY <1>3, <3>2
    <3> QED BY <2>1, <3>3 DEF SpanIsKnown, ChooseSpan
  <2>3. CASE ~SkipsUnused
    BY <2>3 DEF SpanIsKnown, SkipsUnused, ChooseSpan
  <2> QED BY <2>2, <2>3
<1> QED BY <1>2, <1>6, <1>7 DEF IInv, FileInv

(* Seeking over unreferenced blocks keeps the invariant.                    *)
LEMMA SeekOverPreserves ==
  ASSUME IInv, SeekOver
  PROVE  IInv'
<1>1. /\ LoopInv /\ FileInv
      /\ NextSectors \in Int /\ NextSectors < 0
      /\ \A m \in offset..(offset - NextSectors - 1) : ~Known(call.range_list, m)
  BY NextSectorsMeans DEF IInv, LoopInv, FileInv, SeekOver
<1>2. /\ remaining \in Nat /\ remaining > 0 /\ BUFFER_SIZE \in Nat \ {0}
      /\ offset \in Nat /\ fpos \in Nat /\ flen \in Nat /\ MaxSize \in Nat
      /\ call.offset \in Nat /\ call.size \in 0..MaxSize
      /\ offset = call.offset + fpos /\ remaining = call.size - fpos
  BY CallIsTyped DEF IInv, TypeOK, CursorsAgree, SeekOver
<1>3. Missing \in 1..remaining /\ Missing <= -NextSectors
  BY <1>1, <1>2 DEF Missing, Want, Smaller
<1>4. /\ offset' = offset + Missing /\ remaining' = remaining - Missing
      /\ fpos' = fpos + Missing
      /\ pc = "loop" /\ SkipsUnused
      /\ UNCHANGED <<call, pc, to_read, act_read, out, flen, handles, result>>
  BY DEF SeekOver, Advance
<1> HIDE DEF Missing
<1>5. LoopInv'
  <2>0. offset' \in Nat /\ remaining' \in 0..MaxSize /\ fpos' \in 0..MaxSize
    BY <1>2, <1>3, <1>4
  <2>1. TypeOK'
    BY <2>0, <1>1, <1>4 DEF LoopInv, TypeOK
  <2>2. CursorsAgree'
    BY <1>1, <1>2, <1>3, <1>4 DEF LoopInv, CursorsAgree
  <2>3. SpanFits' /\ SpanIsKnown' /\ ShortReadHasReason'
    BY <1>4 DEF SpanFits, SpanIsKnown, ShortReadHasReason
  <2> QED BY <2>1, <2>2, <2>3 DEF LoopInv
<1>6. Aligned'
  BY <1>1, <1>2, <1>3, <1>4 DEF FileInv, Aligned
<1>7. GapsAreUnreferenced'
  <2> SUFFICES ASSUME NEW p \in 0..(MaxSize - 1), p < fpos + Missing
               PROVE  out[p] = UNWRITTEN <=> ~Known(call.range_list, call.offset + p)
    BY <1>4 DEF GapsAreUnreferenced, SkipsUnused
  <2>1. CASE p < fpos
    BY <1>1, <1>4, <2>1 DEF FileInv, GapsAreUnreferenced
  <2>2. CASE p >= fpos
    <3>1. out[p] = UNWRITTEN
      BY <1>1, <2>2 DEF FileInv, Aligned
    <3>2. call.offset + p \in offset..(offset - NextSectors - 1)
      BY <1>1, <1>2, <1>3, <2>2
    <3> QED BY <1>1, <3>1, <3>2
  <2> QED BY <1>2, <2>1, <2>2
<1>8. LengthFollows'
  BY <1>1, <1>2, <1>3, <1>4 DEF FileInv, LengthFollows, SkipsUnused
<1>9. NoPaddingOnAbort' /\ DamageIsLocal'
  BY <1>1, <1>4 DEF FileInv, NoPaddingOnAbort, DamageIsLocal
<1> QED BY <1>5, <1>6, <1>7, <1>8, <1>9 DEF IInv, LoopInv

(* A full, short or failed read keeps the invariant.                        *)
LEMMA ReadPreserves ==
  ASSUME IInv, Read
  PROVE  IInv'
<1>1. LoopInv /\ FileInv
  BY DEF IInv, LoopInv, FileInv
<1>2. FileInv'
  BY <1>1, FileUntouched DEF Read
<1>3. /\ offset \in Nat /\ to_read \in 1..BUFFER_SIZE /\ BUFFER_SIZE \in Nat
      /\ remaining \in Nat /\ to_read <= remaining /\ call.flaky \subseteq Nat
  BY CallIsTyped DEF IInv, TypeOK, SpanFits, Read
<1>4. PICK n \in DVDReadBlocks(offset, to_read) :
        act_read' = n /\ pc' = IF n > 0 THEN "write" ELSE "recover"
  BY DEF Read
<1>5. \/ n = to_read
      \/ n \in 0..(to_read - 1) /\ offset + n \in call.flaky
      \/ n = -1 /\ \E b \in call.flaky : offset <= b /\ b < offset + to_read
  BY <1>4 DEF DVDReadBlocks
<1>6. n \in -1..BUFFER_SIZE /\ n <= to_read
  BY <1>3, <1>5
<1>7. UNCHANGED <<call, offset, remaining, to_read, out, fpos, flen, handles, result>> /\ pc = "read"
  BY DEF Read
<1>8. TypeOK' /\ CursorsAgree' /\ SpanIsKnown'
  BY <1>1, <1>4, <1>6, <1>7 DEF LoopInv, TypeOK, CursorsAgree, SpanIsKnown, SkipsUnused
<1>9. SpanFits'
  BY <1>3, <1>4, <1>5, <1>6, <1>7 DEF SpanFits
<1>10. ShortReadHasReason'
  BY <1>3, <1>4, <1>5, <1>6, <1>7 DEF ShortReadHasReason
<1> QED BY <1>2, <1>8, <1>9, <1>10 DEF IInv, FileInv

\* Writing the first n blocks of the buffer that was read.
LEMMA WritingSourceKeepsFile ==
  ASSUME IInv, pc = "write", NEW n \in 0..act_read, Put(n, buffer), call' = call
  PROVE  /\ FileInv'
         /\ fpos' = fpos + n /\ fpos' \in 0..MaxSize /\ fpos' <= call.size
         /\ flen' \in 0..MaxSize
         /\ out' \in [0..(MaxSize - 1) -> Nat \cup {PADDING, UNWRITTEN}]
<1>1. /\ TypeOK /\ FileInv
      /\ n \in Nat /\ n <= act_read /\ act_read \in Nat
      /\ remaining \in Nat /\ to_read \in Nat /\ offset \in Nat
      /\ act_read <= to_read /\ to_read <= remaining
      /\ fpos \in Nat /\ flen \in 0..MaxSize /\ MaxSize \in Nat
      /\ call.offset \in Nat /\ call.size \in 0..MaxSize
      /\ offset = call.offset + fpos /\ remaining = call.size - fpos
  BY CallIsTyped DEF IInv, TypeOK, CursorsAgree, SpanFits, FileInv
<1>2. /\ \A p \in 0..(MaxSize - 1) : p < fpos \/ fpos + n <= p => out'[p] = out[p]
      /\ \A p \in 0..(MaxSize - 1) : fpos <= p /\ p < fpos + n => out'[p] = call.offset + p
      /\ out' \in [0..(MaxSize - 1) -> Nat \cup {PADDING, UNWRITTEN}]
  BY SourceBlocks DEF Positions
<1>3. /\ fpos' = fpos + n
      /\ flen <= fpos => flen' <= fpos'
      /\ flen = fpos => flen' = fpos'
      /\ flen' \in {flen, fpos'}
  BY <1>1, PutMeans DEF Wrote
<1>4. fpos' \in 0..MaxSize /\ fpos' <= call.size /\ flen' \in 0..MaxSize
  BY <1>1, <1>3
\* A position is behind the old cursor, in what was written, or ahead.
<1>5. ASSUME NEW p \in 0..(MaxSize - 1)
      PROVE  \/ p < fpos /\ p < fpos' /\ out'[p] = out[p]
             \/ fpos <= p /\ p < fpos' /\ out'[p] = call.offset + p
             \/ fpos <= p /\ p >= fpos' /\ out'[p] = out[p]
  BY <1>1, <1>2, <1>3
<1>6. Aligned'
  <2> SUFFICES ASSUME NEW p \in 0..(MaxSize - 1)
               PROVE  /\ out'[p] \in Nat => out'[p] = call.offset + p
                      /\ p >= fpos' => out'[p] = UNWRITTEN
    BY DEF Aligned
  <2>1. /\ out[p] \in Nat => out[p] = call.offset + p
        /\ p >= fpos => out[p] = UNWRITTEN
    BY <1>1 DEF FileInv, Aligned
  <2> QED BY <1>1, <1>4, <1>5, <2>1
<1>7. LengthFollows'
  BY <1>1, <1>3 DEF FileInv, LengthFollows, SkipsUnused
<1>8. NoPaddingOnAbort'
  <2> SUFFICES ASSUME call.errorstrat = "ABORT", NEW p \in 0..(MaxSize - 1)
               PROVE  out'[p] # PADDING
    BY DEF NoPaddingOnAbort
  <2>1. out[p] # PADDING /\ call.offset + p # PADDING
    BY <1>1 DEF FileInv, NoPaddingOnAbort, PADDING
  <2> QED BY <1>5, <2>1
<1>9. GapsAreUnreferenced'
  <2> SUFFICES ASSUME NEW p \in 0..(MaxSize - 1), p < fpos'
               PROVE  out'[p] = UNWRITTEN
                        <=> SkipsUnused /\ ~Known(call.range_list, call.offset + p)
    BY DEF GapsAreUnreferenced, SkipsUnused
  <2>1. CASE p < fpos
    BY <1>1, <1>2, <2>1 DEF FileInv, GapsAreUnreferenced
  <2>2. CASE fpos <= p
    <3>1. out'[p] = call.offset + p /\ out'[p] # UNWRITTEN
      BY <1>1, <1>2, <1>3, <2>2 DEF UNWRITTEN
    <3>2. call.offset + p \in offset..(offset + to_read - 1)
      BY <1>1, <1>3, <2>2
    <3>3. SkipsUnused => Known(call.range_list, call.offset + p)
      BY <3>2 DEF IInv, SpanIsKnown
    <3> QED BY <3>1, <3>3
  <2> QED BY <1>1, <2>1, <2>2
<1>10. DamageIsLocal'
  <2> SUFFICES ASSUME NEW p \in 0..(MaxSize - 1), out'[p] = PADDING
               PROVE  \E b \in call.flaky : /\ b < call.offset + p + BUFFER_SIZE
                                            /\ call.offset + p < b + BUFFER_SIZE
    BY DEF DamageIsLocal
  <2>1. call.offset + p # PADDING
    BY <1>1 DEF PADDING
  <2>2. out[p] = PADDING
    BY <1>5, <2>1
  <2> QED BY <1>1, <2>2 DEF FileInv, DamageIsLocal
<1> QED BY <1>2, <1>3, <1>4, <1>6, <1>7, <1>8, <1>9, <1>10 DEF FileInv

(* Cursors that agree still agree after moving by the same amount.          *)
LEMMA CursorsMoveTogether ==
  ASSUME NEW n \in Nat, NEW first \in Nat, NEW size \in Nat, NEW pos \in Nat,
         NEW o \in Nat, NEW r \in Nat, o = first + pos, r = size - pos
  PROVE  o + n = first + (pos + n) /\ r - n = size - (pos + n)
OBVIOUS

(* Writing what was read keeps the invariant.                               *)
LEMMA WriteDataPreserves ==
  ASSUME IInv, WriteData
  PROVE  IInv'
<1>1. /\ pc = "write" /\ Put(act_read, buffer)
      /\ offset' = offset + act_read /\ remaining' = remaining - act_read
      /\ pc' = IF act_read = to_read THEN "loop" ELSE "recover"
      /\ UNCHANGED <<call, to_read, act_read, handles, result>>
  BY DEF WriteData, Advance
<1>2. /\ act_read \in 1..to_read /\ to_read \in 1..BUFFER_SIZE /\ to_read <= remaining
      /\ remaining \in 0..MaxSize /\ offset \in Nat /\ fpos \in Nat
      /\ MaxSize \in Nat /\ BUFFER_SIZE \in Nat
      /\ call.offset \in Nat /\ call.size \in 0..MaxSize
      /\ offset = call.offset + fpos /\ remaining = call.size - fpos
      /\ act_read < to_read => offset + act_read \in call.flaky
      /\ result = NONE
  BY <1>1, CallIsTyped DEF IInv, TypeOK, CursorsAgree, SpanFits, ShortReadHasReason
<1>3. act_read \in 0..act_read
  BY <1>2
<1>4. /\ FileInv'
      /\ fpos' = fpos + act_read /\ fpos' \in 0..MaxSize /\ fpos' <= call.size
      /\ flen' \in 0..MaxSize
      /\ out' \in [0..(MaxSize - 1) -> Nat \cup {PADDING, UNWRITTEN}]
  BY <1>1, <1>3, WritingSourceKeepsFile
<1>5. offset' \in Nat /\ remaining' \in 0..MaxSize
  BY <1>1, <1>2
<1>6. TypeOK'
  BY <1>1, <1>4, <1>5 DEF IInv, TypeOK
<1>7. CursorsAgree'
  <2>1. offset' = call.offset + fpos' /\ remaining' = call.size - fpos'
    <3>1. act_read \in Nat /\ call.size \in Nat /\ remaining \in Nat
      BY <1>2
    <3>2. /\ offset + act_read = call.offset + (fpos + act_read)
          /\ remaining - act_read = call.size - (fpos + act_read)
      BY <1>2, <3>1, CursorsMoveTogether
    <3> QED BY <1>1, <1>4, <3>2
  <2>2. pc' # "returned" /\ result' = NONE
    BY <1>1, <1>2
  <2> QED BY <1>1, <1>4, <2>1, <2>2 DEF CursorsAgree, NONE
<1>8. SpanFits' /\ SpanIsKnown' /\ ShortReadHasReason'
  BY <1>1, <1>2 DEF SpanFits, SpanIsKnown, ShortReadHasReason
<1> QED BY <1>4, <1>6, <1>7, <1>8 DEF IInv, FileInv

(* A failed write keeps the invariant.                                      *)
LEMMA WriteDataFailsPreserves ==
  ASSUME IInv, WriteDataFails
  PROVE  IInv'
<1>1. /\ pc = "write" /\ pc' = "returned" /\ result' = 1
      /\ UNCHANGED <<call, offset, remaining, to_read, act_read, handles>>
  BY DEF WriteDataFails, Return
<1>2. PICK n \in 0..(act_read - 1) : Put(n, buffer)
  BY DEF WriteDataFails
<1>3. n \in 0..act_read
  BY <1>1 DEF IInv, TypeOK
<1>4. /\ FileInv'
      /\ fpos' \in 0..MaxSize /\ fpos' <= call.size
      /\ flen' \in 0..MaxSize
      /\ out' \in [0..(MaxSize - 1) -> Nat \cup {PADDING, UNWRITTEN}]
  BY <1>1, <1>2, <1>3, WritingSourceKeepsFile
<1>5. TypeOK'
  BY <1>1, <1>4 DEF IInv, TypeOK
<1>6. CursorsAgree' /\ SpanFits' /\ SpanIsKnown' /\ ShortReadHasReason'
  BY <1>1, <1>4 DEF CursorsAgree, SpanFits, SpanIsKnown, ShortReadHasReason, NONE
<1> QED BY <1>4, <1>5, <1>6 DEF IInv, FileInv

(* The padding fits in what remains, and has a flaky block close by.        *)
LEMMA BlanksFit ==
  ASSUME IInv, pc = "recover", call.errorstrat # "ABORT"
  PROVE  /\ numBlanks \in 0..remaining /\ numBlanks <= BUFFER_SIZE
         /\ SkipsUnused => numBlanks = 0
         /\ \A i \in 0..(numBlanks - 1) :
              \E b \in call.flaky : b < offset + i + BUFFER_SIZE /\ offset + i < b + BUFFER_SIZE
<1>1. /\ act_read \in -1..BUFFER_SIZE /\ to_read \in 1..BUFFER_SIZE /\ BUFFER_SIZE \in Nat
      /\ remaining \in Nat /\ offset \in Nat
      /\ act_read < to_read
      /\ to_read <= remaining + (IF act_read < 0 THEN 0 ELSE act_read)
      /\ call.errorstrat \in Strategy
      /\ call.flaky \subseteq Nat
  BY CallIsTyped DEF IInv, TypeOK, SpanFits
<1>2. /\ numBlanks \in 0..remaining
      /\ numBlanks <= to_read - (IF act_read < 0 THEN 0 ELSE act_read)
      /\ SkipsUnused => numBlanks = 0
  <2>1. CASE call.errorstrat = "SKIP_BLOCK"
    <3>1. numBlanks = 1
      BY <2>1 DEF numBlanks
    <3> QED BY <1>1, <2>1, <3>1 DEF SkipsUnused
  <2>2. CASE call.errorstrat = "SKIP_MULTIBLOCK"
    <3>1. numBlanks = to_read - (IF act_read < 0 THEN 0 ELSE act_read)
      BY <2>2 DEF numBlanks
    <3> QED BY <1>1, <2>2, <3>1 DEF SkipsUnused
  <2>3. CASE call.errorstrat = "SKIP_UNUSED"
    <3>1. numBlanks = 0
      BY <2>3 DEF numBlanks
    <3> QED BY <1>1, <3>1
  <2> QED BY <1>1, <2>1, <2>2, <2>3 DEF Strategy
<1> HIDE DEF numBlanks
<1>3. numBlanks \in Nat /\ numBlanks <= BUFFER_SIZE
  BY <1>1, <1>2
<1>4. ASSUME NEW i \in 0..(numBlanks - 1)
      PROVE  \E b \in call.flaky : b < offset + i + BUFFER_SIZE /\ offset + i < b + BUFFER_SIZE
  <2>1. i \in Nat /\ i < numBlanks
    BY <1>3
  <2>2. CASE act_read < 0
    <3>1. PICK b \in call.flaky : offset <= b /\ b < offset + to_read
      BY <2>2 DEF IInv, ShortReadHasReason
    <3>2. b \in Nat /\ i < to_read
      BY <1>1, <1>2, <1>3, <2>1, <2>2
    <3>3. b < offset + i + BUFFER_SIZE /\ offset + i < b + BUFFER_SIZE
      BY <1>1, <2>1, <3>1, <3>2
    <3> QED BY <3>3
  <2>3. CASE act_read >= 0
    <3>1. offset \in call.flaky
      BY <1>1, <2>3 DEF IInv, ShortReadHasReason
    <3>2. offset < offset + i + BUFFER_SIZE /\ offset + i < offset + BUFFER_SIZE
      BY <1>1, <1>3, <2>1
    <3> QED BY <3>1, <3>2
  <2> QED BY <1>1, <2>2, <2>3
<1> QED BY <1>2, <1>3, <1>4

\* Writing n blocks of padding.
LEMMA PaddingKeepsFile ==
  ASSUME IInv, pc = "recover", call.errorstrat # "ABORT",
         NEW n \in 0..numBlanks, Put(n, buffer_zero), call' = call
  PROVE  /\ FileInv'
         /\ fpos' = fpos + n /\ fpos' \in 0..MaxSize /\ fpos' <= call.size
         /\ flen' \in 0..MaxSize
         /\ out' \in [0..(MaxSize - 1) -> Nat \cup {PADDING, UNWRITTEN}]
<1>1. /\ TypeOK /\ FileInv
      /\ n \in Nat /\ n <= numBlanks /\ numBlanks \in Nat /\ numBlanks <= remaining
      /\ n \in 0..BUFFER_SIZE /\ BUFFER_SIZE \in Nat
      /\ SkipsUnused => n = 0
      /\ remaining \in Nat /\ offset \in Nat
      /\ fpos \in Nat /\ flen \in 0..MaxSize /\ MaxSize \in Nat
      /\ call.offset \in Nat /\ call.size \in 0..MaxSize
      /\ offset = call.offset + fpos /\ remaining = call.size - fpos
  BY SMTT(40), CallIsTyped, BlanksFit DEF IInv, TypeOK, CursorsAgree, FileInv
<1>2. /\ \A p \in 0..(MaxSize - 1) : p < fpos \/ fpos + n <= p => out'[p] = out[p]
      /\ \A p \in 0..(MaxSize - 1) : fpos <= p /\ p < fpos + n => out'[p] = PADDING
      /\ out' \in [0..(MaxSize - 1) -> Nat \cup {PADDING, UNWRITTEN}]
  BY <1>1, PaddingBlocks DEF Positions
<1>3. /\ fpos' = fpos + n
      /\ flen <= fpos => flen' <= fpos'
      /\ flen = fpos => flen' = fpos'
      /\ flen' \in {flen, fpos'}
  BY <1>1, PutMeans DEF Wrote
<1>4. fpos' \in 0..MaxSize /\ fpos' <= call.size /\ flen' \in 0..MaxSize
  BY <1>1, <1>3
<1>5. ASSUME NEW p \in 0..(MaxSize - 1)
      PROVE  \/ p < fpos /\ p < fpos' /\ out'[p] = out[p]
             \/ fpos <= p /\ p < fpos' /\ out'[p] = PADDING
             \/ fpos <= p /\ p >= fpos' /\ out'[p] = out[p]
  BY <1>1, <1>2, <1>3
<1>6. Aligned'
  <2> SUFFICES ASSUME NEW p \in 0..(MaxSize - 1)
               PROVE  /\ out'[p] \in Nat => out'[p] = call.offset + p
                      /\ p >= fpos' => out'[p] = UNWRITTEN
    BY DEF Aligned
  <2>1. /\ out[p] \in Nat => out[p] = call.offset + p
        /\ p >= fpos => out[p] = UNWRITTEN
    BY <1>1 DEF FileInv, Aligned
  <2>2. PADDING \notin Nat
    BY DEF PADDING
  <2> QED BY <1>1, <1>4, <1>5, <2>1, <2>2
<1>7. LengthFollows'
  BY <1>1, <1>3 DEF FileInv, LengthFollows, SkipsUnused
<1>8. NoPaddingOnAbort'
  BY DEF NoPaddingOnAbort
<1>9. GapsAreUnreferenced'
  <2> SUFFICES ASSUME NEW p \in 0..(MaxSize - 1), p < fpos'
               PROVE  out'[p] = UNWRITTEN
                        <=> SkipsUnused /\ ~Known(call.range_list, call.offset + p)
    BY DEF GapsAreUnreferenced, SkipsUnused
  <2>1. CASE p < fpos
    BY <1>1, <1>2, <2>1 DEF FileInv, GapsAreUnreferenced
  <2>2. CASE fpos <= p
    <3>1. out'[p] = PADDING /\ n # 0
      BY <1>1, <1>2, <1>3, <2>2
    <3>2. ~SkipsUnused /\ PADDING # UNWRITTEN
      BY <1>1, <3>1 DEF PADDING, UNWRITTEN
    <3> QED BY <3>1, <3>2
  <2> QED BY <1>1, <2>1, <2>2
<1>10. DamageIsLocal'
  <2> SUFFICES ASSUME NEW p \in 0..(MaxSize - 1), out'[p] = PADDING
               PROVE  \E b \in call.flaky : /\ b < call.offset + p + BUFFER_SIZE
                                            /\ call.offset + p < b + BUFFER_SIZE
    BY DEF DamageIsLocal
  <2>1. CASE out[p] = PADDING
    BY <2>1, <1>1 DEF FileInv, DamageIsLocal
  <2>2. CASE fpos <= p /\ p < fpos'
    <3>1. p - fpos \in 0..(numBlanks - 1) /\ offset + (p - fpos) = call.offset + p
      BY <1>1, <1>3, <2>2
    <3>2. \E b \in call.flaky : /\ b < offset + (p - fpos) + BUFFER_SIZE
                                /\ offset + (p - fpos) < b + BUFFER_SIZE
      BY <3>1, BlanksFit
    <3> QED BY <3>1, <3>2
  <2> QED BY <1>5, <2>1, <2>2
<1> QED BY <1>2, <1>3, <1>4, <1>6, <1>7, <1>8, <1>9, <1>10 DEF FileInv

(* Padding keeps the invariant.                                             *)
LEMMA PadPreserves ==
  ASSUME IInv, Pad
  PROVE  IInv'
<1>1. /\ pc = "recover" /\ call.errorstrat # "ABORT" /\ Put(numBlanks, buffer_zero)
      /\ offset' = offset + numBlanks /\ remaining' = remaining - numBlanks
      /\ pc' = "loop"
      /\ UNCHANGED <<call, to_read, act_read, handles, result>>
  BY DEF Pad, Advance
<1>2. /\ numBlanks \in 0..remaining /\ numBlanks \in 0..numBlanks
      /\ remaining \in 0..MaxSize /\ offset \in Nat /\ fpos \in Nat
      /\ call.offset \in Nat /\ call.size \in 0..MaxSize /\ MaxSize \in Nat
      /\ offset = call.offset + fpos /\ remaining = call.size - fpos
      /\ result = NONE
  BY SMTT(40), <1>1, CallIsTyped, BlanksFit DEF IInv, TypeOK, CursorsAgree
<1>3. /\ FileInv'
      /\ fpos' = fpos + numBlanks /\ fpos' \in 0..MaxSize /\ fpos' <= call.size
      /\ flen' \in 0..MaxSize
      /\ out' \in [0..(MaxSize - 1) -> Nat \cup {PADDING, UNWRITTEN}]
  BY <1>1, <1>2, PaddingKeepsFile
<1>4. offset' \in Nat /\ remaining' \in 0..MaxSize
  BY <1>1, <1>2
<1>5. TypeOK'
  BY <1>1, <1>3, <1>4 DEF IInv, TypeOK
<1>6. CursorsAgree'
  <2>1. offset' = call.offset + fpos' /\ remaining' = call.size - fpos'
    <3>1. numBlanks \in Nat /\ call.size \in Nat /\ remaining \in Nat
      BY <1>2
    <3>2. /\ offset + numBlanks = call.offset + (fpos + numBlanks)
          /\ remaining - numBlanks = call.size - (fpos + numBlanks)
      BY <1>2, <3>1, CursorsMoveTogether
    <3> QED BY <1>1, <1>3, <3>2
  <2>2. pc' # "returned" /\ result' = NONE
    BY <1>1, <1>2
  <2> QED BY <1>1, <1>3, <2>1, <2>2 DEF CursorsAgree, NONE
<1>7. SpanFits' /\ SpanIsKnown' /\ ShortReadHasReason'
  BY <1>1 DEF SpanFits, SpanIsKnown, ShortReadHasReason
<1> QED BY <1>3, <1>5, <1>6, <1>7 DEF IInv, FileInv

(* A failed write of padding keeps the invariant.                           *)
LEMMA PadFailsPreserves ==
  ASSUME IInv, PadFails
  PROVE  IInv'
<1>1. /\ pc = "recover" /\ call.errorstrat # "ABORT" /\ pc' = "returned" /\ result' = 1
      /\ UNCHANGED <<call, offset, remaining, to_read, act_read, handles>>
  BY DEF PadFails, Return
<1>2. PICK n \in 0..(numBlanks - 1) : Put(n, buffer_zero)
  BY DEF PadFails
<1>3. n \in 0..numBlanks
  BY <1>1, BlanksFit
<1>4. /\ FileInv'
      /\ fpos' \in 0..MaxSize /\ fpos' <= call.size
      /\ flen' \in 0..MaxSize
      /\ out' \in [0..(MaxSize - 1) -> Nat \cup {PADDING, UNWRITTEN}]
  BY <1>1, <1>2, <1>3, PaddingKeepsFile
<1>5. TypeOK'
  BY <1>1, <1>4 DEF IInv, TypeOK
<1>6. CursorsAgree' /\ SpanFits' /\ SpanIsKnown' /\ ShortReadHasReason'
  BY <1>1, <1>4 DEF CursorsAgree, SpanFits, SpanIsKnown, ShortReadHasReason, NONE
<1> QED BY <1>4, <1>5, <1>6 DEF IInv, FileInv

\* The steps that only return.
LEMMA ReturningPreserves ==
  ASSUME IInv, SeekFails \/ Abort \/ Finish
  PROVE  IInv'
<1>1. /\ UNCHANGED <<call, offset, remaining, to_read, act_read, out, fpos, flen>>
      /\ pc' = "returned" /\ handles' \in {"closed", handles}
      /\ \/ result' = 1
         \/ result' = 0 /\ remaining <= 0 /\ pc = "loop"
  BY DEF SeekFails, Abort, Finish, Return
<1>2. FileInv'
  BY <1>1, FileUntouched DEF IInv, FileInv
<1>3. TypeOK'
  BY <1>1 DEF IInv, TypeOK
<1>4. remaining <= 0 => remaining = 0
  BY CallIsTyped DEF IInv, TypeOK
<1>5. CursorsAgree' /\ SpanFits' /\ SpanIsKnown' /\ ShortReadHasReason'
  BY <1>1, <1>4 DEF IInv, CursorsAgree, SpanFits, SpanIsKnown, ShortReadHasReason, NONE
<1> QED BY <1>2, <1>3, <1>5 DEF IInv, FileInv

(* The invariant is about the variables of the specification only.          *)
LEMMA StutteringPreserves ==
  ASSUME IInv, UNCHANGED vars
  PROVE  IInv'
<1>1. FileInv'
  BY FileUntouched DEF IInv, FileInv, vars
<1>2. LoopInv'
  BY DEF IInv, LoopInv, TypeOK, CursorsAgree, SpanFits, SpanIsKnown, ShortReadHasReason,
         SkipsUnused, vars
<1> QED BY <1>1, <1>2 DEF IInv, FileInv, LoopInv

(* Every step keeps the invariant.                                          *)
LEMMA NextPreserves ==
  ASSUME IInv, [Next]_vars
  PROVE  IInv'
<1>1. CASE ChooseSpan
  BY <1>1, ChooseSpanPreserves
<1>2. CASE SeekOver
  BY <1>2, SeekOverPreserves
<1>3. CASE Read
  BY <1>3, ReadPreserves
<1>4. CASE WriteData
  BY <1>4, WriteDataPreserves
<1>5. CASE WriteDataFails
  BY <1>5, WriteDataFailsPreserves
<1>6. CASE Pad
  BY <1>6, PadPreserves
<1>7. CASE PadFails
  BY <1>7, PadFailsPreserves
<1>8. CASE SeekFails \/ Abort \/ Finish
  BY <1>8, ReturningPreserves
<1>9. CASE Returned \/ UNCHANGED vars
  BY <1>9, StutteringPreserves DEF Returned
<1> QED BY <1>1, <1>2, <1>3, <1>4, <1>5, <1>6, <1>7, <1>8, <1>9 DEF Next

(* IInv is an invariant of every call.                                      *)
THEOREM CopyInvariant == Spec => []IInv
<1>1. Init => IInv
  BY InitEstablishes
<1>2. IInv /\ [Next]_vars => IInv'
  BY NextPreserves
<1> QED BY <1>1, <1>2, PTL DEF Spec

-----------------------------------------------------------------------------
(* What a call guarantees.                                                  *)

(* The variables keep their types.                                          *)
THEOREM CopyTypeOK == Spec => []TypeOK
<1>1. IInv => TypeOK
  BY DEF IInv
<1> QED BY <1>1, CopyInvariant, PTL

(* Every source block that reaches the file is where it belongs.            *)
THEOREM CopyIsAligned == Spec => []Aligned
<1>1. IInv => Aligned
  BY DEF IInv
<1> QED BY <1>1, CopyInvariant, PTL

(* Exactly the unreferenced blocks are gaps, and only with -r u.            *)
THEOREM CopySkipsOnlyUnreferenced == Spec => []GapsAreUnreferenced
<1>1. IInv => GapsAreUnreferenced
  BY DEF IInv
<1> QED BY <1>1, CopyInvariant, PTL

(* A padded block is less than a buffer away from one the drive may fail    *)
(* to deliver.                                                              *)
THEOREM CopyDamageIsLocal == Spec => []DamageIsLocal
<1>1. IInv => DamageIsLocal
  BY DEF IInv
<1> QED BY <1>1, CopyInvariant, PTL

(* A file is never longer than the original, and without -r u a successful  *)
(* copy is exactly as long.                                                 *)
THEOREM CopyHasSameSize == Spec => []SameSize
<1>1. IInv => SameSize
  <2> SUFFICES ASSUME IInv
               PROVE  SameSize
    OBVIOUS
  <2>1. fpos \in Nat /\ flen \in Nat /\ call.size \in Nat /\ fpos <= call.size /\ flen <= fpos
    BY CallIsTyped DEF IInv, TypeOK, CursorsAgree, LengthFollows
  <2>2. result = 0 => fpos = call.size
    BY <2>1 DEF IInv, CursorsAgree
  <2>3. ~SkipsUnused => flen = fpos
    BY DEF IInv, LengthFollows
  <2> QED BY <2>1, <2>2, <2>3 DEF SameSize
<1> QED BY <1>1, CopyInvariant, PTL

(* With -r a a successful copy is the original, block for block.            *)
THEOREM CopyAbortIsExact == Spec => []AbortIsExact
<1>1. IInv => AbortIsExact
  <2> SUFFICES ASSUME IInv, call.errorstrat = "ABORT", NEW p \in 0..(MaxSize - 1)
               PROVE  /\ out[p] # PADDING
                      /\ result = 0 /\ p < call.size => out[p] = call.offset + p
    BY DEF AbortIsExact
  <2>1. out[p] # PADDING
    BY DEF IInv, NoPaddingOnAbort
  <2>2. ASSUME result = 0, p < call.size
        PROVE  out[p] = call.offset + p
    <3>1. p < fpos
      BY <2>2, CallIsTyped DEF IInv, TypeOK, CursorsAgree
    <3>2. out[p] # UNWRITTEN
      BY <3>1 DEF IInv, GapsAreUnreferenced, SkipsUnused
    <3>3. out[p] \in Nat
      BY <2>1, <3>2 DEF IInv, TypeOK
    <3> QED BY <3>3 DEF IInv, Aligned
  <2> QED BY <2>1, <2>2
<1> QED BY <1>1, CopyInvariant, PTL

-----------------------------------------------------------------------------
(* DVDCopyBlocks implements BlockCopy.                                      *)

(* A block has a fate of BlockCopy, and is pending just beyond the cursor.  *)
LEMMA FatesAreSettled ==
  ASSUME IInv, NEW p \in 0..(MaxSize - 1)
  PROVE  /\ FateOf(p) \in Abstract!Fate
         /\ FateOf(p) = "pending" <=> p >= fpos
<1>1. out[p] \in Nat \cup {PADDING, UNWRITTEN} /\ fpos \in Nat /\ p \in Nat
  BY CallIsTyped DEF IInv, TypeOK
<1>2. out[p] \in Nat => out[p] = call.offset + p
  BY DEF IInv, Aligned
<1>3. CASE p >= fpos
  BY <1>1, <1>3 DEF FateOf, Abstract!Fate
<1>4. CASE p < fpos
  <2>1. FateOf(p) \in {"copied", "padded", "gap"}
    BY <1>1, <1>2, <1>4 DEF FateOf
  <2> QED BY <1>1, <1>4, <2>1 DEF Abstract!Fate
<1> QED BY <1>1, <1>3, <1>4

Settled ==
  /\ fateBar \in [0..(MaxSize - 1) -> Abstract!Fate]
  /\ Abstract!SettledTo(fateBar, fpos)
  /\ fpos \in 0..call.size

(* What the refinement mapping shows is settled up to the cursor.           *)
LEMMA FateBarIsSettled == IInv => Settled
<1> SUFFICES ASSUME IInv
             PROVE  Settled
  OBVIOUS
<1>1. fpos \in 0..call.size
  BY CallIsTyped DEF IInv, TypeOK, CursorsAgree
<1> QED BY <1>1, FatesAreSettled DEF Settled, fateBar, Abstract!SettledTo

(* The same after a step.                                                   *)
LEMMA FateBarIsSettledNext == IInv' => Settled'
BY FateBarIsSettled, PTL

\* What is behind the cursor stays as it is.
LEMMA BehindTheCursor ==
  ASSUME IInv, Next, NEW p \in 0..(MaxSize - 1), p < fpos
  PROVE  out'[p] = out[p] /\ fpos <= fpos' /\ call' = call
<1>1. fpos \in Nat /\ MaxSize \in Nat
  BY CallIsTyped DEF IInv, TypeOK
<1>2. CASE UNCHANGED <<call, out, fpos>>
  BY <1>1, <1>2
<1>3. CASE SeekOver
  <2>1. Missing \in Nat
    <3>1. remaining \in Nat /\ BUFFER_SIZE \in Nat
      BY CallIsTyped DEF IInv, TypeOK
    <3>2. NextSectors \in Int /\ NextSectors < 0
      BY <1>3, NextSectorsMeans DEF IInv, SeekOver
    <3> QED BY <3>1, <3>2 DEF Missing, Want, Smaller
  <2> QED BY <1>1, <1>3, <2>1 DEF SeekOver
<1>4. CASE pc = "write" /\ call' = call /\ \E n \in 0..act_read : Put(n, buffer)
  <2>1. PICK n \in 0..act_read : Put(n, buffer)
    BY <1>4
  <2>2. n \in Nat
    BY <1>4 DEF IInv, TypeOK
  <2>3. fpos' = fpos + n
    BY <2>1 DEF Put
  <2>4. out'[p] = out[p]
    BY <1>4, <2>1, SourceBlocks DEF Positions
  <2> QED BY <1>1, <1>4, <2>2, <2>3, <2>4
<1>5. CASE /\ pc = "recover" /\ call.errorstrat # "ABORT" /\ call' = call
           /\ \E n \in 0..numBlanks : Put(n, buffer_zero)
  <2>1. PICK n \in 0..numBlanks : Put(n, buffer_zero)
    BY <1>5
  <2>2. numBlanks \in Nat /\ numBlanks <= BUFFER_SIZE /\ BUFFER_SIZE \in Nat
    BY <1>5, BlanksFit, CallIsTyped DEF IInv
  <2> HIDE DEF numBlanks
  <2>3. n \in Nat /\ n \in 0..BUFFER_SIZE
    BY <2>2
  <2>4. fpos' = fpos + n
    BY <2>1 DEF Put
  <2>5. out'[p] = out[p]
    BY <2>1, <2>3, PaddingBlocks DEF Positions, IInv
  <2> QED BY <1>1, <1>5, <2>3, <2>4, <2>5
<1>6. WriteData \/ WriteDataFails =>
        pc = "write" /\ call' = call /\ \E n \in 0..act_read : Put(n, buffer)
  BY DEF WriteData, WriteDataFails, IInv, TypeOK, SpanFits
<1>7. Pad \/ PadFails =>
        /\ pc = "recover" /\ call.errorstrat # "ABORT" /\ call' = call
        /\ \E n \in 0..numBlanks : Put(n, buffer_zero)
  BY BlanksFit DEF Pad, PadFails
<1>8. ChooseSpan \/ SeekFails \/ Read \/ Abort \/ Finish \/ Returned =>
        UNCHANGED <<call, out, fpos>>
  BY DEF ChooseSpan, SeekFails, Read, Abort, Finish, Returned, vars
<1> QED BY <1>2, <1>3, <1>4, <1>5, <1>6, <1>7, <1>8 DEF Next

(* A step settles some blocks at the cursor and revises none.               *)
LEMMA StepSettles ==
  ASSUME IInv, IInv', Next
  PROVE  /\ call' = call
         /\ fateBar' \in [0..(MaxSize - 1) -> Abstract!Fate]
         /\ \E p, q \in 0..call.size :
              /\ p <= q
              /\ Abstract!SettledTo(fateBar, p) /\ Abstract!SettledTo(fateBar', q)
              /\ \A r \in 0..(p - 1) : fateBar'[r] = fateBar[r]
<1>1. call' = call /\ fpos <= fpos'
  <2>1. \A n \in Nat : Put(n, buffer) \/ Put(n, buffer_zero) => fpos <= fpos'
    BY CallIsTyped DEF IInv, TypeOK, Put
  <2>2. WriteData \/ WriteDataFails => fpos <= fpos'
    BY <2>1 DEF WriteData, WriteDataFails, IInv, TypeOK, SpanFits
  <2>3. Pad \/ PadFails => fpos <= fpos'
    BY <2>1, BlanksFit DEF Pad, PadFails
  <2>4. SeekOver => fpos <= fpos'
    <3>1. SeekOver => /\ remaining \in Nat /\ BUFFER_SIZE \in Nat /\ fpos \in Nat
                      /\ NextSectors \in Int /\ NextSectors < 0
      BY NextSectorsMeans, CallIsTyped DEF SeekOver, IInv, TypeOK
    <3> QED BY <3>1 DEF SeekOver, Missing, Want, Smaller
  <2>5. ChooseSpan \/ SeekFails \/ Read \/ Abort \/ Finish \/ Returned => fpos <= fpos'
    BY CallIsTyped DEF ChooseSpan, SeekFails, Read, Abort, Finish, Returned, vars, IInv, TypeOK
  <2>6. call' = call
    BY DEF Next, ChooseSpan, SeekOver, SeekFails, Read, WriteData, WriteDataFails, Abort,
           Pad, PadFails, Finish, Returned, vars
  <2> QED BY <2>2, <2>3, <2>4, <2>5, <2>6 DEF Next
<1>2. Abstract!SettledTo(fateBar, fpos) /\ fpos \in 0..call.size
  BY FateBarIsSettled DEF Settled
<1>3. /\ fateBar' \in [0..(MaxSize - 1) -> Abstract!Fate]
      /\ Abstract!SettledTo(fateBar', fpos')
      /\ fpos' \in 0..call.size
  BY <1>1, FateBarIsSettledNext DEF Settled
<1>4. ASSUME NEW r \in 0..(fpos - 1)
      PROVE  fateBar'[r] = fateBar[r]
  <2>1. r \in 0..(MaxSize - 1) /\ r < fpos /\ r < fpos'
    BY <1>1, <1>2, <1>3, CallIsTyped DEF IInv
  <2>2. ~(r >= fpos) /\ ~(r >= fpos')
    BY <1>2, <1>3, <2>1, CallIsTyped DEF IInv
  <2>3. out'[r] = out[r]
    BY <2>1, BehindTheCursor
  <2>4. FateOf(r)' = FateOf(r)
    BY <1>1, <2>2, <2>3 DEF FateOf
  <2>5. fateBar[r] = FateOf(r) /\ fateBar'[r] = FateOf(r)'
    BY <2>1 DEF fateBar
  <2> QED BY <2>4, <2>5
<1> QED BY <1>1, <1>2, <1>3, <1>4

(* The initial state of a call is one of BlockCopy, and every step of it is *)
(* a step of BlockCopy or leaves the promise untouched.                     *)
THEOREM CopyImplementsBlockCopy == Spec => ImplementsBlockCopy
<1>1. Init => Abstract!Init
  <2> SUFFICES ASSUME Init
               PROVE  Abstract!Init
    OBVIOUS
  <2>1. call.size \in 0..MaxSize /\ result = NONE /\ fpos = 0
    BY CopyAssumption DEF Init, IsCall
  <2>2. fateBar = [p \in 0..(MaxSize - 1) |-> "pending"]
    BY <2>1 DEF fateBar, FateOf
  <2>3. statusBar = "copying"
    BY <2>1 DEF statusBar, NONE
  <2> QED BY <2>1, <2>2, <2>3 DEF Abstract!Init
<1>2. IInv /\ IInv' /\ [Next]_vars => [Abstract!Next]_(Abstract!vars)
  <2> SUFFICES ASSUME IInv, IInv', [Next]_vars
               PROVE  Abstract!Next \/ UNCHANGED Abstract!vars
    OBVIOUS
  <2>1. CASE UNCHANGED <<call, out, fpos, result>>
    BY <2>1 DEF Abstract!vars, fateBar, FateOf, statusBar
  <2>2. CASE SeekOver \/ WriteData \/ Pad
    <3>1. Next /\ result = NONE /\ result' = NONE
      BY <2>2 DEF Next, SeekOver, WriteData, Pad, IInv, CursorsAgree
    <3>2. statusBar = "copying" /\ statusBar' = "copying"
      BY <3>1 DEF statusBar, NONE
    <3> QED BY <3>1, <3>2, StepSettles DEF Abstract!Next, Abstract!Continue, Abstract!Settle
  <2>3. CASE WriteDataFails \/ PadFails \/ SeekFails \/ Abort
    <3>1. Next /\ result = NONE /\ result' = 1
      BY <2>3 DEF Next, WriteDataFails, PadFails, SeekFails, Abort, Return, IInv, CursorsAgree
    <3>2. statusBar = "copying" /\ statusBar' = "failed"
      BY <3>1 DEF statusBar, NONE
    <3> QED BY <3>1, <3>2, StepSettles DEF Abstract!Next, Abstract!Fail, Abstract!Settle
  <2>4. CASE Finish
    <3>1. result = NONE /\ result' = 0 /\ UNCHANGED <<call, out, fpos>>
      BY <2>4 DEF Finish, Return, IInv, CursorsAgree
    <3>2. fpos = call.size
      BY <2>4, CallIsTyped DEF Finish, IInv, TypeOK, CursorsAgree
    <3>3. Abstract!SettledTo(fateBar, call.size) /\ fateBar \in [0..(MaxSize - 1) -> Abstract!Fate]
      BY <3>2, FateBarIsSettled DEF Settled
    <3>4. fateBar' = fateBar
      BY <3>1 DEF fateBar, FateOf
    <3>5. statusBar = "copying" /\ statusBar' = "succeeded"
      BY <3>1 DEF statusBar, NONE
    <3> QED BY <3>1, <3>3, <3>4, <3>5 DEF Abstract!Next, Abstract!Succeed
  <2>5. ChooseSpan \/ Read \/ Returned \/ UNCHANGED vars => UNCHANGED <<call, out, fpos, result>>
    BY DEF ChooseSpan, Read, Returned, vars
  <2> QED BY <2>1, <2>2, <2>3, <2>4, <2>5 DEF Next
<1> QED BY <1>1, <1>2, CopyInvariant, PTL DEF Spec, Abstract!Spec, ImplementsBlockCopy
=============================================================================
